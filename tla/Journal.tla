------------------------------ MODULE Journal ------------------------------
(* What a rollout file promises: items are numbered as they are recorded    *)
(* and a line, once readable, stays where it is; new lines come after it,   *)
(* in the order of recording.                                               *)
EXTENDS Integers, Sequences

VARIABLES recorded,  \* the items recorded so far are 1..recorded
          log        \* the readable lines; 0 is the session's metadata

Init == recorded = 0 /\ log = <<>>

Record == recorded' > recorded /\ UNCHANGED log

Write ==
  \E x \in 0 .. recorded :
    /\ \A n \in DOMAIN log : log[n] < x
    /\ log' = Append(log, x)
    /\ UNCHANGED recorded

Spec == Init /\ [][Record \/ Write]_<<recorded, log>>
=============================================================================
