------------------------------- MODULE Latch -------------------------------
(***************************************************************************)
(* The latch that utils/readiness implements.  While it is closed anyone    *)
(* may be granted the right to open it; it is opened by one holder of such  *)
(* a right, or by itself while nobody holds one; nobody passes while it is  *)
(* closed and nobody is granted a right once it is open.  That it opens by  *)
(* itself is what is_ready does and what its tests expect; the doc comment  *)
(* of the trait, that a token needs to be marked first, leaves it out.      *)
(***************************************************************************)
CONSTANTS Subscribers, Waiters

VARIABLES open,     \* has the latch opened?
          holders,  \* the subscribers that may open it
          openers,  \* the subscribers that were told that they opened it
          passed    \* the waiters that were let through

latchVars == <<open, holders, openers, passed>>

LatchInit ==
  /\ open = FALSE
  /\ holders = {} /\ openers = {} /\ passed = {}

Grant(s) ==
  /\ ~ open
  /\ holders' = holders \cup {s}
  /\ UNCHANGED <<open, openers, passed>>

Open(s) ==
  /\ ~ open /\ s \in holders
  /\ open' = TRUE
  /\ holders' = {}
  /\ openers' = {s}
  /\ UNCHANGED passed

(* No right to open it was granted, or is_ready would not open it.          *)
OpenUnclaimed ==
  /\ ~ open /\ holders = {}
  /\ open' = TRUE
  /\ UNCHANGED <<holders, openers, passed>>

Pass(w) ==
  /\ open
  /\ passed' = passed \cup {w}
  /\ UNCHANGED <<open, holders, openers>>

LatchNext ==
  \/ \E s \in Subscribers : Grant(s) \/ Open(s)
  \/ OpenUnclaimed
  \/ \E w \in Waiters : Pass(w)

LatchSpec == LatchInit /\ [][LatchNext]_latchVars
=============================================================================
