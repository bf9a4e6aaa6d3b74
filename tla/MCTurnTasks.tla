---------------------------- MODULE MCTurnTasks ----------------------------
(* An instance of TurnTasks for TLC: two turns, and two tool calls of the  *)
(* first that ask for approval under one key.                               *)
EXTENDS TurnTasks, TLC

CONSTANTS i1, r1, r2, k1

MCTurns == 1 .. 2
MCInputs == {i1}
MCRequests == {r1, r2}
MCAsker == (r1 :> 1) @@ (r2 :> 1)
MCSharedKey == (r1 :> k1) @@ (r2 :> k1)
=============================================================================
