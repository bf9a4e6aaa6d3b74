----------------------------- MODULE MCRollout -----------------------------
(* An instance of Rollout for TLC: two tasks of a session and a channel of  *)
(* two commands.                                                            *)
EXTENDS Rollout

CONSTANTS c1, c2

MCCallers == {c1, c2}
=============================================================================
