--------------------------- MODULE MCAgentGuards ---------------------------
(* An instance of AgentGuards for TLC: two tool calls at a time, two agents *)
(* and a slot and a name for each.                                          *)
EXTENDS AgentGuards, TLC

CONSTANTS a1, a2, t1, t2, n1, n2

MCTwoActors == {a1, a2}
MCAgents == {t1, t2}
MCNames == {n1, n2}
MCSymmetry == Permutations(MCTwoActors) \cup Permutations(MCAgents) \cup Permutations(MCNames)
=============================================================================
