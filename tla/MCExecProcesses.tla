-------------------------- MODULE MCExecProcesses --------------------------
(* Instances of ExecProcesses for TLC: one call more than the store holds.  *)
EXTENDS ExecProcesses

CONSTANTS c1, c2

MCTwoCalls == {c1, c2}
MCIds == 1..2
=============================================================================
