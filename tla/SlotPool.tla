------------------------------ MODULE SlotPool ------------------------------
(***************************************************************************)
(* What Guards promises about the slots of sub-agents: a slot is taken     *)
(* only while one is free and given back only while one is taken.          *)
(***************************************************************************)
EXTENDS Naturals

CONSTANT Capacity

VARIABLE taken

PoolInit == taken = 0

TakeSlot == taken < Capacity /\ taken' = taken + 1

GiveSlot == taken > 0 /\ taken' = taken - 1

PoolNext == TakeSlot \/ GiveSlot

PoolSpec == PoolInit /\ [][PoolNext]_taken
=============================================================================
