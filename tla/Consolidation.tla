--------------------------- MODULE Consolidation ---------------------------
(***************************************************************************)
(* What the memory job store promises, however many processes run the      *)
(* pipeline, stall or die: it is as if one consolidator worked.  It reads  *)
(* what is selected while there is work, may give up, and else records     *)
(* what it has read; only a selection that is still current ends the work. *)
(***************************************************************************)
VARIABLES current,  \* the selection of stored outputs
          dirty,    \* is there work?
          record,   \* the selection that was consolidated last
          view      \* {}, or {v}: the selection that has been read is v

consolidationVars == <<current, dirty, record, view>>

ConsolidationInit == current = {} /\ dirty = FALSE /\ record = {} /\ view = {}

Change == dirty' = TRUE /\ UNCHANGED <<record, view>>

ReadSelection ==
  /\ dirty /\ view = {}
  /\ view' = {current}
  /\ UNCHANGED <<current, dirty, record>>

GiveUp == view' = {} /\ UNCHANGED <<current, dirty, record>>

Finish ==
  \E v \in view :
    /\ record' = v
    /\ dirty' \in {TRUE, v # current}
    /\ view' = {}
    /\ UNCHANGED current

Clear == current' = {} /\ dirty' = FALSE /\ record' = {} /\ view' = {}

ConsolidationNext == Change \/ ReadSelection \/ GiveUp \/ Finish \/ Clear

ConsolidationSpec == ConsolidationInit /\ [][ConsolidationNext]_consolidationVars
=============================================================================
