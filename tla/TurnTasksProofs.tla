------------------------- MODULE TurnTasksProofs -------------------------
(***************************************************************************)
(* For any number of turns, inputs and requests: whoever takes a turn out  *)
(* of active_turn, its task or the session loop, is the only one to do so, *)
(* and that settles both what runs and who owns the pending input.         *)
(***************************************************************************)
EXTENDS TurnTasks, TLAPS

Working(t) == pc[t] \in {"start", "loop", "record", "sample", "flush", "check", "finish"}

(* The loop has the turn of its current step out of active_turn.            *)
Held(t) == loop.turn = t /\ loop.at \in {"cancel", "await", "register"}

LoopShape ==
  /\ loop.at \in {"cancel", "await", "emit", "spawn", "register", "stopped"} => active = None
  /\ loop.at \in {"cancel", "await", "emit", "register"} =>
       loop.turn \in Turns /\ pc[loop.turn] # "none"
  /\ active # None => pc[active] # "none"

(* The loop cancels a turn it took, and never meets it again.               *)
CancelShape ==
  /\ active \notin cancelled
  /\ loop.at \in {"cancel", "register"} => loop.turn \notin cancelled
  /\ loop.at = "await" => loop.turn \in cancelled
  /\ \A t \in Turns : pc[t] = "none" => t \notin cancelled
  /\ \A t \in killed : t \in cancelled \/ (active # t /\ ~ Held(t) /\ pc[t] # "none")

RunningHeld == \A t \in Turns : Working(t) /\ t \notin killed => active = t \/ Held(t)

IInv == TypeOK /\ LoopShape /\ CancelShape /\ RunningHeld /\ InputAccounted

(* The invariant holds initially.                                           *)
LEMMA InitIInv == Init => IInv
  <1> SUFFICES ASSUME Init PROVE IInv
    OBVIOUS
  <1> USE TurnsAssumption DEF Init
  <1>1. TypeOK
    BY DEF TypeOK, NoApproval, Keys, TaskLabels, LoopLabels
  <1>2. LoopShape /\ CancelShape
    BY DEF LoopShape, CancelShape, Held
  <1>3. RunningHeld
    BY DEF RunningHeld, Working, Held
  <1>4. InputAccounted
    BY DEF InputAccounted, Taken
  <1> QED BY <1>1, <1>2, <1>3, <1>4 DEF IInv

(* Each step, part by part.                                                 *)
LEMMA TypeStep == TypeOK /\ LoopShape /\ [Next]_vars => TypeOK'
  <1> SUFFICES ASSUME TypeOK, LoopShape, [Next]_vars PROVE TypeOK'
    OBVIOUS
  <1> USE TurnsAssumption DEF Keys, TaskLabels, LoopLabels, turnVars, taskVars, abortVars, inputVars
  <1>1. ASSUME NEW i \in Inputs, UserInput(i) PROVE TypeOK'
    BY <1>1 DEF TypeOK, UserInput, Push, Abort
  <1>2. ASSUME ReplaceTask PROVE TypeOK'
    BY <1>2 DEF TypeOK, ReplaceTask, Abort
  <1>3. ASSUME Interrupt PROVE TypeOK'
    BY <1>3 DEF TypeOK, Interrupt, Abort
  <1>4. ASSUME Shutdown PROVE TypeOK'
    BY <1>4 DEF TypeOK, Shutdown, Abort
  <1>5. ASSUME NEW k \in Keys, NEW d \in {"approved", "denied"}, Answer(k, d) PROVE TypeOK'
    BY <1>5 DEF TypeOK, Answer
  <1>6. ASSUME Take PROVE TypeOK'
    <2>1. loop' \in [at : LoopLabels, turn : Turns \cup {None},
                    why : {"replaced", "interrupted", "shutdown"}]
      BY <1>6 DEF TypeOK, Take, AfterAbort
    <2>2. /\ active' = None
          /\ pending' \in [Keys -> Requests \cup {None}]
          /\ {queue', accepted', recorded', discarded'} \subseteq SUBSET Inputs
      BY <1>6 DEF TypeOK, Take, NoApproval
    <2> QED BY <1>6, <2>1, <2>2 DEF TypeOK, Take
  <1>7. ASSUME Cancel PROVE TypeOK'
    BY <1>7 DEF TypeOK, Cancel, LoopGoto, AfterAbort, LoopShape
  <1>8. ASSUME Kill PROVE TypeOK'
    BY <1>8 DEF TypeOK, Kill, LoopGoto, LoopShape
  <1>9. ASSUME EmitAborted PROVE TypeOK'
    BY <1>9 DEF TypeOK, EmitAborted, LoopGoto, AfterAbort, Reason
  <1>10. ASSUME NEW t \in Turns, SpawnTask(t) PROVE TypeOK'
    BY <1>10 DEF TypeOK, SpawnTask, Goto
  <1>11. ASSUME RegisterTask PROVE TypeOK'
    BY <1>11 DEF TypeOK, RegisterTask, LoopGoto, NoApproval
  <1>12. ASSUME NEW t \in Turns, Start(t) PROVE TypeOK'
    BY <1>12 DEF TypeOK, Start, Goto
  <1>13. ASSUME NEW t \in Turns, TakeInput(t) PROVE TypeOK'
    BY <1>13 DEF TypeOK, TakeInput, Goto
  <1>26. ASSUME NEW t \in Turns, RecordInput(t) PROVE TypeOK'
    BY <1>26 DEF TypeOK, RecordInput, Goto
  <1>14. ASSUME NEW t \in Turns, SampleEnds(t) PROVE TypeOK'
    BY <1>14 DEF TypeOK, SampleEnds, Goto
  <1>15. ASSUME NEW t \in Turns, Flushed(t) PROVE TypeOK'
    BY <1>15 DEF TypeOK, Flushed, Goto
  <1>16. ASSUME NEW t \in Turns, CheckCancelled(t) PROVE TypeOK'
    BY <1>16 DEF TypeOK, CheckCancelled, Goto
  <1>17. ASSUME NEW t \in Turns, Finish(t) PROVE TypeOK'
    BY <1>17 DEF TypeOK, Finish, Goto, NoApproval
  <1>18. ASSUME NEW t \in Turns, RecordLeftover(t) PROVE TypeOK'
    BY <1>18 DEF TypeOK, RecordLeftover, Goto
  <1>25. ASSUME NEW t \in Turns, Complete(t) PROVE TypeOK'
    BY <1>25 DEF TypeOK, Complete, Goto
  <1>19. ASSUME NEW t \in Turns, Die(t) PROVE TypeOK'
    BY <1>19 DEF TypeOK, Die, Goto
  <1>20. ASSUME NEW r \in Requests, Ask(r) PROVE TypeOK'
    BY <1>20 DEF TypeOK, Ask
  <1>21. ASSUME NEW r \in Requests, DeniedByDefault(r) PROVE TypeOK'
    BY <1>21 DEF TypeOK, DeniedByDefault
  <1>22. ASSUME NEW r \in Requests, CallCancelled(r) PROVE TypeOK'
    BY <1>22 DEF TypeOK, CallCancelled
  <1>23. ASSUME NEW i \in Inputs, Steer(i) PROVE TypeOK'
    BY <1>23 DEF TypeOK, Steer, Push
  <1>24. CASE UNCHANGED vars
    BY <1>24 DEF vars, TypeOK
  <1> QED
    BY <1>1, <1>2, <1>3, <1>4, <1>5, <1>6, <1>7, <1>8, <1>9, <1>10, <1>11,
       <1>12, <1>13, <1>14, <1>15, <1>16, <1>17, <1>18, <1>19, <1>20, <1>21,
       <1>22, <1>23, <1>24, <1>25, <1>26
    DEF Next, Submission, LoopStep, TaskStep, CallStep

(* Every step keeps the other conjuncts.                                    *)
LEMMA ShapeStep ==
  IInv /\ [Next]_vars
    => LoopShape' /\ CancelShape' /\ RunningHeld' /\ InputAccounted'
  <1> SUFFICES ASSUME IInv, [Next]_vars
               PROVE LoopShape' /\ CancelShape' /\ RunningHeld' /\ InputAccounted'
    OBVIOUS
  <1> USE TurnsAssumption DEF IInv, TypeOK, TaskLabels, LoopLabels, turnVars, taskVars, abortVars, inputVars
  <1> DEFINE Goal == LoopShape /\ CancelShape /\ RunningHeld /\ InputAccounted
  <1>1. ASSUME NEW i \in Inputs, UserInput(i) PROVE Goal'
    <2>1. LoopShape'
      BY <1>1 DEF UserInput, Push, Abort, LoopShape
    <2>2. CancelShape'
      BY <1>1 DEF UserInput, Push, Abort, CancelShape, LoopShape, Held
    <2>3. RunningHeld'
      BY <1>1 DEF UserInput, Push, Abort, RunningHeld, Working, Held, LoopShape, CancelShape
    <2>4. InputAccounted'
      BY <1>1 DEF UserInput, Push, Abort, InputAccounted, Taken, LoopShape
    <2> QED BY <2>1, <2>2, <2>3, <2>4
  <1>2. ASSUME ReplaceTask PROVE Goal'
    <2>1. LoopShape'
      BY <1>2 DEF ReplaceTask, Abort, LoopShape
    <2>2. CancelShape'
      BY <1>2 DEF ReplaceTask, Abort, CancelShape, LoopShape, Held
    <2>3. RunningHeld'
      BY <1>2 DEF ReplaceTask, Abort, RunningHeld, Working, Held, LoopShape, CancelShape
    <2>4. InputAccounted'
      BY <1>2 DEF ReplaceTask, Abort, InputAccounted, Taken, LoopShape
    <2> QED BY <2>1, <2>2, <2>3, <2>4
  <1>3. ASSUME Interrupt PROVE Goal'
    <2>1. LoopShape'
      BY <1>3 DEF Interrupt, Abort, LoopShape
    <2>2. CancelShape'
      BY <1>3 DEF Interrupt, Abort, CancelShape, LoopShape, Held
    <2>3. RunningHeld'
      BY <1>3 DEF Interrupt, Abort, RunningHeld, Working, Held, LoopShape, CancelShape
    <2>4. InputAccounted'
      BY <1>3 DEF Interrupt, Abort, InputAccounted, Taken, LoopShape
    <2> QED BY <2>1, <2>2, <2>3, <2>4
  <1>4. ASSUME Shutdown PROVE Goal'
    <2>1. LoopShape'
      BY <1>4 DEF Shutdown, Abort, LoopShape
    <2>2. CancelShape'
      BY <1>4 DEF Shutdown, Abort, CancelShape, LoopShape, Held
    <2>3. RunningHeld'
      BY <1>4 DEF Shutdown, Abort, RunningHeld, Working, Held, LoopShape, CancelShape
    <2>4. InputAccounted'
      BY <1>4 DEF Shutdown, Abort, InputAccounted, Taken, LoopShape
    <2> QED BY <2>1, <2>2, <2>3, <2>4
  <1>5. ASSUME NEW k \in Keys, NEW d \in {"approved", "denied"}, Answer(k, d) PROVE Goal'
    <2>1. LoopShape'
      BY <1>5 DEF Answer, LoopShape
    <2>2. CancelShape'
      BY <1>5 DEF Answer, CancelShape, LoopShape, Held
    <2>3. RunningHeld'
      BY <1>5 DEF Answer, RunningHeld, Working, Held, LoopShape, CancelShape
    <2>4. InputAccounted'
      BY <1>5 DEF Answer, InputAccounted, Taken, LoopShape
    <2> QED BY <2>1, <2>2, <2>3, <2>4
  <1>6. ASSUME Take PROVE Goal'
    <2>1. LoopShape'
      BY <1>6 DEF Take, AfterAbort, NoApproval, LoopShape
    <2>2. CancelShape'
      BY <1>6 DEF Take, AfterAbort, NoApproval, CancelShape, LoopShape, Held
    <2>3. RunningHeld'
      BY <1>6 DEF Take, AfterAbort, NoApproval, RunningHeld, Working, Held, LoopShape, CancelShape
    <2>4. InputAccounted'
      BY <1>6 DEF Take, AfterAbort, NoApproval, InputAccounted, Taken, LoopShape
    <2> QED BY <2>1, <2>2, <2>3, <2>4
  <1>7. ASSUME Cancel PROVE Goal'
    <2>1. LoopShape'
      BY <1>7 DEF Cancel, LoopGoto, AfterAbort, LoopShape
    <2>2. CancelShape'
      BY <1>7 DEF Cancel, LoopGoto, AfterAbort, CancelShape, LoopShape, Held
    <2>3. RunningHeld'
      BY <1>7 DEF Cancel, LoopGoto, AfterAbort, RunningHeld, Working, Held, LoopShape, CancelShape
    <2>4. InputAccounted'
      BY <1>7 DEF Cancel, LoopGoto, AfterAbort, InputAccounted, Taken, LoopShape
    <2> QED BY <2>1, <2>2, <2>3, <2>4
  <1>8. ASSUME Kill PROVE Goal'
    <2>1. LoopShape'
      BY <1>8 DEF Kill, LoopGoto, LoopShape
    <2>2. CancelShape'
      BY <1>8 DEF Kill, LoopGoto, CancelShape, LoopShape, Held
    <2>3. RunningHeld'
      BY <1>8 DEF Kill, LoopGoto, RunningHeld, Working, Held, LoopShape, CancelShape
    <2>4. InputAccounted'
      BY <1>8 DEF Kill, LoopGoto, InputAccounted, Taken, LoopShape
    <2> QED BY <2>1, <2>2, <2>3, <2>4
  <1>9. ASSUME EmitAborted PROVE Goal'
    <2>1. LoopShape'
      BY <1>9 DEF EmitAborted, LoopGoto, AfterAbort, Reason, LoopShape
    <2>2. CancelShape'
      BY <1>9 DEF EmitAborted, LoopGoto, AfterAbort, Reason, CancelShape, LoopShape, Held
    <2>3. RunningHeld'
      BY <1>9 DEF EmitAborted, LoopGoto, AfterAbort, Reason, RunningHeld, Working, Held, LoopShape, CancelShape
    <2>4. InputAccounted'
      BY <1>9 DEF EmitAborted, LoopGoto, AfterAbort, Reason, InputAccounted, Taken, LoopShape
    <2> QED BY <2>1, <2>2, <2>3, <2>4
  <1>10. ASSUME NEW t \in Turns, SpawnTask(t) PROVE Goal'
    <2>1. LoopShape'
      BY <1>10 DEF SpawnTask, Goto, LoopShape
    <2>2. CancelShape'
      BY <1>10 DEF SpawnTask, Goto, CancelShape, LoopShape, Held
    <2>3. RunningHeld'
      BY <1>10 DEF SpawnTask, Goto, RunningHeld, Working, Held, LoopShape, CancelShape
    <2>4. InputAccounted'
      BY <1>10 DEF SpawnTask, Goto, InputAccounted, Taken, LoopShape
    <2> QED BY <2>1, <2>2, <2>3, <2>4
  <1>11. ASSUME RegisterTask PROVE Goal'
    <2>1. LoopShape'
      BY <1>11 DEF RegisterTask, LoopGoto, NoApproval, LoopShape
    <2>2. CancelShape'
      BY <1>11 DEF RegisterTask, LoopGoto, NoApproval, CancelShape, LoopShape, Held
    <2>3. RunningHeld'
      BY <1>11 DEF RegisterTask, LoopGoto, NoApproval, RunningHeld, Working, Held, LoopShape, CancelShape
    <2>4. InputAccounted'
      BY <1>11 DEF RegisterTask, LoopGoto, NoApproval, InputAccounted, Taken, LoopShape
    <2> QED BY <2>1, <2>2, <2>3, <2>4
  <1>12. ASSUME NEW t \in Turns, Start(t) PROVE Goal'
    <2>1. LoopShape'
      BY <1>12 DEF Start, Goto, LoopShape
    <2>2. CancelShape'
      BY <1>12 DEF Start, Goto, CancelShape, LoopShape, Held
    <2>3. RunningHeld'
      BY <1>12 DEF Start, Goto, RunningHeld, Working, Held, LoopShape, CancelShape
    <2>4. InputAccounted'
      BY <1>12 DEF Start, Goto, InputAccounted, Taken, LoopShape
    <2> QED BY <2>1, <2>2, <2>3, <2>4
  <1>13. ASSUME NEW t \in Turns, TakeInput(t) PROVE Goal'
    <2>1. LoopShape'
      BY <1>13 DEF TakeInput, Goto, LoopShape
    <2>2. CancelShape'
      BY <1>13 DEF TakeInput, Goto, CancelShape, LoopShape, Held
    <2>3. RunningHeld'
      BY <1>13 DEF TakeInput, Goto, RunningHeld, Working, Held, LoopShape, CancelShape
    <2>4. InputAccounted'
      BY <1>13 DEF TakeInput, Goto, InputAccounted, Taken, LoopShape
    <2> QED BY <2>1, <2>2, <2>3, <2>4
  <1>26. ASSUME NEW t \in Turns, RecordInput(t) PROVE Goal'
    <2>1. LoopShape'
      BY <1>26 DEF RecordInput, Goto, LoopShape
    <2>2. CancelShape'
      BY <1>26 DEF RecordInput, Goto, CancelShape, LoopShape, Held
    <2>3. RunningHeld'
      BY <1>26 DEF RecordInput, Goto, RunningHeld, Working, Held, LoopShape, CancelShape
    <2>4. InputAccounted'
      BY <1>26 DEF RecordInput, Goto, InputAccounted, Taken, LoopShape
    <2> QED BY <2>1, <2>2, <2>3, <2>4
  <1>14. ASSUME NEW t \in Turns, SampleEnds(t) PROVE Goal'
    <2>1. LoopShape'
      BY <1>14 DEF SampleEnds, Goto, LoopShape
    <2>2. CancelShape'
      BY <1>14 DEF SampleEnds, Goto, CancelShape, LoopShape, Held
    <2>3. RunningHeld'
      BY <1>14 DEF SampleEnds, Goto, RunningHeld, Working, Held, LoopShape, CancelShape
    <2>4. InputAccounted'
      BY <1>14 DEF SampleEnds, Goto, InputAccounted, Taken, LoopShape
    <2> QED BY <2>1, <2>2, <2>3, <2>4
  <1>15. ASSUME NEW t \in Turns, Flushed(t) PROVE Goal'
    <2>1. LoopShape'
      BY <1>15 DEF Flushed, Goto, LoopShape
    <2>2. CancelShape'
      BY <1>15 DEF Flushed, Goto, CancelShape, LoopShape, Held
    <2>3. RunningHeld'
      BY <1>15 DEF Flushed, Goto, RunningHeld, Working, Held, LoopShape, CancelShape
    <2>4. InputAccounted'
      BY <1>15 DEF Flushed, Goto, InputAccounted, Taken, LoopShape
    <2> QED BY <2>1, <2>2, <2>3, <2>4
  <1>16. ASSUME NEW t \in Turns, CheckCancelled(t) PROVE Goal'
    <2>1. LoopShape'
      BY <1>16 DEF CheckCancelled, Goto, LoopShape
    <2>2. CancelShape'
      BY <1>16 DEF CheckCancelled, Goto, CancelShape, LoopShape, Held
    <2>3. RunningHeld'
      BY <1>16 DEF CheckCancelled, Goto, RunningHeld, Working, Held, LoopShape, CancelShape
    <2>4. InputAccounted'
      BY <1>16 DEF CheckCancelled, Goto, InputAccounted, Taken, LoopShape
    <2> QED BY <2>1, <2>2, <2>3, <2>4
  <1>17. ASSUME NEW t \in Turns, Finish(t) PROVE Goal'
    <2>1. LoopShape'
      BY <1>17 DEF Finish, Goto, NoApproval, LoopShape
    <2>2. CancelShape'
      BY <1>17 DEF Finish, Goto, NoApproval, CancelShape, LoopShape, Held
    <2>3. RunningHeld'
      BY <1>17 DEF Finish, Goto, NoApproval, RunningHeld, Working, Held, LoopShape, CancelShape
    <2>4. InputAccounted'
      BY <1>17 DEF Finish, Goto, NoApproval, InputAccounted, Taken, LoopShape
    <2> QED BY <2>1, <2>2, <2>3, <2>4
  <1>18. ASSUME NEW t \in Turns, RecordLeftover(t) PROVE Goal'
    <2>1. LoopShape'
      BY <1>18 DEF RecordLeftover, Goto, LoopShape
    <2>2. CancelShape'
      BY <1>18 DEF RecordLeftover, Goto, CancelShape, LoopShape, Held
    <2>3. RunningHeld'
      BY <1>18 DEF RecordLeftover, Goto, RunningHeld, Working, Held, LoopShape, CancelShape
    <2>4. InputAccounted'
      BY <1>18 DEF RecordLeftover, Goto, InputAccounted, Taken, LoopShape
    <2> QED BY <2>1, <2>2, <2>3, <2>4
  <1>25. ASSUME NEW t \in Turns, Complete(t) PROVE Goal'
    <2>1. LoopShape'
      BY <1>25 DEF Complete, Goto, LoopShape
    <2>2. CancelShape'
      BY <1>25 DEF Complete, Goto, CancelShape, LoopShape, Held
    <2>3. RunningHeld'
      BY <1>25 DEF Complete, Goto, RunningHeld, Working, Held, LoopShape, CancelShape
    <2>4. InputAccounted'
      BY <1>25 DEF Complete, Goto, InputAccounted, Taken, LoopShape
    <2> QED BY <2>1, <2>2, <2>3, <2>4
  <1>19. ASSUME NEW t \in Turns, Die(t) PROVE Goal'
    <2>1. LoopShape'
      BY <1>19 DEF Die, Goto, LoopShape
    <2>2. CancelShape'
      BY <1>19 DEF Die, Goto, CancelShape, LoopShape, Held
    <2>3. RunningHeld'
      BY <1>19 DEF Die, Goto, RunningHeld, Working, Held, LoopShape, CancelShape
    <2>4. InputAccounted'
      BY <1>19 DEF Die, Goto, InputAccounted, Taken, LoopShape
    <2> QED BY <2>1, <2>2, <2>3, <2>4
  <1>20. ASSUME NEW r \in Requests, Ask(r) PROVE Goal'
    <2>1. LoopShape'
      BY <1>20 DEF Ask, LoopShape
    <2>2. CancelShape'
      BY <1>20 DEF Ask, CancelShape, LoopShape, Held
    <2>3. RunningHeld'
      BY <1>20 DEF Ask, RunningHeld, Working, Held, LoopShape, CancelShape
    <2>4. InputAccounted'
      BY <1>20 DEF Ask, InputAccounted, Taken, LoopShape
    <2> QED BY <2>1, <2>2, <2>3, <2>4
  <1>21. ASSUME NEW r \in Requests, DeniedByDefault(r) PROVE Goal'
    <2>1. LoopShape'
      BY <1>21 DEF DeniedByDefault, LoopShape
    <2>2. CancelShape'
      BY <1>21 DEF DeniedByDefault, CancelShape, LoopShape, Held
    <2>3. RunningHeld'
      BY <1>21 DEF DeniedByDefault, RunningHeld, Working, Held, LoopShape, CancelShape
    <2>4. InputAccounted'
      BY <1>21 DEF DeniedByDefault, InputAccounted, Taken, LoopShape
    <2> QED BY <2>1, <2>2, <2>3, <2>4
  <1>22. ASSUME NEW r \in Requests, CallCancelled(r) PROVE Goal'
    <2>1. LoopShape'
      BY <1>22 DEF CallCancelled, LoopShape
    <2>2. CancelShape'
      BY <1>22 DEF CallCancelled, CancelShape, LoopShape, Held
    <2>3. RunningHeld'
      BY <1>22 DEF CallCancelled, RunningHeld, Working, Held, LoopShape, CancelShape
    <2>4. InputAccounted'
      BY <1>22 DEF CallCancelled, InputAccounted, Taken, LoopShape
    <2> QED BY <2>1, <2>2, <2>3, <2>4
  <1>23. ASSUME NEW i \in Inputs, Steer(i) PROVE Goal'
    <2>1. LoopShape'
      BY <1>23 DEF Steer, Push, LoopShape
    <2>2. CancelShape'
      BY <1>23 DEF Steer, Push, CancelShape, LoopShape, Held
    <2>3. RunningHeld'
      BY <1>23 DEF Steer, Push, RunningHeld, Working, Held, LoopShape, CancelShape
    <2>4. InputAccounted'
      BY <1>23 DEF Steer, Push, InputAccounted, Taken, LoopShape
    <2> QED BY <2>1, <2>2, <2>3, <2>4
  <1>24. CASE UNCHANGED vars
    BY <1>24 DEF vars, LoopShape, CancelShape, RunningHeld, InputAccounted, Taken, Working, Held
  <1> QED
    BY <1>1, <1>2, <1>3, <1>4, <1>5, <1>6, <1>7, <1>8, <1>9, <1>10, <1>11,
       <1>12, <1>13, <1>14, <1>15, <1>16, <1>17, <1>18, <1>19, <1>20, <1>21,
       <1>22, <1>23, <1>24, <1>25, <1>26
    DEF Next, Submission, LoopStep, TaskStep, CallStep

(* The whole invariant.                                                     *)
THEOREM TurnsInvariance == Spec => []IInv
  <1>1. IInv /\ [Next]_vars => IInv'
    BY TypeStep, ShapeStep DEF IInv
  <1> QED BY InitIInv, <1>1, PTL DEF Spec

(* With no active turn between two submissions, no task is at work: the     *)
(* guard of thread_rollback and the order of spawn_task are sound for any   *)
(* number of turns, for every way a finish can race an abort.               *)
THEOREM IdleSessionRunsNothing == Spec => []NothingRunsWhenIdle
  <1>1. IInv => NothingRunsWhenIdle
    BY TurnsAssumption DEF IInv, RunningHeld, Working, Held, NothingRunsWhenIdle, Over, TypeOK, TaskLabels
  <1> QED BY TurnsInvariance, <1>1, PTL

(* No accepted input is overlooked or taken twice: get_pending_input of a   *)
(* task, take_pending_input of a finishing one and clear_pending of an      *)
(* abort never both miss it, and a task keeps what it took only when it is  *)
(* aborted between taking and recording it.                                 *)
THEOREM SteeredInputIsKept == Spec => []InputAccounted
  <1>1. IInv => InputAccounted
    BY DEF IInv
  <1> QED BY TurnsInvariance, <1>1, PTL
=============================================================================
