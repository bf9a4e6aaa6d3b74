----------------------------- MODULE TurnTasks -----------------------------
(***************************************************************************)
(* The turns of a session: core/src/tasks/mod.rs (spawn_task,              *)
(* abort_all_tasks, on_task_finished), core/src/state/turn.rs and the      *)
(* handlers of core/src/codex.rs that reach them.  The session loop takes  *)
(* one submission at a time; the task of a turn is a tokio task of its     *)
(* own; clients and tools push input beside both.  They meet only in the   *)
(* mutex `active_turn`, and a step is one critical section of it or one    *)
(* of the operations between two of them.                                  *)
(***************************************************************************)
EXTENDS Naturals, FiniteSets

CONSTANTS Turns,      \* submission ids
          Inputs,     \* items that may be steered into a turn
          Requests,   \* approval requests of tool calls
          Asker,      \* the turn whose tool call makes the request
          Key,        \* the approval id it is filed under
          None

ASSUME TurnsAssumption ==
  /\ None \notin Turns \cup Requests
  /\ Asker \in [Requests -> Turns]

Keys == {Key[r] : r \in Requests}

VARIABLES active,     \* the turn in Session::active_turn
          queue,      \* its pending_input
          pending,    \* its pending_approvals
          loop,       \* the session loop: where, on which turn, to what end
          pc,         \* where the task of each turn is
          hand,       \* input a task took out of the queue and has to record
          cancelled,  \* turns whose cancellation token is cancelled
          killed,     \* turns whose task handle was aborted
          followUp,   \* turns whose sampling request made a tool call
          req,        \* what became of each approval request
          accepted,   \* (history) input steered into a turn
          recorded,   \* (history) input that reached the conversation history
          discarded,  \* (history) input that an abort cleared
          events      \* (history) how the client was told that a turn ended

turnVars == <<active, queue, pending>>
taskVars == <<pc, hand, followUp, req>>
abortVars == <<cancelled, killed>>
inputVars == <<accepted, recorded, discarded>>
vars == <<turnVars, loop, taskVars, abortVars, inputVars, events>>

NoApproval == [k \in Keys |-> None]
Goto(t, l) == pc' = [pc EXCEPT ![t] = l]
LoopGoto(l) == loop' = [loop EXCEPT !.at = l]

Init ==
  /\ active = None /\ queue = {} /\ pending = NoApproval
  /\ loop = [at |-> "recv", turn |-> None, why |-> "replaced"]
  /\ pc = [t \in Turns |-> "none"]
  /\ hand = [t \in Turns |-> {}]
  /\ followUp = {}
  /\ req = [r \in Requests |-> "idle"]
  /\ cancelled = {} /\ killed = {}
  /\ accepted = {} /\ recorded = {} /\ discarded = {}
  /\ events = [t \in Turns |-> {}]

-----------------------------------------------------------------------------
(* Submissions, each taken by the session loop when it is done with the one *)
(* before.                                                                  *)

(* The number of turns is bounded by Turns.                                 *)
TurnLeft == \E t \in Turns : pc[t] = "none"

Abort(why) == loop' = [at |-> "take", turn |-> None, why |-> why]

Push(i) ==
  /\ queue' = queue \cup {i}
  /\ accepted' = accepted \cup {i}

(* user_input_or_turn: steer the active turn, or start one.                 *)
UserInput(i) ==
  /\ loop.at = "recv" /\ i \notin accepted
  /\ IF active # None
     THEN Push(i) /\ UNCHANGED loop
     ELSE TurnLeft /\ Abort("replaced") /\ UNCHANGED <<queue, accepted>>
  /\ UNCHANGED <<active, pending, taskVars, abortVars, recorded, discarded, events>>

(* Op::Review, Op::Compact and Op::Undo start a task whatever is running.   *)
ReplaceTask ==
  /\ loop.at = "recv" /\ TurnLeft
  /\ Abort("replaced")
  /\ UNCHANGED <<turnVars, taskVars, abortVars, inputVars, events>>

(* interrupt_task, which an approval answered with Abort calls as well.     *)
Interrupt ==
  /\ loop.at = "recv" /\ active # None
  /\ Abort("interrupted")
  /\ UNCHANGED <<turnVars, taskVars, abortVars, inputVars, events>>

Shutdown ==
  /\ loop.at = "recv"
  /\ Abort("shutdown")
  /\ UNCHANGED <<turnVars, taskVars, abortVars, inputVars, events>>

(* notify_approval for the other decisions.                                 *)
Answer(k, decision) ==
  /\ loop.at = "recv" /\ pending[k] # None
  /\ req' = [req EXCEPT ![pending[k]] =
               IF req[pending[k]] = "waiting" THEN decision ELSE @]
  /\ pending' = [pending EXCEPT ![k] = None]
  /\ UNCHANGED <<active, queue, loop, pc, hand, followUp, abortVars, inputVars, events>>

-----------------------------------------------------------------------------
(* abort_all_tasks and the rest of spawn_task.                              *)

AfterAbort ==
  CASE loop.why = "replaced"    -> "spawn"
    [] loop.why = "interrupted" -> "recv"
    [] loop.why = "shutdown"    -> "stopped"

(* take_all_running_tasks.                                                  *)
Take ==
  /\ loop.at = "take"
  /\ loop' = [loop EXCEPT !.turn = active,
                          !.at = IF active = None THEN AfterAbort ELSE "cancel"]
  /\ active' = None /\ queue' = {} /\ pending' = NoApproval
  /\ discarded' = discarded \cup queue
  /\ UNCHANGED <<taskVars, abortVars, accepted, recorded, events>>

(* handle_task_abort.                                                       *)
Cancel ==
  /\ loop.at = "cancel"
  /\ LoopGoto(IF loop.turn \in cancelled THEN AfterAbort ELSE "await")
  /\ cancelled' = cancelled \cup {loop.turn}
  /\ UNCHANGED <<turnVars, taskVars, killed, inputVars, events>>

(* The wait for the task ends with its notification or after 100 ms.        *)
Kill ==
  /\ loop.at = "await"
  /\ killed' = killed \cup {loop.turn}
  /\ LoopGoto("emit")
  /\ UNCHANGED <<turnVars, taskVars, cancelled, inputVars, events>>

(* The reason of the event: a shutdown interrupts.                          *)
Reason == IF loop.why = "replaced" THEN "replaced" ELSE "interrupted"

(* Mutant of EmitAborted: only an interrupt is announced.                   *)
EmitIfInterrupted ==
  /\ loop.at = "emit"
  /\ events' = [events EXCEPT ![loop.turn] =
                  IF loop.why = "interrupted" THEN @ \cup {Reason} ELSE @]
  /\ LoopGoto(AfterAbort)
  /\ UNCHANGED <<turnVars, taskVars, abortVars, inputVars>>

EmitAborted ==
  /\ loop.at = "emit"
  /\ events' = [events EXCEPT ![loop.turn] = @ \cup {Reason}]
  /\ LoopGoto(AfterAbort)
  /\ UNCHANGED <<turnVars, taskVars, abortVars, inputVars>>

(* tokio::spawn: from here on the task runs, registered or not.             *)
SpawnTask(t) ==
  /\ loop.at = "spawn" /\ pc[t] = "none"
  /\ Goto(t, "start")
  /\ loop' = [loop EXCEPT !.at = "register", !.turn = t]
  /\ UNCHANGED <<turnVars, hand, followUp, req, abortVars, inputVars, events>>

RegisterTask ==
  /\ loop.at = "register"
  /\ active' = loop.turn /\ queue' = {} /\ pending' = NoApproval
  /\ LoopGoto("recv")
  /\ UNCHANGED <<taskVars, abortVars, inputVars, events>>

-----------------------------------------------------------------------------
(* The task of a turn.  An aborted task is never resumed, but one that is   *)
(* being polled goes on to its next await: the steps that resume it need    *)
(* t \notin killed, the ones that may share its poll do not.                *)

(* run_turn up to its loop, or a task that is over at once.                 *)
Start(t) ==
  /\ pc[t] = "start" /\ t \notin killed
  /\ Goto(t, "loop") \/ Goto(t, "flush")
  /\ UNCHANGED <<turnVars, loop, hand, followUp, req, abortVars, inputVars, events>>

(* get_pending_input, under the lock, of whatever turn is active.           *)
TakeInput(t) ==
  /\ pc[t] = "loop"
  /\ hand' = [hand EXCEPT ![t] = queue]
  /\ queue' = {}
  /\ followUp' = followUp \ {t}
  /\ Goto(t, "record")
  /\ UNCHANGED <<active, pending, loop, req, abortVars, inputVars, events>>

(* One item of it after the other, each over an await of its own.           *)
RecordInput(t) ==
  /\ pc[t] = "record"
  /\ \/ \E i \in hand[t] : /\ recorded' = recorded \cup {i}
                           /\ hand' = [hand EXCEPT ![t] = @ \ {i}]
                           /\ UNCHANGED pc
     \/ hand[t] = {} /\ Goto(t, "sample") /\ UNCHANGED <<hand, recorded>>
  /\ UNCHANGED <<turnVars, loop, followUp, req, abortVars, accepted, discarded, events>>

(* request_command_approval, request_patch_approval: the sender is filed    *)
(* with the active turn; a sender already there, or one that finds no       *)
(* active turn, is dropped.                                                 *)
Ask(r) ==
  /\ pc[Asker[r]] = "sample" /\ Asker[r] \notin killed
  /\ req[r] = "idle"
  /\ req' = [req EXCEPT ![r] = "waiting"]
  /\ pending' = IF active = None THEN pending ELSE [pending EXCEPT ![Key[r]] = r]
  /\ followUp' = followUp \cup {Asker[r]}
  /\ UNCHANGED <<active, queue, loop, pc, hand, abortVars, inputVars, events>>

(* The receiver of a dropped sender yields the default, Denied.             *)
DeniedByDefault(r) ==
  /\ req[r] = "waiting" /\ pending[Key[r]] # r
  /\ req' = [req EXCEPT ![r] = "denied"]
  /\ UNCHANGED <<turnVars, loop, pc, hand, followUp, abortVars, inputVars, events>>

(* handle_tool_call stops at the cancellation of the turn.                  *)
CallCancelled(r) ==
  /\ req[r] = "waiting" /\ Asker[r] \in cancelled
  /\ req' = [req EXCEPT ![r] = "aborted"]
  /\ UNCHANGED <<turnVars, loop, pc, hand, followUp, abortVars, inputVars, events>>

(* run_sampling_request returns once its tool calls have: cancelled, with   *)
(* an error, or completed; then has_pending_input keeps the turn going.     *)
SampleEnds(t) ==
  /\ pc[t] = "sample" /\ t \notin killed
  /\ \A r \in Requests : Asker[r] = t => req[r] # "waiting"
  /\ \/ Goto(t, IF t \in followUp \/ queue # {} THEN "loop" ELSE "flush")
     \/ Goto(t, "flush")
  /\ UNCHANGED <<turnVars, loop, hand, followUp, req, abortVars, inputVars, events>>

(* flush_rollout returns.                                                   *)
Flushed(t) ==
  /\ pc[t] = "flush" /\ t \notin killed
  /\ Goto(t, "check")
  /\ UNCHANGED <<turnVars, loop, hand, followUp, req, abortVars, inputVars, events>>

CheckCancelled(t) ==
  /\ pc[t] = "check"
  /\ Goto(t, IF t \in cancelled THEN "done" ELSE "finish")
  /\ UNCHANGED <<turnVars, loop, hand, followUp, req, abortVars, inputVars, events>>

(* Mutant of Finish: whatever turn is active is cleared.                    *)
FinishAnyTurn(t) ==
  /\ pc[t] = "finish"
  /\ active' = None /\ queue' = {} /\ pending' = NoApproval
  /\ hand' = [hand EXCEPT ![t] = queue]
  /\ killed' = killed \cup {t}
  /\ Goto(t, "complete")
  /\ UNCHANGED <<loop, followUp, req, cancelled, inputVars, events>>

(* Mutant of Finish: input nobody took is dropped with the turn.            *)
FinishDropsInput(t) ==
  /\ pc[t] = "finish"
  /\ IF active = t
     THEN /\ active' = None /\ queue' = {} /\ pending' = NoApproval
          /\ killed' = killed \cup {t}
     ELSE UNCHANGED <<turnVars, killed>>
  /\ Goto(t, "complete")
  /\ UNCHANGED <<loop, hand, followUp, req, cancelled, inputVars, events>>

(* on_task_finished under the lock: remove_task finds the turn active or    *)
(* changes nothing.  It drops the RunningTask and with it the               *)
(* AbortOnDropHandle of the very task that runs it: what follows is done    *)
(* only as long as no await suspends the task.                              *)
Finish(t) ==
  /\ pc[t] = "finish"
  /\ IF active = t
     THEN /\ active' = None /\ queue' = {} /\ pending' = NoApproval
          /\ hand' = [hand EXCEPT ![t] = queue]
          /\ killed' = killed \cup {t}
     ELSE UNCHANGED <<turnVars, hand, killed>>
  /\ Goto(t, "complete")
  /\ UNCHANGED <<loop, followUp, req, cancelled, inputVars, events>>

(* Mutant of RecordLeftover: the input is taken and forgotten.              *)
ForgetLeftover(t) ==
  /\ pc[t] = "complete"
  /\ hand' = [hand EXCEPT ![t] = {}]
  /\ Goto(t, "announce")
  /\ UNCHANGED <<turnVars, loop, followUp, req, abortVars, inputVars, events>>

(* on_task_finished after the lock: the leftover input, then TurnComplete.  *)
RecordLeftover(t) ==
  /\ pc[t] = "complete"
  /\ recorded' = recorded \cup hand[t]
  /\ hand' = [hand EXCEPT ![t] = {}]
  /\ Goto(t, "announce")
  /\ UNCHANGED <<turnVars, loop, followUp, req, abortVars, accepted, discarded, events>>

Complete(t) ==
  /\ pc[t] = "announce"
  /\ events' = [events EXCEPT ![t] = @ \cup {"complete"}]
  /\ Goto(t, "done")
  /\ UNCHANGED <<turnVars, loop, hand, followUp, req, abortVars, inputVars>>

(* The task is dropped at an await, and its tool calls with it.             *)
Die(t) ==
  /\ t \in killed /\ pc[t] \notin {"done", "dead"}
  /\ Goto(t, "dead")
  /\ req' = [r \in Requests |-> IF Asker[r] = t /\ req[r] = "waiting"
                                THEN "aborted" ELSE req[r]]
  /\ UNCHANGED <<turnVars, loop, hand, followUp, abortVars, inputVars, events>>

-----------------------------------------------------------------------------
(* steer_input of a client and inject_response_items of a tool: beside the  *)
(* session loop.                                                            *)
Steer(i) ==
  /\ active # None /\ i \notin accepted
  /\ Push(i)
  /\ UNCHANGED <<active, pending, loop, taskVars, abortVars, recorded, discarded, events>>

-----------------------------------------------------------------------------
Submission ==
  \/ \E i \in Inputs : UserInput(i)
  \/ ReplaceTask \/ Interrupt \/ Shutdown
  \/ \E k \in Keys, d \in {"approved", "denied"} : Answer(k, d)

LoopStep ==
  \/ Take \/ Cancel \/ Kill \/ EmitAborted
  \/ (\E t \in Turns : SpawnTask(t))
  \/ RegisterTask

TaskStep(t) ==
  \/ Start(t) \/ TakeInput(t) \/ RecordInput(t) \/ SampleEnds(t) \/ Flushed(t)
  \/ CheckCancelled(t) \/ Finish(t) \/ RecordLeftover(t) \/ Complete(t) \/ Die(t)

CallStep(r) == DeniedByDefault(r) \/ CallCancelled(r)

Next ==
  \/ Submission \/ LoopStep
  \/ \E t \in Turns : TaskStep(t)
  \/ \E r \in Requests : Ask(r) \/ CallStep(r)
  \/ \E i \in Inputs : Steer(i)

Spec == Init /\ [][Next]_vars

(* The runtime polls what is ready, a request to the model ends (the stream *)
(* has an idle timeout) and the wait of an abort is bounded.  Nobody has to *)
(* submit, steer, ask or answer anything.                                   *)
FairSpec ==
  /\ Spec
  /\ WF_vars(LoopStep)
  /\ \A t \in Turns : WF_vars(TaskStep(t))
  /\ \A r \in Requests : WF_vars(CallStep(r))

-----------------------------------------------------------------------------
TaskLabels == {"none", "start", "loop", "record", "sample", "flush", "check",
               "finish", "complete", "announce", "done", "dead"}
LoopLabels == {"recv", "take", "cancel", "await", "emit", "spawn", "register", "stopped"}

(* The values the variables of a session may take.                          *)
TypeOK ==
  /\ active \in Turns \cup {None}
  /\ pending \in [Keys -> Requests \cup {None}]
  /\ loop \in [at : LoopLabels, turn : Turns \cup {None},
               why : {"replaced", "interrupted", "shutdown"}]
  /\ pc \in [Turns -> TaskLabels]
  /\ hand \in [Turns -> SUBSET Inputs]
  /\ {cancelled, killed, followUp} \subseteq SUBSET Turns
  /\ req \in [Requests -> {"idle", "waiting", "approved", "denied", "aborted"}]
  /\ {queue, accepted, recorded, discarded} \subseteq SUBSET Inputs
  /\ events \in [Turns -> SUBSET {"complete", "replaced", "interrupted"}]

Over(t) == pc[t] \in {"none", "complete", "announce", "done", "dead"} \/ t \in killed

(* Between two submissions a session without an active turn has no task at  *)
(* work, whatever finished, was aborted or was replaced before: this is     *)
(* what spawn_task and thread_rollback rely on when they find active_turn   *)
(* empty, and what the end of a shutdown promises.                          *)
NothingRunsWhenIdle ==
  (loop.at \in {"recv", "spawn", "stopped"} /\ active = None) => \A t \in Turns : Over(t)

Taken == UNION {hand[t] : t \in Turns}

(* Input that steer_input accepted is never overlooked and never taken      *)
(* twice: it is in exactly one of four places: waiting in the active turn,  *)
(* recorded, discarded because the turn was aborted, or in the hands of one *)
(* task.  A task that runs to its end leaves none there: the only one that  *)
(* keeps some is one that was aborted between taking and recording it.      *)
InputAccounted ==
  /\ accepted = recorded \cup discarded \cup queue \cup Taken
  /\ recorded \cap discarded = {} /\ queue \cap (recorded \cup discarded) = {}
  /\ Taken \cap (recorded \cup discarded \cup queue) = {}
  /\ \A t, u \in Turns : t # u => hand[t] \cap hand[u] = {}
  /\ queue # {} => active # None
  /\ \A t \in Turns : hand[t] # {} => \/ pc[t] \in {"record", "complete"}
                                      \/ pc[t] = "dead" /\ t \in killed

(* The user has been asked, and an answer would reach the tool call.        *)
UserOwes(t) == \E r \in Requests :
                  Asker[r] = t /\ req[r] = "waiting" /\ pending[Key[r]] = r

(* The task was dropped at an await of its own on_task_finished.            *)
SelfAborted(t) == pc[t] = "dead" /\ t \notin cancelled

(* Every turn ends with an event, or waits for ever for an answer that the  *)
(* user can still give, or is dropped by its own finish: an approval        *)
(* request never outlives its sender, and an abort is announced however its *)
(* race with the task's end goes.                                           *)
TurnsEnd ==
  \A t \in Turns : [](pc[t] # "none" =>
     <>(events[t] # {} \/ []UserOwes(t) \/ SelfAborted(t)))

(* A turn that is active although its task is over: the task was done       *)
(* before register_new_active_task stored it.                               *)
DeadTurn == active # None /\ pc[active] \in {"complete", "announce", "done"}

(* Steered input reaches the history or is discarded by an abort, unless    *)
(* the turn waits for the user, was over before it was registered, or its   *)
(* task was dropped at an await with the input taken and not yet recorded.  *)
InputsAreHandled ==
  \A i \in Inputs : [](i \in accepted =>
     <>(\/ i \in recorded \cup discarded
        \/ [](DeadTurn \/ \E t \in Turns : UserOwes(t))
        \/ \E t \in Turns : pc[t] = "dead" /\ i \in hand[t]))

(* "Emit completion uniformly from spawn site so all tasks share the same   *)
(* lifecycle": a task that ends without having been aborted has announced   *)
(* its end.                                                                 *)
EndsAnnounced == \A t \in Turns : SelfAborted(t) => events[t] # {}
=============================================================================
