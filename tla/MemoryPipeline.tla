--------------------------- MODULE MemoryPipeline ---------------------------
(***************************************************************************)
(* The startup memory pipeline: core/src/memories/{start,phase1,phase2,    *)
(* storage}.rs over the job store of MemoryJobs.  A worker is one run of   *)
(* the pipeline (a session start, or an explicit update); runs of several  *)
(* processes share the database and the memory directory.                  *)
(***************************************************************************)
EXTENDS MemoryJobs

CONSTANTS Workers,
          OwnThread,     \* the thread each worker's session is writing, or None
          ScanLimit,     \* THREAD_SCAN_LIMIT
          MaxClaimed,    \* max_rollouts_per_startup
          MaxRaw,        \* max_raw_memories_for_global
          Ageing,        \* the threads that may grow older than max_age_days
          Stalls,        \* may a live worker outlive its lease (e.g. suspend)?
          PruneFails,    \* may a stale summary file resist its removal?
          MaxUpdate,     \* bound on threads.updated_at
          MaxCrashes,    \* bound on worker crashes
          MaxDrops       \* bound on drop_memories requests

ASSUME WorkersAssumption ==
  /\ OwnThread \in [Workers -> Threads \cup {None}]
  /\ {ScanLimit, MaxClaimed, MaxRaw, MaxUpdate, MaxCrashes, MaxDrops} \subseteq Nat
  /\ {Stalls, PruneFails} \subseteq BOOLEAN
  /\ Ageing \subseteq Threads

VARIABLES updated,       \* threads.updated_at
          window,        \* a thread's age against the scan's two cutoffs
          stage1,        \* jobs rows of kind memory_stage1
          outputs,       \* stage1_outputs rows
          global,        \* the jobs row of kind memory_consolidate_global
          disk,          \* rollout_summaries/ and raw_memories.md
          consolidated,  \* (history) the inputs of the last recorded success
          pc,            \* where each worker is
          scan,          \* threads scanned and not yet offered for claiming
          held,          \* stage-1 claims whose result is outstanding
          p2,            \* the phase-2 claim and what was computed from it
          drop,          \* progress of drop_memories
          crashes,       \* worker crashes so far
          drops          \* drop_memories requests so far

threadVars == <<updated, window>>
dbVars     == <<stage1, outputs, global>>
workerVars == <<pc, scan, held, p2>>
dropVars   == <<drop, drops>>
vars == <<threadVars, dbVars, disk, consolidated, workerVars, dropVars, crashes>>

Item    == [thread : Threads, src : Time]
Held    == [thread : Threads, token : Tokens, src : Time]
Phase2Labels == {"list", "sync", "rebuild", "agent", "succeed", "fail", "unowned"}
Labels  == {"idle", "claim", "extract", "phase2"} \cup Phase2Labels
NoPhase2 == [token |-> None, claimed |-> 0, listed |-> {}, mark |-> 0]

Rows(outs) == {[thread |-> t, src |-> outs[t].src] :
                 t \in {u \in Threads : outs[u] # None /\ ~ outs[u].blank}}

(* list_stage1_outputs_for_global(max_raw_memories)                         *)
Selected(outs) == Latest(Rows(outs), MaxRaw)

(* The tokens that a job's row or some worker's claim on it knows.  Tokens  *)
(* are only ever compared within one job.                                   *)
RowTokens(row) == IF row = None THEN {} ELSE {row.token}
Stage1Tokens(t) ==
  RowTokens(stage1[t])
    \cup UNION {{c.token : c \in {d \in held[w] : d.thread = t}} : w \in Workers}
GlobalTokens == RowTokens(global) \cup {p2[w].token : w \in Workers}

(* Uuid::new_v4(): a token nobody knows yet.                                *)
Fresh(known) == CHOOSE token \in Tokens : token \notin known

-----------------------------------------------------------------------------
Init ==
  /\ updated = [t \in Threads |-> 1]
  /\ window = [t \in Threads |-> "idle"]
  /\ stage1 = [t \in Threads |-> None]
  /\ outputs = [t \in Threads |-> None]
  /\ global = None
  /\ disk = [summaries |-> {}, raw |-> {}]
  /\ consolidated = {}
  /\ pc = [w \in Workers |-> "idle"]
  /\ scan = [w \in Workers |-> {}]
  /\ held = [w \in Workers |-> {}]
  /\ p2 = [w \in Workers |-> NoPhase2]
  /\ drop = "none"
  /\ crashes = 0
  /\ drops = 0

Goto(w, label) == pc' = [pc EXCEPT ![w] = label]

-----------------------------------------------------------------------------
(* The environment: threads are used and grow old, timers run out.          *)

ThreadActivity(t) ==
  /\ updated[t] < MaxUpdate
  /\ updated' = [updated EXCEPT ![t] = @ + 1]
  /\ window' = [window EXCEPT ![t] = "recent"]
  /\ UNCHANGED <<dbVars, disk, consolidated, workerVars, dropVars, crashes>>

(* updated_at <= now - min_rollout_idle_hours becomes true.                 *)
ThreadIdles(t) ==
  /\ window[t] = "recent"
  /\ window' = [window EXCEPT ![t] = "idle"]
  /\ UNCHANGED <<updated, dbVars, disk, consolidated, workerVars, dropVars, crashes>>

(* updated_at >= now - max_age_days becomes false.                          *)
ThreadAges(t) ==
  /\ t \in Ageing /\ window[t] = "idle"
  /\ window' = [window EXCEPT ![t] = "aged"]
  /\ UNCHANGED <<updated, dbVars, disk, consolidated, workerVars, dropVars, crashes>>

(* A live worker keeps its lease unless it may stall past it.               *)
MayLapse(row, abandoned) == LiveLease(row) /\ (Stalls \/ abandoned)

Stage1LeaseLapses(t) ==
  /\ MayLapse(stage1[t], \A w \in Workers : \A c \in held[w] :
                            c.thread = t => c.token # stage1[t].token)
  /\ stage1' = [stage1 EXCEPT ![t].lease = "lapsed"]
  /\ UNCHANGED <<threadVars, outputs, global, disk, consolidated, workerVars,
                 dropVars, crashes>>

Stage1BackoffElapses(t) ==
  /\ stage1[t] # None /\ stage1[t].retry = "waiting"
  /\ stage1' = [stage1 EXCEPT ![t].retry = "due"]
  /\ UNCHANGED <<threadVars, outputs, global, disk, consolidated, workerVars,
                 dropVars, crashes>>

GlobalLeaseLapses ==
  /\ MayLapse(global, \A w \in Workers : p2[w].token # global.token)
  /\ global' = [global EXCEPT !.lease = "lapsed"]
  /\ UNCHANGED <<threadVars, stage1, outputs, disk, consolidated, workerVars,
                 dropVars, crashes>>

GlobalBackoffElapses ==
  /\ global # None /\ global.retry = "waiting"
  /\ global' = [global EXCEPT !.retry = "due"]
  /\ UNCHANGED <<threadVars, stage1, outputs, disk, consolidated, workerVars,
                 dropVars, crashes>>

-----------------------------------------------------------------------------
(* Phase 1.                                                                 *)

StaleThreads(w) ==
  {t \in Threads \ {OwnThread[w]} :
     window[t] = "idle" /\ ~ UpToDate(stage1[t], outputs[t], updated[t])}

(* A run starts with the candidate query: one read, outside a transaction.  *)
StartPipeline(w) ==
  /\ pc[w] = "idle"
  /\ scan' = [scan EXCEPT ![w] =
       IF ScanLimit = 0 \/ MaxClaimed = 0 THEN {}
       ELSE Latest({[thread |-> t, src |-> updated[t]] : t \in StaleThreads(w)},
                   ScanLimit)]
  /\ Goto(w, "claim")
  /\ UNCHANGED <<threadVars, dbVars, disk, consolidated, held, p2, dropVars,
                 crashes>>

(* One iteration of the claim loop, newest candidate first.                 *)
TryClaimStage1(w) ==
  /\ pc[w] = "claim"
  /\ Cardinality(held[w]) < MaxClaimed
  /\ \E item \in scan[w] :
       /\ \A other \in scan[w] : ~ Newer(other, item)
       /\ scan' = [scan EXCEPT ![w] = @ \ {item}]
       /\ IF Stage1Claimable(stage1, outputs, item.thread, item.src)
          THEN LET token == Fresh(Stage1Tokens(item.thread)) IN
               /\ Tokens \ Stage1Tokens(item.thread) # {}
               /\ stage1' = [stage1 EXCEPT ![item.thread] =
                               Stage1Claim(@, item.src, token)]
               /\ held' = [held EXCEPT ![w] = @ \cup
                    {[thread |-> item.thread, token |-> token, src |-> item.src]}]
          ELSE UNCHANGED <<stage1, held>>
  /\ UNCHANGED <<threadVars, outputs, global, disk, consolidated, pc, p2,
                 dropVars, crashes>>

(* The loop ends; with no claims phase 1 returns at once.                   *)
ClaimsDone(w) ==
  /\ pc[w] = "claim"
  /\ scan[w] = {} \/ Cardinality(held[w]) >= MaxClaimed
  /\ scan' = [scan EXCEPT ![w] = {}]
  /\ Goto(w, IF held[w] = {} THEN "phase2" ELSE "extract")
  /\ UNCHANGED <<threadVars, dbVars, disk, consolidated, held, p2, dropVars,
                 crashes>>

(* A database error in the scan or in one claim: `?' drops every claim made *)
(* so far, whose rows stay `running' until their leases lapse.              *)
ClaimsFail(w) ==
  /\ pc[w] = "claim"
  /\ crashes < MaxCrashes
  /\ crashes' = crashes + 1
  /\ scan' = [scan EXCEPT ![w] = {}]
  /\ held' = [held EXCEPT ![w] = {}]
  /\ Goto(w, "phase2")
  /\ UNCHANGED <<threadVars, dbVars, disk, consolidated, p2, dropVars>>

(* One extraction job reports; the jobs of a worker run concurrently, and   *)
(* phase 2 follows the last of them.                                        *)
Report(w, claim) ==
  /\ pc[w] = "extract"
  /\ held' = [held EXCEPT ![w] = @ \ {claim}]
  /\ Goto(w, IF held[w] = {claim} THEN "phase2" ELSE "extract")
  /\ UNCHANGED <<threadVars, disk, consolidated, scan, p2, dropVars, crashes>>

Owned(claim) == OwnedBy(stage1[claim.thread], claim.token)

ExtractSucceeds(w, claim, blank) ==
  /\ Report(w, claim)
  /\ IF Owned(claim)
     THEN /\ stage1' = [stage1 EXCEPT ![claim.thread] = Stage1Done(@)]
          /\ outputs' = [outputs EXCEPT ![claim.thread] =
                           Upsert(@, claim.src, blank)]
          /\ global' = EnqueueGlobal(global, claim.src)
     ELSE UNCHANGED dbVars

ExtractFindsNothing(w, claim) ==
  /\ Report(w, claim)
  /\ IF Owned(claim)
     THEN /\ stage1' = [stage1 EXCEPT ![claim.thread] = Stage1Done(@)]
          /\ outputs' = [outputs EXCEPT ![claim.thread] = None]
          /\ global' = IF outputs[claim.thread] = None THEN global
                       ELSE EnqueueGlobal(global, stage1[claim.thread].input)
     ELSE UNCHANGED dbVars

ExtractFails(w, claim) ==
  /\ Report(w, claim)
  /\ IF Owned(claim)
     THEN stage1' = [stage1 EXCEPT ![claim.thread] = JobFailed(@)]
     ELSE UNCHANGED stage1
  /\ UNCHANGED <<outputs, global>>

-----------------------------------------------------------------------------
(* Phase 2.                                                                 *)

ClaimGlobal(w) ==
  /\ pc[w] = "phase2"
  /\ IF GlobalClaimable(global)
     THEN LET token == Fresh(GlobalTokens) IN
          /\ Tokens \ GlobalTokens # {}
          /\ global' = GlobalClaim(global, token)
          /\ p2' = [p2 EXCEPT ![w] = [token |-> token, claimed |-> global.input,
                                      listed |-> {}, mark |-> 0]]
          /\ Goto(w, "list")
     ELSE Goto(w, "idle") /\ UNCHANGED <<global, p2>>
  /\ UNCHANGED <<threadVars, stage1, outputs, disk, consolidated, scan, held,
                 dropVars, crashes>>

(* get_watermark: the largest of the claimed and the listed watermarks.     *)
Watermarks(claimed, listed) == {claimed} \cup {m.src : m \in listed}

ListOutputs(w) ==
  /\ pc[w] = "list"
  /\ LET listed == Selected(outputs)
         marks  == Watermarks(p2[w].claimed, listed)
     IN \E mark \in marks :
          /\ \A m \in marks : m <= mark
          /\ p2' = [p2 EXCEPT ![w] = [@ EXCEPT !.listed = listed, !.mark = mark]]
  /\ Goto(w, "sync")
  /\ UNCHANGED <<threadVars, dbVars, disk, consolidated, scan, held, dropVars,
                 crashes>>

(* Mutant of SyncSummaries: nothing is pruned.                              *)
SyncSummariesNoPrune(w) ==
  /\ pc[w] = "sync"
  /\ disk' = [disk EXCEPT !.summaries = @ \cup p2[w].listed]
  /\ Goto(w, "rebuild")
  /\ UNCHANGED <<threadVars, dbVars, consolidated, scan, held, p2, dropVars,
                 crashes>>

(* Prune what is not listed, then write what is; a failing write leaves     *)
(* some of the files unwritten.  A file is named after its thread and slug: *)
(* an older summary of a listed thread is pruned if the slug has changed,   *)
(* else overwritten, or left if that write fails.  A file that cannot be    *)
(* removed is logged and left.                                              *)
SyncSummaries(w) ==
  /\ pc[w] = "sync"
  /\ \E written \in SUBSET p2[w].listed,
        left \in SUBSET (disk.summaries \ p2[w].listed) :
       /\ PruneFails \/ \A m \in left : \E n \in p2[w].listed \ written :
                                         n.thread = m.thread
       /\ disk' = [disk EXCEPT !.summaries =
                     (@ \cap p2[w].listed) \cup written \cup left]
       /\ Goto(w, IF written = p2[w].listed THEN "rebuild" ELSE "fail")
  /\ UNCHANGED <<threadVars, dbVars, consolidated, scan, held, p2, dropVars,
                 crashes>>

(* raw_memories.md is one write; then the agent is spawned, unless nothing  *)
(* is listed.                                                               *)
RebuildRaw(w) ==
  /\ pc[w] = "rebuild"
  /\ disk' = [disk EXCEPT !.raw = p2[w].listed]
  /\ Goto(w, IF p2[w].listed = {} THEN "succeed" ELSE "agent")
  /\ UNCHANGED <<threadVars, dbVars, consolidated, scan, held, p2, dropVars,
                 crashes>>

(* Mutant of Phase2StepFails: the error is dropped and the claim completed. *)
Phase2ErrorDropped(w) ==
  /\ pc[w] \in {"list", "sync", "rebuild", "agent"}
  /\ Goto(w, "succeed")
  /\ UNCHANGED <<threadVars, dbVars, disk, consolidated, scan, held, p2, dropVars,
                 crashes>>

(* Config, listing, syncing, spawning, subscribing or the agent fails.      *)
Phase2StepFails(w) ==
  /\ pc[w] \in {"list", "sync", "rebuild", "agent"}
  /\ Goto(w, "fail")
  /\ UNCHANGED <<threadVars, dbVars, disk, consolidated, scan, held, p2, dropVars,
                 crashes>>

Heartbeat(w) ==
  /\ pc[w] = "agent"
  /\ IF OwnedBy(global, p2[w].token)
     THEN global' = [global EXCEPT !.lease = "valid"] /\ UNCHANGED pc
     ELSE Goto(w, "fail") /\ UNCHANGED global
  /\ UNCHANGED <<threadVars, stage1, outputs, disk, consolidated, scan, held, p2,
                 dropVars, crashes>>

AgentCompletes(w) ==
  /\ pc[w] = "agent"
  /\ Goto(w, "succeed")
  /\ UNCHANGED <<threadVars, dbVars, disk, consolidated, scan, held, p2, dropVars,
                 crashes>>

EndPhase2(w) ==
  /\ Goto(w, "idle")
  /\ p2' = [p2 EXCEPT ![w] = NoPhase2]
  /\ UNCHANGED <<threadVars, stage1, outputs, disk, scan, held, dropVars, crashes>>

MarkSucceeded(w) ==
  /\ pc[w] = "succeed"
  /\ EndPhase2(w)
  /\ IF OwnedBy(global, p2[w].token)
     THEN /\ global' = GlobalDone(global, p2[w].mark)
          /\ consolidated' = p2[w].listed
     ELSE UNCHANGED <<global, consolidated>>

(* job::failed: the owned row, and only if that matched nothing...          *)
MarkFailed(w) ==
  /\ pc[w] = "fail"
  /\ IF OwnedBy(global, p2[w].token)
     THEN /\ EndPhase2(w)
          /\ global' = JobFailed(global)
     ELSE /\ Goto(w, "unowned")
          /\ UNCHANGED <<threadVars, dbVars, disk, scan, held, p2, dropVars, crashes>>
  /\ UNCHANGED consolidated

(* ... the row if it is running without an owner.                           *)
MarkFailedIfUnowned(w) ==
  /\ pc[w] = "unowned"
  /\ EndPhase2(w)
  /\ global' = IF OwnedBy(global, p2[w].token) \/ OwnedBy(global, None)
               THEN JobFailed(global) ELSE global
  /\ UNCHANGED consolidated

-----------------------------------------------------------------------------
(* The process dies, or a database error makes a worker give up a result    *)
(* that it only logs: the worker forgets its claims, the rows keep them.    *)
Crash(w) ==
  /\ pc[w] # "idle"
  /\ crashes < MaxCrashes
  /\ crashes' = crashes + 1
  /\ Goto(w, "idle")
  /\ scan' = [scan EXCEPT ![w] = {}]
  /\ held' = [held EXCEPT ![w] = {}]
  /\ p2' = [p2 EXCEPT ![w] = NoPhase2]
  /\ UNCHANGED <<threadVars, dbVars, disk, consolidated, dropVars>>

(* drop_memories: clear_memory_data in one transaction, then the directory. *)
ClearMemoryData ==
  /\ drop \in {"none", "done"} /\ drops < MaxDrops
  /\ drops' = drops + 1
  /\ drop' = "rows"
  /\ stage1' = [t \in Threads |-> None]
  /\ outputs' = [t \in Threads |-> None]
  /\ global' = None
  /\ consolidated' = {}
  /\ UNCHANGED <<threadVars, disk, workerVars, crashes>>

(* The statements fail, or there is no database: the directory goes anyway. *)
ClearMemoryDataFails ==
  /\ drop \in {"none", "done"} /\ drops < MaxDrops
  /\ drops' = drops + 1
  /\ drop' = "norows"
  /\ UNCHANGED <<threadVars, dbVars, disk, consolidated, workerVars, crashes>>

RemoveMemoryRoot ==
  /\ drop \in {"rows", "norows"}
  /\ drop' = IF drop = "rows" THEN "done" ELSE "none"
  /\ disk' = [summaries |-> {}, raw |-> {}]
  /\ UNCHANGED <<threadVars, dbVars, consolidated, workerVars, drops, crashes>>

(* The removal fails: the user is told that the drop had errors.            *)
RemoveMemoryRootFails ==
  /\ drop \in {"rows", "norows"}
  /\ drop' = "none"
  /\ UNCHANGED <<threadVars, dbVars, disk, consolidated, workerVars, drops, crashes>>

-----------------------------------------------------------------------------
Phase1Step(w) ==
  \/ StartPipeline(w) \/ TryClaimStage1(w) \/ ClaimsDone(w)
  \/ \E claim \in held[w] :
       \/ \E blank \in BOOLEAN : ExtractSucceeds(w, claim, blank)
       \/ ExtractFindsNothing(w, claim)
       \/ ExtractFails(w, claim)

Phase2Step(w) ==
  \/ ClaimGlobal(w) \/ ListOutputs(w) \/ SyncSummaries(w) \/ RebuildRaw(w)
  \/ AgentCompletes(w) \/ Phase2StepFails(w)
  \/ MarkSucceeded(w) \/ MarkFailed(w) \/ MarkFailedIfUnowned(w)

Timer ==
  \/ \E t \in Threads : Stage1LeaseLapses(t) \/ Stage1BackoffElapses(t)
  \/ GlobalLeaseLapses \/ GlobalBackoffElapses

Next ==
  \/ \E w \in Workers : Phase1Step(w) \/ Phase2Step(w) \/ Heartbeat(w)
                        \/ ClaimsFail(w) \/ Crash(w)
  \/ \E t \in Threads : ThreadActivity(t) \/ ThreadIdles(t) \/ ThreadAges(t)
  \/ Timer
  \/ ClearMemoryData \/ ClearMemoryDataFails
  \/ RemoveMemoryRoot \/ RemoveMemoryRootFails

Spec == Init /\ [][Next]_vars

(* Sessions keep starting, a started run keeps going (tokio polls ready     *)
(* tasks), and wall-clock time passes.  Crashes, failures of the database,  *)
(* user activity and drops are never forced.                                *)
Fairness ==
  /\ \A w \in Workers : WF_vars(Phase1Step(w)) /\ WF_vars(Phase2Step(w))
  /\ \A t \in Threads : /\ WF_vars(Stage1LeaseLapses(t))
                        /\ WF_vars(Stage1BackoffElapses(t))
                        /\ WF_vars(ThreadIdles(t))
  /\ WF_vars(GlobalLeaseLapses)
  /\ WF_vars(GlobalBackoffElapses)

FairSpec == Spec /\ Fairness

-----------------------------------------------------------------------------
(* Types of every variable.                                                 *)
TypeOK ==
  /\ updated \in [Threads -> Time]
  /\ window \in [Threads -> {"recent", "idle", "aged"}]
  /\ stage1 \in [Threads -> Row \cup {None}]
  /\ outputs \in [Threads -> Output \cup {None}]
  /\ global \in Row \cup {None}
  /\ disk \in [summaries : SUBSET Item, raw : SUBSET Item]
  /\ consolidated \in SUBSET Item
  /\ pc \in [Workers -> Labels]
  /\ scan \in [Workers -> SUBSET Item]
  /\ held \in [Workers -> SUBSET Held]
  /\ p2 \in [Workers -> [token : Tokens \cup {None}, claimed : Nat,
                          listed : SUBSET Item, mark : Nat]]
  /\ drop \in {"none", "rows", "norows", "done"}
  /\ crashes \in Nat /\ drops \in Nat

(* No consolidation work is lost: whenever the global row says there is     *)
(* nothing to do (or is missing), the last recorded consolidation read      *)
(* exactly the outputs that are selected now, whatever was enqueued between *)
(* a consolidation's claim, its listing and its completion.                 *)
CleanMeansConsolidated == Clean(global) => consolidated = Selected(outputs)

(* A thread's stored output is the one of its last recorded success, so the *)
(* two staleness tests of the scan agree; late reports of superseded claims *)
(* and scans made before a newer claim never separate them.                 *)
OutputMatchesSuccess ==
  \A t \in Threads : outputs[t] # None =>
    stage1[t] # None /\ stage1[t].success = outputs[t].src

(* The cap on concurrently leased extraction jobs holds across processes.   *)
RunningWithinLimit == Cardinality(RunningStage1(stage1)) <= MaxRunning

Recoverable(row) ==
  row # None => /\ row.retries \in 0..Retries
                /\ row.status = "running" =>
                     row.token # None /\ row.lease # "none" /\ row.retries > 0

(* A running row always has an owner, a lease that can lapse and a retry to *)
(* spend, so a crash at any point leaves no row stuck in `running' (and the *)
(* unowned fallback has nothing to do); the retry budget stays in range.    *)
RunningIsRecoverable == Recoverable(global) /\ \A t \in Threads : Recoverable(stage1[t])

(* While every live worker keeps its lease, the files on disk are the       *)
(* inputs of the recorded consolidation whenever the row is clean.          *)
DiskMatchesRecord ==
  Clean(global) /\ drop # "rows" =>
    disk.summaries = consolidated /\ disk.raw = consolidated

(* After drop_memories reported success, and before any new memory job was  *)
(* recorded, the memory directory is empty.                                 *)
DropLeavesNoFiles ==
  drop = "done" /\ global = None => disk.summaries = {} /\ disk.raw = {}

MonotoneRow(old, new) ==
  old # None /\ new # None => new.success >= old.success

(* A success watermark never moves back while its row exists: a claim made  *)
(* from an outdated scan never finishes over a newer success.               *)
SuccessNeverRegresses ==
  [][MonotoneRow(global, global')
     /\ \A t \in Threads : MonotoneRow(stage1[t], stage1'[t])]_vars

(* Where a worker has listed what it consolidates, and the listing of the   *)
(* worker that owns the row, if it is there.                                *)
Listed == {"sync", "rebuild", "agent", "succeed"}
View(row, claims, at) ==
  {claims[w].listed : w \in {v \in Workers : OwnedBy(row, claims[v].token) /\ at[v] \in Listed}}

(* However the runs of several processes interleave, stall past their       *)
(* leases, take each other over, fail and die, the row's record is that of  *)
(* one consolidator: a listing is recorded only by the owner that made it,  *)
(* after its claim, and ends the work only if it is still current.          *)
C == INSTANCE Consolidation WITH current <- Selected(outputs), dirty <- ~ Clean(global),
                                 record <- consolidated, view <- View(global, p2, pc)
RefinesConsolidation == C!ConsolidationSpec

(* Dirty work is eventually consolidated, or gives up by spending its       *)
(* retries: no lease, backoff or crash leaves it waiting for ever.          *)
DirtyIsConsolidated ==
  (~ Clean(global)) ~> (Clean(global) \/ (global # None /\ global.retries = 0))

Pending(t) ==
  /\ window[t] = "idle"
  /\ ~ UpToDate(stage1[t], outputs[t], updated[t])
  /\ stage1[t] = None \/ stage1[t].retries > 0 \/ updated[t] > stage1[t].input

(* An idle thread with unextracted activity is eventually extracted, gives  *)
(* up, is used again or leaves the age window.                              *)
PendingIsExtracted == \A t \in Threads : Pending(t) ~> ~ Pending(t)
=============================================================================
