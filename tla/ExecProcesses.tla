--------------------------- MODULE ExecProcesses ---------------------------
(***************************************************************************)
(* The background terminals of a session: core/src/unified_exec.  A call   *)
(* is one exec_command; the process it opens has its name.  The store of   *)
(* processes is behind one lock and a call awaits between its accesses, so *)
(* calls, write_stdin polls, watchers and terminate_all_processes          *)
(* interleave there.  A call of a turn that is aborted is dropped at       *)
(* whichever await it has reached.                                         *)
(***************************************************************************)
EXTENDS Naturals, FiniteSets

CONSTANTS Calls, Ids, None,
          MaxProcesses,   \* MAX_UNIFIED_EXEC_PROCESSES
          Warning,        \* WARNING_UNIFIED_EXEC_PROCESSES
          Protected       \* the most recently used that are never pruned

ASSUME ExecAssumption ==
  /\ IsFiniteSet(Calls) /\ IsFiniteSet(Ids) /\ None \notin Calls \cup Ids
  /\ MaxProcesses \in Nat /\ Warning \in Nat /\ Protected \in Nat
  /\ Protected < MaxProcesses /\ Warning <= MaxProcesses

VARIABLES store,      \* processes: the call whose process each id names
          reserved,   \* reserved_process_ids
          recency,    \* last_used: <<c, d>> if c was used before d
          pc,         \* how far each call is
          id,         \* request.process_id
          victim,     \* the entry the call has pruned from the store
          proc,       \* the child: "none", "running", "exited", "killed"
          token,      \* processes whose cancellation_token is cancelled
          drained,    \* processes that have been given output_drained
          watch,      \* the exit watcher of each: "none", "on", "done"
          denied,     \* denial watchers that have killed and not released
          sweep,      \* entries terminate_all_processes has yet to kill
          poll,       \* the id a write_stdin is waiting on
          ends,       \* ExecCommandEnd events sent for each call
          stale       \* (history) calls whose id was freed behind their back

storeVars == <<store, reserved, stale>>
callVars == <<pc, id, victim>>
vars == <<storeVars, recency, callVars, proc, token, drained, watch, denied,
          sweep, poll, ends>>

Init ==
  /\ store = [i \in Ids |-> None] /\ reserved = {} /\ recency = {}
  /\ pc = [c \in Calls |-> "idle"]
  /\ id = [c \in Calls |-> None]
  /\ victim = [c \in Calls |-> None]
  /\ proc = [c \in Calls |-> "none"]
  /\ token = {} /\ drained = {} /\ denied = {} /\ sweep = {} /\ poll = None
  /\ watch = [c \in Calls |-> "none"]
  /\ ends = [c \in Calls |-> 0]
  /\ stale = {}

Goto(c, l) == pc' = [pc EXCEPT ![c] = l]
Stored == {store[i] : i \in Ids} \ {None}
HasExited(c) == proc[c] = "exited"

(* The last_used of c becomes now, later than that of any other process.    *)
Touch(c) ==
  recency' = {p \in recency : c \notin {p[1], p[2]}}
               \cup {<<d, c>> : d \in {e \in Calls \ {c} : proc[e] # "none"}}

(* The calls that hold their own process, and the entries a call holds.     *)
Holding == {"collect", "store", "release", "evict", "warn"}
Pruning(v) == \E c \in Calls : pc[c] = "evict" /\ victim[c] = v

(* Somebody owns an Arc of the process of c.                                *)
Held(c) ==
  \/ pc[c] \in Holding
  \/ c \in Stored
  \/ watch[c] = "on"
  \/ c \in sweep
  \/ Pruning(c)

(* UnifiedExecProcess::terminate, called for S and by the Drop of a process *)
(* whose last owner the step removes.                                       *)
Terminate(S) ==
  LET dead == {c \in Calls : proc[c] # "none" /\ (c \in S \/ ~ Held(c)')}
  IN  /\ proc' = [c \in Calls |-> IF c \in dead /\ proc[c] = "running"
                                  THEN "killed" ELSE proc[c]]
      /\ token' = token \cup dead

(* ProcessStore::remove.                                                    *)
Remove(i) ==
  /\ store' = [store EXCEPT ![i] = None]
  /\ reserved' = reserved \ {i}

(* The id of c matters to it: its call or its denial watcher may still      *)
(* insert or remove the entry under it, or the entry is there.              *)
Uses(c) ==
  \/ pc[c] \in {"open", "collect", "store", "release"}
  \/ pc[c] \in {"evict", "warn", "stored"} /\ c \notin token
  \/ c \in denied \cup Stored

(* The ids the step frees may be given to other calls.                      *)
MarkStale ==
  stale' = stale \cup {c \in Calls : Uses(c)' /\ id[c] \in reserved \ reserved'}

-----------------------------------------------------------------------------
(* exec_command.                                                            *)

(* allocate_process_id, by the handler.                                     *)
AllocateProcessId(c, i) ==
  /\ pc[c] = "idle" /\ i \notin reserved
  /\ reserved' = reserved \cup {i}
  /\ id' = [id EXCEPT ![c] = i]
  /\ Goto(c, "open")
  /\ UNCHANGED <<store, stale, recency, victim, proc, token, drained, watch,
                 denied, sweep, poll, ends>>

(* No process is opened: the handler refuses the escalation, has applied    *)
(* the command as a patch, or open_session_with_sandbox fails.              *)
NotOpened(c) ==
  /\ pc[c] = "open"
  /\ Remove(id[c])
  /\ Goto(c, "done")
  /\ UNCHANGED <<recency, id, victim, drained, watch, denied, sweep, poll, ends>>
  /\ Terminate({})
  /\ MarkStale

(* The patch of an intercepted apply_patch fails: the handler returns the   *)
(* error and the id stays reserved.                                         *)
PatchFails(c) ==
  /\ pc[c] = "open"
  /\ Goto(c, "done")
  /\ UNCHANGED <<storeVars, recency, id, victim, proc, token, drained, watch,
                 denied, sweep, poll, ends>>

(* The process runs and its output is collected.                            *)
Open(c) ==
  /\ pc[c] = "open"
  /\ proc' = [proc EXCEPT ![c] = "running"]
  /\ Touch(c)
  /\ Goto(c, "collect")
  /\ UNCHANGED <<storeVars, id, victim, token, drained, watch, denied, sweep,
                 poll, ends>>

(* A mutant: the entry is stored although the end has been sent.            *)
ShortLivedStores(c) ==
  /\ pc[c] = "collect" /\ HasExited(c)
  /\ ends' = [ends EXCEPT ![c] = @ + 1]
  /\ Goto(c, "store")
  /\ UNCHANGED <<storeVars, recency, id, victim, proc, token, drained, watch,
                 denied, sweep, poll>>

(* The process has exited by the time the collection ends: this call sends  *)
(* the end itself.                                                          *)
ShortLived(c) ==
  /\ pc[c] = "collect" /\ HasExited(c)
  /\ ends' = [ends EXCEPT ![c] = @ + 1]
  /\ Goto(c, "release")
  /\ UNCHANGED <<storeVars, recency, id, victim, proc, token, drained, watch,
                 denied, sweep, poll>>

(* The process is alive at the deadline and its network access was denied.  *)
Rejected(c) ==
  /\ pc[c] = "collect" /\ ~ HasExited(c)
  /\ Goto(c, "release")
  /\ UNCHANGED <<storeVars, recency, id, victim, drained, watch, denied, sweep,
                 poll, ends>>
  /\ Terminate({c})

LongLived(c) ==
  /\ pc[c] = "collect" /\ ~ HasExited(c)
  /\ Goto(c, "store")
  /\ UNCHANGED <<storeVars, recency, id, victim, proc, token, drained, watch,
                 denied, sweep, poll, ends>>

(* release_process_id and the end of the call.                              *)
Release(c) ==
  /\ pc[c] = "release"
  /\ Remove(id[c])
  /\ Goto(c, "done")
  /\ UNCHANGED <<recency, id, victim, drained, watch, denied, sweep, poll, ends>>
  /\ Terminate({})
  /\ MarkStale

(* process_id_to_prune_from_meta: of the entries that are not among the     *)
(* Protected most recently used, the least recently used one that has       *)
(* exited, or else the least recently used one.                             *)
Before(c, d) == <<c, d>> \in recency

Prunable == {c \in Stored : Cardinality({d \in Stored : Before(c, d)}) >= Protected}

ToPrune ==
  LET exited == {c \in Prunable : HasExited(c)}
      pool   == IF exited # {} THEN exited ELSE Prunable
  IN  {c \in pool : \A d \in pool \ {c} : Before(c, d)}

(* A mutant: the store is full only once it holds one more.                 *)
PrunedLate == IF Cardinality(Stored) <= MaxProcesses \/ ToPrune = {}
              THEN {None} ELSE ToPrune

(* prune_processes_if_needed: the entry it removes, or None.                *)
Pruned == IF Cardinality(Stored) < MaxProcesses \/ ToPrune = {}
          THEN {None} ELSE ToPrune

SpawnExitWatcher(c) == watch' = [watch EXCEPT ![c] = "on"]

(* store_process under the lock: prune, insert.  What follows has no await  *)
(* unless an entry was pruned or the model is warned of the number.         *)
StoreProcess(c) ==
  /\ pc[c] = "store"
  /\ \E v \in Pruned :
       /\ store' = [i \in Ids |-> IF i = id[c] THEN c
                                  ELSE IF store[i] = v THEN None ELSE store[i]]
       /\ reserved' = IF v = None THEN reserved ELSE reserved \ {id[v]}
       /\ victim' = [victim EXCEPT ![c] = v]
       /\ IF v = None /\ Cardinality(Stored') < Warning
          THEN SpawnExitWatcher(c) /\ Goto(c, "stored")
          ELSE Goto(c, IF v = None THEN "warn" ELSE "evict") /\ UNCHANGED watch
  /\ UNCHANGED <<recency, id, drained, denied, sweep, poll, ends>>
  /\ Terminate({})
  /\ MarkStale

(* A mutant: the pruned entry is left to its owners.                        *)
EvictForgets(c) ==
  /\ pc[c] = "evict"
  /\ Goto(c, "warn")
  /\ UNCHANGED <<storeVars, recency, id, victim, drained, watch, denied, sweep,
                 poll, ends>>
  /\ Terminate({})

(* The pruned entry is terminated, after its network attempt is removed.    *)
Evict(c) ==
  /\ pc[c] = "evict"
  /\ Goto(c, "warn")
  /\ UNCHANGED <<storeVars, recency, id, victim, drained, watch, denied, sweep,
                 poll, ends>>
  /\ Terminate({victim[c]})

(* A mutant: the call returns after the warning.                            *)
WarnedReturns(c) ==
  /\ pc[c] = "warn"
  /\ Goto(c, "stored")
  /\ UNCHANGED <<storeVars, recency, id, victim, proc, token, drained, watch,
                 denied, sweep, poll, ends>>

(* record_model_warning has returned.                                       *)
Warned(c) ==
  /\ pc[c] = "warn"
  /\ SpawnExitWatcher(c)
  /\ Goto(c, "stored")
  /\ UNCHANGED <<storeVars, recency, id, victim, proc, token, drained, denied,
                 sweep, poll, ends>>

(* The turn is aborted: handle_tool_call drops the future of the call.      *)
DropCall(c) ==
  /\ pc[c] \in Holding \cup {"open"}
  /\ Goto(c, "dropped")
  /\ UNCHANGED <<storeVars, recency, id, victim, drained, watch, denied, sweep,
                 poll, ends>>
  /\ Terminate({})

-----------------------------------------------------------------------------
(* The process and its watchers.                                            *)

(* The wait task sees the child's exit; a killed child may be seen too.     *)
Exit(c) ==
  /\ proc[c] \in {"running", "killed"}
  /\ proc' = [proc EXCEPT ![c] = "exited"]
  /\ UNCHANGED <<storeVars, recency, callVars, token, drained, watch, denied,
                 sweep, poll, ends>>

(* from_spawned: the exit cancels the token.                                *)
SignalExit(c) ==
  /\ HasExited(c) /\ c \notin token
  /\ token' = token \cup {c}
  /\ UNCHANGED <<storeVars, recency, callVars, proc, drained, watch, denied,
                 sweep, poll, ends>>

(* start_streaming_output: the grace period after the exit is over.         *)
OutputDrained(c) ==
  /\ c \in token \ drained
  /\ drained' = drained \cup {c}
  /\ UNCHANGED <<storeVars, recency, callVars, proc, token, watch, denied,
                 sweep, poll, ends>>

(* spawn_exit_watcher: the end is sent and the watcher lets go.             *)
WatcherEmits(c) ==
  /\ watch[c] = "on" /\ c \in token \cap drained
  /\ ends' = [ends EXCEPT ![c] = @ + 1]
  /\ watch' = [watch EXCEPT ![c] = "done"]
  /\ UNCHANGED <<storeVars, recency, callVars, drained, denied, sweep, poll>>
  /\ Terminate({})

(* spawn_network_denial_watcher: kill, then release the id.                 *)
DenialKills(c) ==
  /\ pc[c] = "stored" /\ c \notin token
  /\ denied' = denied \cup {c}
  /\ UNCHANGED <<storeVars, recency, callVars, drained, watch, sweep, poll, ends>>
  /\ Terminate({c})

DenialReleases(c) ==
  /\ c \in denied
  /\ denied' = denied \ {c}
  /\ Remove(id[c])
  /\ UNCHANGED <<recency, callVars, drained, watch, sweep, poll, ends>>
  /\ Terminate({})
  /\ MarkStale

-----------------------------------------------------------------------------
(* write_stdin and terminate_all_processes.                                 *)

(* prepare_process_handles.                                                 *)
PrepareProcessHandles(i) ==
  /\ poll = None /\ store[i] # None
  /\ Touch(store[i])
  /\ poll' = i
  /\ UNCHANGED <<storeVars, callVars, proc, token, drained, watch, denied,
                 sweep, ends>>

(* refresh_process_state after the poll.                                    *)
RefreshProcessState ==
  /\ poll # None /\ poll' = None
  /\ IF store[poll] # None /\ HasExited(store[poll])
     THEN Remove(poll) ELSE UNCHANGED <<store, reserved>>
  /\ UNCHANGED <<recency, callVars, drained, watch, denied, sweep, ends>>
  /\ Terminate({})
  /\ MarkStale

(* The input is not accepted, or the call is dropped.                       *)
PollEnds ==
  /\ poll # None /\ poll' = None
  /\ UNCHANGED <<storeVars, recency, callVars, proc, token, drained, watch,
                 denied, sweep, ends>>

(* terminate_all_processes: after an interrupt, at the shutdown or for      *)
(* Op::CleanBackgroundTerminals, which may come in the middle of a turn.    *)
Sweep ==
  /\ sweep = {} /\ (Stored # {} \/ reserved # {})
  /\ sweep' = Stored
  /\ store' = [i \in Ids |-> None] /\ reserved' = {}
  /\ UNCHANGED <<recency, callVars, proc, token, drained, watch, denied, poll,
                 ends>>
  /\ MarkStale

SweepKills(c) ==
  /\ c \in sweep
  /\ sweep' = sweep \ {c}
  /\ UNCHANGED <<storeVars, recency, callVars, drained, watch, denied, poll, ends>>
  /\ Terminate({c})

-----------------------------------------------------------------------------
CallStep(c) ==
  \/ \E i \in Ids : AllocateProcessId(c, i)
  \/ NotOpened(c)
  \/ PatchFails(c)
  \/ Open(c)
  \/ ShortLived(c)
  \/ Rejected(c)
  \/ LongLived(c)
  \/ Release(c)
  \/ StoreProcess(c)
  \/ Evict(c)
  \/ Warned(c)
  \/ DropCall(c)

ProcessStep(c) ==
  \/ Exit(c)
  \/ SignalExit(c)
  \/ OutputDrained(c)
  \/ WatcherEmits(c)
  \/ DenialKills(c)
  \/ DenialReleases(c)

SessionStep ==
  \/ \E i \in Ids : PrepareProcessHandles(i)
  \/ RefreshProcessState
  \/ PollEnds
  \/ Sweep
  \/ \E c \in Calls : SweepKills(c)

Next == (\E c \in Calls : CallStep(c) \/ ProcessStep(c)) \/ SessionStep

Spec == Init /\ [][Next]_vars

(* The tasks of a process are polled by the runtime.                        *)
FairSpec ==
  /\ Spec
  /\ \A c \in Calls : /\ WF_vars(SignalExit(c))
                      /\ WF_vars(OutputDrained(c))
                      /\ WF_vars(WatcherEmits(c))

-----------------------------------------------------------------------------
(* Every variable a guard depends on has its type.                          *)
Labels == {"idle", "open", "done", "stored", "dropped"} \cup Holding
Dead == {"exited", "killed"}

TypeOK ==
  /\ store \in [Ids -> Calls \cup {None}]
  /\ pc \in [Calls -> Labels]
  /\ id \in [Calls -> Ids \cup {None}]
  /\ victim \in [Calls -> Calls \cup {None}]
  /\ proc \in [Calls -> {"none", "running"} \cup Dead]
  /\ watch \in [Calls -> {"none", "on", "done"}]
  /\ ends \in [Calls -> Nat]
  /\ token \subseteq Calls /\ denied \subseteq Calls /\ sweep \subseteq Calls
  /\ stale \subseteq Calls

(* The store never holds more than MAX_UNIFIED_EXEC_PROCESSES processes,    *)
(* however many exec_commands store theirs at the same time.                *)
TableWithinLimit == Cardinality(Stored) <= MaxProcesses

(* A running process can be reached: its call is still at work, it is in    *)
(* the store, or something is about to terminate it.  The only processes    *)
(* that run on unreachable were pruned by a call that was dropped before    *)
(* its terminate(), or share their id with a call that goes on using it     *)
(* after a sweep, a prune or a poll freed it: ids that nobody frees behind  *)
(* the back of their call are never given out twice.                        *)
RunningIsReachable ==
  \A c \in Calls : proc[c] = "running" =>
    \/ pc[c] \in Holding
    \/ c \in Stored \cup sweep
    \/ \E d \in Calls : victim[d] = c /\ pc[d] \in {"evict", "dropped"}
    \/ \E d \in Calls \ {c} : id[d] = id[c] /\ {c, d} \cap stale # {}

(* One ExecCommandEnd at most is sent for a command, by its call or by its  *)
(* exit watcher, and none while the process runs.                           *)
EndedOnce ==
  \A c \in Calls : ends[c] <= 1 /\ (ends[c] = 1 => proc[c] \in Dead)

(* A call that returned a process id to the model has its ExecCommandEnd    *)
(* once the process is gone, whoever removed it from the store.             *)
EndsAreAnnounced ==
  \A c \in Calls :
    (pc[c] = "stored" /\ proc[c] # "running") ~> (ends[c] = 1)
=============================================================================
