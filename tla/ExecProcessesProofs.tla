------------------------ MODULE ExecProcessesProofs ------------------------
(* Theorems about ExecProcesses, for any number of calls and ids and any    *)
(* size of the store.                                                       *)
EXTENDS ExecProcesses, FiniteSetTheorems, TLAPS

(* A call has an id from its first step on, a process from when it opens    *)
(* one and prunes nothing before it stores it.                                  *)
Progress ==
  \A c \in Calls :
    /\ pc[c] = "idle" <=> id[c] = None
    /\ pc[c] \in {"idle", "open"} => proc[c] = "none"
    /\ pc[c] \in {"stored"} \cup Holding => proc[c] # "none"
    /\ pc[c] \in {"idle", "open", "collect", "store"} => victim[c] = None

(* An entry is under the id of its call.                                    *)
Owner == \A i \in Ids : store[i] # None => id[store[i]] = i

(* Whose process is gone.                                                   *)
Gone ==
  \A c \in Calls : c \in token \cup denied \/ pc[c] = "release" => proc[c] \in Dead

(* The call sends the end, or its watcher does.                             *)
Ends ==
  \A c \in Calls :
    /\ pc[c] \notin {"stored", "release", "done", "dropped"} => ends[c] = 0
    /\ watch[c] = "on" => ends[c] = 0
    /\ watch[c] # "none" => pc[c] = "stored"
    /\ ends[c] <= 1
    /\ ends[c] = 1 => proc[c] \in Dead

(* The ways to a process other than its own call.                           *)
Reached(c) ==
  \/ \E i \in Ids : store[i] = c
  \/ c \in sweep
  \/ \E d \in Calls : victim[d] = c /\ pc[d] \in {"evict", "dropped"}
  \/ \E d \in Calls \ {c} : id[d] = id[c] /\ {c, d} \cap stale # {}

Reach ==
  \A c \in Calls : proc[c] = "running" => pc[c] \in {"collect", "store"} \/ Reached(c)

(* An id in use is reserved, and by one call, unless it was freed behind    *)
(* the back of its call.                                                    *)
Shared ==
  /\ \A c \in Calls : Uses(c) /\ c \notin stale => id[c] \in reserved
  /\ \A c, d \in Calls : c # d /\ Uses(c) /\ Uses(d) /\ id[c] = id[d] => {c, d} \cap stale # {}

ExecInv == TypeOK /\ Progress /\ Owner /\ Gone /\ Ends /\ Reach /\ Shared

(* Nobody starts to use an id, and the users of those that are freed are    *)
(* marked.                                                                  *)
LEMMA SharedKept ==
  ASSUME Shared, id' = id, stale \subseteq stale',
         \A c \in Calls : Uses(c)' => Uses(c),
         \A c \in Calls : Uses(c)' /\ id[c] \in reserved \ reserved' => c \in stale'
  PROVE  Shared'
BY DEF Shared

(* What Terminate does to the processes: those of S and those nobody holds  *)
(* any more stop, and nothing starts.                                       *)
LEMMA TerminateEffect ==
  ASSUME TypeOK, Gone, NEW S, Terminate(S)
  PROVE  /\ proc' \in [Calls -> {"none", "running"} \cup Dead]
         /\ token \subseteq token' /\ token' \subseteq Calls
         /\ \A c \in Calls : proc[c] \in Dead => proc'[c] \in Dead
         /\ \A c \in Calls : proc[c] = "none" <=> proc'[c] = "none"
         /\ \A c \in Calls : proc'[c] = "running" =>
              proc[c] = "running" /\ c \notin S /\ Held(c)'
         /\ \A c \in token' : proc'[c] \in Dead
         /\ \A c \in Calls : c \in S /\ proc[c] # "none" => proc'[c] \in Dead
<1> DEFINE dead == {c \in Calls : proc[c] # "none" /\ (c \in S \/ ~ Held(c)')}
<1>1. /\ proc' = [c \in Calls |-> IF c \in dead /\ proc[c] = "running"
                                  THEN "killed" ELSE proc[c]]
      /\ token' = token \cup dead
  BY Zenon DEF Terminate
<1>2. \A c \in Calls : (c \in dead) <=> (proc[c] # "none" /\ (c \in S \/ ~ Held(c)'))
  BY Zenon
<1>3. dead \subseteq Calls
  BY Zenon
<1> HIDE DEF dead
<1> QED BY <1>1, <1>2, <1>3 DEF TypeOK, Gone, Dead

(* AllocateProcessId preserves the invariant.                               *)
LEMMA AllocateProcessIdKeeps ==
  ASSUME ExecInv, NEW c \in Calls, NEW i \in Ids, AllocateProcessId(c, i)
  PROVE  ExecInv'
<1> USE ExecAssumption DEF ExecInv, Labels, Holding, Dead
<1>4. TypeOK' /\ Progress'
  BY DEF Progress, TypeOK, AllocateProcessId, Goto, storeVars, callVars
<1>5. Owner'
  BY DEF TypeOK, Progress, Owner, AllocateProcessId, Goto, storeVars, callVars
<1>6. Gone'
  BY DEF TypeOK, Progress, Gone, Ends, AllocateProcessId, Goto, storeVars, callVars
<1>7. Ends'
  BY DEF TypeOK, Progress, Gone, Ends, AllocateProcessId, Goto, storeVars, callVars
<1>8. Reach'
  BY DEF TypeOK, Progress, Owner, Gone, Ends, Reach, Reached, AllocateProcessId, Goto, storeVars, callVars
<1>10. Shared'
  BY DEF TypeOK, Progress, Shared, Uses, Stored, AllocateProcessId, Goto, storeVars, callVars
<1> QED BY <1>4, <1>5, <1>6, <1>7, <1>8, <1>10

(* NotOpened preserves the invariant.                                       *)
LEMMA NotOpenedKeeps ==
  ASSUME ExecInv, NEW c \in Calls, NotOpened(c)
  PROVE  ExecInv'
<1> USE ExecAssumption DEF ExecInv, Labels, Holding, Dead
<1>1. Terminate({})
  BY DEF NotOpened
<1>2. /\ proc' \in [Calls -> {"none", "running"} \cup Dead]
      /\ token \subseteq token' /\ token' \subseteq Calls
      /\ \A x \in Calls : proc[x] \in Dead => proc'[x] \in Dead
      /\ \A x \in Calls : proc[x] = "none" <=> proc'[x] = "none"
      /\ \A x \in Calls : proc'[x] = "running" => proc[x] = "running"
      /\ \A x \in token' : proc'[x] \in Dead
  BY <1>1, TerminateEffect
<1>3. /\ \A x \in Calls : proc'[x] = "running" => x \notin {} /\ Held(x)'
      /\ \A x \in Calls : x \in {} /\ proc[x] # "none" => proc'[x] \in Dead
  BY <1>1, TerminateEffect
<1>4. TypeOK' /\ Progress'
  <2>1. TypeOK'
    BY <1>2 DEF TypeOK, MarkStale, NotOpened, Goto, storeVars, callVars, Remove
  <2>2. Progress'
    BY <1>2 DEF TypeOK, Progress, NotOpened, Goto, storeVars, callVars, Remove
  <2> QED BY <2>1, <2>2
<1>5. Owner'
  BY DEF TypeOK, Progress, Owner, NotOpened, Goto, storeVars, callVars, Remove
<1>6. Gone'
  BY <1>2, <1>3 DEF TypeOK, Progress, Gone, Ends, NotOpened, Goto, storeVars, callVars, Remove
<1>7. Ends'
  BY <1>2 DEF TypeOK, Progress, Gone, Ends, NotOpened, Goto, storeVars, callVars, Remove
<1>8. Reach'
  BY <1>2, <1>3 DEF TypeOK, Progress, Owner, Gone, Ends, Reach, Reached, MarkStale, Shared, Uses, Stored, Held, Pruning, Stored, NotOpened, Goto, storeVars, callVars, Remove
<1>10. Shared'
  <2>1. \A x \in Calls : Uses(x)' => Uses(x)
    BY <1>2 DEF TypeOK, Progress, Uses, Stored, NotOpened, Goto, storeVars, callVars, Remove
  <2> QED BY <2>1, SharedKept DEF MarkStale, NotOpened, Goto, storeVars, callVars, Remove
<1> QED BY <1>4, <1>5, <1>6, <1>7, <1>8, <1>10

(* PatchFails preserves the invariant.                                      *)
LEMMA PatchFailsKeeps ==
  ASSUME ExecInv, NEW c \in Calls, PatchFails(c)
  PROVE  ExecInv'
<1> USE ExecAssumption DEF ExecInv, Labels, Holding, Dead
<1>4. TypeOK' /\ Progress'
  BY DEF Progress, TypeOK, PatchFails, Goto, storeVars, callVars
<1>5. Owner'
  BY DEF TypeOK, Progress, Owner, PatchFails, Goto, storeVars, callVars
<1>6. Gone'
  BY DEF TypeOK, Progress, Gone, Ends, PatchFails, Goto, storeVars, callVars
<1>7. Ends'
  BY DEF TypeOK, Progress, Gone, Ends, PatchFails, Goto, storeVars, callVars
<1>8. Reach'
  BY DEF TypeOK, Progress, Owner, Gone, Ends, Reach, Reached, PatchFails, Goto, storeVars, callVars
<1>10. Shared'
  <2>1. \A x \in Calls : Uses(x)' => Uses(x)
    BY DEF TypeOK, Progress, Uses, Stored, PatchFails, Goto, storeVars, callVars
  <2> QED BY <2>1, SharedKept DEF PatchFails, Goto, storeVars, callVars
<1> QED BY <1>4, <1>5, <1>6, <1>7, <1>8, <1>10

(* Open preserves the invariant.                                            *)
LEMMA OpenKeeps ==
  ASSUME ExecInv, NEW c \in Calls, Open(c)
  PROVE  ExecInv'
<1> USE ExecAssumption DEF ExecInv, Labels, Holding, Dead
<1>4. TypeOK' /\ Progress'
  BY DEF Progress, TypeOK, Open, Goto, storeVars, callVars
<1>5. Owner'
  BY DEF TypeOK, Progress, Owner, Open, Goto, storeVars, callVars
<1>6. Gone'
  BY DEF TypeOK, Progress, Gone, Ends, Open, Goto, storeVars, callVars
<1>7. Ends'
  BY DEF TypeOK, Progress, Gone, Ends, Open, Goto, storeVars, callVars
<1>8. Reach'
  BY DEF TypeOK, Progress, Owner, Gone, Ends, Reach, Reached, Open, Goto, storeVars, callVars
<1>10. Shared'
  <2>1. \A x \in Calls : Uses(x)' => Uses(x)
    BY DEF TypeOK, Progress, Uses, Stored, Open, Goto, storeVars, callVars
  <2> QED BY <2>1, SharedKept DEF Open, Goto, storeVars, callVars
<1> QED BY <1>4, <1>5, <1>6, <1>7, <1>8, <1>10

(* ShortLived preserves the invariant.                                      *)
LEMMA ShortLivedKeeps ==
  ASSUME ExecInv, NEW c \in Calls, ShortLived(c)
  PROVE  ExecInv'
<1> USE ExecAssumption DEF ExecInv, Labels, Holding, Dead
<1>4. TypeOK' /\ Progress'
  BY DEF Progress, TypeOK, ShortLived, Goto, storeVars, callVars, HasExited
<1>5. Owner'
  BY DEF TypeOK, Progress, Owner, ShortLived, Goto, storeVars, callVars, HasExited
<1>6. Gone'
  BY DEF TypeOK, Progress, Gone, Ends, ShortLived, Goto, storeVars, callVars, HasExited
<1>7. Ends'
  BY DEF TypeOK, Progress, Gone, Ends, ShortLived, Goto, storeVars, callVars, HasExited
<1>8. Reach'
  BY DEF TypeOK, Progress, Owner, Gone, Ends, Reach, Reached, ShortLived, Goto, storeVars, callVars, HasExited
<1>10. Shared'
  <2>1. \A x \in Calls : Uses(x)' => Uses(x)
    BY DEF TypeOK, Progress, Uses, Stored, ShortLived, Goto, storeVars, callVars, HasExited
  <2> QED BY <2>1, SharedKept DEF ShortLived, Goto, storeVars, callVars, HasExited
<1> QED BY <1>4, <1>5, <1>6, <1>7, <1>8, <1>10

(* Rejected preserves the invariant.                                        *)
LEMMA RejectedKeeps ==
  ASSUME ExecInv, NEW c \in Calls, Rejected(c)
  PROVE  ExecInv'
<1> USE ExecAssumption DEF ExecInv, Labels, Holding, Dead
<1>1. Terminate({c})
  BY DEF Rejected
<1>2. /\ proc' \in [Calls -> {"none", "running"} \cup Dead]
      /\ token \subseteq token' /\ token' \subseteq Calls
      /\ \A x \in Calls : proc[x] \in Dead => proc'[x] \in Dead
      /\ \A x \in Calls : proc[x] = "none" <=> proc'[x] = "none"
      /\ \A x \in Calls : proc'[x] = "running" => proc[x] = "running"
      /\ \A x \in token' : proc'[x] \in Dead
  BY <1>1, TerminateEffect
<1>3. /\ \A x \in Calls : proc'[x] = "running" => x \notin {c} /\ Held(x)'
      /\ \A x \in Calls : x \in {c} /\ proc[x] # "none" => proc'[x] \in Dead
  BY <1>1, TerminateEffect
<1>4. TypeOK' /\ Progress'
  <2>1. TypeOK'
    BY <1>2 DEF TypeOK, Rejected, Goto, storeVars, callVars, HasExited
  <2>2. Progress'
    BY <1>2 DEF TypeOK, Progress, Rejected, Goto, storeVars, callVars, HasExited
  <2> QED BY <2>1, <2>2
<1>5. Owner'
  BY DEF TypeOK, Progress, Owner, Rejected, Goto, storeVars, callVars, HasExited
<1>6. Gone'
  BY <1>2, <1>3 DEF TypeOK, Progress, Gone, Ends, Rejected, Goto, storeVars, callVars, HasExited
<1>7. Ends'
  BY <1>2 DEF TypeOK, Progress, Gone, Ends, Rejected, Goto, storeVars, callVars, HasExited
<1>8. Reach'
  BY <1>2, <1>3 DEF TypeOK, Progress, Owner, Gone, Ends, Reach, Reached, Held, Pruning, Stored, Rejected, Goto, storeVars, callVars, HasExited
<1>10. Shared'
  <2>1. \A x \in Calls : Uses(x)' => Uses(x)
    BY <1>2 DEF TypeOK, Progress, Uses, Stored, Rejected, Goto, storeVars, callVars, HasExited
  <2> QED BY <2>1, SharedKept DEF Rejected, Goto, storeVars, callVars, HasExited
<1> QED BY <1>4, <1>5, <1>6, <1>7, <1>8, <1>10

(* LongLived preserves the invariant.                                       *)
LEMMA LongLivedKeeps ==
  ASSUME ExecInv, NEW c \in Calls, LongLived(c)
  PROVE  ExecInv'
<1> USE ExecAssumption DEF ExecInv, Labels, Holding, Dead
<1>4. TypeOK' /\ Progress'
  BY DEF Progress, TypeOK, LongLived, Goto, storeVars, callVars, HasExited
<1>5. Owner'
  BY DEF TypeOK, Progress, Owner, LongLived, Goto, storeVars, callVars, HasExited
<1>6. Gone'
  BY DEF TypeOK, Progress, Gone, Ends, LongLived, Goto, storeVars, callVars, HasExited
<1>7. Ends'
  BY DEF TypeOK, Progress, Gone, Ends, LongLived, Goto, storeVars, callVars, HasExited
<1>8. Reach'
  BY DEF TypeOK, Progress, Owner, Gone, Ends, Reach, Reached, LongLived, Goto, storeVars, callVars, HasExited
<1>10. Shared'
  <2>1. \A x \in Calls : Uses(x)' => Uses(x)
    BY DEF TypeOK, Progress, Uses, Stored, LongLived, Goto, storeVars, callVars, HasExited
  <2> QED BY <2>1, SharedKept DEF LongLived, Goto, storeVars, callVars, HasExited
<1> QED BY <1>4, <1>5, <1>6, <1>7, <1>8, <1>10

(* Release preserves the invariant.                                         *)
LEMMA ReleaseKeeps ==
  ASSUME ExecInv, NEW c \in Calls, Release(c)
  PROVE  ExecInv'
<1> USE ExecAssumption DEF ExecInv, Labels, Holding, Dead
<1>1. Terminate({})
  BY DEF Release
<1>2. /\ proc' \in [Calls -> {"none", "running"} \cup Dead]
      /\ token \subseteq token' /\ token' \subseteq Calls
      /\ \A x \in Calls : proc[x] \in Dead => proc'[x] \in Dead
      /\ \A x \in Calls : proc[x] = "none" <=> proc'[x] = "none"
      /\ \A x \in Calls : proc'[x] = "running" => proc[x] = "running"
      /\ \A x \in token' : proc'[x] \in Dead
  BY <1>1, TerminateEffect
<1>3. /\ \A x \in Calls : proc'[x] = "running" => x \notin {} /\ Held(x)'
      /\ \A x \in Calls : x \in {} /\ proc[x] # "none" => proc'[x] \in Dead
  BY <1>1, TerminateEffect
<1>4. TypeOK' /\ Progress'
  <2>1. TypeOK'
    BY <1>2 DEF TypeOK, MarkStale, Release, Goto, storeVars, callVars, Remove
  <2>2. Progress'
    BY <1>2 DEF TypeOK, Progress, Release, Goto, storeVars, callVars, Remove
  <2> QED BY <2>1, <2>2
<1>5. Owner'
  BY DEF TypeOK, Progress, Owner, Release, Goto, storeVars, callVars, Remove
<1>6. Gone'
  BY <1>2, <1>3 DEF TypeOK, Progress, Gone, Ends, Release, Goto, storeVars, callVars, Remove
<1>7. Ends'
  BY <1>2 DEF TypeOK, Progress, Gone, Ends, Release, Goto, storeVars, callVars, Remove
<1>8. Reach'
  BY <1>2, <1>3 DEF TypeOK, Progress, Owner, Gone, Ends, Reach, Reached, MarkStale, Shared, Uses, Stored, Held, Pruning, Stored, Release, Goto, storeVars, callVars, Remove
<1>10. Shared'
  <2>1. \A x \in Calls : Uses(x)' => Uses(x)
    BY <1>2 DEF TypeOK, Progress, Uses, Stored, Release, Goto, storeVars, callVars, Remove
  <2> QED BY <2>1, SharedKept DEF MarkStale, Release, Goto, storeVars, callVars, Remove
<1> QED BY <1>4, <1>5, <1>6, <1>7, <1>8, <1>10

(* A pruned entry is a process of a call.                                   *)
LEMMA PrunedRange == ASSUME TypeOK, NEW v \in Pruned PROVE v \in Calls \cup {None}
<1>1. Stored \subseteq Calls
  BY DEF Stored, TypeOK
<1>2. ToPrune \subseteq Stored
  BY Zenon DEF ToPrune, Prunable
<1> QED BY <1>1, <1>2 DEF Pruned

(* StoreProcess preserves the invariant.                                    *)
LEMMA StoreProcessKeeps ==
  ASSUME ExecInv, NEW c \in Calls, StoreProcess(c)
  PROVE  ExecInv'
<1> USE ExecAssumption DEF ExecInv, Labels, Holding, Dead
<1>1. Terminate({})
  BY DEF StoreProcess
<1>2. /\ proc' \in [Calls -> {"none", "running"} \cup Dead]
      /\ token \subseteq token' /\ token' \subseteq Calls
      /\ \A x \in Calls : proc[x] \in Dead => proc'[x] \in Dead
      /\ \A x \in Calls : proc[x] = "none" <=> proc'[x] = "none"
      /\ \A x \in Calls : proc'[x] = "running" => proc[x] = "running"
      /\ \A x \in token' : proc'[x] \in Dead
  BY <1>1, TerminateEffect
<1>3. PICK v \in Pruned :
        /\ store' = [i \in Ids |-> IF i = id[c] THEN c
                                   ELSE IF store[i] = v THEN None ELSE store[i]]
        /\ victim' = [victim EXCEPT ![c] = v]
        /\ \/ v = None /\ watch' = [watch EXCEPT ![c] = "on"] /\ pc' = [pc EXCEPT ![c] = "stored"]
           \/ v = None /\ watch' = watch /\ pc' = [pc EXCEPT ![c] = "warn"]
           \/ v # None /\ watch' = watch /\ pc' = [pc EXCEPT ![c] = "evict"]
  BY DEF StoreProcess, SpawnExitWatcher, Goto
<1>4. v \in Calls \cup {None}
  BY <1>3, PrunedRange
<1>5. /\ pc[c] = "store"
      /\ UNCHANGED <<id, denied, sweep, ends>>
  BY DEF StoreProcess
<1>6. TypeOK'
  BY <1>2, <1>3, <1>4, <1>5 DEF TypeOK, StoreProcess, MarkStale
<1>7. Progress'
  BY <1>2, <1>3, <1>5, <1>6 DEF TypeOK, Progress
<1>8. Owner'
  BY <1>3, <1>5 DEF TypeOK, Progress, Owner
<1>9. Gone'
  BY <1>2, <1>3, <1>5 DEF TypeOK, Progress, Gone
<1>10. Ends'
  BY <1>2, <1>3, <1>5 DEF TypeOK, Progress, Gone, Ends
<1>11. Reach'
  <2>1. stale \subseteq stale' /\ Uses(c)
    BY <1>5 DEF StoreProcess, MarkStale, Uses
  <2>2. \A x \in Calls : (\E i \in Ids : store[i] = x) => Uses(x)
    BY DEF Uses, Stored
  <2> SUFFICES ASSUME NEW x \in Calls, proc'[x] = "running"
               PROVE  (pc[x] \in {"collect", "store"} \/ Reached(x))'
    BY DEF Reach
  <2>3. pc[x] \in {"collect", "store"} \/ Reached(x)
    BY <1>2 DEF Reach
  <2>4. CASE pc[x] \in {"collect", "store"}
    BY <2>4, <1>3, <1>5 DEF TypeOK, Progress, Reached
  <2>5. ASSUME NEW i \in Ids, store[i] = x PROVE Reached(x)'
    <3>1. CASE i # id[c]
      BY <2>5, <3>1, <1>3, <1>5 DEF TypeOK, Reached
    <3>2. CASE i = id[c] /\ x # c
      BY <2>5, <3>2, <2>1, <2>2, <1>5 DEF TypeOK, Owner, Shared, Reached
    <3>3. CASE i = id[c] /\ x = c
      BY <2>5, <3>3, <1>3, <1>5 DEF TypeOK, Reached
    <3> QED BY <3>1, <3>2, <3>3
  <2>6. CASE x \in sweep
    BY <2>6, <1>5 DEF Reached
  <2>7. ASSUME NEW d \in Calls, victim[d] = x, pc[d] \in {"evict", "dropped"} PROVE Reached(x)'
    BY <2>7, <1>3, <1>5 DEF TypeOK, Progress, Reached
  <2>8. ASSUME NEW d \in Calls \ {x}, id[d] = id[x], {x, d} \cap stale # {} PROVE Reached(x)'
    BY <2>8, <2>1, <1>5 DEF Reached
  <2> QED BY <2>3, <2>4, <2>5, <2>6, <2>7, <2>8 DEF Reached
<1>12. Shared'
  <2>1. Stored' \subseteq Stored \cup {c}
    BY <1>3 DEF Stored
  <2>2. \A x \in Calls : Uses(x)' => Uses(x)
    BY <2>1, <1>2, <1>3, <1>5 DEF TypeOK, Uses
  <2> QED BY <2>2, <1>5, SharedKept DEF StoreProcess, MarkStale
<1> QED BY <1>6, <1>7, <1>8, <1>9, <1>10, <1>11, <1>12

(* Evict preserves the invariant.                                           *)
LEMMA EvictKeeps ==
  ASSUME ExecInv, NEW c \in Calls, Evict(c)
  PROVE  ExecInv'
<1> USE ExecAssumption DEF ExecInv, Labels, Holding, Dead
<1>1. Terminate({victim[c]})
  BY DEF Evict
<1>2. /\ proc' \in [Calls -> {"none", "running"} \cup Dead]
      /\ token \subseteq token' /\ token' \subseteq Calls
      /\ \A x \in Calls : proc[x] \in Dead => proc'[x] \in Dead
      /\ \A x \in Calls : proc[x] = "none" <=> proc'[x] = "none"
      /\ \A x \in Calls : proc'[x] = "running" => proc[x] = "running"
      /\ \A x \in token' : proc'[x] \in Dead
  BY <1>1, TerminateEffect
<1>3. /\ \A x \in Calls : proc'[x] = "running" => x \notin {victim[c]} /\ Held(x)'
      /\ \A x \in Calls : x \in {victim[c]} /\ proc[x] # "none" => proc'[x] \in Dead
  BY <1>1, TerminateEffect
<1>4. TypeOK' /\ Progress'
  <2>1. TypeOK'
    BY <1>2 DEF TypeOK, Evict, Goto, storeVars, callVars
  <2>2. Progress'
    BY <1>2 DEF TypeOK, Progress, Evict, Goto, storeVars, callVars
  <2> QED BY <2>1, <2>2
<1>5. Owner'
  BY DEF TypeOK, Progress, Owner, Evict, Goto, storeVars, callVars
<1>6. Gone'
  BY <1>2, <1>3 DEF TypeOK, Progress, Gone, Ends, Evict, Goto, storeVars, callVars
<1>7. Ends'
  BY <1>2 DEF TypeOK, Progress, Gone, Ends, Evict, Goto, storeVars, callVars
<1>8. Reach'
  BY <1>2, <1>3 DEF TypeOK, Progress, Owner, Gone, Ends, Reach, Reached, Held, Pruning, Stored, Evict, Goto, storeVars, callVars
<1>10. Shared'
  <2>1. \A x \in Calls : Uses(x)' => Uses(x)
    BY <1>2 DEF TypeOK, Progress, Uses, Stored, Evict, Goto, storeVars, callVars
  <2> QED BY <2>1, SharedKept DEF Evict, Goto, storeVars, callVars
<1> QED BY <1>4, <1>5, <1>6, <1>7, <1>8, <1>10

(* Warned preserves the invariant.                                          *)
LEMMA WarnedKeeps ==
  ASSUME ExecInv, NEW c \in Calls, Warned(c)
  PROVE  ExecInv'
<1> USE ExecAssumption DEF ExecInv, Labels, Holding, Dead
<1>4. TypeOK' /\ Progress'
  BY DEF Progress, TypeOK, Warned, Goto, storeVars, callVars, SpawnExitWatcher
<1>5. Owner'
  BY DEF TypeOK, Progress, Owner, Warned, Goto, storeVars, callVars, SpawnExitWatcher
<1>6. Gone'
  BY DEF TypeOK, Progress, Gone, Ends, Warned, Goto, storeVars, callVars, SpawnExitWatcher
<1>7. Ends'
  BY DEF TypeOK, Progress, Gone, Ends, Warned, Goto, storeVars, callVars, SpawnExitWatcher
<1>8. Reach'
  BY DEF TypeOK, Progress, Owner, Gone, Ends, Reach, Reached, Warned, Goto, storeVars, callVars, SpawnExitWatcher
<1>10. Shared'
  <2>1. \A x \in Calls : Uses(x)' => Uses(x)
    BY DEF TypeOK, Progress, Uses, Stored, Warned, Goto, storeVars, callVars, SpawnExitWatcher
  <2> QED BY <2>1, SharedKept DEF Warned, Goto, storeVars, callVars, SpawnExitWatcher
<1> QED BY <1>4, <1>5, <1>6, <1>7, <1>8, <1>10

(* DropCall preserves the invariant.                                        *)
LEMMA DropCallKeeps ==
  ASSUME ExecInv, NEW c \in Calls, DropCall(c)
  PROVE  ExecInv'
<1> USE ExecAssumption DEF ExecInv, Labels, Holding, Dead
<1>1. Terminate({})
  BY DEF DropCall
<1>2. /\ proc' \in [Calls -> {"none", "running"} \cup Dead]
      /\ token \subseteq token' /\ token' \subseteq Calls
      /\ \A x \in Calls : proc[x] \in Dead => proc'[x] \in Dead
      /\ \A x \in Calls : proc[x] = "none" <=> proc'[x] = "none"
      /\ \A x \in Calls : proc'[x] = "running" => proc[x] = "running"
      /\ \A x \in token' : proc'[x] \in Dead
  BY <1>1, TerminateEffect
<1>3. /\ \A x \in Calls : proc'[x] = "running" => x \notin {} /\ Held(x)'
      /\ \A x \in Calls : x \in {} /\ proc[x] # "none" => proc'[x] \in Dead
  BY <1>1, TerminateEffect
<1>4. TypeOK' /\ Progress'
  <2>1. TypeOK'
    BY <1>2 DEF TypeOK, DropCall, Goto, storeVars, callVars
  <2>2. Progress'
    BY <1>2 DEF TypeOK, Progress, DropCall, Goto, storeVars, callVars
  <2> QED BY <2>1, <2>2
<1>5. Owner'
  BY DEF TypeOK, Progress, Owner, DropCall, Goto, storeVars, callVars
<1>6. Gone'
  BY <1>2, <1>3 DEF TypeOK, Progress, Gone, Ends, DropCall, Goto, storeVars, callVars
<1>7. Ends'
  BY <1>2 DEF TypeOK, Progress, Gone, Ends, DropCall, Goto, storeVars, callVars
<1>8. Reach'
  BY <1>2, <1>3 DEF TypeOK, Progress, Owner, Gone, Ends, Reach, Reached, Held, Pruning, Stored, DropCall, Goto, storeVars, callVars
<1>10. Shared'
  <2>1. \A x \in Calls : Uses(x)' => Uses(x)
    BY <1>2 DEF TypeOK, Progress, Uses, Stored, DropCall, Goto, storeVars, callVars
  <2> QED BY <2>1, SharedKept DEF DropCall, Goto, storeVars, callVars
<1> QED BY <1>4, <1>5, <1>6, <1>7, <1>8, <1>10

(* Exit preserves the invariant.                                            *)
LEMMA ExitKeeps ==
  ASSUME ExecInv, NEW c \in Calls, Exit(c)
  PROVE  ExecInv'
<1> USE ExecAssumption DEF ExecInv, Labels, Holding, Dead
<1>4. TypeOK' /\ Progress'
  BY DEF Progress, TypeOK, Exit, Goto, storeVars, callVars
<1>5. Owner'
  BY DEF TypeOK, Progress, Owner, Exit, Goto, storeVars, callVars
<1>6. Gone'
  BY DEF TypeOK, Progress, Gone, Ends, Exit, Goto, storeVars, callVars
<1>7. Ends'
  BY DEF TypeOK, Progress, Gone, Ends, Exit, Goto, storeVars, callVars
<1>8. Reach'
  BY DEF TypeOK, Progress, Owner, Gone, Ends, Reach, Reached, Exit, Goto, storeVars, callVars
<1>10. Shared'
  <2>1. \A x \in Calls : Uses(x)' => Uses(x)
    BY DEF TypeOK, Progress, Uses, Stored, Exit, Goto, storeVars, callVars
  <2> QED BY <2>1, SharedKept DEF Exit, Goto, storeVars, callVars
<1> QED BY <1>4, <1>5, <1>6, <1>7, <1>8, <1>10

(* SignalExit preserves the invariant.                                      *)
LEMMA SignalExitKeeps ==
  ASSUME ExecInv, NEW c \in Calls, SignalExit(c)
  PROVE  ExecInv'
<1> USE ExecAssumption DEF ExecInv, Labels, Holding, Dead
<1>4. TypeOK' /\ Progress'
  BY DEF Progress, TypeOK, SignalExit, Goto, storeVars, callVars, HasExited
<1>5. Owner'
  BY DEF TypeOK, Progress, Owner, SignalExit, Goto, storeVars, callVars, HasExited
<1>6. Gone'
  BY DEF TypeOK, Progress, Gone, Ends, SignalExit, Goto, storeVars, callVars, HasExited
<1>7. Ends'
  BY DEF TypeOK, Progress, Gone, Ends, SignalExit, Goto, storeVars, callVars, HasExited
<1>8. Reach'
  BY DEF TypeOK, Progress, Owner, Gone, Ends, Reach, Reached, SignalExit, Goto, storeVars, callVars, HasExited
<1>10. Shared'
  <2>1. \A x \in Calls : Uses(x)' => Uses(x)
    BY DEF TypeOK, Progress, Uses, Stored, SignalExit, Goto, storeVars, callVars, HasExited
  <2> QED BY <2>1, SharedKept DEF SignalExit, Goto, storeVars, callVars, HasExited
<1> QED BY <1>4, <1>5, <1>6, <1>7, <1>8, <1>10

(* OutputDrained preserves the invariant.                                   *)
LEMMA OutputDrainedKeeps ==
  ASSUME ExecInv, NEW c \in Calls, OutputDrained(c)
  PROVE  ExecInv'
<1> USE ExecAssumption DEF ExecInv, Labels, Holding, Dead
<1>4. TypeOK' /\ Progress'
  BY DEF Progress, TypeOK, OutputDrained, Goto, storeVars, callVars
<1>5. Owner'
  BY DEF TypeOK, Progress, Owner, OutputDrained, Goto, storeVars, callVars
<1>6. Gone'
  BY DEF TypeOK, Progress, Gone, Ends, OutputDrained, Goto, storeVars, callVars
<1>7. Ends'
  BY DEF TypeOK, Progress, Gone, Ends, OutputDrained, Goto, storeVars, callVars
<1>8. Reach'
  BY DEF TypeOK, Progress, Owner, Gone, Ends, Reach, Reached, OutputDrained, Goto, storeVars, callVars
<1>10. Shared'
  <2>1. \A x \in Calls : Uses(x)' => Uses(x)
    BY DEF TypeOK, Progress, Uses, Stored, OutputDrained, Goto, storeVars, callVars
  <2> QED BY <2>1, SharedKept DEF OutputDrained, Goto, storeVars, callVars
<1> QED BY <1>4, <1>5, <1>6, <1>7, <1>8, <1>10

(* WatcherEmits preserves the invariant.                                    *)
LEMMA WatcherEmitsKeeps ==
  ASSUME ExecInv, NEW c \in Calls, WatcherEmits(c)
  PROVE  ExecInv'
<1> USE ExecAssumption DEF ExecInv, Labels, Holding, Dead
<1>1. Terminate({})
  BY DEF WatcherEmits
<1>2. /\ proc' \in [Calls -> {"none", "running"} \cup Dead]
      /\ token \subseteq token' /\ token' \subseteq Calls
      /\ \A x \in Calls : proc[x] \in Dead => proc'[x] \in Dead
      /\ \A x \in Calls : proc[x] = "none" <=> proc'[x] = "none"
      /\ \A x \in Calls : proc'[x] = "running" => proc[x] = "running"
      /\ \A x \in token' : proc'[x] \in Dead
  BY <1>1, TerminateEffect
<1>3. /\ \A x \in Calls : proc'[x] = "running" => x \notin {} /\ Held(x)'
      /\ \A x \in Calls : x \in {} /\ proc[x] # "none" => proc'[x] \in Dead
  BY <1>1, TerminateEffect
<1>9. ends' \in [Calls -> Nat] /\ watch' \in [Calls -> {"none", "on", "done"}]
  BY DEF TypeOK, WatcherEmits
<1>4. TypeOK' /\ Progress'
  <2>1. TypeOK'
    BY <1>2, <1>9 DEF TypeOK, WatcherEmits, Goto, storeVars, callVars
  <2>2. Progress'
    BY <1>2, <1>9 DEF TypeOK, Progress, WatcherEmits, Goto, storeVars, callVars
  <2> QED BY <2>1, <2>2
<1>5. Owner'
  BY DEF TypeOK, Progress, Owner, WatcherEmits, Goto, storeVars, callVars
<1>6. Gone'
  BY <1>2, <1>3 DEF TypeOK, Progress, Gone, Ends, WatcherEmits, Goto, storeVars, callVars
<1>7. Ends'
  BY <1>2, <1>9 DEF TypeOK, Progress, Gone, Ends, WatcherEmits, Goto, storeVars, callVars
<1>8. Reach'
  BY <1>2, <1>3 DEF TypeOK, Progress, Owner, Gone, Ends, Reach, Reached, Held, Pruning, Stored, WatcherEmits, Goto, storeVars, callVars
<1>10. Shared'
  <2>1. \A x \in Calls : Uses(x)' => Uses(x)
    BY <1>2, <1>9 DEF TypeOK, Progress, Uses, Stored, WatcherEmits, Goto, storeVars, callVars
  <2> QED BY <2>1, SharedKept DEF WatcherEmits, Goto, storeVars, callVars
<1> QED BY <1>4, <1>5, <1>6, <1>7, <1>8, <1>10

(* DenialKills preserves the invariant.                                     *)
LEMMA DenialKillsKeeps ==
  ASSUME ExecInv, NEW c \in Calls, DenialKills(c)
  PROVE  ExecInv'
<1> USE ExecAssumption DEF ExecInv, Labels, Holding, Dead
<1>1. Terminate({c})
  BY DEF DenialKills
<1>2. /\ proc' \in [Calls -> {"none", "running"} \cup Dead]
      /\ token \subseteq token' /\ token' \subseteq Calls
      /\ \A x \in Calls : proc[x] \in Dead => proc'[x] \in Dead
      /\ \A x \in Calls : proc[x] = "none" <=> proc'[x] = "none"
      /\ \A x \in Calls : proc'[x] = "running" => proc[x] = "running"
      /\ \A x \in token' : proc'[x] \in Dead
  BY <1>1, TerminateEffect
<1>3. /\ \A x \in Calls : proc'[x] = "running" => x \notin {c} /\ Held(x)'
      /\ \A x \in Calls : x \in {c} /\ proc[x] # "none" => proc'[x] \in Dead
  BY <1>1, TerminateEffect
<1>4. TypeOK' /\ Progress'
  <2>1. TypeOK'
    BY <1>2 DEF TypeOK, DenialKills, Goto, storeVars, callVars
  <2>2. Progress'
    BY <1>2 DEF TypeOK, Progress, DenialKills, Goto, storeVars, callVars
  <2> QED BY <2>1, <2>2
<1>5. Owner'
  BY DEF TypeOK, Progress, Owner, DenialKills, Goto, storeVars, callVars
<1>6. Gone'
  BY <1>2, <1>3 DEF TypeOK, Progress, Gone, Ends, DenialKills, Goto, storeVars, callVars
<1>7. Ends'
  BY <1>2 DEF TypeOK, Progress, Gone, Ends, DenialKills, Goto, storeVars, callVars
<1>8. Reach'
  BY <1>2, <1>3 DEF TypeOK, Progress, Owner, Gone, Ends, Reach, Reached, Held, Pruning, Stored, DenialKills, Goto, storeVars, callVars
<1>10. Shared'
  <2>1. \A x \in Calls : Uses(x)' => Uses(x)
    BY <1>2 DEF TypeOK, Progress, Uses, Stored, DenialKills, Goto, storeVars, callVars
  <2> QED BY <2>1, SharedKept DEF DenialKills, Goto, storeVars, callVars
<1> QED BY <1>4, <1>5, <1>6, <1>7, <1>8, <1>10

(* DenialReleases preserves the invariant.                                  *)
LEMMA DenialReleasesKeeps ==
  ASSUME ExecInv, NEW c \in Calls, DenialReleases(c)
  PROVE  ExecInv'
<1> USE ExecAssumption DEF ExecInv, Labels, Holding, Dead
<1>1. Terminate({})
  BY DEF DenialReleases
<1>2. /\ proc' \in [Calls -> {"none", "running"} \cup Dead]
      /\ token \subseteq token' /\ token' \subseteq Calls
      /\ \A x \in Calls : proc[x] \in Dead => proc'[x] \in Dead
      /\ \A x \in Calls : proc[x] = "none" <=> proc'[x] = "none"
      /\ \A x \in Calls : proc'[x] = "running" => proc[x] = "running"
      /\ \A x \in token' : proc'[x] \in Dead
  BY <1>1, TerminateEffect
<1>3. /\ \A x \in Calls : proc'[x] = "running" => x \notin {} /\ Held(x)'
      /\ \A x \in Calls : x \in {} /\ proc[x] # "none" => proc'[x] \in Dead
  BY <1>1, TerminateEffect
<1>4. TypeOK' /\ Progress'
  <2>1. TypeOK'
    BY <1>2 DEF TypeOK, MarkStale, DenialReleases, Goto, storeVars, callVars, Remove
  <2>2. Progress'
    BY <1>2 DEF TypeOK, Progress, DenialReleases, Goto, storeVars, callVars, Remove
  <2> QED BY <2>1, <2>2
<1>5. Owner'
  BY DEF TypeOK, Progress, Owner, DenialReleases, Goto, storeVars, callVars, Remove
<1>6. Gone'
  BY <1>2, <1>3 DEF TypeOK, Progress, Gone, Ends, DenialReleases, Goto, storeVars, callVars, Remove
<1>7. Ends'
  BY <1>2 DEF TypeOK, Progress, Gone, Ends, DenialReleases, Goto, storeVars, callVars, Remove
<1>8. Reach'
  BY <1>2, <1>3 DEF TypeOK, Progress, Owner, Gone, Ends, Reach, Reached, MarkStale, Shared, Uses, Stored, Held, Pruning, Stored, DenialReleases, Goto, storeVars, callVars, Remove
<1>10. Shared'
  <2>1. \A x \in Calls : Uses(x)' => Uses(x)
    BY <1>2 DEF TypeOK, Progress, Uses, Stored, DenialReleases, Goto, storeVars, callVars, Remove
  <2> QED BY <2>1, SharedKept DEF MarkStale, DenialReleases, Goto, storeVars, callVars, Remove
<1> QED BY <1>4, <1>5, <1>6, <1>7, <1>8, <1>10

(* PrepareProcessHandles preserves the invariant.                           *)
LEMMA PrepareProcessHandlesKeeps ==
  ASSUME ExecInv, NEW i \in Ids, PrepareProcessHandles(i)
  PROVE  ExecInv'
<1> USE ExecAssumption DEF ExecInv, Labels, Holding, Dead
<1>4. TypeOK' /\ Progress'
  BY DEF Progress, TypeOK, PrepareProcessHandles, Goto, storeVars, callVars
<1>5. Owner'
  BY DEF TypeOK, Progress, Owner, PrepareProcessHandles, Goto, storeVars, callVars
<1>6. Gone'
  BY DEF TypeOK, Progress, Gone, Ends, PrepareProcessHandles, Goto, storeVars, callVars
<1>7. Ends'
  BY DEF TypeOK, Progress, Gone, Ends, PrepareProcessHandles, Goto, storeVars, callVars
<1>8. Reach'
  BY DEF TypeOK, Progress, Owner, Gone, Ends, Reach, Reached, PrepareProcessHandles, Goto, storeVars, callVars
<1>10. Shared'
  <2>1. \A x \in Calls : Uses(x)' => Uses(x)
    BY DEF TypeOK, Progress, Uses, Stored, PrepareProcessHandles, Goto, storeVars, callVars
  <2> QED BY <2>1, SharedKept DEF PrepareProcessHandles, Goto, storeVars, callVars
<1> QED BY <1>4, <1>5, <1>6, <1>7, <1>8, <1>10

(* RefreshProcessState preserves the invariant.                             *)
LEMMA RefreshProcessStateKeeps ==
  ASSUME ExecInv, RefreshProcessState
  PROVE  ExecInv'
<1> USE ExecAssumption DEF ExecInv, Labels, Holding, Dead
<1>1. Terminate({})
  BY DEF RefreshProcessState
<1>2. /\ proc' \in [Calls -> {"none", "running"} \cup Dead]
      /\ token \subseteq token' /\ token' \subseteq Calls
      /\ \A x \in Calls : proc[x] \in Dead => proc'[x] \in Dead
      /\ \A x \in Calls : proc[x] = "none" <=> proc'[x] = "none"
      /\ \A x \in Calls : proc'[x] = "running" => proc[x] = "running"
      /\ \A x \in token' : proc'[x] \in Dead
  BY <1>1, TerminateEffect
<1>3. /\ \A x \in Calls : proc'[x] = "running" => x \notin {} /\ Held(x)'
      /\ \A x \in Calls : x \in {} /\ proc[x] # "none" => proc'[x] \in Dead
  BY <1>1, TerminateEffect
<1>4. TypeOK' /\ Progress'
  <2>1. TypeOK'
    BY <1>2 DEF TypeOK, MarkStale, RefreshProcessState, Goto, storeVars, callVars, Remove, HasExited
  <2>2. Progress'
    BY <1>2 DEF TypeOK, Progress, RefreshProcessState, Goto, storeVars, callVars, Remove, HasExited
  <2> QED BY <2>1, <2>2
<1>5. Owner'
  BY DEF TypeOK, Progress, Owner, RefreshProcessState, Goto, storeVars, callVars, Remove, HasExited
<1>6. Gone'
  BY <1>2, <1>3 DEF TypeOK, Progress, Gone, Ends, RefreshProcessState, Goto, storeVars, callVars, Remove, HasExited
<1>7. Ends'
  BY <1>2 DEF TypeOK, Progress, Gone, Ends, RefreshProcessState, Goto, storeVars, callVars, Remove, HasExited
<1>8. Reach'
  BY <1>2, <1>3 DEF TypeOK, Progress, Owner, Gone, Ends, Reach, Reached, MarkStale, Shared, Uses, Stored, Held, Pruning, Stored, RefreshProcessState, Goto, storeVars, callVars, Remove, HasExited
<1>10. Shared'
  <2>1. \A x \in Calls : Uses(x)' => Uses(x)
    BY <1>2 DEF TypeOK, Progress, Uses, Stored, RefreshProcessState, Goto, storeVars, callVars, Remove, HasExited
  <2> QED BY <2>1, SharedKept DEF MarkStale, RefreshProcessState, Goto, storeVars, callVars, Remove, HasExited
<1> QED BY <1>4, <1>5, <1>6, <1>7, <1>8, <1>10

(* PollEnds preserves the invariant.                                        *)
LEMMA PollEndsKeeps ==
  ASSUME ExecInv, PollEnds
  PROVE  ExecInv'
<1> USE ExecAssumption DEF ExecInv, Labels, Holding, Dead
<1>4. TypeOK' /\ Progress'
  BY DEF Progress, TypeOK, PollEnds, Goto, storeVars, callVars
<1>5. Owner'
  BY DEF TypeOK, Progress, Owner, PollEnds, Goto, storeVars, callVars
<1>6. Gone'
  BY DEF TypeOK, Progress, Gone, Ends, PollEnds, Goto, storeVars, callVars
<1>7. Ends'
  BY DEF TypeOK, Progress, Gone, Ends, PollEnds, Goto, storeVars, callVars
<1>8. Reach'
  BY DEF TypeOK, Progress, Owner, Gone, Ends, Reach, Reached, PollEnds, Goto, storeVars, callVars
<1>10. Shared'
  <2>1. \A x \in Calls : Uses(x)' => Uses(x)
    BY DEF TypeOK, Progress, Uses, Stored, PollEnds, Goto, storeVars, callVars
  <2> QED BY <2>1, SharedKept DEF PollEnds, Goto, storeVars, callVars
<1> QED BY <1>4, <1>5, <1>6, <1>7, <1>8, <1>10

(* Sweep preserves the invariant.                                           *)
LEMMA SweepKeeps ==
  ASSUME ExecInv, Sweep
  PROVE  ExecInv'
<1> USE ExecAssumption DEF ExecInv, Labels, Holding, Dead
<1>4. TypeOK' /\ Progress'
  BY DEF Progress, TypeOK, MarkStale, Sweep, Goto, storeVars, callVars, Stored
<1>5. Owner'
  BY DEF TypeOK, Progress, Owner, Sweep, Goto, storeVars, callVars, Stored
<1>6. Gone'
  BY DEF TypeOK, Progress, Gone, Ends, Sweep, Goto, storeVars, callVars, Stored
<1>7. Ends'
  BY DEF TypeOK, Progress, Gone, Ends, Sweep, Goto, storeVars, callVars, Stored
<1>8. Reach'
  BY DEF TypeOK, Progress, Owner, Gone, Ends, Reach, Reached, MarkStale, Sweep, Goto, storeVars, callVars, Stored
<1>10. Shared'
  <2>1. \A x \in Calls : Uses(x)' => Uses(x)
    BY DEF TypeOK, Progress, Uses, Stored, Sweep, Goto, storeVars, callVars, Stored
  <2> QED BY <2>1, SharedKept DEF MarkStale, Sweep, Goto, storeVars, callVars, Stored
<1> QED BY <1>4, <1>5, <1>6, <1>7, <1>8, <1>10

(* SweepKills preserves the invariant.                                      *)
LEMMA SweepKillsKeeps ==
  ASSUME ExecInv, NEW c \in Calls, SweepKills(c)
  PROVE  ExecInv'
<1> USE ExecAssumption DEF ExecInv, Labels, Holding, Dead
<1>1. Terminate({c})
  BY DEF SweepKills
<1>2. /\ proc' \in [Calls -> {"none", "running"} \cup Dead]
      /\ token \subseteq token' /\ token' \subseteq Calls
      /\ \A x \in Calls : proc[x] \in Dead => proc'[x] \in Dead
      /\ \A x \in Calls : proc[x] = "none" <=> proc'[x] = "none"
      /\ \A x \in Calls : proc'[x] = "running" => proc[x] = "running"
      /\ \A x \in token' : proc'[x] \in Dead
  BY <1>1, TerminateEffect
<1>3. /\ \A x \in Calls : proc'[x] = "running" => x \notin {c} /\ Held(x)'
      /\ \A x \in Calls : x \in {c} /\ proc[x] # "none" => proc'[x] \in Dead
  BY <1>1, TerminateEffect
<1>4. TypeOK' /\ Progress'
  <2>1. TypeOK'
    BY <1>2 DEF TypeOK, SweepKills, Goto, storeVars, callVars
  <2>2. Progress'
    BY <1>2 DEF TypeOK, Progress, SweepKills, Goto, storeVars, callVars
  <2> QED BY <2>1, <2>2
<1>5. Owner'
  BY DEF TypeOK, Progress, Owner, SweepKills, Goto, storeVars, callVars
<1>6. Gone'
  BY <1>2, <1>3 DEF TypeOK, Progress, Gone, Ends, SweepKills, Goto, storeVars, callVars
<1>7. Ends'
  BY <1>2 DEF TypeOK, Progress, Gone, Ends, SweepKills, Goto, storeVars, callVars
<1>8. Reach'
  BY <1>2, <1>3 DEF TypeOK, Progress, Owner, Gone, Ends, Reach, Reached, Held, Pruning, Stored, SweepKills, Goto, storeVars, callVars
<1>10. Shared'
  <2>1. \A x \in Calls : Uses(x)' => Uses(x)
    BY <1>2 DEF TypeOK, Progress, Uses, Stored, SweepKills, Goto, storeVars, callVars
  <2> QED BY <2>1, SharedKept DEF SweepKills, Goto, storeVars, callVars
<1> QED BY <1>4, <1>5, <1>6, <1>7, <1>8, <1>10

(* The invariant holds in every state of the process manager.               *)
THEOREM ExecInvariance == Spec => []ExecInv
<1>1. Init => ExecInv
  <2> SUFFICES ASSUME Init PROVE ExecInv
    OBVIOUS
  <2>1. TypeOK
    BY DEF Init, TypeOK, Labels, Dead
  <2>2. Progress /\ Owner /\ Gone /\ Ends /\ Reach /\ Shared
    BY DEF Init, Progress, Owner, Gone, Ends, Reach, Holding, Shared, Uses, Stored
  <2> QED BY <2>1, <2>2 DEF ExecInv
<1>2. ExecInv /\ [Next]_vars => ExecInv'
  <2> SUFFICES ASSUME ExecInv, [Next]_vars PROVE ExecInv'
    OBVIOUS
  <2>1. CASE UNCHANGED vars
    BY <2>1 DEF vars, storeVars, callVars, ExecInv, TypeOK, Progress, Owner, Gone, Ends,
                Reach, Reached, Shared, Uses, Stored
  <2>2. ASSUME NEW c \in Calls, CallStep(c) PROVE ExecInv'
    BY <2>2, AllocateProcessIdKeeps, NotOpenedKeeps, PatchFailsKeeps, OpenKeeps,
       ShortLivedKeeps, RejectedKeeps, LongLivedKeeps, ReleaseKeeps,
       StoreProcessKeeps, EvictKeeps, WarnedKeeps, DropCallKeeps DEF CallStep
  <2>3. ASSUME NEW c \in Calls, ProcessStep(c) PROVE ExecInv'
    BY <2>3, ExitKeeps, SignalExitKeeps, OutputDrainedKeeps, WatcherEmitsKeeps,
       DenialKillsKeeps, DenialReleasesKeeps DEF ProcessStep
  <2>4. ASSUME SessionStep PROVE ExecInv'
    BY <2>4, PrepareProcessHandlesKeeps, RefreshProcessStateKeeps, PollEndsKeeps,
       SweepKeeps, SweepKillsKeeps DEF SessionStep
  <2> QED BY <2>1, <2>2, <2>3, <2>4 DEF Next
<1> QED BY <1>1, <1>2, PTL DEF Spec

(* EndedOnce: one ExecCommandEnd at most, and none before the process is    *)
(* gone, for any number of concurrent exec_commands.                        *)
THEOREM OneEndPerCommand == Spec => []EndedOnce
<1>1. ExecInv => EndedOnce
  BY DEF ExecInv, TypeOK, Ends, EndedOnce, Dead
<1> QED BY <1>1, ExecInvariance, PTL

(* RunningIsReachable: a process is lost only by a call that was dropped    *)
(* between pruning it and terminating it, or by an id that was freed behind *)
(* the back of a call.                                                      *)
THEOREM NoProcessIsLost == Spec => []RunningIsReachable
<1>1. ExecInv => RunningIsReachable
  <2> SUFFICES ASSUME ExecInv, NEW c \in Calls, proc[c] = "running"
               PROVE  \/ pc[c] \in Holding
                      \/ c \in Stored \cup sweep
                      \/ \E d \in Calls : victim[d] = c /\ pc[d] \in {"evict", "dropped"}
                      \/ \E d \in Calls \ {c} : id[d] = id[c] /\ {c, d} \cap stale # {}
    BY DEF RunningIsReachable
  <2>1. pc[c] \in {"collect", "store"} \/ Reached(c)
    BY DEF ExecInv, Reach
  <2>2. ASSUME NEW i \in Ids, store[i] = c PROVE c \in Stored
    BY <2>2, ExecAssumption DEF Stored
  <2> QED BY <2>1, <2>2 DEF Reached, Holding
<1> QED BY <1>1, ExecInvariance, PTL

-----------------------------------------------------------------------------
(* The limit of the store.  It holds because a full store always has an     *)
(* entry to prune: last_used orders the opened processes totally, so that   *)
(* any set of them has an oldest, and the oldest entry of a full store is   *)
(* not protected.                                                           *)

Opened == {c \in Calls : proc[c] # "none"}

Oldest(T, c) == c \in T /\ \A d \in T \ {c} : Before(c, d)

EntriesOpened == \A i \in Ids : store[i] # None => store[i] \in Opened

OldestExists == \A T \in SUBSET Opened : T # {} => \E c \in T : Oldest(T, c)

LimitInv == EntriesOpened /\ OldestExists /\ TableWithinLimit

(* The entries of the store are finitely many processes that were opened.   *)
LEMMA StoredFacts ==
  ASSUME TypeOK
  PROVE  /\ Stored \subseteq Calls
         /\ IsFiniteSet(Stored) /\ Cardinality(Stored) \in Nat
         /\ \A i \in Ids : store[i] # None => store[i] \in Stored
         /\ \A c \in Stored : \E i \in Ids : store[i] = c
         /\ EntriesOpened => Stored \subseteq Opened
<1>1. Stored \subseteq Calls
  BY DEF Stored, TypeOK
<1>2. IsFiniteSet(Stored)
  BY <1>1, FS_Subset, ExecAssumption
<1>3. Cardinality(Stored) \in Nat
  BY <1>2, FS_CardinalityType
<1>4. \A c \in Stored : c # None /\ \E i \in Ids : store[i] = c
  BY Zenon DEF Stored
<1>5. \A i \in Ids : store[i] # None => store[i] \in Stored
  BY Zenon DEF Stored
<1> QED BY <1>1, <1>2, <1>3, <1>4, <1>5 DEF EntriesOpened

(* A step that adds no entry, opens nothing and touches nothing.            *)
LEMMA QuietKeepsLimit ==
  ASSUME TypeOK, TypeOK', LimitInv,
         \A i \in Ids : store'[i] = store[i] \/ store'[i] = None,
         \A c \in Calls : proc'[c] = "none" <=> proc[c] = "none",
         recency' = recency
  PROVE  LimitInv'
<1>1. Opened' = Opened
  BY DEF Opened
<1>2. EntriesOpened'
  BY <1>1 DEF LimitInv, EntriesOpened
<1>3. OldestExists'
  BY <1>1, Zenon DEF LimitInv, OldestExists, Oldest, Before
<1>4. Stored' \subseteq Stored
  <2>1. \A c \in Stored' : c # None /\ \E i \in Ids : store'[i] = c
    BY Zenon DEF Stored
  <2> QED BY <2>1, StoredFacts
<1>5. Cardinality(Stored') <= Cardinality(Stored) /\ Cardinality(Stored') \in Nat
  BY <1>4, StoredFacts, FS_Subset, FS_CardinalityType
<1>6. TableWithinLimit'
  BY <1>5, StoredFacts, ExecAssumption DEF LimitInv, TableWithinLimit
<1> QED BY <1>2, <1>3, <1>6 DEF LimitInv

(* After a touch of x, which is open by then, there still is an oldest: x   *)
(* only where it is alone.                                                  *)
LEMMA TouchKeepsOldest ==
  ASSUME OldestExists, NEW x \in Calls, Touch(x),
         Opened' = Opened \cup {x}
  PROVE  OldestExists'
<1> SUFFICES ASSUME NEW T \in SUBSET (Opened \cup {x}), T # {}
             PROVE  \E c \in T : c \in T /\ \A d \in T \ {c} : <<c, d>> \in recency'
  BY Zenon DEF OldestExists, Oldest, Before
<1>1. /\ \A c, d : <<c, d>> \in recency /\ c # x /\ d # x => <<c, d>> \in recency'
      /\ \A c \in Opened \ {x} : <<c, x>> \in recency'
  BY DEF Touch, Opened
<1>2. CASE T = {x}
  BY <1>2
<1>3. CASE T # {x}
  <2>1. T \ {x} \in SUBSET Opened /\ T \ {x} # {}
    BY <1>3
  <2>2. PICK c \in T \ {x} : \A d \in (T \ {x}) \ {c} : <<c, d>> \in recency
    BY <2>1, Zenon DEF OldestExists, Oldest, Before
  <2> QED BY <2>2, <1>1
<1> QED BY <1>2, <1>3

(* A full store has an entry to prune.                                      *)
LEMMA FullStoreIsPruned ==
  ASSUME TypeOK, LimitInv, Cardinality(Stored) >= MaxProcesses
  PROVE  ToPrune # {}
<1>1. Stored \in SUBSET Opened
  BY StoredFacts DEF LimitInv
<1>2. Stored # {}
  BY FS_EmptySet, ExecAssumption
<1>3. PICK c \in Stored : \A d \in Stored \ {c} : Before(c, d)
  BY <1>1, <1>2, Zenon DEF LimitInv, OldestExists, Oldest
<1> DEFINE newer == {d \in Stored : Before(c, d)}
<1>4. Cardinality(Stored \ {c}) = Cardinality(Stored) - 1 /\ IsFiniteSet(newer)
  BY <1>3, StoredFacts, FS_RemoveElement, FS_Subset
<1>5. Cardinality(Stored \ {c}) <= Cardinality(newer) /\ Cardinality(newer) \in Nat
  BY <1>3, <1>4, FS_Subset, FS_CardinalityType
<1>6. Cardinality(newer) >= Protected
  BY <1>4, <1>5, StoredFacts, ExecAssumption
<1>7. c \in Prunable
  BY <1>3, <1>6, Zenon DEF Prunable
<1> DEFINE exited == {e \in Prunable : HasExited(e)}
           pool   == IF exited # {} THEN exited ELSE Prunable
<1>8. pool # {} /\ pool \subseteq Stored
  BY <1>7, Zenon DEF Prunable
<1> HIDE DEF pool
<1>9. PICK v \in pool : \A d \in pool \ {v} : Before(v, d)
  BY <1>1, <1>8, Zenon DEF LimitInv, OldestExists, Oldest
<1>10. ToPrune = {e \in pool : \A d \in pool \ {e} : Before(e, d)}
  BY Zenon DEF ToPrune, pool
<1> QED BY <1>9, <1>10

(* store_process adds one entry, and to a full store only after pruning.    *)
LEMMA StoreProcessKeepsLimit ==
  ASSUME ExecInv, ExecInv', LimitInv, NEW c \in Calls, StoreProcess(c)
  PROVE  LimitInv'
<1> USE DEF ExecInv
<1>1. \A x \in Calls : proc[x] = "none" <=> proc'[x] = "none"
  BY TerminateEffect DEF StoreProcess
<1>2. Opened' = Opened /\ c \in Opened
  BY <1>1 DEF Opened, StoreProcess, Progress, Holding
<1>3. recency' = recency
  BY DEF StoreProcess
<1>4. OldestExists'
  BY <1>2, <1>3, Zenon DEF LimitInv, OldestExists, Oldest, Before
<1>5. PICK v \in Pruned :
        store' = [i \in Ids |-> IF i = id[c] THEN c
                                ELSE IF store[i] = v THEN None ELSE store[i]]
  BY DEF StoreProcess
<1>6. EntriesOpened'
  BY <1>2, <1>5 DEF LimitInv, EntriesOpened
<1>7. Stored' \subseteq (Stored \ {v}) \cup {c}
  <2>1. \A x \in Stored' : x # None /\ \E i \in Ids : store'[i] = x
    BY Zenon DEF Stored
  <2> QED BY <2>1, <1>5, StoredFacts
<1> DEFINE rest == Stored \ {v}
<1>8. /\ IsFiniteSet(rest) /\ Cardinality(rest) \in Nat
      /\ Cardinality(rest) = IF v \in Stored THEN Cardinality(Stored) - 1
                                             ELSE Cardinality(Stored)
  BY StoredFacts, FS_RemoveElement, FS_CardinalityType
<1> HIDE DEF rest
<1>9. Cardinality(Stored') \in Nat /\ Cardinality(Stored') <= Cardinality(rest) + 1
  <2>1. IsFiniteSet(rest \cup {c}) /\ Cardinality(rest \cup {c}) \in Nat
    BY <1>8, FS_AddElement, FS_CardinalityType
  <2>2. Cardinality(rest \cup {c}) <= Cardinality(rest) + 1
    <3>1. Cardinality(rest \cup {c}) =
            IF c \in rest THEN Cardinality(rest) ELSE Cardinality(rest) + 1
      BY <1>8, FS_AddElement, Zenon
    <3> QED BY <1>8, <3>1
  <2>3. Stored' \in SUBSET (rest \cup {c})
    BY <1>7 DEF rest
  <2>4. IsFiniteSet(Stored') /\ Cardinality(Stored') <= Cardinality(rest \cup {c})
    BY <2>1, <2>3, FS_Subset
  <2>5. Cardinality(Stored') \in Nat
    BY <2>4, FS_CardinalityType
  <2> QED BY <1>8, <2>1, <2>2, <2>4, <2>5
<1>10. CASE Cardinality(Stored) < MaxProcesses
  <2>1. TableWithinLimit'
    BY <1>8, <1>9, <1>10, StoredFacts, ExecAssumption DEF TableWithinLimit
  <2> QED BY <1>4, <1>6, <2>1 DEF LimitInv
<1>11. CASE ~ (Cardinality(Stored) < MaxProcesses)
  <2>1. Cardinality(Stored) >= MaxProcesses
    BY <1>11, StoredFacts, ExecAssumption
  <2>2. ToPrune # {}
    BY <2>1, FullStoreIsPruned
  <2>3. v \in ToPrune
    BY <1>11, <2>2, Zenon DEF Pruned
  <2>4. v \in Stored
    BY <2>3, Zenon DEF ToPrune, Prunable
  <2>5. TableWithinLimit'
    BY <1>8, <1>9, <2>4, StoredFacts, ExecAssumption DEF LimitInv, TableWithinLimit
  <2> QED BY <1>4, <1>6, <2>5 DEF LimitInv
<1> QED BY <1>10, <1>11

(* Open and prepare_process_handles touch a process.                        *)
LEMMA OpenKeepsLimit ==
  ASSUME ExecInv, ExecInv', LimitInv, NEW c \in Calls, Open(c)
  PROVE  LimitInv'
<1>1. Touch(c) /\ store' = store
  BY DEF Open, storeVars
<1>2. Opened' = Opened \cup {c}
  BY DEF Open, Opened, ExecInv, TypeOK, Dead
<1>3. OldestExists'
  BY <1>1, <1>2, TouchKeepsOldest DEF LimitInv
<1>4. EntriesOpened' /\ TableWithinLimit'
  BY <1>1, <1>2 DEF LimitInv, EntriesOpened, TableWithinLimit, Stored
<1> QED BY <1>3, <1>4 DEF LimitInv

LEMMA PrepareKeepsLimit ==
  ASSUME ExecInv, LimitInv, NEW i \in Ids, PrepareProcessHandles(i)
  PROVE  LimitInv'
<1>1. /\ Touch(store[i]) /\ store' = store /\ proc' = proc /\ store[i] # None
  BY DEF PrepareProcessHandles, storeVars
<1>2. store[i] \in Opened /\ store[i] \in Calls
  BY <1>1 DEF LimitInv, EntriesOpened, Opened
<1>3. Opened' = Opened \cup {store[i]}
  BY <1>1, <1>2 DEF Opened
<1>4. OldestExists'
  BY <1>1, <1>2, <1>3, TouchKeepsOldest DEF LimitInv
<1>5. EntriesOpened' /\ TableWithinLimit'
  BY <1>1, <1>2, <1>3 DEF LimitInv, EntriesOpened, TableWithinLimit, Stored
<1> QED BY <1>4, <1>5 DEF LimitInv

(* The other steps remove entries or leave them alone.                      *)
LEMMA StepKeepsLimit ==
  ASSUME ExecInv, ExecInv', LimitInv, [Next]_vars
  PROVE  LimitInv'
<1> DEFINE quiet == /\ \A i \in Ids : store'[i] = store[i] \/ store'[i] = None
                    /\ \A x \in Calls : proc'[x] = "none" <=> proc[x] = "none"
                    /\ recency' = recency
<1>1. quiet => LimitInv'
  BY QuietKeepsLimit DEF ExecInv
<1>2. \A S : Terminate(S) => \A x \in Calls : proc'[x] = "none" <=> proc[x] = "none"
  BY TerminateEffect DEF ExecInv
<1>3. \A i : Remove(i) => \A j \in Ids : store'[j] = store[j] \/ store'[j] = None
  BY DEF Remove, ExecInv, TypeOK
<1>4. CASE UNCHANGED vars
  <2>1. quiet
    BY <1>4 DEF vars, storeVars
  <2> QED BY <1>1, <2>1
<1>5. ASSUME NEW c \in Calls, CallStep(c) PROVE LimitInv'
  <2>1. ASSUME NEW i \in Ids, AllocateProcessId(c, i) PROVE quiet
    BY <2>1 DEF AllocateProcessId
  <2>2. CASE NotOpened(c) \/ Release(c)
    <3>1. Remove(id[c]) /\ Terminate({}) /\ recency' = recency
      BY <2>2 DEF NotOpened, Release
    <3>2. quiet
      BY <3>1, <1>2, <1>3
    <3> QED BY <1>1, <3>2
  <2>3. CASE PatchFails(c) \/ ShortLived(c) \/ LongLived(c) \/ Warned(c)
    <3>1. quiet
      BY <2>3 DEF PatchFails, ShortLived, LongLived, Warned, storeVars
    <3> QED BY <1>1, <3>1
  <2>4. CASE Rejected(c) \/ Evict(c) \/ DropCall(c)
    <3>1. /\ store' = store /\ recency' = recency
          /\ Terminate({c}) \/ Terminate({victim[c]}) \/ Terminate({})
      BY <2>4 DEF Rejected, Evict, DropCall, storeVars
    <3>2. quiet
      BY <3>1, <1>2
    <3> QED BY <1>1, <3>2
  <2>5. CASE Open(c)
    BY <2>5, OpenKeepsLimit
  <2>6. CASE StoreProcess(c)
    BY <2>6, StoreProcessKeepsLimit
  <2> HIDE DEF quiet
  <2> QED BY <1>1, <1>5, <2>1, <2>2, <2>3, <2>4, <2>5, <2>6 DEF CallStep
<1>6. ASSUME NEW c \in Calls, ProcessStep(c) PROVE LimitInv'
  <2>1. CASE Exit(c) \/ SignalExit(c) \/ OutputDrained(c)
    <3>1. quiet
      BY <2>1 DEF Exit, SignalExit, OutputDrained, storeVars, ExecInv, TypeOK
    <3> QED BY <1>1, <3>1
  <2>2. CASE WatcherEmits(c) \/ DenialKills(c)
    <3>1. store' = store /\ recency' = recency /\ (Terminate({c}) \/ Terminate({}))
      BY <2>2 DEF WatcherEmits, DenialKills, storeVars
    <3>2. quiet
      BY <3>1, <1>2
    <3> QED BY <1>1, <3>2
  <2>3. CASE DenialReleases(c)
    <3>1. Remove(id[c]) /\ Terminate({}) /\ recency' = recency
      BY <2>3 DEF DenialReleases
    <3>2. quiet
      BY <3>1, <1>2, <1>3
    <3> QED BY <1>1, <3>2
  <2> QED BY <1>6, <2>1, <2>2, <2>3 DEF ProcessStep
<1>7. ASSUME SessionStep PROVE LimitInv'
  <2>1. ASSUME NEW i \in Ids, PrepareProcessHandles(i) PROVE LimitInv'
    BY <2>1, PrepareKeepsLimit
  <2>2. CASE RefreshProcessState
    <3>1. /\ Remove(poll) \/ store' = store
          /\ Terminate({}) /\ recency' = recency
      BY <2>2 DEF RefreshProcessState, storeVars
    <3>2. quiet
      BY <3>1, <1>2, <1>3
    <3> QED BY <1>1, <3>2
  <2>3. CASE PollEnds \/ Sweep
    <3>1. quiet
      BY <2>3 DEF PollEnds, Sweep, storeVars
    <3> QED BY <1>1, <3>1
  <2>4. ASSUME NEW c \in Calls, SweepKills(c) PROVE LimitInv'
    <3>1. store' = store /\ recency' = recency /\ Terminate({c})
      BY <2>4 DEF SweepKills, storeVars
    <3>2. quiet
      BY <3>1, <1>2
    <3> QED BY <1>1, <3>2
  <2> QED BY <1>7, <2>1, <2>2, <2>3, <2>4 DEF SessionStep
<1> QED BY <1>4, <1>5, <1>6, <1>7 DEF Next

(* TableWithinLimit: the store keeps to MAX_UNIFIED_EXEC_PROCESSES for any  *)
(* number of concurrent exec_commands, any limit and any smaller number of  *)
(* protected entries.                                                       *)
THEOREM StoreIsBounded == Spec => []TableWithinLimit
<1>1. Init => LimitInv
  <2> SUFFICES ASSUME Init PROVE LimitInv
    OBVIOUS
  <2>1. EntriesOpened /\ Stored = {} /\ Opened = {}
    BY DEF Init, EntriesOpened, Stored, Opened
  <2>2. OldestExists
    BY <2>1 DEF OldestExists
  <2>3. TableWithinLimit
    BY <2>1, FS_EmptySet, ExecAssumption DEF TableWithinLimit
  <2> QED BY <2>1, <2>2, <2>3 DEF LimitInv
<1>2. ExecInv /\ ExecInv' /\ LimitInv /\ [Next]_vars => LimitInv'
  BY StepKeepsLimit
<1>3. LimitInv => TableWithinLimit
  BY DEF LimitInv
<1> QED BY <1>1, <1>2, <1>3, ExecInvariance, PTL DEF Spec

=============================================================================
