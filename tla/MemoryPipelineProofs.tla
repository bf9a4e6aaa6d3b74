------------------------ MODULE MemoryPipelineProofs ------------------------
(***************************************************************************)
(* Proofs about the memory pipeline for any number of threads, workers and *)
(* tokens and any value of the limits.                                     *)
(***************************************************************************)
EXTENDS MemoryPipeline, FiniteSetTheorems, TLAPS

(* The rows a listing returns are rows of the table.                        *)
LEMMA SelectedType ==
  ASSUME NEW outs \in [Threads -> Output \cup {None}]
  PROVE  Selected(outs) \subseteq Item
<1>1. Rows(outs) \subseteq Item
  BY NoneAssumption DEF Rows, Item, Output
<1> QED BY <1>1 DEF Selected, Latest

(* What each statement on a job row returns is a row.                       *)
LEMMA ClaimType ==
  ASSUME NEW row \in Row \cup {None}, NEW src \in Time, NEW token \in Tokens
  PROVE  Stage1Claim(row, src, token) \in Row
  BY RetriesAssumption, NoneAssumption DEF Row, Stage1Claim, NullMark

(* A job marked done is a row, and its source time is the one it claimed.   *)
LEMMA DoneType ==
  ASSUME NEW row \in Row
  PROVE  Stage1Done(row) \in Row /\ row.input \in Time
  BY DEF Row, Stage1Done, Time

(* A failed job is a row: retry_remaining may go below zero, as in the      *)
(* table.                                                                   *)
LEMMA FailedType ==
  ASSUME NEW row \in Row
  PROVE  JobFailed(row) \in Row
<1> DEFINE fewer == row.retries - 1
<1>1. fewer \in Int
  BY DEF Row
<1>2. JobFailed(row) = [row EXCEPT !.status = "error", !.lease = "none",
                                   !.retry = "waiting", !.retries = fewer]
  BY DEF JobFailed
<1> HIDE DEF fewer
<1> QED BY <1>1, <1>2 DEF Row

(* Enqueueing consolidation yields a row whatever row was there.            *)
LEMMA EnqueueType ==
  ASSUME NEW row \in Row \cup {None}, NEW src \in Time
  PROVE  EnqueueGlobal(row, src) \in Row
<1>1. CASE row = None
  BY <1>1, RetriesAssumption DEF Row, EnqueueGlobal
<1>2. CASE row \in Row
  <2> DEFINE retries == IF row.retries > Retries THEN row.retries ELSE Retries
             input   == IF src > row.input THEN src ELSE row.input + 1
             status  == IF row.status = "running" THEN "running" ELSE "pending"
             retry   == IF row.status = "running" THEN row.retry ELSE "none"
  <2>1. retries \in Int /\ input \in Time
    BY <1>2, RetriesAssumption DEF Row, Time
  <2>2. /\ status \in {"pending", "running", "done", "error"}
        /\ retry \in {"none", "waiting", "due"}
    BY <1>2 DEF Row
  <2>3. EnqueueGlobal(row, src) = [row EXCEPT !.status = status, !.retry = retry,
                                     !.retries = retries, !.input = input]
    BY <1>2, NoneAssumption DEF EnqueueGlobal
  <2> HIDE DEF retries, input, status, retry
  <2> QED BY <1>2, <2>1, <2>2, <2>3 DEF Row
<1> QED BY <1>1, <1>2

(* Claiming and completing the global job yield rows.                       *)
LEMMA GlobalTypes ==
  ASSUME NEW row \in Row
  PROVE  /\ \A token \in Tokens : GlobalClaim(row, token) \in Row
         /\ \A mark \in Nat : GlobalDone(row, mark) \in Row
  BY DEF Row, GlobalClaim, GlobalDone

(* The passage of time changes only a row's lease and retry marks.          *)
LEMMA TimerTypes ==
  ASSUME NEW row \in Row
  PROVE  /\ [row EXCEPT !.lease = "lapsed"] \in Row
         /\ [row EXCEPT !.lease = "valid"] \in Row
         /\ [row EXCEPT !.retry = "due"] \in Row
  BY DEF Row

(* What a phase-2 worker holds between its claim and its last update.       *)
Phase2Claim == [token : Tokens \cup {None}, claimed : Nat,
                listed : SUBSET Item, mark : Nat]

(* Listing the stored outputs changes a worker's selection and its mark only. *)
LEMMA ListedType ==
  ASSUME NEW claim \in Phase2Claim, NEW listed \in SUBSET Item, NEW mark \in Nat
  PROVE  [claim EXCEPT !.listed = listed, !.mark = mark] \in Phase2Claim
  BY DEF Phase2Claim

(* A fresh token is unknown to everybody.                                   *)
LEMMA FreshIsFresh ==
  ASSUME NEW known, Tokens \ known # {}
  PROVE  Fresh(known) \in Tokens /\ Fresh(known) \notin known
  BY DEF Fresh

-----------------------------------------------------------------------------
(* Every step keeps every variable in its type.                             *)
LEMMA TypeStep == TypeOK /\ [Next]_vars => TypeOK'
<1> SUFFICES ASSUME TypeOK, [Next]_vars PROVE TypeOK'
  OBVIOUS
<1> USE DEF TypeOK, Goto, Labels, Phase2Labels, threadVars, dbVars, workerVars,
            dropVars
<1>1. ASSUME NEW w \in Workers, StartPipeline(w) PROVE TypeOK'
  <2> DEFINE stale == {[thread |-> t, src |-> updated[t]] : t \in StaleThreads(w)}
  <2>1. stale \subseteq Item
    BY DEF StaleThreads, Item
  <2>2. Latest(stale, ScanLimit) \subseteq Item
    BY <2>1 DEF Latest
  <2> QED BY <1>1, <2>2 DEF StartPipeline
<1>2. ASSUME NEW w \in Workers, TryClaimStage1(w) PROVE TypeOK'
  <2>1. PICK item \in scan[w] :
          /\ scan' = [scan EXCEPT ![w] = @ \ {item}]
          /\ \/ /\ Tokens \ Stage1Tokens(item.thread) # {}
                /\ stage1' = [stage1 EXCEPT ![item.thread] =
                     Stage1Claim(@, item.src, Fresh(Stage1Tokens(item.thread)))]
                /\ held' = [held EXCEPT ![w] = @ \cup
                     {[thread |-> item.thread, src |-> item.src,
                       token |-> Fresh(Stage1Tokens(item.thread))]}]
             \/ UNCHANGED <<stage1, held>>
    BY <1>2 DEF TryClaimStage1
  <2>2. item \in Item
    OBVIOUS
  <2>3. scan' \in [Workers -> SUBSET Item]
    BY <2>1
  <2>4. ASSUME Tokens \ Stage1Tokens(item.thread) # {}
        PROVE  LET token == Fresh(Stage1Tokens(item.thread)) IN
               /\ Stage1Claim(stage1[item.thread], item.src, token) \in Row
               /\ [thread |-> item.thread, src |-> item.src, token |-> token] \in Held
    BY <2>2, <2>4, FreshIsFresh, ClaimType DEF Item, Held
  <2>5. stage1' \in [Threads -> Row \cup {None}] /\ held' \in [Workers -> SUBSET Held]
    BY <2>1, <2>2, <2>4 DEF Item
  <2> QED BY <1>2, <2>3, <2>5 DEF TryClaimStage1
<1>3. ASSUME NEW w \in Workers, ClaimsDone(w) \/ ClaimsFail(w) PROVE TypeOK'
  <2>1. CASE ClaimsDone(w)
    BY <2>1 DEF ClaimsDone
  <2>2. CASE ClaimsFail(w)
    BY <2>2 DEF ClaimsFail
  <2> QED BY <1>3, <2>1, <2>2
<1>4. ASSUME NEW w \in Workers, NEW claim \in held[w], NEW blank \in BOOLEAN,
             ExtractSucceeds(w, claim, blank)
      PROVE  TypeOK'
  <2>1. claim.thread \in Threads /\ claim.src \in Time
    BY DEF Held
  <2>2. Owned(claim) => Stage1Done(stage1[claim.thread]) \in Row
    BY <2>1, DoneType DEF Owned, OwnedBy
  <2>3. EnqueueGlobal(global, claim.src) \in Row
    BY <2>1, EnqueueType
  <2>4. Upsert(outputs[claim.thread], claim.src, blank) \in Output
    BY <2>1 DEF Upsert, Output
  <2> QED BY <1>4, <2>1, <2>2, <2>3, <2>4 DEF ExtractSucceeds, Report
<1>5. ASSUME NEW w \in Workers, NEW claim \in held[w], ExtractFindsNothing(w, claim)
      PROVE  TypeOK'
  <2>1. claim.thread \in Threads /\ claim.src \in Time
    BY DEF Held
  <2>2. Owned(claim) => /\ Stage1Done(stage1[claim.thread]) \in Row
                        /\ stage1[claim.thread].input \in Time
    BY <2>1, DoneType DEF Owned, OwnedBy
  <2>3. Owned(claim) => EnqueueGlobal(global, stage1[claim.thread].input) \in Row
    BY <2>2, EnqueueType
  <2> QED BY <1>5, <2>1, <2>2, <2>3 DEF ExtractFindsNothing, Report
<1>6. ASSUME NEW w \in Workers, NEW claim \in held[w], ExtractFails(w, claim)
      PROVE  TypeOK'
  <2>1. claim.thread \in Threads /\ claim.src \in Time
    BY DEF Held
  <2>2. Owned(claim) => JobFailed(stage1[claim.thread]) \in Row
    BY <2>1, FailedType DEF Owned, OwnedBy
  <2> QED BY <1>6, <2>1, <2>2 DEF ExtractFails, Report
<1>7. ASSUME NEW w \in Workers, ClaimGlobal(w) PROVE TypeOK'
  <2>1. GlobalClaimable(global) => global \in Row /\ global.input \in Nat
    BY DEF GlobalClaimable, Clean, Row, Time
  <2>2. ASSUME GlobalClaimable(global), Tokens \ GlobalTokens # {}
        PROVE  /\ Fresh(GlobalTokens) \in Tokens
               /\ GlobalClaim(global, Fresh(GlobalTokens)) \in Row
    BY <2>1, <2>2, FreshIsFresh, GlobalTypes
  <2>3. global' \in Row \cup {None}
    BY <1>7, <2>2 DEF ClaimGlobal
  <2>4. p2' \in [Workers -> [token : Tokens \cup {None}, claimed : Nat,
                             listed : SUBSET Item, mark : Nat]]
    BY <1>7, <2>1, <2>2 DEF ClaimGlobal
  <2>5. pc' \in [Workers -> Labels]
    BY <1>7 DEF ClaimGlobal
  <2> QED BY <1>7, <2>3, <2>4, <2>5 DEF ClaimGlobal
<1>8. ASSUME NEW w \in Workers, ListOutputs(w) PROVE TypeOK'
  <2>1. Selected(outputs) \subseteq Item
    BY SelectedType
  <2>2. Watermarks(p2[w].claimed, Selected(outputs)) \subseteq Nat
    BY <2>1 DEF Watermarks, Item, Time
  <2>3. PICK mark \in Watermarks(p2[w].claimed, Selected(outputs)) :
          p2' = [p2 EXCEPT ![w] = [@ EXCEPT !.listed = Selected(outputs),
                                          !.mark = mark]]
    <3> HIDE DEF TypeOK, Goto
    <3> QED BY <1>8 DEF ListOutputs
  <2>4. p2 \in [Workers -> Phase2Claim]
    BY DEF Phase2Claim
  <2>5. p2' \in [Workers -> Phase2Claim]
    <3> HIDE DEF TypeOK, Phase2Claim
    <3>1. [p2[w] EXCEPT !.listed = Selected(outputs), !.mark = mark] \in Phase2Claim
      BY <2>1, <2>2, <2>3, <2>4, ListedType
    <3> QED BY <2>3, <2>4, <3>1
  <2>6. pc' \in [Workers -> Labels]
    BY <1>8 DEF ListOutputs
  <2> QED BY <1>8, <2>5, <2>6 DEF ListOutputs, Phase2Claim
<1>9. ASSUME NEW w \in Workers, SyncSummaries(w) \/ RebuildRaw(w) PROVE TypeOK'
  BY <1>9 DEF SyncSummaries, RebuildRaw
<1>10. ASSUME NEW w \in Workers, AgentCompletes(w) \/ Phase2StepFails(w) PROVE TypeOK'
  BY <1>10 DEF AgentCompletes, Phase2StepFails
<1>11. ASSUME NEW w \in Workers, Heartbeat(w) PROVE TypeOK'
  <2>1. CASE OwnedBy(global, p2[w].token)
    <3>1. [global EXCEPT !.lease = "valid"] \in Row
      BY <2>1, TimerTypes DEF OwnedBy
    <3> QED BY <1>11, <2>1, <3>1 DEF Heartbeat
  <2>2. CASE ~ OwnedBy(global, p2[w].token)
    BY <1>11, <2>2 DEF Heartbeat
  <2> QED BY <2>1, <2>2
<1>12. ASSUME NEW w \in Workers, MarkSucceeded(w) PROVE TypeOK'
  <2>1. OwnedBy(global, p2[w].token) => GlobalDone(global, p2[w].mark) \in Row
    BY GlobalTypes DEF OwnedBy
  <2> QED BY <1>12, <2>1 DEF MarkSucceeded, EndPhase2, NoPhase2
<1>13. ASSUME NEW w \in Workers, MarkFailed(w) \/ MarkFailedIfUnowned(w) PROVE TypeOK'
  <2>1. global # None => JobFailed(global) \in Row
    BY FailedType
  <2>2. CASE MarkFailed(w)
    <3>1. CASE OwnedBy(global, p2[w].token)
      <4>1. global' \in Row
        BY <2>1, <2>2, <3>1 DEF MarkFailed, OwnedBy
      <4>2. EndPhase2(w) /\ UNCHANGED consolidated
        BY <2>2, <3>1 DEF MarkFailed
      <4> QED BY <4>1, <4>2 DEF EndPhase2, NoPhase2
    <3>2. CASE ~ OwnedBy(global, p2[w].token)
      BY <2>2, <3>2 DEF MarkFailed
    <3> QED BY <3>1, <3>2
  <2>3. CASE MarkFailedIfUnowned(w)
    BY <2>1, <2>3 DEF MarkFailedIfUnowned, EndPhase2, NoPhase2, OwnedBy
  <2> QED BY <1>13, <2>2, <2>3
<1>14. ASSUME NEW w \in Workers, Crash(w) PROVE TypeOK'
  BY <1>14 DEF Crash, NoPhase2
<1>15. ASSUME NEW t \in Threads, ThreadActivity(t) \/ ThreadIdles(t) \/ ThreadAges(t)
       PROVE  TypeOK'
  BY <1>15 DEF ThreadActivity, ThreadIdles, ThreadAges, Time
<1>16. ASSUME NEW t \in Threads, Stage1LeaseLapses(t) \/ Stage1BackoffElapses(t)
       PROVE  TypeOK'
  <2>1. stage1[t] # None => /\ [stage1[t] EXCEPT !.lease = "lapsed"] \in Row
                            /\ [stage1[t] EXCEPT !.retry = "due"] \in Row
    BY TimerTypes
  <2>2. CASE Stage1LeaseLapses(t)
    BY <2>1, <2>2 DEF Stage1LeaseLapses, MayLapse, LiveLease
  <2>3. CASE Stage1BackoffElapses(t)
    BY <2>1, <2>3 DEF Stage1BackoffElapses
  <2> QED BY <1>16, <2>2, <2>3
<1>17. ASSUME GlobalLeaseLapses \/ GlobalBackoffElapses PROVE TypeOK'
  <2>1. global # None => /\ [global EXCEPT !.lease = "lapsed"] \in Row
                         /\ [global EXCEPT !.retry = "due"] \in Row
    BY TimerTypes
  <2>2. CASE GlobalLeaseLapses
    BY <2>1, <2>2 DEF GlobalLeaseLapses, MayLapse, LiveLease
  <2>3. CASE GlobalBackoffElapses
    BY <2>1, <2>3 DEF GlobalBackoffElapses
  <2> QED BY <1>17, <2>2, <2>3
<1>18. ASSUME ClearMemoryData \/ ClearMemoryDataFails \/ RemoveMemoryRoot \/ RemoveMemoryRootFails
       PROVE  TypeOK'
  BY <1>18 DEF ClearMemoryData, ClearMemoryDataFails,
       RemoveMemoryRoot, RemoveMemoryRootFails
<1>19. CASE UNCHANGED vars
  BY <1>19 DEF vars
<1> QED
  BY <1>1, <1>2, <1>3, <1>4, <1>5, <1>6, <1>7, <1>8, <1>9, <1>10, <1>11, <1>12,
     <1>13, <1>14, <1>15, <1>16, <1>17, <1>18, <1>19
  DEF Next, Phase1Step, Phase2Step, Timer

(* An enqueue strictly advances the row and changes nothing of an owner's.  *)
LEMMA EnqueueAdvances ==
  ASSUME NEW row \in Row \cup {None}, NEW src \in Time
  PROVE  LET new == EnqueueGlobal(row, src) IN
         /\ new # None
         /\ new.input >= src
         /\ row = None => /\ new.status = "pending"
                          /\ new.success = 0
                          /\ new.retries = Retries
         /\ row # None => /\ new.input > row.input
                          /\ new.success = row.success
                          /\ new.token = row.token
                          /\ new.lease = row.lease
                          /\ new.status = "running" <=> row.status = "running"
                          /\ row.retries \in 0..Retries => new.retries = Retries
<1>1. EnqueueGlobal(row, src) # None
  BY EnqueueType, NoneAssumption
<1>2. CASE row = None
  BY <1>1, <1>2 DEF EnqueueGlobal, Time
<1>3. CASE row \in Row
  BY <1>1, <1>3, NoneAssumption, RetriesAssumption DEF EnqueueGlobal, Row, Time
<1> QED BY <1>2, <1>3

-----------------------------------------------------------------------------
(* The inductive invariant, in the two halves of the pipeline.              *)

(* Claims held by workers are told apart by their tokens, and the owner of  *)
(* a running row claimed exactly the source the row records, which is newer *)
(* than its last success.                                                   *)
Stage1Inv ==
  /\ \A w \in Workers : pc[w] \notin {"claim", "extract"} => held[w] = {}
  /\ \A v, w \in Workers : \A c \in held[v], d \in held[w] :
       c.thread = d.thread /\ c.token = d.token => v = w /\ c = d
  /\ \A t \in Threads : Recoverable(stage1[t])
  /\ \A w \in Workers : \A c \in held[w] : Owned(c) =>
       stage1[c.thread].input = c.src /\ stage1[c.thread].success < c.src
  /\ OutputMatchesSuccess

(* The owner of the global row can complete at most what is enqueued, and   *)
(* completes all of it only if what it listed is what is selected now.      *)
OwnerInv(w) ==
  OwnedBy(global, p2[w].token) =>
    /\ p2[w].claimed <= global.input
    /\ global.success < global.input
    /\ pc[w] \in Listed => /\ p2[w].mark <= global.input
                           /\ p2[w].mark = global.input =>
                                p2[w].listed = Selected(outputs)

GlobalInv ==
  /\ \A w \in Workers : p2[w].token \in Tokens <=> pc[w] \in Phase2Labels
  /\ \A v, w \in Workers : p2[v].token = p2[w].token /\ p2[v].token # None => v = w
  /\ Recoverable(global)
  /\ global # None => 0 <= global.success /\ global.success <= global.input
  /\ \A t \in Threads : outputs[t] # None =>
       global # None /\ outputs[t].src <= global.input
  /\ \A w \in Workers : OwnerInv(w)
  /\ CleanMeansConsolidated

-----------------------------------------------------------------------------
Phase1Labels == {"claim", "extract"}

Shrinks == \A w \in Workers :
  /\ held'[w] \subseteq held[w]
  /\ pc'[w] \notin Phase1Labels => pc[w] \notin Phase1Labels \/ held'[w] = {}

(* Forgetting claims, without writing, preserves the invariant.             *)
LEMMA Stage1Forget ==
  ASSUME Stage1Inv, Shrinks, UNCHANGED <<stage1, outputs>>
  PROVE  Stage1Inv'
<1> USE DEF Stage1Inv, Shrinks, Phase1Labels
<1>1. \A w \in Workers : pc'[w] \notin {"claim", "extract"} => held'[w] = {}
  OBVIOUS
<1>2. \A t \in Threads : Recoverable(stage1'[t])
  OBVIOUS
<1>3. OutputMatchesSuccess'
  BY DEF OutputMatchesSuccess
<1> QED BY <1>1, <1>2, <1>3 DEF Owned, Recoverable

(* Finishing a job that its owner holds preserves the invariant.            *)
LEMMA Stage1Finish ==
  ASSUME TypeOK, Stage1Inv, Shrinks,
         NEW t \in Threads, NEW row \in Row,
         row.status # "running", Recoverable(row),
         stage1' = [stage1 EXCEPT ![t] = row],
         \A u \in Threads : u # t => outputs'[u] = outputs[u],
         outputs'[t] # None => row.success = outputs'[t].src
  PROVE  Stage1Inv'
<1> USE DEF Stage1Inv, Shrinks, Phase1Labels
<1>1. /\ stage1'[t] = row
      /\ \A u \in Threads : u # t => stage1'[u] = stage1[u]
  BY DEF TypeOK
<1>2. \A w \in Workers : pc'[w] \notin {"claim", "extract"} => held'[w] = {}
  OBVIOUS
<1>3. \A u \in Threads : Recoverable(stage1'[u])
  BY <1>1
<1>4. OutputMatchesSuccess'
  BY <1>1, NoneAssumption DEF OutputMatchesSuccess
<1>5. \A w \in Workers : \A c \in held'[w] : OwnedBy(stage1'[c.thread], c.token) =>
        stage1'[c.thread].input = c.src /\ stage1'[c.thread].success < c.src
  <2> SUFFICES ASSUME NEW w \in Workers, NEW c \in held'[w],
                      OwnedBy(stage1'[c.thread], c.token)
               PROVE  stage1'[c.thread].input = c.src /\ stage1'[c.thread].success < c.src
    OBVIOUS
  <2>1. c \in held[w] /\ c.thread \in Threads
    BY DEF TypeOK, Held
  <2>2. c.thread # t
    BY <1>1 DEF OwnedBy
  <2> QED BY <1>1, <2>1, <2>2 DEF Owned
<1>6. \A v, w \in Workers : \A c \in held'[v], d \in held'[w] :
        c.thread = d.thread /\ c.token = d.token => v = w /\ c = d
  OBVIOUS
<1> QED BY <1>2, <1>3, <1>4, <1>5, <1>6 DEF Owned, Recoverable

(* A successful claim, made with a token nobody knows, is the one owner.    *)
LEMMA Stage1Claimed ==
  ASSUME TypeOK, Stage1Inv,
         NEW w \in Workers, NEW item \in Item, NEW token \in Tokens,
         token \notin Stage1Tokens(item.thread),
         Stage1Claimable(stage1, outputs, item.thread, item.src),
         pc[w] = "claim", pc' = pc, outputs' = outputs,
         stage1' = [stage1 EXCEPT ![item.thread] = Stage1Claim(@, item.src, token)],
         held' = [held EXCEPT ![w] = @ \cup
                    {[thread |-> item.thread, token |-> token, src |-> item.src]}]
  PROVE  Stage1Inv'
<1> DEFINE t == item.thread
           new == [thread |-> t, token |-> token, src |-> item.src]
           row == Stage1Claim(stage1[t], item.src, token)
<1>1. t \in Threads /\ item.src \in Time /\ stage1[t] \in Row \cup {None}
  BY DEF TypeOK, Item
<1>2. /\ stage1'[t] = row
      /\ \A u \in Threads : u # t => stage1'[u] = stage1[u]
  BY <1>1 DEF TypeOK
<1>3. /\ held'[w] = held[w] \cup {new}
      /\ \A v \in Workers : v # w => held'[v] = held[v]
  BY DEF TypeOK
<1>4. \A v \in Workers : \A c \in held[v] : c.thread = t => c.token # token
  BY DEF Stage1Tokens
<1>5. row.status = "running" /\ row.token = token /\ row.lease = "valid"
      /\ row.input = item.src
  BY DEF Stage1Claim
<1>6. row.success < item.src
      /\ (stage1[t] # None => row.success = stage1[t].success)
  BY <1>1, NoneAssumption DEF Stage1Claim, Stage1Claimable, UpToDate, Row, Time, NullMark
<1>7. row.retries \in 0..Retries /\ row.retries > 0
  <2>1. CASE stage1[t] = None \/ item.src > stage1[t].input
    BY <2>1, RetriesAssumption DEF Stage1Claim
  <2>2. CASE ~ (stage1[t] = None \/ item.src > stage1[t].input)
    <3>1. row.retries = stage1[t].retries
      BY <2>2 DEF Stage1Claim
    <3>2. stage1[t].retries > 0
      BY <2>2 DEF Stage1Claimable
    <3>3. stage1[t].retries \in 0..Retries
      BY <1>1, <2>2 DEF Stage1Inv, Recoverable
    <3> QED BY <3>1, <3>2, <3>3
  <2> QED BY <2>1, <2>2
<1>8. Recoverable(row)
  BY <1>5, <1>7, NoneAssumption DEF Recoverable
<1>9. \A u \in Threads : Recoverable(stage1'[u])
  BY <1>2, <1>8 DEF Stage1Inv
<1>10. \A v \in Workers : pc'[v] \notin {"claim", "extract"} => held'[v] = {}
  BY <1>3 DEF Stage1Inv
<1>11. \A u, v \in Workers : \A c \in held'[u], d \in held'[v] :
         c.thread = d.thread /\ c.token = d.token => u = v /\ c = d
  <2> SUFFICES ASSUME NEW u \in Workers, NEW v \in Workers,
                      NEW c \in held'[u], NEW d \in held'[v],
                      c.thread = d.thread, c.token = d.token
               PROVE  u = v /\ c = d
    OBVIOUS
  <2>1. (c = new /\ u = w) \/ c \in held[u]
    BY <1>3
  <2>2. (d = new /\ v = w) \/ d \in held[v]
    BY <1>3
  <2> QED BY <1>4, <2>1, <2>2 DEF Stage1Inv
<1>12. \A v \in Workers : \A c \in held'[v] : OwnedBy(stage1'[c.thread], c.token) =>
         stage1'[c.thread].input = c.src /\ stage1'[c.thread].success < c.src
  <2> SUFFICES ASSUME NEW v \in Workers, NEW c \in held'[v],
                      OwnedBy(stage1'[c.thread], c.token)
               PROVE  stage1'[c.thread].input = c.src /\ stage1'[c.thread].success < c.src
    OBVIOUS
  <2>1. CASE c = new
    BY <1>2, <1>5, <1>6, <2>1
  <2>2. CASE c \in held[v]
    <3>1. c.thread \in Threads
      BY <2>2 DEF TypeOK, Held
    <3>2. c.thread # t
      BY <1>2, <1>4, <1>5, <2>2 DEF OwnedBy
    <3> QED BY <1>2, <2>2, <3>1, <3>2 DEF Stage1Inv, Owned
  <2> QED BY <1>3, <2>1, <2>2
<1>13. OutputMatchesSuccess'
  <2> SUFFICES ASSUME NEW u \in Threads, outputs[u] # None
               PROVE  stage1'[u] # None /\ stage1'[u].success = outputs[u].src
    BY DEF OutputMatchesSuccess
  <2>1. stage1[u] # None /\ stage1[u].success = outputs[u].src
    BY DEF Stage1Inv, OutputMatchesSuccess
  <2>2. row # None
    BY <1>1, ClaimType, NoneAssumption
  <2> QED BY <1>2, <1>6, <2>1, <2>2
<1> QED BY <1>9, <1>10, <1>11, <1>12, <1>13 DEF Stage1Inv, Owned, Recoverable

(* Every step preserves the stage-1 half of the invariant.                  *)
LEMMA Stage1Step == TypeOK /\ Stage1Inv /\ [Next]_vars => Stage1Inv'
<1> SUFFICES ASSUME TypeOK, Stage1Inv, [Next]_vars PROVE Stage1Inv'
  OBVIOUS
<1> USE DEF threadVars, dbVars, workerVars, dropVars
<1>1. ASSUME NEW w \in Workers,
             \/ StartPipeline(w) \/ ClaimsDone(w) \/ ClaimsFail(w) \/ Crash(w)
             \/ ClaimGlobal(w) \/ ListOutputs(w) \/ SyncSummaries(w) \/ RebuildRaw(w)
             \/ AgentCompletes(w) \/ Phase2StepFails(w) \/ Heartbeat(w)
             \/ MarkSucceeded(w) \/ MarkFailed(w) \/ MarkFailedIfUnowned(w)
      PROVE  Stage1Inv'
  <2>1. UNCHANGED <<stage1, outputs>>
    BY <1>1 DEF StartPipeline, ClaimsDone, ClaimsFail, Crash, ClaimGlobal, ListOutputs,
       SyncSummaries, RebuildRaw, AgentCompletes, Phase2StepFails, Heartbeat,
       MarkSucceeded, MarkFailed, MarkFailedIfUnowned, EndPhase2
  <2>2. Shrinks
    <3> USE DEF TypeOK, Shrinks, Phase1Labels, Goto
    <3>1. CASE StartPipeline(w) \/ ClaimsDone(w)
      BY <3>1 DEF StartPipeline, ClaimsDone
    <3>2. CASE ClaimsFail(w) \/ Crash(w)
      BY <3>2 DEF ClaimsFail, Crash
    <3>3. CASE ClaimGlobal(w) \/ ListOutputs(w) \/ SyncSummaries(w) \/ RebuildRaw(w)
      BY <3>3 DEF ClaimGlobal, ListOutputs, SyncSummaries, RebuildRaw
    <3>4. CASE AgentCompletes(w) \/ Phase2StepFails(w) \/ Heartbeat(w)
      BY <3>4 DEF AgentCompletes, Phase2StepFails, Heartbeat
    <3>5. CASE MarkSucceeded(w) \/ MarkFailed(w) \/ MarkFailedIfUnowned(w)
      BY <3>5 DEF MarkSucceeded, MarkFailed, MarkFailedIfUnowned, EndPhase2
    <3> QED BY <1>1, <3>1, <3>2, <3>3, <3>4, <3>5
  <2> QED BY <2>1, <2>2, Stage1Forget
<1>2. ASSUME NEW w \in Workers, TryClaimStage1(w) PROVE Stage1Inv'
  <2>1. PICK item \in scan[w] :
          IF Stage1Claimable(stage1, outputs, item.thread, item.src)
          THEN /\ Tokens \ Stage1Tokens(item.thread) # {}
               /\ stage1' = [stage1 EXCEPT ![item.thread] =
                    Stage1Claim(@, item.src, Fresh(Stage1Tokens(item.thread)))]
               /\ held' = [held EXCEPT ![w] = @ \cup
                    {[thread |-> item.thread,
                      token |-> Fresh(Stage1Tokens(item.thread)), src |-> item.src]}]
          ELSE UNCHANGED <<stage1, held>>
    BY <1>2 DEF TryClaimStage1
  <2>2. item \in Item
    BY DEF TypeOK
  <2>3. pc[w] = "claim" /\ pc' = pc /\ outputs' = outputs
    BY <1>2 DEF TryClaimStage1
  <2>4. CASE Stage1Claimable(stage1, outputs, item.thread, item.src)
    BY <2>1, <2>2, <2>3, <2>4, FreshIsFresh, Stage1Claimed
  <2>5. CASE ~ Stage1Claimable(stage1, outputs, item.thread, item.src)
    BY <2>1, <2>3, <2>5, Stage1Forget DEF Shrinks
  <2> QED BY <2>4, <2>5
<1>3. ASSUME NEW w \in Workers, NEW claim \in held[w],
             \/ \E blank \in BOOLEAN : ExtractSucceeds(w, claim, blank)
             \/ ExtractFindsNothing(w, claim) \/ ExtractFails(w, claim)
      PROVE  Stage1Inv'
  <2> DEFINE t == claim.thread
  <2>1. t \in Threads /\ claim.src \in Time /\ claim \in Held
    BY DEF TypeOK, Held
  <2>2. Shrinks
    BY <1>3 DEF ExtractSucceeds, ExtractFindsNothing, ExtractFails, Report, Goto,
       TypeOK, Shrinks, Phase1Labels
  <2>3. CASE ~ Owned(claim)
    BY <1>3, <2>2, <2>3, Stage1Forget
    DEF ExtractSucceeds, ExtractFindsNothing, ExtractFails
  <2>4. CASE Owned(claim)
    <3>1. /\ stage1[t] \in Row /\ stage1[t].input = claim.src
          /\ stage1[t].success < claim.src /\ Recoverable(stage1[t])
          /\ stage1[t].retries > 0 /\ stage1[t].retries \in 0..Retries
      BY <2>1, <2>4 DEF TypeOK, Stage1Inv, Owned, OwnedBy, Recoverable
    <3>2. outputs[t] # None => outputs[t].src < claim.src
      BY <2>1, <3>1 DEF Stage1Inv, OutputMatchesSuccess
    <3>3. /\ Stage1Done(stage1[t]) \in Row
          /\ Stage1Done(stage1[t]).status # "running"
          /\ Stage1Done(stage1[t]).success = claim.src
          /\ Recoverable(Stage1Done(stage1[t]))
      BY <3>1, DoneType DEF Stage1Done, Row, Recoverable
    <3>4. ASSUME NEW blank \in BOOLEAN, ExtractSucceeds(w, claim, blank)
          PROVE  Stage1Inv'
      <4>1. /\ stage1' = [stage1 EXCEPT ![t] = Stage1Done(stage1[t])]
            /\ outputs' = [outputs EXCEPT ![t] = Upsert(outputs[t], claim.src, blank)]
        BY <2>4, <3>4 DEF ExtractSucceeds
      <4>2. Upsert(outputs[t], claim.src, blank).src = claim.src
        BY <2>1, <3>2 DEF Upsert, TypeOK, Output, Time
      <4> QED BY <2>1, <2>2, <3>3, <4>1, <4>2, Stage1Finish DEF TypeOK
    <3>5. ASSUME ExtractFindsNothing(w, claim) PROVE Stage1Inv'
      <4>1. /\ stage1' = [stage1 EXCEPT ![t] = Stage1Done(stage1[t])]
            /\ outputs' = [outputs EXCEPT ![t] = None]
        BY <2>4, <3>5 DEF ExtractFindsNothing
      <4> QED BY <2>1, <2>2, <3>3, <4>1, Stage1Finish DEF TypeOK
    <3>6. ASSUME ExtractFails(w, claim) PROVE Stage1Inv'
      <4>1. /\ stage1' = [stage1 EXCEPT ![t] = JobFailed(stage1[t])]
            /\ outputs' = outputs
        BY <2>4, <3>6 DEF ExtractFails
      <4>2. /\ JobFailed(stage1[t]) \in Row
            /\ JobFailed(stage1[t]).status = "error"
            /\ JobFailed(stage1[t]).retries = stage1[t].retries - 1
            /\ JobFailed(stage1[t]).success = stage1[t].success
        BY <3>1, FailedType DEF JobFailed, Row
      <4>3. Recoverable(JobFailed(stage1[t]))
        BY <3>1, <4>2, RetriesAssumption DEF Recoverable
      <4>4. outputs'[t] # None => JobFailed(stage1[t]).success = outputs'[t].src
        BY <2>1, <4>1, <4>2 DEF Stage1Inv, OutputMatchesSuccess
      <4> QED BY <2>1, <2>2, <4>1, <4>2, <4>3, <4>4, Stage1Finish
    <3> QED BY <1>3, <3>4, <3>5, <3>6
  <2> QED BY <2>3, <2>4
<1>4. ASSUME NEW t \in Threads, Stage1LeaseLapses(t) \/ Stage1BackoffElapses(t)
      PROVE  Stage1Inv'
  <2>1. /\ stage1[t] \in Row
        /\ \A u \in Threads : u # t => stage1'[u] = stage1[u]
        /\ \/ stage1'[t] = [stage1[t] EXCEPT !.lease = "lapsed"]
           \/ stage1'[t] = [stage1[t] EXCEPT !.retry = "due"]
    BY <1>4 DEF TypeOK, Stage1LeaseLapses, Stage1BackoffElapses, MayLapse, LiveLease
  <2>2. \A u \in Threads : u # t => stage1'[u] = stage1[u]
    BY <2>1
  <2>3. /\ stage1'[t] # None /\ stage1[t] # None
        /\ stage1'[t].status = stage1[t].status /\ stage1'[t].token = stage1[t].token
        /\ stage1'[t].retries = stage1[t].retries
        /\ stage1'[t].input = stage1[t].input /\ stage1'[t].success = stage1[t].success
        /\ stage1[t].lease # "none" => stage1'[t].lease # "none"
    BY <2>1, TimerTypes, NoneAssumption DEF Row
  <2>4. UNCHANGED <<outputs, held, pc>>
    BY <1>4 DEF Stage1LeaseLapses, Stage1BackoffElapses
  <2>5. \A u \in Threads : Recoverable(stage1'[u])
    BY <2>1, <2>2, <2>3, NoneAssumption DEF Stage1Inv, Recoverable
  <2>6. OutputMatchesSuccess'
    BY <2>1, <2>2, <2>3, <2>4 DEF Stage1Inv, OutputMatchesSuccess
  <2>7. \A v \in Workers : \A c \in held[v] : OwnedBy(stage1'[c.thread], c.token) =>
          stage1'[c.thread].input = c.src /\ stage1'[c.thread].success < c.src
    <3> SUFFICES ASSUME NEW v \in Workers, NEW c \in held[v],
                        OwnedBy(stage1'[c.thread], c.token)
                 PROVE  stage1'[c.thread].input = c.src /\ stage1'[c.thread].success < c.src
      OBVIOUS
    <3>1. c.thread \in Threads
      BY DEF TypeOK, Held
    <3>2. Owned(c)
      BY <2>1, <2>2, <2>3, <3>1, NoneAssumption DEF Owned, OwnedBy
    <3> QED BY <2>2, <2>3, <3>1, <3>2 DEF Stage1Inv
  <2> QED BY <2>4, <2>5, <2>6, <2>7 DEF Stage1Inv, Owned, Recoverable
<1>5. ASSUME ClearMemoryData PROVE Stage1Inv'
  BY <1>5 DEF ClearMemoryData, Stage1Inv, Owned, OwnedBy, Recoverable,
     OutputMatchesSuccess, TypeOK, Held
<1>6. ASSUME \/ \E t \in Threads : ThreadActivity(t) \/ ThreadIdles(t) \/ ThreadAges(t)
             \/ GlobalLeaseLapses \/ GlobalBackoffElapses
             \/ ClearMemoryDataFails \/ RemoveMemoryRoot \/ RemoveMemoryRootFails \/ UNCHANGED vars
      PROVE  Stage1Inv'
  <2>1. UNCHANGED <<stage1, outputs, held, pc>>
    BY <1>6 DEF ThreadActivity, ThreadIdles, ThreadAges, GlobalLeaseLapses,
       GlobalBackoffElapses, ClearMemoryDataFails,
       RemoveMemoryRoot, RemoveMemoryRootFails, vars
  <2> QED BY <2>1, Stage1Forget DEF Shrinks
<1> QED BY <1>1, <1>2, <1>3, <1>4, <1>5, <1>6 DEF Next, Phase1Step, Phase2Step, Timer

-----------------------------------------------------------------------------
(* Each worker keeps its phase-2 claim and does not pass the listing, or    *)
(* has no claim afterwards.                                                 *)
KeepsOrForgets(w) ==
  \/ /\ p2'[w] = p2[w]
     /\ pc'[w] \in Phase2Labels <=> pc[w] \in Phase2Labels
     /\ pc'[w] \in Listed => pc[w] \in Listed
  \/ p2'[w].token = None /\ pc'[w] \notin Phase2Labels

ClaimsKept == \A w \in Workers : KeepsOrForgets(w)

SameClaim(new, old) ==
  /\ new # None /\ old # None
  /\ new.status = old.status /\ new.token = old.token
  /\ new.retries = old.retries /\ new.lease # "none"
  /\ new.input = old.input /\ new.success = old.success

(* Claims stay told apart by their tokens.                                  *)
LEMMA TokensKept ==
  ASSUME GlobalInv, ClaimsKept
  PROVE  /\ \A w \in Workers : p2'[w].token \in Tokens <=> pc'[w] \in Phase2Labels
         /\ \A v, w \in Workers :
              p2'[v].token = p2'[w].token /\ p2'[v].token # None => v = w
  BY NoneAssumption DEF GlobalInv, ClaimsKept, KeepsOrForgets

(* Steps that leave the row's claim and watermarks and the outputs alone.   *)
LEMMA GlobalFrame ==
  ASSUME GlobalInv, ClaimsKept, UNCHANGED <<outputs, consolidated>>,
         global' = global \/ SameClaim(global', global)
  PROVE  GlobalInv'
<1>1. Recoverable(global')
  BY DEF GlobalInv, Recoverable, SameClaim
<1>2. global' # None => 0 <= global'.success /\ global'.success <= global'.input
  BY DEF GlobalInv, SameClaim
<1>3. \A t \in Threads : outputs'[t] # None =>
        global' # None /\ outputs'[t].src <= global'.input
  BY DEF GlobalInv, SameClaim
<1>4. CleanMeansConsolidated'
  BY DEF GlobalInv, CleanMeansConsolidated, Clean, SameClaim
<1>5. ASSUME NEW w \in Workers PROVE OwnerInv(w)'
  <2>1. CASE p2'[w] = p2[w] /\ (pc'[w] \in Listed => pc[w] \in Listed)
    <3>1. OwnerInv(w)
      BY DEF GlobalInv
    <3> QED BY <2>1, <3>1 DEF OwnerInv, OwnedBy, SameClaim
  <2>2. CASE p2'[w].token = None
    BY <1>1, <2>2 DEF OwnerInv, OwnedBy, Recoverable
  <2> QED BY <2>1, <2>2 DEF ClaimsKept, KeepsOrForgets
<1> QED BY <1>1, <1>2, <1>3, <1>4, <1>5, TokensKept DEF GlobalInv, Recoverable

(* An enqueue, with the outputs of one thread changed to at most its mark.  *)
LEMMA GlobalEnqueued ==
  ASSUME TypeOK, TypeOK', GlobalInv, ClaimsKept, NEW t \in Threads, NEW src \in Time,
         consolidated' = consolidated,
         global' = EnqueueGlobal(global, src),
         \A u \in Threads : u # t => outputs'[u] = outputs[u],
         outputs'[t] # None => outputs'[t].src <= src
  PROVE  GlobalInv'
<1> DEFINE old == global
<1>1. /\ global' # None /\ global' \in Row /\ global'.input >= src
      /\ global'.input \in Nat /\ src \in Nat
      /\ old = None => global'.status = "pending" /\ global'.success = 0
                       /\ global'.retries = Retries
      /\ old # None => /\ global'.input > old.input /\ global'.success = old.success
                       /\ global'.token = old.token /\ global'.lease = old.lease
                       /\ global'.status = "running" <=> old.status = "running"
                       /\ old.retries \in 0..Retries => global'.retries = Retries
  <2>1. global \in Row \cup {None}
    BY DEF TypeOK
  <2>2. EnqueueGlobal(global, src) \in Row
    BY <2>1, EnqueueType
  <2>3. global'.input \in Nat /\ src \in Nat
    BY <2>2 DEF Row, Time
  <2> QED BY <2>1, <2>2, <2>3, EnqueueAdvances
<1>2. old # None => /\ old.input \in Nat /\ 0 <= old.success /\ old.success <= old.input
                    /\ old.success \in Int
  BY DEF GlobalInv, TypeOK, Row, Time, NullMark
<1>3. Recoverable(global')
  BY <1>1, RetriesAssumption DEF GlobalInv, Recoverable
<1>4. /\ 0 <= global'.success /\ global'.success < global'.input
      /\ global'.success <= global'.input
  BY <1>1, <1>2 DEF Time
<1>5. \A u \in Threads : outputs'[u] # None => outputs'[u].src <= global'.input
  <2> SUFFICES ASSUME NEW u \in Threads, outputs'[u] # None
               PROVE  outputs'[u].src <= global'.input
    OBVIOUS
  <2>1. outputs'[u].src \in Nat
    BY DEF TypeOK, Output, Time
  <2> QED BY <1>1, <1>2, <2>1 DEF GlobalInv
<1>6. CleanMeansConsolidated'
  BY <1>1, <1>2, <1>4 DEF CleanMeansConsolidated, Clean
<1>7. ASSUME NEW w \in Workers PROVE OwnerInv(w)'
  <2>1. CASE p2'[w] = p2[w] /\ (pc'[w] \in Listed => pc[w] \in Listed)
    <3>1. p2[w].claimed \in Nat /\ p2[w].mark \in Nat
      BY DEF TypeOK
    <3>2. ASSUME OwnedBy(global', p2[w].token)
          PROVE  /\ p2[w].claimed <= global'.input
                 /\ pc[w] \in Listed => /\ p2[w].mark <= global'.input
                                        /\ p2[w].mark # global'.input
      <4>1. OwnedBy(global, p2[w].token)
        BY <1>1, <3>2 DEF OwnedBy
      <4>2. /\ p2[w].claimed <= old.input
            /\ pc[w] \in Listed => p2[w].mark <= old.input
        BY <4>1 DEF GlobalInv, OwnerInv
      <4> QED BY <1>1, <1>2, <3>1, <4>1, <4>2 DEF OwnedBy
    <3> QED BY <1>4, <2>1, <3>2 DEF OwnerInv
  <2>2. CASE p2'[w].token = None
    BY <1>3, <2>2 DEF OwnerInv, OwnedBy, Recoverable
  <2> QED BY <2>1, <2>2 DEF ClaimsKept, KeepsOrForgets
<1> QED BY <1>1, <1>3, <1>4, <1>5, <1>6, <1>7, TokensKept DEF GlobalInv, Recoverable

(* A failed or finished job has no owner; what else may have changed?       *)
LEMMA GlobalReleased ==
  ASSUME GlobalInv, ClaimsKept, outputs' = outputs,
         global' # None, global # None, global'.status # "running",
         Recoverable(global'),
         global'.input = global.input,
         0 <= global'.success, global'.success <= global'.input,
         CleanMeansConsolidated'
  PROVE  GlobalInv'
<1>1. \A t \in Threads : outputs'[t] # None =>
        global' # None /\ outputs'[t].src <= global'.input
  BY DEF GlobalInv
<1>2. \A w \in Workers : OwnerInv(w)'
  BY DEF OwnerInv, OwnedBy
<1> QED BY <1>1, <1>2, TokensKept DEF GlobalInv, Recoverable

(* Claiming the dirty row with a token nobody knows makes the one owner.    *)
LEMMA GlobalClaimed ==
  ASSUME TypeOK, GlobalInv, NEW w \in Workers, NEW token \in Tokens,
         token \notin GlobalTokens, GlobalClaimable(global),
         pc' = [pc EXCEPT ![w] = "list"],
         UNCHANGED <<outputs, consolidated>>,
         global' = GlobalClaim(global, token),
         p2' = [p2 EXCEPT ![w] = [token |-> token, claimed |-> global.input,
                                  listed |-> {}, mark |-> 0]]
  PROVE  GlobalInv'
<1>1. global \in Row /\ global # None /\ ~ Clean(global) /\ global.retries > 0
  BY NoneAssumption DEF TypeOK, GlobalClaimable, Clean
<1>2. /\ global' # None
      /\ global'.status = "running" /\ global'.token = token /\ global'.lease = "valid"
      /\ global'.retries = global.retries
      /\ global'.input = global.input /\ global'.success = global.success
  <2>1. GlobalClaim(global, token) \in Row
    BY <1>1, GlobalTypes
  <2> QED BY <1>1, <2>1, NoneAssumption DEF GlobalClaim, Row
<1>3. /\ p2'[w].token = token /\ p2'[w].claimed = global.input /\ pc'[w] = "list"
      /\ \A v \in Workers : v # w => p2'[v] = p2[v] /\ pc'[v] = pc[v]
      /\ \A v \in Workers : p2[v].token # token
  BY DEF TypeOK, GlobalTokens
<1>4. Recoverable(global')
  BY <1>1, <1>2, NoneAssumption DEF GlobalInv, Recoverable
<1>5. global'.success < global'.input
  BY <1>1, <1>2 DEF Clean, Row, Time, NullMark
<1>6. ASSUME NEW v \in Workers PROVE OwnerInv(v)'
  <2>1. CASE v = w
    BY <1>1, <1>2, <1>3, <1>5, <2>1 DEF OwnerInv, Listed, Row, Time
  <2>2. CASE v # w
    BY <1>2, <1>3, <2>2 DEF OwnerInv, OwnedBy
  <2> QED BY <2>1, <2>2
<1>7. /\ \A v \in Workers : p2'[v].token \in Tokens <=> pc'[v] \in Phase2Labels
      /\ \A u, v \in Workers : p2'[u].token = p2'[v].token /\ p2'[u].token # None => u = v
  BY <1>3 DEF GlobalInv, Phase2Labels
<1>8. CleanMeansConsolidated'
  BY <1>1, <1>2 DEF CleanMeansConsolidated, Clean
<1>9. \A t \in Threads : outputs'[t] # None =>
        global' # None /\ outputs'[t].src <= global'.input
  BY <1>2 DEF GlobalInv
<1>10. 0 <= global'.success /\ global'.success <= global'.input
  BY <1>1, <1>2 DEF GlobalInv
<1> QED BY <1>4, <1>6, <1>7, <1>8, <1>9, <1>10 DEF GlobalInv, Recoverable

(* The mark an owner computes never exceeds what is enqueued.               *)
LEMMA GlobalListed ==
  ASSUME TypeOK, GlobalInv, NEW w \in Workers, ListOutputs(w)
  PROVE  GlobalInv'
<1> USE DEF threadVars, dbVars, workerVars, dropVars
<1>1. PICK mark \in Watermarks(p2[w].claimed, Selected(outputs)) :
        p2' = [p2 EXCEPT ![w] = [@ EXCEPT !.listed = Selected(outputs), !.mark = mark]]
  BY DEF ListOutputs
<1>2. /\ p2'[w].token = p2[w].token /\ p2'[w].claimed = p2[w].claimed
      /\ p2'[w].listed = Selected(outputs) /\ p2'[w].mark = mark
      /\ \A v \in Workers : v # w => p2'[v] = p2[v] /\ pc'[v] = pc[v]
      /\ pc[w] = "list" /\ pc'[w] = "sync"
      /\ UNCHANGED <<outputs, global, consolidated>>
  <2>1. p2[w] \in [token : Tokens \cup {None}, claimed : Nat, listed : SUBSET Item,
                   mark : Nat]
    BY DEF TypeOK
  <2>2. p2'[w] = [p2[w] EXCEPT !.listed = Selected(outputs), !.mark = mark]
    BY <1>1 DEF TypeOK
  <2>3. \A v \in Workers : v # w => p2'[v] = p2[v]
    BY <1>1 DEF TypeOK
  <2>4. /\ \A v \in Workers : v # w => pc'[v] = pc[v]
        /\ pc[w] = "list" /\ pc'[w] = "sync"
        /\ UNCHANGED <<outputs, global, consolidated>>
    BY DEF TypeOK, ListOutputs, Goto
  <2> QED BY <2>1, <2>2, <2>3, <2>4
<1>3. ASSUME NEW v \in Workers PROVE OwnerInv(v)'
  <2>1. OwnerInv(v)
    BY DEF GlobalInv
  <2>2. CASE v # w
    BY <1>2, <2>1, <2>2 DEF OwnerInv
  <2>3. CASE v = w
    <3>1. ASSUME OwnedBy(global, p2[w].token) PROVE mark <= global.input
      <4>1. CASE mark = p2[w].claimed
        BY <2>1, <2>3, <3>1, <4>1 DEF OwnerInv
      <4>2. CASE mark # p2[w].claimed
        <5>1. PICK m \in Selected(outputs) : mark = m.src
          BY <1>1, <4>2 DEF Watermarks
        <5>2. m \in Rows(outputs)
          BY <5>1 DEF Selected, Latest
        <5>3. PICK t \in Threads : outputs[t] # None /\ m.src = outputs[t].src
          BY <5>2 DEF Rows
        <5> QED BY <5>1, <5>3 DEF GlobalInv
      <4> QED BY <4>1, <4>2
    <3> QED BY <1>2, <2>1, <2>3, <3>1 DEF OwnerInv
  <2> QED BY <2>2, <2>3
<1>4. /\ \A v \in Workers : p2'[v].token \in Tokens <=> pc'[v] \in Phase2Labels
      /\ \A u, v \in Workers : p2'[u].token = p2'[v].token /\ p2'[u].token # None => u = v
  <2>1. \A v \in Workers : p2'[v].token = p2[v].token
                            /\ (pc'[v] \in Phase2Labels <=> pc[v] \in Phase2Labels)
    BY <1>2 DEF Phase2Labels
  <2> QED BY <2>1 DEF GlobalInv
<1>5. CleanMeansConsolidated'
  BY <1>2 DEF GlobalInv, CleanMeansConsolidated
<1> QED BY <1>2, <1>3, <1>4, <1>5 DEF GlobalInv, Recoverable

(* Every step preserves the phase-2 half of the invariant.                  *)
LEMMA GlobalStep ==
  TypeOK /\ TypeOK' /\ Stage1Inv /\ GlobalInv /\ [Next]_vars => GlobalInv'
<1> SUFFICES ASSUME TypeOK, TypeOK', Stage1Inv, GlobalInv, [Next]_vars PROVE GlobalInv'
  OBVIOUS
<1> USE DEF threadVars, dbVars, workerVars, dropVars
<1>1. ASSUME NEW w \in Workers,
             \/ StartPipeline(w) \/ TryClaimStage1(w) \/ ClaimsDone(w) \/ ClaimsFail(w)
             \/ Crash(w) \/ SyncSummaries(w) \/ RebuildRaw(w) \/ AgentCompletes(w)
             \/ Phase2StepFails(w)
      PROVE  GlobalInv'
  <2>1. UNCHANGED <<outputs, global, consolidated>>
    BY <1>1 DEF StartPipeline, TryClaimStage1, ClaimsDone, ClaimsFail, Crash,
       SyncSummaries, RebuildRaw, AgentCompletes, Phase2StepFails
  <2>2. ClaimsKept
    <3> USE DEF TypeOK, ClaimsKept, KeepsOrForgets, Goto, Phase2Labels, Listed
    <3>1. CASE StartPipeline(w) \/ TryClaimStage1(w) \/ ClaimsDone(w) \/ ClaimsFail(w)
      BY <3>1 DEF StartPipeline, TryClaimStage1, ClaimsDone, ClaimsFail
    <3>2. CASE Crash(w)
      BY <3>2 DEF Crash, NoPhase2
    <3>3. CASE SyncSummaries(w) \/ RebuildRaw(w) \/ AgentCompletes(w) \/ Phase2StepFails(w)
      BY <3>3 DEF SyncSummaries, RebuildRaw, AgentCompletes, Phase2StepFails
    <3> QED BY <1>1, <3>1, <3>2, <3>3
  <2> QED BY <2>1, <2>2, GlobalFrame
<1>2. ASSUME NEW w \in Workers, NEW claim \in held[w],
             \/ \E blank \in BOOLEAN : ExtractSucceeds(w, claim, blank)
             \/ ExtractFindsNothing(w, claim) \/ ExtractFails(w, claim)
      PROVE  GlobalInv'
  <2> DEFINE t == claim.thread
  <2>1. t \in Threads /\ claim.src \in Time
    BY DEF TypeOK, Held
  <2>2. ClaimsKept /\ consolidated' = consolidated
    BY <1>2 DEF ExtractSucceeds, ExtractFindsNothing, ExtractFails, Report, Goto,
       TypeOK, ClaimsKept, KeepsOrForgets, Phase2Labels, Listed
  <2>3. CASE UNCHANGED <<outputs, global>>
    BY <2>2, <2>3, GlobalFrame
  <2>4. ASSUME NEW blank \in BOOLEAN, ExtractSucceeds(w, claim, blank), Owned(claim)
        PROVE  GlobalInv'
    <3>1. /\ outputs' = [outputs EXCEPT ![t] = Upsert(outputs[t], claim.src, blank)]
          /\ global' = EnqueueGlobal(global, claim.src)
      BY <2>4 DEF ExtractSucceeds
    <3>2. outputs[t] # None => outputs[t].src < claim.src
      BY <2>1, <2>4 DEF Stage1Inv, OutputMatchesSuccess
    <3>3. Upsert(outputs[t], claim.src, blank).src <= claim.src
      BY <2>1, <3>2 DEF Upsert, TypeOK, Output, Time
    <3>4. /\ outputs'[t] # None => outputs'[t].src <= claim.src
          /\ \A u \in Threads : u # t => outputs'[u] = outputs[u]
      BY <2>1, <3>1, <3>3 DEF TypeOK
    <3> QED BY <2>1, <2>2, <3>1, <3>4, GlobalEnqueued
  <2>5. ASSUME ExtractFindsNothing(w, claim), Owned(claim) PROVE GlobalInv'
    <3>1. /\ outputs' = [outputs EXCEPT ![t] = None]
          /\ global' = IF outputs[t] = None THEN global
                       ELSE EnqueueGlobal(global, stage1[t].input)
      BY <2>5 DEF ExtractFindsNothing
    <3>2. CASE outputs[t] = None
      <4>1. outputs' = outputs
        BY <2>1, <3>1, <3>2 DEF TypeOK
      <4> QED BY <2>3, <3>1, <3>2, <4>1
    <3>3. CASE outputs[t] # None
      <4>1. stage1[t].input \in Time
        BY <2>1, <2>5 DEF Owned, OwnedBy, TypeOK, Row
      <4>2. /\ outputs'[t] = None
            /\ \A u \in Threads : u # t => outputs'[u] = outputs[u]
        BY <2>1, <3>1 DEF TypeOK
      <4> QED BY <2>1, <2>2, <3>1, <3>3, <4>1, <4>2, GlobalEnqueued
    <3> QED BY <3>2, <3>3
  <2>6. CASE ~ Owned(claim) \/ ExtractFails(w, claim)
    <3>1. UNCHANGED <<outputs, global>>
      BY <1>2, <2>6 DEF ExtractSucceeds, ExtractFindsNothing, ExtractFails
    <3> QED BY <2>3, <3>1
  <2> QED BY <1>2, <2>4, <2>5, <2>6
<1>3. ASSUME NEW w \in Workers, ClaimGlobal(w) PROVE GlobalInv'
  <2>1. UNCHANGED <<outputs, consolidated>> /\ pc[w] = "phase2"
    BY <1>3 DEF ClaimGlobal
  <2>2. CASE GlobalClaimable(global)
    <3>1. /\ Tokens \ GlobalTokens # {}
          /\ global' = GlobalClaim(global, Fresh(GlobalTokens))
          /\ p2' = [p2 EXCEPT ![w] =
                [token |-> Fresh(GlobalTokens), claimed |-> global.input,
                 listed |-> {}, mark |-> 0]]
          /\ pc' = [pc EXCEPT ![w] = "list"]
      BY <1>3, <2>2 DEF ClaimGlobal, Goto
    <3> QED BY <2>1, <2>2, <3>1, FreshIsFresh, GlobalClaimed
  <2>3. CASE ~ GlobalClaimable(global)
    <3>1. global' = global /\ p2' = p2 /\ pc' = [pc EXCEPT ![w] = "idle"]
      BY <1>3, <2>3 DEF ClaimGlobal, Goto
    <3>2. ClaimsKept
      BY <2>1, <3>1 DEF TypeOK, ClaimsKept, KeepsOrForgets, Phase2Labels, Listed
    <3> QED BY <2>1, <3>1, <3>2, GlobalFrame
  <2> QED BY <2>2, <2>3
<1>4. ASSUME NEW w \in Workers, ListOutputs(w) PROVE GlobalInv'
  BY <1>4, GlobalListed
<1>5. ASSUME NEW w \in Workers, Heartbeat(w) PROVE GlobalInv'
  <2>1. UNCHANGED <<outputs, consolidated, p2>> /\ pc[w] = "agent"
    BY <1>5 DEF Heartbeat
  <2>2. ClaimsKept
    BY <1>5, <2>1 DEF Heartbeat, Goto, TypeOK, ClaimsKept, KeepsOrForgets, Phase2Labels,
       Listed
  <2>3. CASE OwnedBy(global, p2[w].token)
    <3>1. global \in Row /\ global' = [global EXCEPT !.lease = "valid"]
      BY <1>5, <2>3 DEF Heartbeat, OwnedBy, TypeOK
    <3>2. SameClaim(global', global)
      BY <3>1, TimerTypes, NoneAssumption DEF SameClaim, Row
    <3> QED BY <2>1, <2>2, <3>2, GlobalFrame
  <2>4. CASE ~ OwnedBy(global, p2[w].token)
    <3>1. global' = global
      BY <1>5, <2>4 DEF Heartbeat
    <3> QED BY <2>1, <2>2, <3>1, GlobalFrame
  <2> QED BY <2>3, <2>4
<1>6. ASSUME NEW w \in Workers,
             MarkSucceeded(w) \/ MarkFailed(w) \/ MarkFailedIfUnowned(w)
      PROVE  GlobalInv'
  <2>1. outputs' = outputs /\ ClaimsKept
    BY <1>6 DEF MarkSucceeded, MarkFailed, MarkFailedIfUnowned, EndPhase2, NoPhase2, Goto,
       TypeOK, ClaimsKept, KeepsOrForgets, Phase2Labels, Listed
  <2>2. CASE global' = global /\ consolidated' = consolidated
    BY <2>1, <2>2, GlobalFrame
  <2>3. CASE /\ OwnedBy(global, p2[w].token) \/ OwnedBy(global, None)
             /\ global' = JobFailed(global) /\ consolidated' = consolidated
    <3>1. /\ global \in Row /\ global # None /\ global.retries > 0
          /\ global.retries \in 0..Retries
      BY <2>3 DEF OwnedBy, TypeOK, GlobalInv, Recoverable
    <3>2. /\ global' # None /\ global'.status = "error"
          /\ global'.retries = global.retries - 1
          /\ global'.input = global.input /\ global'.success = global.success
      BY <2>3, <3>1, FailedType, NoneAssumption DEF JobFailed, Row
    <3>3. Recoverable(global')
      BY <3>1, <3>2, RetriesAssumption DEF Recoverable
    <3>4. CleanMeansConsolidated'
      BY <2>1, <2>3, <3>1, <3>2 DEF GlobalInv, CleanMeansConsolidated, Clean
    <3> QED BY <2>1, <3>1, <3>2, <3>3, <3>4, GlobalReleased DEF GlobalInv
  <2>4. CASE MarkSucceeded(w) /\ OwnedBy(global, p2[w].token)
    <3>1. /\ global' = GlobalDone(global, p2[w].mark)
          /\ consolidated' = p2[w].listed /\ pc[w] = "succeed"
      BY <2>4 DEF MarkSucceeded
    <3>2. global \in Row /\ global # None /\ p2[w].mark \in Nat /\ global.input \in Nat
          /\ global.success \in Int /\ 0 <= global.success
      BY <2>4, NoneAssumption DEF OwnedBy, TypeOK, Row, Time, NullMark, GlobalInv
    <3>3. /\ global.success < global.input /\ p2[w].mark <= global.input
          /\ p2[w].mark = global.input => p2[w].listed = Selected(outputs)
      BY <2>4, <3>1 DEF GlobalInv, OwnerInv, Listed
    <3>4. /\ global' # None /\ global'.status = "done" /\ global'.lease = "none"
          /\ global'.retries = global.retries /\ global'.input = global.input
          /\ global'.success = IF p2[w].mark > global.success THEN p2[w].mark
                               ELSE global.success
      <4> DEFINE mark == IF p2[w].mark > global.success THEN p2[w].mark
                         ELSE global.success
      <4>1. global' = [global EXCEPT !.status = "done", !.lease = "none",
                                     !.success = mark]
        BY <3>1 DEF GlobalDone
      <4>2. global' \in Row
        BY <3>1, <3>2, GlobalTypes
      <4> HIDE DEF mark
      <4>3. /\ global' # None /\ global'.status = "done" /\ global'.lease = "none"
            /\ global'.retries = global.retries /\ global'.input = global.input
            /\ global'.success = mark
        BY <3>2, <4>1, <4>2, NoneAssumption DEF Row
      <4> QED BY <4>3 DEF mark
    <3>5. 0 <= global'.success /\ global'.success <= global'.input
      BY <3>2, <3>3, <3>4
    <3>6. CleanMeansConsolidated'
      BY <2>1, <3>1, <3>2, <3>3, <3>4 DEF CleanMeansConsolidated, Clean
    <3>7. Recoverable(global')
      BY <3>2, <3>4 DEF GlobalInv, Recoverable
    <3> QED BY <2>1, <3>2, <3>4, <3>5, <3>6, <3>7, GlobalReleased
  <2>5. \/ global' = global /\ consolidated' = consolidated
        \/ /\ OwnedBy(global, p2[w].token) \/ OwnedBy(global, None)
           /\ global' = JobFailed(global) /\ consolidated' = consolidated
        \/ MarkSucceeded(w) /\ OwnedBy(global, p2[w].token)
    <3>1. CASE MarkSucceeded(w)
      BY <3>1 DEF MarkSucceeded
    <3>2. CASE MarkFailed(w)
      BY <3>2 DEF MarkFailed
    <3>3. CASE MarkFailedIfUnowned(w)
      BY <3>3 DEF MarkFailedIfUnowned
    <3> QED BY <1>6, <3>1, <3>2, <3>3
  <2> QED BY <2>2, <2>3, <2>4, <2>5
<1>7. ASSUME GlobalLeaseLapses \/ GlobalBackoffElapses PROVE GlobalInv'
  <2>1. UNCHANGED <<outputs, consolidated, p2, pc>>
    BY <1>7 DEF GlobalLeaseLapses, GlobalBackoffElapses
  <2>2. ClaimsKept
    BY <2>1 DEF ClaimsKept, KeepsOrForgets
  <2>3. CASE GlobalLeaseLapses
    <3>1. global \in Row /\ global' = [global EXCEPT !.lease = "lapsed"]
      BY <2>3 DEF GlobalLeaseLapses, MayLapse, LiveLease, TypeOK
    <3>2. SameClaim(global', global)
      BY <3>1, TimerTypes, NoneAssumption DEF SameClaim, Row
    <3> QED BY <2>1, <2>2, <3>2, GlobalFrame
  <2>4. CASE GlobalBackoffElapses
    <3>1. global \in Row /\ global' = [global EXCEPT !.retry = "due"]
      BY <2>4 DEF GlobalBackoffElapses, TypeOK
    <3>2. /\ global' # None /\ global # None
          /\ global'.status = global.status /\ global'.token = global.token
          /\ global'.retries = global.retries /\ global'.lease = global.lease
          /\ global'.input = global.input /\ global'.success = global.success
      BY <3>1, TimerTypes, NoneAssumption DEF Row
    <3>3. CASE global.lease # "none"
      BY <2>1, <2>2, <3>2, <3>3, GlobalFrame DEF SameClaim
    <3>4. CASE global.status # "running"
      <4>1. Recoverable(global')
        BY <3>2, <3>4 DEF GlobalInv, Recoverable
      <4>2. CleanMeansConsolidated'
        BY <2>1, <3>2 DEF GlobalInv, CleanMeansConsolidated, Clean
      <4> QED BY <2>1, <2>2, <3>2, <3>4, <4>1, <4>2, GlobalReleased DEF GlobalInv
    <3> QED BY <3>2, <3>3, <3>4 DEF GlobalInv, Recoverable
  <2> QED BY <1>7, <2>3, <2>4
<1>8. ASSUME ClearMemoryData PROVE GlobalInv'
  <2>1. /\ global' = None /\ consolidated' = {} /\ UNCHANGED <<pc, p2>>
        /\ outputs' = [t \in Threads |-> None]
    BY <1>8 DEF ClearMemoryData
  <2>2. Selected(outputs') = {}
    BY <2>1 DEF Selected, Latest, Rows
  <2> QED BY <2>1, <2>2 DEF GlobalInv, OwnerInv, OwnedBy, Recoverable, Clean,
            CleanMeansConsolidated
<1>9. ASSUME \/ \E t \in Threads : \/ ThreadActivity(t) \/ ThreadIdles(t) \/ ThreadAges(t)
                                  \/ Stage1LeaseLapses(t) \/ Stage1BackoffElapses(t)
             \/ ClearMemoryDataFails \/ RemoveMemoryRoot \/ RemoveMemoryRootFails \/ UNCHANGED vars
      PROVE  GlobalInv'
  <2>1. UNCHANGED <<outputs, global, consolidated, p2, pc>>
    BY <1>9 DEF ThreadActivity, ThreadIdles, ThreadAges, Stage1LeaseLapses,
       Stage1BackoffElapses, ClearMemoryDataFails,
       RemoveMemoryRoot, RemoveMemoryRootFails, vars
  <2> QED BY <2>1, GlobalFrame DEF ClaimsKept, KeepsOrForgets
<1> QED BY <1>1, <1>2, <1>3, <1>4, <1>5, <1>6, <1>7, <1>8, <1>9
        DEF Next, Phase1Step, Phase2Step, Timer

-----------------------------------------------------------------------------
Inv == TypeOK /\ Stage1Inv /\ GlobalInv

(* The invariant holds of every reachable state.                            *)
THEOREM Invariance == Spec => []Inv
<1>1. Init => Inv
  <2> SUFFICES ASSUME Init PROVE Inv
    OBVIOUS
  <2>1. TypeOK
    BY DEF Init, TypeOK, NoPhase2, Labels, Phase2Labels, Time
  <2>2. Stage1Inv
    BY DEF Init, Stage1Inv, Recoverable, OutputMatchesSuccess
  <2>3. Selected(outputs) = {}
    BY DEF Init, Selected, Latest, Rows
  <2>4. GlobalInv
    BY <2>3, NoneAssumption DEF Init, GlobalInv, NoPhase2, Phase2Labels, OwnerInv, OwnedBy,
       Recoverable, CleanMeansConsolidated
  <2> QED BY <2>1, <2>2, <2>4 DEF Inv
<1>2. Inv /\ [Next]_vars => Inv'
  BY TypeStep, Stage1Step, GlobalStep DEF Inv
<1> QED BY <1>1, <1>2, PTL DEF Spec

(* Type correctness of the memory pipeline.                                 *)
THEOREM TypeCorrect == Spec => []TypeOK
  BY Invariance, PTL DEF Inv

(* No consolidation work is lost: a clean global row means that the last    *)
(* recorded consolidation read what is selected now.                        *)
THEOREM NoLostConsolidation == Spec => []CleanMeansConsolidated
<1>1. Inv => CleanMeansConsolidated
  BY DEF Inv, GlobalInv
<1> QED BY <1>1, Invariance, PTL

(* A stored output is always the one of the thread's last recorded success. *)
THEOREM OutputsCurrent == Spec => []OutputMatchesSuccess
<1>1. Inv => OutputMatchesSuccess
  BY DEF Inv, Stage1Inv
<1> QED BY <1>1, Invariance, PTL

(* A running row can always be taken over; retry budgets stay in range.     *)
THEOREM RunningRecoverable == Spec => []RunningIsRecoverable
<1>1. Inv => RunningIsRecoverable
  BY DEF Inv, Stage1Inv, GlobalInv, RunningIsRecoverable
<1> QED BY <1>1, Invariance, PTL

-----------------------------------------------------------------------------
(* No new lease, and no older success watermark.                            *)
Quiet(old, new) ==
  /\ LiveLease(new) => LiveLease(old)
  /\ MonotoneRow(old, new)

(* A row left alone, or deleted, takes no lease and moves no watermark      *)
(* back.                                                                    *)
LEMMA QuietRow ==
  ASSUME NEW row \in Row \cup {None}
  PROVE  Quiet(row, row) /\ Quiet(row, None)
  BY DEF Quiet, MonotoneRow, LiveLease, Row, NullMark

(* A step claims one row while there is room, or takes no lease at all; no  *)
(* success watermark moves back either way.                                 *)
LEMMA Stage1Rows ==
  ASSUME Inv, [Next]_vars
  PROVE  \/ \A t \in Threads : Quiet(stage1[t], stage1'[t])
         \/ \E t \in Threads :
              /\ Cardinality(RunningStage1(stage1)) < MaxRunning
              /\ MonotoneRow(stage1[t], stage1'[t])
              /\ \A u \in Threads : u # t => stage1'[u] = stage1[u]
<1> USE DEF threadVars, dbVars, workerVars, dropVars
<1>0. stage1 \in [Threads -> Row \cup {None}] /\ TypeOK
  BY DEF Inv, TypeOK
<1>1. CASE stage1' = stage1
  BY <1>0, <1>1, QuietRow
<1>2. ASSUME NEW w \in Workers, TryClaimStage1(w), stage1' # stage1
      PROVE  \E t \in Threads :
               /\ Cardinality(RunningStage1(stage1)) < MaxRunning
               /\ MonotoneRow(stage1[t], stage1'[t])
               /\ \A u \in Threads : u # t => stage1'[u] = stage1[u]
  <2>1. PICK item \in scan[w] :
          /\ Stage1Claimable(stage1, outputs, item.thread, item.src)
          /\ stage1' = [stage1 EXCEPT ![item.thread] =
               Stage1Claim(@, item.src, Fresh(Stage1Tokens(item.thread)))]
    BY <1>2 DEF TryClaimStage1
  <2>2. item.thread \in Threads
    BY <1>0 DEF TypeOK, Item
  <2>3. Cardinality(RunningStage1(stage1)) < MaxRunning
    BY <2>1 DEF Stage1Claimable
  <2>4. stage1'[item.thread] =
          Stage1Claim(stage1[item.thread], item.src, Fresh(Stage1Tokens(item.thread)))
    BY <1>0, <2>1, <2>2
  <2>5. stage1[item.thread] # None =>
          stage1'[item.thread].success = stage1[item.thread].success
    BY <2>4 DEF Stage1Claim
  <2>6. MonotoneRow(stage1[item.thread], stage1'[item.thread])
    BY <1>0, <2>2, <2>5 DEF MonotoneRow, Row, NullMark
  <2> QED BY <1>0, <2>1, <2>2, <2>3, <2>6
<1>3. ASSUME NEW w \in Workers, NEW claim \in held[w],
             \/ \E blank \in BOOLEAN : ExtractSucceeds(w, claim, blank)
             \/ ExtractFindsNothing(w, claim) \/ ExtractFails(w, claim),
             stage1' # stage1
      PROVE  \A t \in Threads : Quiet(stage1[t], stage1'[t])
  <2> DEFINE t == claim.thread
  <2>1. t \in Threads /\ claim.src \in Time
    BY <1>0 DEF TypeOK, Held
  <2>2. Owned(claim)
    BY <1>3 DEF ExtractSucceeds, ExtractFindsNothing, ExtractFails
  <2>3. stage1[t] \in Row /\ stage1[t].success < stage1[t].input
    BY <1>0, <2>1, <2>2 DEF Inv, Stage1Inv, Owned, OwnedBy
  <2>4. \/ stage1' = [stage1 EXCEPT ![t] = Stage1Done(stage1[t])]
        \/ stage1' = [stage1 EXCEPT ![t] = JobFailed(stage1[t])]
    BY <1>3, <2>2 DEF ExtractSucceeds, ExtractFindsNothing, ExtractFails
  <2>5. Quiet(stage1[t], Stage1Done(stage1[t]))
    BY <2>3 DEF Quiet, MonotoneRow, LiveLease, Stage1Done, Row, Time, NullMark
  <2>6. Quiet(stage1[t], JobFailed(stage1[t]))
    BY <2>3 DEF Quiet, MonotoneRow, LiveLease, JobFailed, Row, NullMark
  <2>7. Quiet(stage1[t], stage1'[t]) /\ \A u \in Threads : u # t => stage1'[u] = stage1[u]
    BY <1>0, <2>1, <2>4, <2>5, <2>6
  <2> QED BY <1>0, <2>7, QuietRow
<1>4. ASSUME NEW t \in Threads, Stage1LeaseLapses(t) \/ Stage1BackoffElapses(t)
      PROVE  \A u \in Threads : Quiet(stage1[u], stage1'[u])
  <2>1. /\ stage1[t] \in Row
        /\ \A u \in Threads : u # t => stage1'[u] = stage1[u]
        /\ \/ stage1'[t] = [stage1[t] EXCEPT !.lease = "lapsed"]
           \/ stage1'[t] = [stage1[t] EXCEPT !.retry = "due"]
    BY <1>0, <1>4 DEF Stage1LeaseLapses, Stage1BackoffElapses, MayLapse, LiveLease
  <2>2. Quiet(stage1[t], stage1'[t])
    BY <2>1, NoneAssumption DEF Quiet, MonotoneRow, LiveLease, Row, NullMark
  <2> QED BY <1>0, <2>1, <2>2, QuietRow
<1>5. ASSUME ClearMemoryData
      PROVE  \A t \in Threads : Quiet(stage1[t], stage1'[t])
  BY <1>0, <1>5, QuietRow DEF ClearMemoryData
<1>6. ASSUME NEW w \in Workers,
             \/ StartPipeline(w) \/ ClaimsDone(w) \/ ClaimsFail(w) \/ Crash(w)
             \/ Phase2Step(w) \/ Heartbeat(w)
      PROVE  stage1' = stage1
  BY <1>6 DEF StartPipeline, ClaimsDone, ClaimsFail, Crash, Phase2Step, ClaimGlobal,
     ListOutputs, SyncSummaries, RebuildRaw, AgentCompletes, Phase2StepFails, Heartbeat,
     MarkSucceeded, MarkFailed, MarkFailedIfUnowned, EndPhase2
<1>7. ASSUME \/ \E t \in Threads : ThreadActivity(t) \/ ThreadIdles(t) \/ ThreadAges(t)
             \/ GlobalLeaseLapses \/ GlobalBackoffElapses
             \/ ClearMemoryDataFails \/ RemoveMemoryRoot \/ RemoveMemoryRootFails \/ UNCHANGED vars
      PROVE  stage1' = stage1
  BY <1>7 DEF ThreadActivity, ThreadIdles, ThreadAges, GlobalLeaseLapses,
     GlobalBackoffElapses, ClearMemoryDataFails,
       RemoveMemoryRoot, RemoveMemoryRootFails, vars
<1> QED BY <1>1, <1>2, <1>3, <1>4, <1>5, <1>6, <1>7 DEF Next, Phase1Step, Timer

(* The cap on leased extraction jobs holds across all processes.            *)
THEOREM RunningBounded == Spec => []RunningWithinLimit
<1> DEFINE Running == RunningStage1(stage1)
<1>1. IsFiniteSet(Running) /\ IsFiniteSet(Running')
  BY ThreadsAssumption, FS_Subset DEF RunningStage1
<1>2. Init => RunningWithinLimit
  <2> SUFFICES ASSUME Init PROVE Running = {}
    BY FS_EmptySet, MaxRunningAssumption DEF RunningWithinLimit
  <2> QED BY DEF Init, RunningStage1, LiveLease
<1>3. ASSUME Inv, RunningWithinLimit, [Next]_vars PROVE RunningWithinLimit'
  <2>1. Cardinality(Running) \in Nat /\ Cardinality(Running') \in Nat
    BY <1>1, FS_CardinalityType
  <2>2. CASE \A t \in Threads : Quiet(stage1[t], stage1'[t])
    <3>1. Running' \subseteq Running
      BY <2>2 DEF Quiet, RunningStage1
    <3>2. Cardinality(Running') <= Cardinality(Running)
      BY <1>1, <3>1, FS_Subset
    <3> QED BY <1>3, <2>1, <3>2, MaxRunningAssumption DEF RunningWithinLimit
  <2>3. ASSUME NEW t \in Threads, Cardinality(Running) < MaxRunning,
               \A u \in Threads : u # t => stage1'[u] = stage1[u]
        PROVE  RunningWithinLimit'
    <3>1. Running' \subseteq Running \cup {t}
      BY <2>3 DEF RunningStage1
    <3>2. /\ IsFiniteSet(Running \cup {t})
          /\ Cardinality(Running \cup {t}) <= Cardinality(Running) + 1
      BY <1>1, <2>1, FS_AddElement, SMTT(30)
    <3>3. Cardinality(Running') <= Cardinality(Running \cup {t})
      BY <3>1, <3>2, FS_Subset
    <3>4. Cardinality(Running \cup {t}) \in Nat
      BY <3>2, FS_CardinalityType
    <3> QED BY <2>1, <2>3, <3>2, <3>3, <3>4, MaxRunningAssumption DEF RunningWithinLimit
  <2> QED BY <1>3, <2>2, <2>3, Stage1Rows
<1> QED BY <1>2, <1>3, Invariance, PTL DEF Spec

(* A success watermark never moves back, whatever scan a claim came from.   *)
THEOREM SuccessMonotone == Spec => SuccessNeverRegresses
<1> USE DEF threadVars, dbVars, workerVars, dropVars
<1>1. ASSUME Inv, [Next]_vars PROVE \A t \in Threads : MonotoneRow(stage1[t], stage1'[t])
  <2>1. \A t \in Threads : stage1'[t] = stage1[t] => MonotoneRow(stage1[t], stage1'[t])
    BY <1>1, QuietRow DEF Inv, TypeOK, Quiet
  <2> QED BY <1>1, <2>1, Stage1Rows DEF Quiet
<1>2. ASSUME Inv, [Next]_vars PROVE MonotoneRow(global, global')
  <2>0. global \in Row \cup {None}
    BY <1>2 DEF Inv, TypeOK
  <2>1. CASE global' = global \/ global' = None \/ global = None
    BY <2>0, <2>1, QuietRow DEF Quiet, MonotoneRow
  <2>2. ASSUME NEW src \in Time, global' = EnqueueGlobal(global, src)
        PROVE  MonotoneRow(global, global')
    BY <2>0, <2>2, EnqueueAdvances DEF MonotoneRow, Row, NullMark
  <2>3. ASSUME NEW token, global \in Row, global' = GlobalClaim(global, token)
        PROVE  MonotoneRow(global, global')
    BY <2>3 DEF MonotoneRow, GlobalClaim, Row, NullMark
  <2>4. ASSUME NEW mark \in Nat, global \in Row, global' = GlobalDone(global, mark)
        PROVE  MonotoneRow(global, global')
    BY <2>4 DEF MonotoneRow, GlobalDone, Row, NullMark
  <2>5. ASSUME global \in Row, global' = JobFailed(global)
        PROVE  MonotoneRow(global, global')
    BY <2>5 DEF MonotoneRow, JobFailed, Row, NullMark
  <2>6. ASSUME global \in Row,
               \/ global' = [global EXCEPT !.lease = "lapsed"]
               \/ global' = [global EXCEPT !.lease = "valid"]
               \/ global' = [global EXCEPT !.retry = "due"]
        PROVE  MonotoneRow(global, global')
    BY <2>6 DEF MonotoneRow, Row, NullMark
  <2>7. ASSUME NEW w \in Workers, NEW claim \in held[w],
               \/ \E blank \in BOOLEAN : ExtractSucceeds(w, claim, blank)
               \/ ExtractFindsNothing(w, claim) \/ ExtractFails(w, claim)
        PROVE  MonotoneRow(global, global')
    <3>1. claim.thread \in Threads /\ claim.src \in Time
      BY <1>2 DEF Inv, TypeOK, Held
    <3>2. Owned(claim) => stage1[claim.thread].input \in Time
      BY <1>2, <3>1 DEF Inv, TypeOK, Owned, OwnedBy, Row
    <3>3. global' = global \/ \E src \in Time : global' = EnqueueGlobal(global, src)
      BY <2>7, <3>1, <3>2 DEF ExtractSucceeds, ExtractFindsNothing, ExtractFails
    <3> QED BY <2>1, <2>2, <3>3
  <2>8. ASSUME NEW w \in Workers, ClaimGlobal(w) PROVE MonotoneRow(global, global')
    BY <2>0, <2>1, <2>3, <2>8 DEF ClaimGlobal, GlobalClaimable, Clean
  <2>9. ASSUME NEW w \in Workers,
               \/ Heartbeat(w) \/ MarkSucceeded(w) \/ MarkFailed(w) \/ MarkFailedIfUnowned(w)
        PROVE  MonotoneRow(global, global')
    <3>1. p2[w].mark \in Nat
      BY <1>2 DEF Inv, TypeOK
    <3>2. CASE Heartbeat(w)
      BY <2>0, <2>1, <2>6, <3>2 DEF Heartbeat, OwnedBy
    <3>3. CASE MarkSucceeded(w)
      BY <2>0, <2>1, <2>4, <3>1, <3>3 DEF MarkSucceeded, OwnedBy
    <3>4. CASE MarkFailed(w)
      BY <2>0, <2>1, <2>5, <3>4 DEF MarkFailed, OwnedBy
    <3>5. CASE MarkFailedIfUnowned(w)
      BY <2>0, <2>1, <2>5, <3>5 DEF MarkFailedIfUnowned, OwnedBy
    <3> QED BY <2>9, <3>2, <3>3, <3>4, <3>5
  <2>10. ASSUME GlobalLeaseLapses \/ GlobalBackoffElapses
         PROVE  MonotoneRow(global, global')
    BY <2>0, <2>6, <2>10 DEF GlobalLeaseLapses, GlobalBackoffElapses, MayLapse, LiveLease
  <2>11. ASSUME NEW w \in Workers,
                \/ StartPipeline(w) \/ TryClaimStage1(w) \/ ClaimsDone(w) \/ ClaimsFail(w)
                \/ Crash(w) \/ ListOutputs(w) \/ SyncSummaries(w) \/ RebuildRaw(w)
                \/ AgentCompletes(w) \/ Phase2StepFails(w)
         PROVE  global' = global
    BY <2>11 DEF StartPipeline, TryClaimStage1, ClaimsDone, ClaimsFail, Crash, ListOutputs,
       SyncSummaries, RebuildRaw, AgentCompletes, Phase2StepFails
  <2>12. ASSUME \/ \E t \in Threads :
                     \/ ThreadActivity(t) \/ ThreadIdles(t) \/ ThreadAges(t)
                     \/ Stage1LeaseLapses(t) \/ Stage1BackoffElapses(t)
                \/ ClearMemoryData \/ ClearMemoryDataFails \/ RemoveMemoryRoot \/ RemoveMemoryRootFails
                \/ UNCHANGED vars
         PROVE  global' = global \/ global' = None
    BY <2>12 DEF ThreadActivity, ThreadIdles, ThreadAges, Stage1LeaseLapses,
       Stage1BackoffElapses, ClearMemoryData, ClearMemoryDataFails,
       RemoveMemoryRoot, RemoveMemoryRootFails, vars
  <2> QED BY <1>2, <2>1, <2>7, <2>8, <2>9, <2>10, <2>11, <2>12
          DEF Next, Phase1Step, Phase2Step, Timer
<1>3. Inv /\ [Next]_vars =>
        [MonotoneRow(global, global')
         /\ \A t \in Threads : MonotoneRow(stage1[t], stage1'[t])]_vars
  BY <1>1, <1>2
<1> QED BY <1>3, Invariance, PTL DEF Spec, SuccessNeverRegresses

-----------------------------------------------------------------------------
(* The files on disk.  While leases are kept a worker in phase 2 owns the   *)
(* row, so it alone writes, and only while the row is dirty.                *)

Holding(w) == OwnedBy(global, p2[w].token) /\ global.lease = "valid"

(* What a worker has written of its selection.                              *)
Written(w) ==
  /\ pc[w] \in {"rebuild", "agent", "succeed"} => disk.summaries = p2[w].listed
  /\ pc[w] \in {"agent", "succeed"} => disk.raw = p2[w].listed

DiskInv ==
  drops = 0 =>
    /\ drop = "none"
    /\ \A w \in Workers : pc[w] \in Phase2Labels => Holding(w) /\ Written(w)
    /\ Clean(global) => disk.summaries = consolidated /\ disk.raw = consolidated

(* One worker at most is in phase 2, and then the row is dirty.             *)
LEMMA OneWriter ==
  ASSUME Inv, DiskInv, drops = 0, NEW w \in Workers, pc[w] \in Phase2Labels
  PROVE  /\ Holding(w) /\ Written(w) /\ LiveLease(global) /\ global \in Row
         /\ global.success < global.input /\ ~ Clean(global)
         /\ \A v \in Workers : v # w => pc[v] \notin Phase2Labels
<1>1. Holding(w) /\ Written(w) /\ p2[w].token \in Tokens
  BY DEF DiskInv, Inv, GlobalInv
<1>2. LiveLease(global) /\ global \in Row
  BY <1>1 DEF Holding, OwnedBy, LiveLease, Inv, TypeOK
<1>3. global.success < global.input
  BY <1>1 DEF Holding, Inv, GlobalInv, OwnerInv
<1>4. ~ Clean(global)
  BY <1>2, <1>3, NoneAssumption DEF Clean, Row, Time, NullMark
<1>5. ASSUME NEW v \in Workers, pc[v] \in Phase2Labels PROVE v = w
  <2>1. Holding(v)
    BY <1>5 DEF DiskInv
  <2>2. p2[v].token = p2[w].token /\ p2[v].token # None
    BY <1>1, <2>1, NoneAssumption DEF Holding, OwnedBy
  <2> QED BY <2>2 DEF Inv, GlobalInv
<1> QED BY <1>1, <1>2, <1>3, <1>4, <1>5

(* Steps that write no file and complete no consolidation.                  *)
LEMMA DiskFrame ==
  ASSUME Inv, DiskInv, drops = 0, drop' = drop, disk' = disk,
         consolidated' = consolidated,
         \A w \in Workers : pc'[w] \in Phase2Labels =>
           /\ pc[w] \in Phase2Labels
           /\ pc'[w] \in {pc[w], "sync", "fail"} \/ (pc[w] = "agent" /\ pc'[w] = "succeed")
           /\ p2'[w].token = p2[w].token
           /\ pc'[w] # "sync" => p2'[w].listed = p2[w].listed
           /\ Holding(w) => OwnedBy(global', p2[w].token) /\ global'.lease = "valid",
         Clean(global') => Clean(global)
  PROVE  DiskInv'
<1>1. drop' = "none"
  BY DEF DiskInv
<1>2. ASSUME NEW w \in Workers, pc'[w] \in Phase2Labels
      PROVE  Holding(w)' /\ Written(w)'
  <2>1. Holding(w) /\ Written(w)
    BY <1>2 DEF DiskInv
  <2>2. Holding(w)'
    BY <1>2, <2>1 DEF Holding
  <2>3. Written(w)'
    BY <1>2, <2>1 DEF Written
  <2> QED BY <2>2, <2>3
<1>3. Clean(global') => disk'.summaries = consolidated' /\ disk'.raw = consolidated'
  BY DEF DiskInv
<1> QED BY <1>1, <1>2, <1>3 DEF DiskInv

(* A step of the only writer.                                               *)
LEMMA DiskWritten ==
  ASSUME Inv, DiskInv, drops = 0, drop' = drop, NEW w \in Workers,
         \A v \in Workers : v # w => pc'[v] = pc[v] /\ pc[v] \notin Phase2Labels,
         pc'[w] \in Phase2Labels => Holding(w)' /\ Written(w)',
         Clean(global') => disk'.summaries = consolidated' /\ disk'.raw = consolidated'
  PROVE  DiskInv'
  BY DEF DiskInv

(* Enqueueing leaves the row to its owner, and dirty.                       *)
LEMMA EnqueuedIsDirty ==
  ASSUME Inv, NEW src \in Time, global' = EnqueueGlobal(global, src)
  PROVE  /\ ~ Clean(global')
         /\ \A w \in Workers :
              Holding(w) => OwnedBy(global', p2[w].token) /\ global'.lease = "valid"
<1>1. global \in Row \cup {None} /\ (global # None => global.success <= global.input)
  BY DEF Inv, TypeOK, GlobalInv
<1>2. global' \in Row
  BY <1>1, EnqueueType
<1>3. /\ global = None => global'.success = 0 /\ global'.input >= src
      /\ global # None => /\ global'.input > global.input
                          /\ global'.success = global.success
                          /\ global'.token = global.token
                          /\ global'.lease = global.lease
                          /\ global'.status = "running" <=> global.status = "running"
  BY <1>1, EnqueueAdvances
<1>4. ~ Clean(global')
  BY <1>1, <1>2, <1>3, NoneAssumption DEF Clean, Row, Time, NullMark
<1>5. global' # None
  BY <1>2, NoneAssumption
<1> QED BY <1>3, <1>4, <1>5 DEF Holding, OwnedBy

(* Every step keeps the files and the record together.                      *)
LEMMA DiskStep ==
  ASSUME Stalls = FALSE, PruneFails = FALSE, Inv, DiskInv, [Next]_vars
  PROVE  DiskInv'
<1> USE DEF threadVars, dbVars, workerVars, dropVars
<1>0. drops' = 0 => drops = 0
  <2>1. drops \in Nat
    BY DEF Inv, TypeOK
  <2>2. drops' = drops \/ drops' = drops + 1
    BY DEF Next, vars, Phase1Step, Phase2Step, Timer, StartPipeline, TryClaimStage1,
       ClaimsDone, ClaimsFail, Report, ExtractSucceeds, ExtractFindsNothing, ExtractFails,
       ClaimGlobal, ListOutputs, SyncSummaries, RebuildRaw, AgentCompletes, Phase2StepFails,
       Heartbeat, MarkSucceeded, MarkFailed, MarkFailedIfUnowned, EndPhase2, Crash,
       ThreadActivity, ThreadIdles, ThreadAges, Stage1LeaseLapses, Stage1BackoffElapses,
       GlobalLeaseLapses, GlobalBackoffElapses, ClearMemoryData, ClearMemoryDataFails,
       RemoveMemoryRoot, RemoveMemoryRootFails
  <2> QED BY <2>1, <2>2
<1> SUFFICES ASSUME drops = 0, drops' = 0 PROVE DiskInv'
  BY <1>0 DEF DiskInv
<1>a. /\ pc \in [Workers -> Labels] /\ global \in Row \cup {None}
      /\ p2 \in [Workers -> Phase2Claim] /\ drop = "none"
      /\ disk \in [summaries : SUBSET Item, raw : SUBSET Item]
  BY DEF Inv, TypeOK, Phase2Claim, DiskInv
<1>1. ASSUME NEW w \in Workers,
             \/ StartPipeline(w) \/ TryClaimStage1(w) \/ ClaimsDone(w) \/ ClaimsFail(w)
             \/ Crash(w)
      PROVE  DiskInv'
  <2>1. /\ drop' = drop /\ disk' = disk /\ consolidated' = consolidated /\ global' = global
        /\ pc' = pc \/ \E l \in Labels \ Phase2Labels : pc' = [pc EXCEPT ![w] = l]
        /\ p2' = p2 \/ (p2' = [p2 EXCEPT ![w] = NoPhase2] /\ pc' = [pc EXCEPT ![w] = "idle"])
    BY <1>1 DEF StartPipeline, TryClaimStage1, ClaimsDone, ClaimsFail, Crash, Goto, Labels,
       Phase2Labels
  <2>2. \A v \in Workers : pc'[v] \in Phase2Labels => pc'[v] = pc[v] /\ p2'[v] = p2[v]
    BY <1>a, <2>1 DEF Phase2Labels
  <2> QED BY <2>1, <2>2, DiskFrame DEF Holding
<1>2. ASSUME NEW w \in Workers, NEW claim \in held[w],
             \/ \E blank \in BOOLEAN : ExtractSucceeds(w, claim, blank)
             \/ ExtractFindsNothing(w, claim) \/ ExtractFails(w, claim)
      PROVE  DiskInv'
  <2>1. claim.thread \in Threads /\ claim.src \in Time
    BY DEF Inv, TypeOK, Held
  <2>2. Owned(claim) => stage1[claim.thread].input \in Time
    BY <2>1 DEF Inv, TypeOK, Owned, OwnedBy, Row
  <2>3. global' = global \/ \E src \in Time : global' = EnqueueGlobal(global, src)
    BY <1>2, <2>1, <2>2 DEF ExtractSucceeds, ExtractFindsNothing, ExtractFails
  <2>4. Report(w, claim)
    BY <1>2 DEF ExtractSucceeds, ExtractFindsNothing, ExtractFails
  <2>5. /\ drop' = drop /\ disk' = disk /\ consolidated' = consolidated /\ p2' = p2
        /\ \A v \in Workers : pc'[v] \in Phase2Labels => pc'[v] = pc[v]
    BY <1>a, <2>4 DEF Report, Goto, Phase2Labels
  <2>6. /\ Clean(global') => Clean(global)
        /\ \A v \in Workers :
             Holding(v) => OwnedBy(global', p2[v].token) /\ global'.lease = "valid"
    BY <2>3, EnqueuedIsDirty DEF Holding
  <2> QED BY <2>5, <2>6, DiskFrame
<1>3. ASSUME NEW w \in Workers, ClaimGlobal(w) PROVE DiskInv'
  <2>1. CASE ~ GlobalClaimable(global)
    <3>1. /\ drop' = drop /\ disk' = disk /\ consolidated' = consolidated /\ global' = global
          /\ p2' = p2
          /\ \A v \in Workers : pc'[v] \in Phase2Labels => pc'[v] = pc[v]
      BY <1>a, <1>3, <2>1 DEF ClaimGlobal, Goto, Phase2Labels
    <3> QED BY <3>1, DiskFrame DEF Holding
  <2>2. CASE GlobalClaimable(global)
    <3> DEFINE token == Fresh(GlobalTokens)
    <3>1. /\ drop' = drop /\ disk' = disk /\ consolidated' = consolidated
          /\ global' = GlobalClaim(global, token) /\ pc' = [pc EXCEPT ![w] = "list"]
          /\ Tokens \ GlobalTokens # {}
          /\ p2' = [p2 EXCEPT ![w] = [token |-> token, claimed |-> global.input,
                                      listed |-> {}, mark |-> 0]]
      BY <1>3, <2>2 DEF ClaimGlobal, Goto
    <3>2. ~ Clean(global) /\ ~ LiveLease(global) /\ global \in Row
      BY <1>a, <2>2 DEF GlobalClaimable, Clean
    <3>3. \A v \in Workers : pc[v] \notin Phase2Labels
      BY <3>2, OneWriter
    <3>4. global' \in Row
      BY <3>1, <3>2, FreshIsFresh, GlobalTypes
    <3> HIDE DEF token
    <3>5. /\ global'.status = "running" /\ global'.token = token /\ global'.lease = "valid"
          /\ global'.input = global.input /\ global'.success = global.success
      BY <3>1, <3>2 DEF GlobalClaim, Row
    <3>6. ~ Clean(global') /\ global' # None
      BY <3>2, <3>4, <3>5, NoneAssumption DEF Clean
    <3>7. p2'[w].token = token /\ pc'[w] = "list"
          /\ \A v \in Workers : v # w => pc'[v] = pc[v]
      BY <1>a, <3>1
    <3>8. Holding(w)' /\ Written(w)'
      BY <3>5, <3>6, <3>7 DEF Holding, OwnedBy, Written
    <3> QED BY <3>1, <3>3, <3>6, <3>7, <3>8, DiskWritten
  <2> QED BY <2>1, <2>2
<1>4. ASSUME NEW w \in Workers, ListOutputs(w) PROVE DiskInv'
  <2>1. PICK listed, mark : p2' = [p2 EXCEPT ![w] = [@ EXCEPT !.listed = listed, !.mark = mark]]
    BY <1>4 DEF ListOutputs
  <2>2. /\ drop' = drop /\ disk' = disk /\ consolidated' = consolidated /\ global' = global
        /\ pc[w] = "list" /\ pc' = [pc EXCEPT ![w] = "sync"]
    BY <1>4 DEF ListOutputs, Goto
  <2>3. /\ p2'[w].token = p2[w].token /\ pc'[w] = "sync"
        /\ \A v \in Workers : v # w => p2'[v] = p2[v] /\ pc'[v] = pc[v]
    BY <1>a, <2>1, <2>2 DEF Phase2Claim
  <2> QED BY <2>2, <2>3, DiskFrame DEF Holding, Phase2Labels
<1>5. ASSUME NEW w \in Workers, SyncSummaries(w) \/ RebuildRaw(w) PROVE DiskInv'
  <2>1. pc[w] \in Phase2Labels /\ drop' = drop /\ global' = global /\ p2' = p2
    BY <1>5 DEF SyncSummaries, RebuildRaw, Phase2Labels
  <2>2. /\ Holding(w) /\ Written(w) /\ ~ Clean(global)
        /\ \A v \in Workers : v # w => pc[v] \notin Phase2Labels
    BY <2>1, OneWriter
  <2>3. \A v \in Workers : v # w => pc'[v] = pc[v]
    BY <1>a, <1>5 DEF SyncSummaries, RebuildRaw, Goto
  <2>4. Holding(w)'
    BY <2>1, <2>2 DEF Holding
  <2>5. Written(w)'
    <3>1. CASE SyncSummaries(w)
      <4>1. PICK written \in SUBSET p2[w].listed,
                 left \in SUBSET (disk.summaries \ p2[w].listed) :
              /\ \A m \in left : \E n \in p2[w].listed \ written : n.thread = m.thread
              /\ disk' = [disk EXCEPT !.summaries =
                            (@ \cap p2[w].listed) \cup written \cup left]
              /\ pc' = [pc EXCEPT ![w] = IF written = p2[w].listed THEN "rebuild" ELSE "fail"]
        BY <3>1 DEF SyncSummaries, Goto
      <4>2. CASE written = p2[w].listed
        <5>1. left = {}
          BY <4>1, <4>2
        <5>2. disk'.summaries = p2[w].listed
          BY <1>a, <4>1, <4>2, <5>1
        <5>3. pc'[w] = "rebuild"
          BY <1>a, <4>1, <4>2
        <5> QED BY <2>1, <5>2, <5>3 DEF Written
      <4>3. CASE written # p2[w].listed
        BY <1>a, <4>1, <4>3 DEF Written
      <4> QED BY <4>2, <4>3
    <3>2. CASE RebuildRaw(w)
      <4>1. disk'.summaries = disk.summaries /\ disk'.raw = p2[w].listed /\ pc[w] = "rebuild"
        BY <1>a, <3>2 DEF RebuildRaw
      <4> QED BY <2>1, <2>2, <4>1 DEF Written
    <3> QED BY <1>5, <3>1, <3>2
  <2> QED BY <2>1, <2>2, <2>3, <2>4, <2>5, DiskWritten
<1>6. ASSUME NEW w \in Workers, AgentCompletes(w) \/ Phase2StepFails(w) PROVE DiskInv'
  <2>1. /\ drop' = drop /\ disk' = disk /\ consolidated' = consolidated /\ global' = global
        /\ p2' = p2 /\ pc[w] \in Phase2Labels
        /\ \A v \in Workers : v # w => pc'[v] = pc[v]
        /\ pc'[w] = "fail" \/ (pc[w] = "agent" /\ pc'[w] = "succeed")
    BY <1>a, <1>6 DEF AgentCompletes, Phase2StepFails, Goto, Phase2Labels
  <2> QED BY <2>1, DiskFrame DEF Holding
<1>7. ASSUME NEW w \in Workers, Heartbeat(w) PROVE DiskInv'
  <2>1. pc[w] \in Phase2Labels
    BY <1>7 DEF Heartbeat, Phase2Labels
  <2>2. Holding(w) /\ global \in Row /\ ~ Clean(global)
    BY <2>1, OneWriter
  <2>3. /\ drop' = drop /\ disk' = disk /\ consolidated' = consolidated /\ p2' = p2 /\ pc' = pc
        /\ global' = [global EXCEPT !.lease = "valid"]
    BY <1>7, <2>2 DEF Heartbeat, Holding
  <2>4. global' = global
    BY <2>2, <2>3 DEF Holding, Row
  <2> QED BY <2>3, <2>4, DiskFrame DEF Holding
<1>8. ASSUME NEW w \in Workers,
             MarkSucceeded(w) \/ MarkFailed(w) \/ MarkFailedIfUnowned(w)
      PROVE  DiskInv'
  <2>1. pc[w] \in Phase2Labels
    BY <1>8 DEF MarkSucceeded, MarkFailed, MarkFailedIfUnowned, Phase2Labels
  <2>2. /\ Holding(w) /\ Written(w) /\ ~ Clean(global) /\ global \in Row
        /\ \A v \in Workers : v # w => pc[v] \notin Phase2Labels
    BY <2>1, OneWriter
  <2>3. EndPhase2(w)
    BY <1>8, <2>2 DEF MarkSucceeded, MarkFailed, MarkFailedIfUnowned, Holding
  <2>4. /\ drop' = drop /\ disk' = disk /\ pc'[w] \notin Phase2Labels
        /\ \A v \in Workers : v # w => pc'[v] = pc[v]
    BY <1>a, <2>3 DEF EndPhase2, Goto, Phase2Labels
  <2>5. CASE MarkSucceeded(w)
    <3>1. consolidated' = p2[w].listed /\ pc[w] = "succeed"
      BY <2>2, <2>5 DEF MarkSucceeded, Holding
    <3>2. disk'.summaries = consolidated' /\ disk'.raw = consolidated'
      BY <2>2, <2>4, <3>1 DEF Written
    <3> QED BY <2>2, <2>4, <3>2, DiskWritten
  <2>6. CASE MarkFailed(w) \/ MarkFailedIfUnowned(w)
    <3>1. global' = JobFailed(global)
      BY <2>2, <2>6 DEF MarkFailed, MarkFailedIfUnowned, Holding
    <3>2. global' \in Row /\ global'.input = global.input /\ global'.success = global.success
      BY <2>2, <3>1, FailedType DEF JobFailed, Row
    <3>3. ~ Clean(global')
      BY <2>2, <3>2, NoneAssumption DEF Clean
    <3> QED BY <2>2, <2>4, <3>3, DiskWritten
  <2> QED BY <1>8, <2>5, <2>6
<1>9. CASE GlobalLeaseLapses
  <2>1. /\ LiveLease(global) /\ \A w \in Workers : p2[w].token # global.token
        /\ global' = [global EXCEPT !.lease = "lapsed"]
        /\ UNCHANGED <<drop, disk, consolidated, pc, p2>>
    BY <1>9 DEF GlobalLeaseLapses, MayLapse
  <2>2. \A w \in Workers : pc[w] \notin Phase2Labels
    BY <2>1 DEF DiskInv, Holding, OwnedBy
  <2>3. Clean(global') => Clean(global)
    <3>1. global \in Row
      BY <1>a, <2>1 DEF LiveLease
    <3>2. global' \in Row /\ global'.input = global.input /\ global'.success = global.success
      BY <2>1, <3>1 DEF Row
    <3> QED BY <3>1, <3>2, NoneAssumption DEF Clean
  <2> QED BY <2>1, <2>2, <2>3, DiskFrame
<1>10. CASE GlobalBackoffElapses
  <2>1. /\ global \in Row /\ global' = [global EXCEPT !.retry = "due"]
        /\ UNCHANGED <<drop, disk, consolidated, pc, p2>>
    BY <1>a, <1>10 DEF GlobalBackoffElapses
  <2>2. /\ global' \in Row /\ global'.input = global.input /\ global'.success = global.success
        /\ global'.status = global.status /\ global'.token = global.token
        /\ global'.lease = global.lease
    BY <2>1 DEF Row
  <2>3. Clean(global') => Clean(global)
    BY <2>1, <2>2, NoneAssumption DEF Clean
  <2>4. \A w \in Workers :
          Holding(w) => OwnedBy(global', p2[w].token) /\ global'.lease = "valid"
    BY <2>2, NoneAssumption DEF Holding, OwnedBy
  <2> QED BY <2>1, <2>3, <2>4, DiskFrame
<1>11. ASSUME \/ \E t \in Threads : \/ ThreadActivity(t) \/ ThreadIdles(t) \/ ThreadAges(t)
                                   \/ Stage1LeaseLapses(t) \/ Stage1BackoffElapses(t)
              \/ UNCHANGED vars
       PROVE  DiskInv'
  <2>1. UNCHANGED <<drop, disk, consolidated, global, pc, p2>>
    BY <1>11 DEF ThreadActivity, ThreadIdles, ThreadAges, Stage1LeaseLapses,
       Stage1BackoffElapses, vars
  <2> QED BY <2>1, DiskFrame DEF Holding
<1>12. ASSUME ClearMemoryData \/ ClearMemoryDataFails \/ RemoveMemoryRoot \/ RemoveMemoryRootFails
       PROVE  FALSE
  BY <1>a, <1>12 DEF ClearMemoryData, ClearMemoryDataFails, RemoveMemoryRoot,
     RemoveMemoryRootFails
<1> QED BY <1>1, <1>2, <1>3, <1>4, <1>5, <1>6, <1>7, <1>8, <1>9, <1>10, <1>11, <1>12
        DEF Next, Phase1Step, Phase2Step, Timer

(* While every live worker keeps its lease and stale summaries can be       *)
(* removed, and until the user asks for a drop, the files on disk are the   *)
(* inputs of the recorded consolidation whenever the row is clean: over     *)
(* crashes, failed writes and takeovers of abandoned claims.                *)
THEOREM DiskIsRecorded ==
  ASSUME Stalls = FALSE, PruneFails = FALSE
  PROVE  Spec => [](drops = 0 => DiskMatchesRecord)
<1>1. Init => DiskInv
  BY DEF Init, DiskInv, Phase2Labels, Clean
<1>2. Inv /\ DiskInv /\ [Next]_vars => DiskInv'
  BY DiskStep
<1>3. DiskInv => (drops = 0 => DiskMatchesRecord)
  BY DEF DiskInv, DiskMatchesRecord
<1> QED BY <1>1, <1>2, <1>3, Invariance, PTL DEF Spec

-----------------------------------------------------------------------------
(* The refinement.  The owner's listing is the one view there is; a worker  *)
(* that was superseded has none, whatever it still does.                    *)

Owns(w) == OwnedBy(global, p2[w].token)
TheView == View(global, p2, pc)

(* Of the one view nothing or all can be left.                              *)
LEMMA OneView ==
  ASSUME Inv
  PROVE  /\ \A w \in Workers : Owns(w) /\ pc[w] \in Listed => TheView = {p2[w].listed}
         /\ \A w \in Workers : Owns(w) /\ pc[w] \notin Listed => TheView = {}
         /\ \A S \in SUBSET TheView : S = TheView \/ S = {}
<1>1. \A v, w \in Workers : Owns(v) /\ Owns(w) => v = w
  <2>1. ASSUME NEW v \in Workers, NEW w \in Workers, Owns(v), Owns(w)
        PROVE  p2[v].token = p2[w].token /\ p2[v].token # None
    BY <2>1 DEF Owns, OwnedBy, Inv, GlobalInv, Recoverable
  <2> QED BY <2>1 DEF Inv, GlobalInv
<1>2. TheView = {p2[w].listed : w \in {v \in Workers : Owns(v) /\ pc[v] \in Listed}}
  BY DEF TheView, View, Owns
<1> HIDE DEF TheView, Owns
<1> QED BY <1>1, <1>2

(* A step that changes neither the outputs, the work nor the record and     *)
(* gives nobody a new view is a stutter of the consolidator or gives up.    *)
LEMMA QuietRefines ==
  ASSUME Inv, outputs' = outputs, consolidated' = consolidated,
         Clean(global') <=> Clean(global),
         \A w \in Workers : OwnedBy(global', p2'[w].token) /\ pc'[w] \in Listed =>
           Owns(w) /\ pc[w] \in Listed /\ p2'[w].listed = p2[w].listed
  PROVE  [C!ConsolidationNext]_(C!consolidationVars)
<1>1. TheView' \subseteq TheView
  BY DEF TheView, View, Owns
<1>2. TheView' = TheView \/ TheView' = {}
  BY <1>1, OneView
<1>3. Selected(outputs)' = Selected(outputs)
  OBVIOUS
<1> QED BY <1>2, <1>3 DEF TheView, C!ConsolidationNext, C!GiveUp, C!consolidationVars

(* A worker's own step, without a write to the row, that is not the         *)
(* listing: it keeps its place after the listing or loses it.               *)
LEMMA WorkerRefines ==
  ASSUME Inv, NEW w \in Workers, UNCHANGED <<outputs, consolidated, global>>,
         \A v \in Workers : v # w => pc'[v] = pc[v] /\ p2'[v] = p2[v],
         \/ p2'[w] = p2[w] /\ (pc'[w] \in Listed => pc[w] \in Listed)
         \/ pc'[w] \notin Listed
  PROVE  [C!ConsolidationNext]_(C!consolidationVars)
  BY QuietRefines DEF Owns

(* A row that no worker owns any more.                                      *)
LEMMA ReleaseRefines ==
  ASSUME Inv, UNCHANGED <<outputs, consolidated>>, Clean(global') <=> Clean(global),
         \A w \in Workers : OwnedBy(global', p2'[w].token) => pc'[w] \notin Listed
  PROVE  [C!ConsolidationNext]_(C!consolidationVars)
  BY QuietRefines

(* Every step of the pipeline is a step of the consolidator or none.        *)
LEMMA RefinementStep ==
  ASSUME Inv, Inv', [Next]_vars
  PROVE  [C!ConsolidationNext]_(C!consolidationVars)
<1> USE DEF threadVars, dbVars, workerVars, dropVars
<1>a. /\ pc \in [Workers -> Labels] /\ global \in Row \cup {None}
      /\ p2 \in [Workers -> Phase2Claim]
      /\ outputs \in [Threads -> Output \cup {None}]
  BY DEF Inv, TypeOK, Phase2Claim
<1>1. ASSUME NEW w \in Workers,
             \/ StartPipeline(w) \/ TryClaimStage1(w) \/ ClaimsDone(w) \/ ClaimsFail(w)
             \/ Crash(w)
      PROVE  [C!ConsolidationNext]_(C!consolidationVars)
  <2>1. /\ UNCHANGED <<outputs, consolidated, global>>
        /\ pc' = pc \/ \E l \in Labels \ Listed : pc' = [pc EXCEPT ![w] = l]
        /\ p2' = p2 \/ (p2' = [p2 EXCEPT ![w] = NoPhase2] /\ pc' = [pc EXCEPT ![w] = "idle"])
    BY <1>1 DEF StartPipeline, TryClaimStage1, ClaimsDone, ClaimsFail, Crash, Goto, Labels,
       Listed
  <2>2. /\ \A v \in Workers : v # w => pc'[v] = pc[v] /\ p2'[v] = p2[v]
        /\ \/ p2'[w] = p2[w] /\ (pc'[w] \in Listed => pc[w] \in Listed)
           \/ pc'[w] \notin Listed
    BY <1>a, <2>1 DEF Listed
  <2> QED BY <2>1, <2>2, WorkerRefines
<1>2. ASSUME NEW w \in Workers, NEW claim \in held[w],
             \/ \E blank \in BOOLEAN : ExtractSucceeds(w, claim, blank)
             \/ ExtractFindsNothing(w, claim) \/ ExtractFails(w, claim)
      PROVE  [C!ConsolidationNext]_(C!consolidationVars)
  <2>1. claim.thread \in Threads /\ claim.src \in Time
    BY DEF Inv, TypeOK, Held
  <2>2. Owned(claim) => stage1[claim.thread].input \in Time
    BY <2>1 DEF Inv, TypeOK, Owned, OwnedBy, Row
  <2>3. \/ UNCHANGED <<outputs, global>>
        \/ \E src \in Time : global' = EnqueueGlobal(global, src)
    <3>1. outputs[claim.thread] = None =>
            [outputs EXCEPT ![claim.thread] = None] = outputs
      BY <1>a, <2>1
    <3> QED BY <1>2, <2>1, <2>2, <3>1 DEF ExtractSucceeds, ExtractFindsNothing, ExtractFails
  <2>4. Report(w, claim)
    BY <1>2 DEF ExtractSucceeds, ExtractFindsNothing, ExtractFails
  <2>5. /\ consolidated' = consolidated /\ p2' = p2
        /\ \A v \in Workers : pc'[v] \in Listed <=> pc[v] \in Listed
    BY <1>a, <2>4 DEF Report, Goto, Listed
  <2>6. CASE UNCHANGED <<outputs, global>>
    BY <2>5, <2>6, QuietRefines DEF Owns
  <2>7. ASSUME NEW src \in Time, global' = EnqueueGlobal(global, src)
        PROVE  [C!ConsolidationNext]_(C!consolidationVars)
    <3>1. ~ Clean(global')
      BY <2>7, EnqueuedIsDirty
    <3>2. \A v \in Workers : OwnedBy(global', p2[v].token) <=> OwnedBy(global, p2[v].token)
      <4>1. /\ EnqueueGlobal(global, src) # None
            /\ global = None => EnqueueGlobal(global, src).status = "pending"
            /\ global # None => /\ EnqueueGlobal(global, src).token = global.token
                                /\ EnqueueGlobal(global, src).status = "running"
                                     <=> global.status = "running"
        BY <1>a, EnqueueAdvances
      <4> QED BY <2>7, <4>1 DEF OwnedBy
    <3>3. TheView' = TheView
      BY <2>5, <3>2 DEF TheView, View
    <3> QED BY <2>5, <3>1, <3>3 DEF TheView, C!ConsolidationNext, C!Change
  <2> QED BY <2>3, <2>6, <2>7
<1>3. ASSUME NEW w \in Workers, ClaimGlobal(w)
      PROVE  [C!ConsolidationNext]_(C!consolidationVars)
  <2>1. CASE ~ GlobalClaimable(global)
    <3>1. /\ UNCHANGED <<outputs, consolidated, global>> /\ p2' = p2
          /\ pc'[w] \notin Listed /\ \A v \in Workers : v # w => pc'[v] = pc[v]
      BY <1>a, <1>3, <2>1 DEF ClaimGlobal, Goto, Listed
    <3> QED BY <3>1, WorkerRefines
  <2>2. CASE GlobalClaimable(global)
    <3> DEFINE token == Fresh(GlobalTokens)
    <3>1. /\ UNCHANGED <<outputs, consolidated>> /\ Tokens \ GlobalTokens # {}
          /\ global' = GlobalClaim(global, token) /\ pc' = [pc EXCEPT ![w] = "list"]
          /\ p2' = [p2 EXCEPT ![w] = [token |-> token, claimed |-> global.input,
                                      listed |-> {}, mark |-> 0]]
      BY <1>3, <2>2 DEF ClaimGlobal, Goto
    <3>2. global \in Row /\ token \in Tokens /\ token \notin GlobalTokens
      BY <1>a, <2>2, <3>1, FreshIsFresh DEF GlobalClaimable, Clean
    <3> HIDE DEF token
    <3>3. /\ global' \in Row /\ global'.token = token
          /\ global'.input = global.input /\ global'.success = global.success
      BY <3>1, <3>2, GlobalTypes DEF GlobalClaim, Row
    <3>4. Clean(global') <=> Clean(global)
      BY <3>2, <3>3, NoneAssumption DEF Clean
    <3>5. ASSUME NEW v \in Workers, OwnedBy(global', p2'[v].token) PROVE pc'[v] \notin Listed
      <4>1. CASE v = w
        BY <1>a, <3>1, <4>1 DEF Listed
      <4>2. CASE v # w
        <5>1. p2'[v] = p2[v] /\ p2[v].token \in GlobalTokens
          BY <1>a, <3>1, <4>2 DEF GlobalTokens
        <5> QED BY <3>2, <3>3, <3>5, <5>1 DEF OwnedBy
      <4> QED BY <4>1, <4>2
    <3> QED BY <3>1, <3>4, <3>5, ReleaseRefines
  <2> QED BY <2>1, <2>2
<1>4. ASSUME NEW w \in Workers, ListOutputs(w)
      PROVE  [C!ConsolidationNext]_(C!consolidationVars)
  <2>1. PICK mark : p2' = [p2 EXCEPT ![w] = [@ EXCEPT !.listed = Selected(outputs),
                                                     !.mark = mark]]
    BY <1>4 DEF ListOutputs
  <2>2. /\ UNCHANGED <<outputs, consolidated, global>>
        /\ pc[w] = "list" /\ pc' = [pc EXCEPT ![w] = "sync"]
    BY <1>4 DEF ListOutputs, Goto
  <2>3. /\ p2'[w].token = p2[w].token /\ pc'[w] = "sync"
        /\ p2'[w].listed = Selected(outputs)
        /\ \A v \in Workers : v # w => p2'[v] = p2[v] /\ pc'[v] = pc[v]
    BY <1>a, <2>1, <2>2 DEF Phase2Claim
  <2>4. CASE ~ Owns(w)
    BY <2>2, <2>3, <2>4, QuietRefines DEF Owns
  <2>5. CASE Owns(w)
    <3>1. TheView = {} /\ ~ Clean(global)
      <4>1. pc[w] \notin Listed
        BY <2>2 DEF Listed
      <4>2. global.success < global.input /\ global \in Row
        BY <1>a, <2>5 DEF Inv, GlobalInv, OwnerInv, Owns, OwnedBy
      <4>3. ~ Clean(global)
        BY <4>2, NoneAssumption DEF Clean, Row, Time, NullMark
      <4> QED BY <2>5, <4>1, <4>3, OneView
    <3>2. TheView' = {Selected(outputs)}
      <4>1. \A v \in Workers : v # w => ~ (Owns(v) /\ pc[v] \in Listed)
        BY <3>1 DEF TheView, View, Owns
      <4>2. \A v \in Workers :
              OwnedBy(global', p2'[v].token) /\ pc'[v] \in Listed <=> v = w
        BY <2>2, <2>3, <2>5, <4>1 DEF Owns, Listed
      <4>3. TheView' = {p2'[v].listed : v \in {w}}
        BY <4>2 DEF TheView, View
      <4> QED BY <2>3, <4>3
    <3> QED BY <2>2, <3>1, <3>2 DEF TheView, C!ConsolidationNext, C!ReadSelection
  <2> QED BY <2>4, <2>5
<1>5. ASSUME NEW w \in Workers,
             SyncSummaries(w) \/ RebuildRaw(w) \/ AgentCompletes(w) \/ Phase2StepFails(w)
      PROVE  [C!ConsolidationNext]_(C!consolidationVars)
  <2>1. /\ UNCHANGED <<outputs, consolidated, global>> /\ p2' = p2
        /\ \A v \in Workers : v # w => pc'[v] = pc[v]
        /\ pc'[w] \in Listed => pc[w] \in Listed
    BY <1>a, <1>5 DEF SyncSummaries, RebuildRaw, AgentCompletes, Phase2StepFails, Goto, Listed
  <2> QED BY <2>1, WorkerRefines
<1>6. ASSUME NEW w \in Workers, Heartbeat(w)
      PROVE  [C!ConsolidationNext]_(C!consolidationVars)
  <2>1. CASE OwnedBy(global, p2[w].token)
    <3>1. /\ UNCHANGED <<outputs, consolidated, pc, p2>>
          /\ global \in Row /\ global' = [global EXCEPT !.lease = "valid"]
      BY <1>a, <1>6, <2>1 DEF Heartbeat, OwnedBy
    <3>2. /\ global' \in Row /\ global'.status = global.status /\ global'.token = global.token
          /\ global'.input = global.input /\ global'.success = global.success
      BY <3>1 DEF Row
    <3> QED BY <3>1, <3>2, QuietRefines, NoneAssumption DEF Owns, OwnedBy, Clean
  <2>2. CASE ~ OwnedBy(global, p2[w].token)
    <3>1. /\ UNCHANGED <<outputs, consolidated, global>> /\ p2' = p2
          /\ pc'[w] \notin Listed /\ \A v \in Workers : v # w => pc'[v] = pc[v]
      BY <1>a, <1>6, <2>2 DEF Heartbeat, Goto, Listed
    <3> QED BY <3>1, WorkerRefines
  <2> QED BY <2>1, <2>2
<1>7. ASSUME NEW w \in Workers,
             MarkSucceeded(w) \/ MarkFailed(w) \/ MarkFailedIfUnowned(w)
      PROVE  [C!ConsolidationNext]_(C!consolidationVars)
  <2>1. /\ outputs' = outputs /\ pc'[w] \notin Listed
        /\ \A v \in Workers : v # w => pc'[v] = pc[v] /\ p2'[v] = p2[v]
    BY <1>a, <1>7 DEF MarkSucceeded, MarkFailed, MarkFailedIfUnowned, EndPhase2, Goto, Listed
  <2>2. CASE UNCHANGED <<global, consolidated>>
    BY <2>1, <2>2, WorkerRefines
  <2>3. ASSUME global \in Row, global' = JobFailed(global), consolidated' = consolidated
        PROVE  [C!ConsolidationNext]_(C!consolidationVars)
    <3>1. /\ global' \in Row /\ global'.status = "error"
          /\ global'.input = global.input /\ global'.success = global.success
      BY <2>3, FailedType DEF JobFailed, Row
    <3> QED BY <2>1, <2>3, <3>1, ReleaseRefines, NoneAssumption DEF OwnedBy, Clean
  <2>4. ASSUME MarkSucceeded(w), Owns(w)
        PROVE  [C!ConsolidationNext]_(C!consolidationVars)
    <3>1. /\ global \in Row /\ pc[w] = "succeed"
          /\ global' = GlobalDone(global, p2[w].mark) /\ consolidated' = p2[w].listed
      BY <1>a, <2>4 DEF MarkSucceeded, Owns, OwnedBy
    <3>2. p2[w].mark \in Nat
      BY <1>a DEF Phase2Claim
    <3>3. /\ global' \in Row /\ global'.status = "done" /\ global'.input = global.input
          /\ global'.success = IF p2[w].mark > global.success THEN p2[w].mark ELSE global.success
      BY <3>1, <3>2, GlobalTypes DEF GlobalDone, Row
    <3>4. TheView = {p2[w].listed}
      BY <2>4, <3>1, OneView DEF Listed
    <3>5. TheView' = {}
      <4>1. \A v \in Workers : ~ OwnedBy(global', p2'[v].token)
        BY <3>3 DEF OwnedBy
      <4> QED BY <4>1 DEF TheView, View
    <3>6. Clean(global') => p2[w].listed = Selected(outputs)
      BY <2>1, <3>1 DEF Inv, GlobalInv, CleanMeansConsolidated
    <3>7. (~ Clean(global')) \in {TRUE, p2[w].listed # Selected(outputs)}
      <4>1. CASE Clean(global')
        BY <3>6, <4>1, Zenon
      <4>2. CASE ~ Clean(global')
        BY <4>2, Zenon
      <4> QED BY <4>1, <4>2
    <3> QED BY <2>1, <3>1, <3>4, <3>5, <3>7 DEF TheView, C!ConsolidationNext, C!Finish
  <2> QED BY <1>a, <1>7, <2>2, <2>3, <2>4
          DEF MarkSucceeded, MarkFailed, MarkFailedIfUnowned, Owns, OwnedBy, EndPhase2
<1>8. ASSUME GlobalLeaseLapses \/ GlobalBackoffElapses
      PROVE  [C!ConsolidationNext]_(C!consolidationVars)
  <2>1. /\ UNCHANGED <<outputs, consolidated, pc, p2>> /\ global \in Row
        /\ \/ global' = [global EXCEPT !.lease = "lapsed"]
           \/ global' = [global EXCEPT !.retry = "due"]
    BY <1>a, <1>8 DEF GlobalLeaseLapses, GlobalBackoffElapses, MayLapse, LiveLease
  <2>2. /\ global' \in Row /\ global'.status = global.status /\ global'.token = global.token
        /\ global'.input = global.input /\ global'.success = global.success
    BY <2>1 DEF Row
  <2> QED BY <2>1, <2>2, QuietRefines, NoneAssumption DEF Owns, OwnedBy, Clean
<1>9. ASSUME \/ \E t \in Threads : \/ ThreadActivity(t) \/ ThreadIdles(t) \/ ThreadAges(t)
                                  \/ Stage1LeaseLapses(t) \/ Stage1BackoffElapses(t)
             \/ ClearMemoryDataFails \/ RemoveMemoryRoot \/ RemoveMemoryRootFails
             \/ UNCHANGED vars
      PROVE  [C!ConsolidationNext]_(C!consolidationVars)
  <2>1. UNCHANGED <<outputs, consolidated, global, pc, p2>>
    BY <1>9 DEF ThreadActivity, ThreadIdles, ThreadAges, Stage1LeaseLapses,
       Stage1BackoffElapses, ClearMemoryDataFails, RemoveMemoryRoot, RemoveMemoryRootFails, vars
  <2> QED BY <2>1, QuietRefines DEF Owns
<1>10. ASSUME ClearMemoryData PROVE [C!ConsolidationNext]_(C!consolidationVars)
  <2>1. global' = None /\ consolidated' = {} /\ outputs' = [t \in Threads |-> None]
    BY <1>10 DEF ClearMemoryData
  <2>2. Selected(outputs') = {}
    BY <2>1 DEF Selected, Latest, Rows
  <2>3. TheView' = {}
    BY <2>1 DEF TheView, View, OwnedBy
  <2>4. Clean(global')
    BY <2>1 DEF Clean
  <2> QED BY <2>1, <2>2, <2>3, <2>4 DEF TheView, C!ConsolidationNext, C!Clear
<1> QED BY <1>1, <1>2, <1>3, <1>4, <1>5, <1>6, <1>7, <1>8, <1>9, <1>10
        DEF Next, Phase1Step, Phase2Step, Timer

(* Any number of runs over the shared job store, with their leases,         *)
(* takeovers, stalls, failures and crashes, implement one consolidator.     *)
THEOREM PipelineRefinesConsolidation == Spec => RefinesConsolidation
<1>1. Init => C!ConsolidationInit
  <2> SUFFICES ASSUME Init PROVE C!ConsolidationInit
    OBVIOUS
  <2>1. Selected(outputs) = {}
    BY DEF Init, Selected, Latest, Rows
  <2>2. TheView = {} /\ Clean(global)
    BY DEF Init, TheView, View, OwnedBy, Clean
  <2> QED BY <2>1, <2>2 DEF Init, TheView, C!ConsolidationInit
<1>2. Inv /\ Inv' /\ [Next]_vars => [C!ConsolidationNext]_(C!consolidationVars)
  BY RefinementStep
<1> QED BY <1>1, <1>2, Invariance, PTL DEF Spec, RefinesConsolidation, C!ConsolidationSpec
=============================================================================
