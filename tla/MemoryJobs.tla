----------------------------- MODULE MemoryJobs -----------------------------
(***************************************************************************)
(* The persistent memory job store: state/src/runtime/memories.rs over the *)
(* tables of state/migrations/0006_memories.sql.                           *)
(*                                                                         *)
(* Every operator is the effect, or the WHERE clause, of one SQL statement *)
(* or transaction on a row of `jobs'; the processes that issue them are in *)
(* MemoryPipeline.  A lease or a backoff is kept as the outcome of its     *)
(* comparison with the clock (lease_until > now, retry_at > now), which an *)
(* action of the environment may change at any time.                       *)
(***************************************************************************)
EXTENDS Integers, FiniteSets

CONSTANTS Threads,       \* thread ids; numbers, because queries order by id
          Tokens,        \* ownership tokens (UUIDs)
          None,          \* SQL NULL of a token, or a missing row
          Retries,       \* DEFAULT_RETRY_REMAINING
          MaxRunning     \* max_running_jobs (= max_claimed of the startup scan)

ASSUME ThreadsAssumption == Threads \subseteq Nat /\ IsFiniteSet(Threads)
ASSUME RetriesAssumption == Retries \in Nat \ {0}
ASSUME MaxRunningAssumption == MaxRunning \in Nat

Time == Nat \ {0}        \* unix times of thread activity
NullMark == -1           \* a NULL watermark, as COALESCE(., -1) reads it

(* A row of `jobs'.  Columns that no statement tests are left out.          *)
Row == [status  : {"pending", "running", "done", "error"},
        token   : Tokens \cup {None},
        lease   : {"none", "valid", "lapsed"},
        retry   : {"none", "waiting", "due"},
        retries : Int,
        input   : Time,
        success : Nat \cup {NullMark}]

(* A row of `stage1_outputs'; blank: raw_memory and rollout_summary trim to *)
(* nothing, although they are not empty.                                    *)
Output == [src : Time, blank : BOOLEAN]

ASSUME NoneAssumption == None \notin Tokens \cup Row \cup Output

LiveLease(row) == row # None /\ row.status = "running" /\ row.lease = "valid"

(* Mutant of OwnedBy: the token is not compared.                            *)
OwnedByAnyone(row, token) == row # None /\ row.status = "running"

(* WHERE status = 'running' AND ownership_token = ?                         *)
OwnedBy(row, token) ==
  row # None /\ row.status = "running" /\ row.token = token

-----------------------------------------------------------------------------
(* Stage 1: one row per thread.                                             *)

(* Mutant of UpToDate: the job's own watermark is not consulted.            *)
UpToDateByOutput(row, out, src) == out # None /\ out.src >= src

UpToDate(row, out, src) ==
  \/ out # None /\ out.src >= src
  \/ row # None /\ row.success >= src

RunningStage1(rows) == {t \in Threads : LiveLease(rows[t])}

(* Mutants of Stage1Claimable: without the running-jobs count; and with the *)
(* lease of a running row ignored.                                          *)
Stage1ClaimableUncounted(rows, outs, t, src) ==
  /\ ~ UpToDate(rows[t], outs[t], src)
  /\ rows[t] = None
     \/ /\ ~ LiveLease(rows[t])
        /\ rows[t].retry # "waiting" \/ src > rows[t].input
        /\ rows[t].retries > 0 \/ src > rows[t].input

Stage1ClaimableNeverStolen(rows, outs, t, src) ==
  /\ ~ UpToDate(rows[t], outs[t], src)
  /\ Cardinality(RunningStage1(rows)) < MaxRunning
  /\ rows[t] = None
     \/ /\ rows[t].status # "running"
        /\ rows[t].retry # "waiting" \/ src > rows[t].input
        /\ rows[t].retries > 0 \/ src > rows[t].input

(* The WHERE clauses of the claiming upsert.  `advanced' is                 *)
(* excluded.input_watermark > COALESCE(jobs.input_watermark, -1).           *)
Stage1Claimable(rows, outs, t, src) ==
  /\ ~ UpToDate(rows[t], outs[t], src)
  /\ Cardinality(RunningStage1(rows)) < MaxRunning
  /\ rows[t] = None
     \/ LET advanced == src > rows[t].input IN
        /\ ~ LiveLease(rows[t])
        /\ rows[t].retry # "waiting" \/ advanced
        /\ rows[t].retries > 0 \/ advanced

(* Mutants of Stage1Claim: retries are not refilled when the source         *)
(* advances; and a new row's success watermark is left out.                 *)
Stage1ClaimNoRefill(row, src, token) ==
  [status  |-> "running", token |-> token, lease |-> "valid", retry |-> "none",
   retries |-> IF row = None THEN Retries ELSE row.retries,
   input   |-> src,
   success |-> IF row = None THEN NullMark ELSE row.success]

Stage1ClaimUnset(row, src, token) ==
  [status  |-> "running", token |-> token, lease |-> "valid", retry |-> "none",
   retries |-> Retries, input |-> src, success |-> None]

Stage1Claim(row, src, token) ==
  [status  |-> "running", token |-> token, lease |-> "valid", retry |-> "none",
   retries |-> IF row = None \/ src > row.input THEN Retries ELSE row.retries,
   input   |-> src,
   success |-> IF row = None THEN NullMark ELSE row.success]

Stage1Done(row) ==
  [row EXCEPT !.status = "done", !.lease = "none", !.success = row.input]

(* ON CONFLICT(thread_id) DO UPDATE ... WHERE excluded.source_updated_at >= *)
Upsert(out, src, blank) ==
  IF out = None \/ src >= out.src THEN [src |-> src, blank |-> blank] ELSE out

(* The failure update, the same statement for both kinds of job.            *)
JobFailed(row) ==
  [row EXCEPT !.status = "error", !.lease = "none", !.retry = "waiting",
              !.retries = row.retries - 1]

-----------------------------------------------------------------------------
(* Phase 2: the singleton global row.                                       *)

(* Mutant of EnqueueGlobal: the watermark only moves to larger sources.     *)
EnqueueGlobalMax(row, mark) ==
  IF row = None
  THEN [status |-> "pending", token |-> None, lease |-> "none", retry |-> "none",
        retries |-> Retries, input |-> mark, success |-> 0]
  ELSE [row EXCEPT
          !.status  = IF row.status = "running" THEN "running" ELSE "pending",
          !.retry   = IF row.status = "running" THEN row.retry ELSE "none",
          !.retries = IF row.retries > Retries THEN row.retries ELSE Retries,
          !.input   = IF mark > row.input THEN mark ELSE row.input]

EnqueueGlobal(row, mark) ==
  IF row = None
  THEN [status |-> "pending", token |-> None, lease |-> "none", retry |-> "none",
        retries |-> Retries, input |-> mark, success |-> 0]
  ELSE [row EXCEPT
          !.status  = IF row.status = "running" THEN "running" ELSE "pending",
          !.retry   = IF row.status = "running" THEN row.retry ELSE "none",
          !.retries = IF row.retries > Retries THEN row.retries ELSE Retries,
          !.input   = IF mark > row.input THEN mark ELSE row.input + 1]

Clean(row) == row = None \/ row.input <= row.success

(* Mutant of GlobalClaimable: only retry_at IS NULL, without the case of a  *)
(* retry_at that has come.                                                  *)
GlobalClaimableNoRetry(row) ==
  ~ Clean(row) /\ row.retries > 0 /\ row.retry = "none" /\ ~ LiveLease(row)

GlobalClaimable(row) ==
  /\ ~ Clean(row)
  /\ row.retries > 0
  /\ row.retry # "waiting"
  /\ ~ LiveLease(row)

GlobalClaim(row, token) ==
  [row EXCEPT !.status = "running", !.token = token, !.lease = "valid",
              !.retry = "none"]

(* Mutant of GlobalDone: completion covers whatever is enqueued by now.     *)
GlobalDoneAll(row, mark) ==
  [row EXCEPT !.status = "done", !.lease = "none", !.success = row.input]

GlobalDone(row, mark) ==
  [row EXCEPT !.status = "done", !.lease = "none",
              !.success = IF mark > row.success THEN mark ELSE row.success]

-----------------------------------------------------------------------------
(* ORDER BY source_updated_at DESC, thread_id DESC LIMIT n, as a set.       *)

Newer(a, b) == a.src > b.src \/ (a.src = b.src /\ a.thread > b.thread)

Latest(S, n) == {x \in S : Cardinality({y \in S : Newer(y, x)}) < n}
=============================================================================
