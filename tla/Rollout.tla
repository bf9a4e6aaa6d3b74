------------------------------ MODULE Rollout ------------------------------
(***************************************************************************)
(* The rollout recorder of a thread: core/src/rollout/recorder.rs, with    *)
(* the callers of core/src/codex.rs that record, persist, flush and shut   *)
(* down.  Tasks of the session send commands through a bounded channel to  *)
(* a writer task.  A fresh thread keeps its items in memory until persist  *)
(* creates the file; a resumed thread appends to the file it has.  A write *)
(* may fail and the process may die at any point, also in the middle of a  *)
(* line.                                                                   *)
(***************************************************************************)
EXTENDS Naturals, Sequences, FiniteSets

CONSTANTS Callers, None,
          Capacity,     \* of the channel
          MaxItems,     \* bound: items recorded
          MaxBatch,     \* bound: items of one record_items
          MaxFaults     \* bound: crashes and failed writes

ASSUME RolloutAssumption ==
  /\ None \notin Callers
  /\ Capacity \in Nat \ {0}
  /\ MaxItems \in Nat /\ MaxBatch \in Nat /\ MaxFaults \in Nat

VARIABLES next,      \* items recorded so far, numbered from 1
          start,     \* items recorded by earlier processes
          queue,     \* the channel
          writer,    \* "run", "failed" (the task has returned), "down"
          open,      \* writer.is_some(): the file is materialized
          buffer,    \* buffered_items
          pending,   \* what is left to write of the command at hand
          ackTo,     \* the persist call that waits for it, or None
          disk,      \* the complete lines of the file
          tail,      \* "clean"; "torn": the last line has no newline; "cut":
                     \* and ends inside a character of several bytes
          call,      \* what each caller waits for
          sending,   \* callers that wait for room in the channel
          cover,     \* items sent before that call's command
          acked,     \* items whose persist, flush or shutdown was answered
          unkept,    \* those a failing writer answered for
          torn,      \* lines torn so far
          faults     \* crashes and failed writes so far

fileVars == <<disk, tail, torn>>
writerVars == <<writer, open, buffer, pending, ackTo>>
callVars == <<call, sending, cover, acked, unkept>>
vars == <<next, start, queue, writerVars, fileVars, callVars, faults>>

Init ==
  /\ next = 0 /\ start = 0 /\ queue = <<>>
  /\ writer = "run" /\ open = FALSE /\ buffer = <<>> /\ pending = <<>> /\ ackTo = None
  /\ disk = <<>> /\ tail = "clean" /\ torn = 0
  /\ call = [c \in Callers |-> "idle"] /\ sending = {}
  /\ cover = [c \in Callers |-> 0]
  /\ acked = {} /\ unkept = {} /\ faults = 0

-----------------------------------------------------------------------------
(* The callers.  A send waits for room in the channel and fails once the    *)
(* writer has returned.                                                     *)

Send(cmd) ==
  /\ writer = "run" /\ Len(queue) < Capacity
  /\ queue' = Append(queue, cmd)

(* record_items of n items that are persisted.                              *)
RecordItems(n) ==
  /\ next + n <= MaxItems
  /\ Send([op |-> "add", items |-> [k \in 1 .. n |-> next + k], by |-> None])
  /\ next' = next + n
  /\ UNCHANGED <<start, writerVars, fileVars, callVars, faults>>

(* persist, flush and shutdown: the command waits for room, and the call    *)
(* then for the answer of the writer.                                       *)
Ask(c, op) ==
  /\ writer = "run" /\ call[c] = "idle"
  /\ call' = [call EXCEPT ![c] = op]
  /\ sending' = sending \cup {c}
  /\ UNCHANGED <<next, start, queue, writerVars, fileVars, cover, acked, unkept, faults>>

Enqueue(c) ==
  /\ c \in sending
  /\ Send([op |-> call[c], items |-> <<>>, by |-> c])
  /\ sending' = sending \ {c}
  /\ cover' = [cover EXCEPT ![c] = next]
  /\ UNCHANGED <<next, start, writerVars, fileVars, call, acked, unkept, faults>>

(* What the call of c is to find written: the items recorded before it, by  *)
(* flush and shutdown only once there is a file.                            *)
Promised(c) ==
  IF call[c] = "persist" \/ open THEN start + 1 .. cover[c] ELSE {}

(* The call of c returns Ok.                                                *)
Ack(c) ==
  /\ call' = [call EXCEPT ![c] = "idle"]
  /\ acked' = acked \cup Promised(c)
  /\ UNCHANGED <<sending, cover, unkept>>

-----------------------------------------------------------------------------
(* The writer: rollout_writer.                                              *)

Idle == writer = "run" /\ pending = <<>> /\ queue # <<>>
Receive(op) == Idle /\ Head(queue).op = op /\ queue' = Tail(queue)

(* A mutant: the newest items come first in the buffer.                     *)
AddToBufferFront ==
  /\ Receive("add") /\ ~ open
  /\ buffer' = Head(queue).items \o buffer
  /\ UNCHANGED <<next, start, writer, open, pending, ackTo, fileVars, callVars, faults>>

(* AddItems before the file exists, and after.                              *)
AddToBuffer ==
  /\ Receive("add") /\ ~ open
  /\ buffer' = buffer \o Head(queue).items
  /\ UNCHANGED <<next, start, writer, open, pending, ackTo, fileVars, callVars, faults>>

AddItems ==
  /\ Receive("add") /\ open
  /\ pending' = Head(queue).items
  /\ UNCHANGED <<next, start, writer, open, buffer, ackTo, fileVars, callVars, faults>>

(* A mutant: the call returns as soon as the file has been created.         *)
MaterializeAcksFirst ==
  /\ Receive("persist") /\ ~ open
  /\ open' = TRUE
  /\ pending' = <<0>> \o buffer
  /\ buffer' = <<>>
  /\ Ack(Head(queue).by)
  /\ UNCHANGED <<next, start, writer, ackTo, fileVars, faults>>

(* Persist creates the file, and has the metadata of the session and the    *)
(* buffered items to write.                                                 *)
Materialize ==
  /\ Receive("persist") /\ ~ open
  /\ open' = TRUE
  /\ pending' = <<0>> \o buffer
  /\ buffer' = <<>>
  /\ ackTo' = Head(queue).by
  /\ UNCHANGED <<next, start, writer, fileVars, callVars, faults>>

(* The commands that are only answered.                                     *)
Answer ==
  /\ \/ Receive("persist") /\ open
     \/ Receive("flush")
     \/ Receive("shutdown")
  /\ Ack(Head(queue).by)
  /\ UNCHANGED <<next, start, writerVars, fileVars, faults>>

(* write_rollout_item: a line goes to the end of the file.  After a torn    *)
(* line it ends that line, and neither can be read.                         *)
PutLine ==
  /\ disk' = IF tail = "clean" THEN Append(disk, Head(pending)) ELSE disk
  /\ tail' = "clean"
  /\ UNCHANGED torn

WriteLine ==
  /\ writer = "run" /\ pending # <<>>
  /\ PutLine
  /\ pending' = Tail(pending)
  /\ IF Len(pending) = 1 /\ ackTo # None
     THEN Ack(ackTo) /\ ackTo' = None
     ELSE UNCHANGED <<callVars, ackTo>>
  /\ UNCHANGED <<next, start, queue, writer, open, buffer, faults>>

(* A mutant: the commands still in the channel are kept.                    *)
ReturnsKeeping(c) ==
  /\ writer' = "failed" /\ UNCHANGED queue
  /\ pending' = <<>> /\ buffer' = <<>> /\ ackTo' = None
  /\ call' = [d \in Callers |-> IF d = c THEN "idle" ELSE call[d]]
  /\ sending' = {}
  /\ unkept' = IF c = None THEN unkept ELSE unkept \cup Promised(c)
  /\ faults' = faults + 1

(* The writer returns its error.  It has answered c; the channel closes and *)
(* every other call that waits, for room or an answer, gets an error.       *)
Returns(c) ==
  /\ writer' = "failed" /\ queue' = <<>>
  /\ pending' = <<>> /\ buffer' = <<>> /\ ackTo' = None
  /\ call' = [d \in Callers |-> "idle"] /\ sending' = {}
  /\ unkept' = IF c = None THEN unkept ELSE unkept \cup Promised(c)
  /\ faults' = faults + 1

(* Part of a line is written, which may end inside a character.             *)
Tear ==
  /\ tail' \in {"torn", "cut"} \ {tail}
  /\ torn' = IF tail = "clean" THEN torn + 1 ELSE torn
  /\ UNCHANGED disk

(* The write of a line fails: none, some or all of it was written.          *)
WriteFails ==
  /\ faults < MaxFaults
  /\ writer = "run" /\ pending # <<>>
  /\ Tear \/ PutLine \/ UNCHANGED fileVars
  /\ Returns(ackTo)
  /\ UNCHANGED <<next, start, open, cover, acked>>

(* The file cannot be opened or flushed: the call is answered all the same. *)
OpenFails ==
  /\ faults < MaxFaults
  /\ Idle
  /\ \/ Head(queue).op = "persist" /\ ~ open
     \/ Head(queue).op = "flush" /\ open
  /\ Returns(Head(queue).by)
  /\ UNCHANGED <<next, start, open, fileVars, cover, acked>>

-----------------------------------------------------------------------------
(* The process.                                                             *)

(* It dies, or the session is closed; a line being written may be torn.     *)
Crash ==
  /\ faults < MaxFaults /\ faults' = faults + 1
  /\ writer # "down" /\ writer' = "down"
  /\ (pending # <<>> /\ Tear) \/ UNCHANGED fileVars
  /\ queue' = <<>> /\ buffer' = <<>> /\ pending' = <<>> /\ ackTo' = None
  /\ open' = FALSE
  /\ call' = [c \in Callers |-> "idle"] /\ sending' = {}
  /\ start' = next
  /\ UNCHANGED <<next, cover, acked, unkept>>

(* get_rollout_history finds the metadata, and the recorder opens the file  *)
(* for appending.  The file is read as one string, so that a line cut       *)
(* inside a character makes all of it unreadable.                           *)
Resume ==
  /\ writer = "down" /\ disk # <<>> /\ tail # "cut"
  /\ writer' = "run" /\ open' = TRUE
  /\ UNCHANGED <<next, start, queue, buffer, pending, ackTo, fileVars, callVars, faults>>

-----------------------------------------------------------------------------
WriterStep ==
  \/ AddToBuffer
  \/ AddItems
  \/ Materialize
  \/ Answer
  \/ WriteLine

Next ==
  \/ \E n \in 1 .. MaxBatch : RecordItems(n)
  \/ \E c \in Callers, op \in {"persist", "flush", "shutdown"} : Ask(c, op)
  \/ \E c \in Callers : Enqueue(c)
  \/ WriterStep
  \/ WriteFails
  \/ OpenFails
  \/ Crash
  \/ Resume

Spec == Init /\ [][Next]_vars

(* The writer task is polled as long as it has something to do, and the     *)
(* channel serves the senders that wait for room in their order.            *)
FairSpec ==
  /\ Spec
  /\ WF_vars(WriterStep)
  /\ \A c \in Callers : SF_vars(Enqueue(c))

-----------------------------------------------------------------------------
Lines == {disk[n] : n \in DOMAIN disk}

(* An item that persist, flush or shutdown answered for is in the file for  *)
(* good, over failed writes, crashes and resumes; what a torn line costs is *)
(* the one item that is appended to it.  A line cut inside a character      *)
(* costs everything: the lines are there, and load_rollout_items rejects    *)
(* the file.                                                                *)
AckedIsDurable == tail # "cut" => Cardinality(acked \ Lines) <= torn

(* The complete lines are a journal: only appended to, in the order of      *)
(* recording, the metadata first and nothing twice.                         *)
J == INSTANCE Journal WITH recorded <- next, log <- disk
RefinesJournal == J!Spec

(* persist, flush and shutdown return.                                      *)
CallsReturn == \A c \in Callers : call[c] # "idle" ~> call[c] = "idle"

(* persist is to "Materialize the rollout file and persist all buffered     *)
(* items" and flush to "wait until they are committed": what a call that    *)
(* returned Ok came after is in the file.                                   *)
OkMeansWritten == unkept \subseteq Lines
=============================================================================
