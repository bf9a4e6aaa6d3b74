--------------------------- MODULE RolloutProofs ---------------------------
(***************************************************************************)
(* The complete lines of a rollout file are a journal, for any callers,    *)
(* capacity and bounds.  The invariant follows an item on its way: what is *)
(* on disk was recorded before what is pending or buffered, and that       *)
(* before what is queued.                                                  *)
(***************************************************************************)
EXTENDS Rollout, SequenceTheorems, FiniteSetTheorems, TLAPS

Ops == {"add", "persist", "flush", "shutdown"}
Cmds == [op : Ops, items : Seq(Nat), by : Callers \cup {None}]

TypeInv ==
  /\ next \in Nat
  /\ queue \in Seq(Cmds)
  /\ writer \in {"run", "failed", "down"}
  /\ open \in BOOLEAN
  /\ buffer \in Seq(Nat) /\ pending \in Seq(Nat) /\ disk \in Seq(Nat)

Before(s, t) == \A m \in 1 .. Len(s), n \in 1 .. Len(t) : s[m] < t[n]
Increasing(s) == \A m, n \in 1 .. Len(s) : m < n => s[m] < s[n]
AtMost(s, x) == \A n \in 1 .. Len(s) : s[n] <= x
Positive(s) == \A n \in 1 .. Len(s) : 0 < s[n]

(* What the writer has of the file and of memory in each of its states.     *)
StageInv ==
  /\ open => buffer = <<>>
  /\ writer = "run" /\ ~ open => pending = <<>> /\ disk = <<>>
  /\ writer # "run" => queue = <<>> /\ pending = <<>> /\ buffer = <<>>

(* Everything recorded is in order along its way to the file.               *)
OrderInv ==
  /\ Increasing(pending) /\ Increasing(buffer)
  /\ Before(disk, pending)
  /\ AtMost(disk, next) /\ AtMost(pending, next) /\ AtMost(buffer, next)
  /\ Positive(buffer)
  /\ \A k \in 1 .. Len(queue) :
       /\ Increasing(queue[k].items) /\ Positive(queue[k].items)
       /\ AtMost(queue[k].items, next)
       /\ Before(disk, queue[k].items)
       /\ Before(pending, queue[k].items)
       /\ Before(buffer, queue[k].items)
  /\ \A j, k \in 1 .. Len(queue) : j < k => Before(queue[j].items, queue[k].items)

Inv == TypeInv /\ StageInv /\ OrderInv

-----------------------------------------------------------------------------
(* The calls that wait.  A caller waits for room, or has one command in the *)
(* channel, or the writer works for it, and what is queued behind that      *)
(* command was recorded after the call.                                     *)

Later(s, x) == \A n \in 1 .. Len(s) : x < s[n]

CmdInv(k) ==
  /\ queue[k].op = "add" <=> queue[k].by = None
  /\ queue[k].by # None =>
       /\ queue[k].items = <<>> /\ call[queue[k].by] = queue[k].op
       /\ \A j \in 1 .. Len(queue) :
            /\ k < j => Later(queue[j].items, cover[queue[k].by])
            /\ queue[j].by = queue[k].by => j = k

AckToInv ==
  ackTo # None =>
    /\ open /\ call[ackTo] = "persist"
    /\ \A j \in 1 .. Len(queue) :
         Later(queue[j].items, cover[ackTo]) /\ queue[j].by # ackTo

CallTypes ==
  /\ start \in Nat /\ start <= next
  /\ writer = "down" => start = next
  /\ call \in [Callers -> {"idle", "persist", "flush", "shutdown"}]
  /\ cover \in [Callers -> Nat] /\ \A c \in Callers : cover[c] <= next
  /\ ackTo \in Callers \cup {None}
  /\ sending \subseteq Callers

(* A caller that waits for room has nothing in the channel.                 *)
SendingInv ==
  \A c \in sending :
    /\ call[c] # "idle" /\ ackTo # c
    /\ \A k \in 1 .. Len(queue) : queue[k].by # c

CallInv ==
  CallTypes /\ (\A k \in 1 .. Len(queue) : CmdInv(k)) /\ AckToInv /\ SendingInv

-----------------------------------------------------------------------------
(* Sequences of numbers.                                                    *)

(* Moving the head of what is pending to the end of the file.               *)
LEMMA MoveHead ==
  ASSUME NEW d \in Seq(Nat), NEW p \in Seq(Nat), NEW x \in Nat, p # <<>>,
         Before(d, p), Increasing(p), AtMost(d, x), AtMost(p, x)
  PROVE  /\ Before(Append(d, Head(p)), Tail(p)) /\ Before(d, Tail(p))
         /\ Increasing(Tail(p))
         /\ AtMost(Append(d, Head(p)), x) /\ AtMost(Tail(p), x)
         /\ Head(p) \in 0 .. x
         /\ \A n \in 1 .. Len(d) : d[n] < Head(p)
  BY DEF Before, Increasing, AtMost

(* Whatever came after both parts of the move still does.                   *)
LEMMA MoveBefore ==
  ASSUME NEW d \in Seq(Nat), NEW p \in Seq(Nat), NEW q \in Seq(Nat), p # <<>>,
         Before(d, q), Before(p, q)
  PROVE  Before(Append(d, Head(p)), q) /\ Before(Tail(p), q)
  <1>1. Before(Tail(p), q)
    BY DEF Before
  <1>2. ASSUME NEW m \in 1 .. Len(Append(d, Head(p))), NEW n \in 1 .. Len(q)
        PROVE  Append(d, Head(p))[m] < q[n]
    <2>1. CASE m = Len(d) + 1
      BY <2>1 DEF Before
    <2>2. CASE m \in 1 .. Len(d)
      BY <2>2 DEF Before
    <2> QED BY <2>1, <2>2
  <1> QED BY <1>1, <1>2 DEF Before

(* Joining two sequences of which one comes before the other.               *)
LEMMA Join ==
  ASSUME NEW s \in Seq(Nat), NEW t \in Seq(Nat), NEW x \in Nat,
         Before(s, t), Increasing(s), Increasing(t), AtMost(s, x), AtMost(t, x)
  PROVE  /\ Increasing(s \o t) /\ AtMost(s \o t, x)
         /\ Positive(s) /\ Positive(t) => Positive(s \o t)
  <1>1. AtMost(s \o t, x) /\ (Positive(s) /\ Positive(t) => Positive(s \o t))
    BY DEF AtMost, Positive
  <1>2. ASSUME NEW m \in 1 .. Len(s \o t), NEW n \in 1 .. Len(s \o t), m < n
        PROVE  (s \o t)[m] < (s \o t)[n]
    <2>1. CASE n <= Len(s)
      BY <2>1, <1>2 DEF Increasing
    <2>2. CASE m <= Len(s) /\ ~ n <= Len(s)
      BY <2>2, <1>2 DEF Before
    <2>3. CASE ~ m <= Len(s)
      <3>1. /\ m - Len(s) \in 1 .. Len(t) /\ (s \o t)[m] = t[m - Len(s)]
            /\ n - Len(s) \in 1 .. Len(t) /\ (s \o t)[n] = t[n - Len(s)]
            /\ m - Len(s) < n - Len(s)
        BY <2>3, <1>2
      <3> QED BY <3>1 DEF Increasing
    <2> QED BY <2>1, <2>2, <2>3
  <1> QED BY <1>1, <1>2 DEF Increasing

(* What comes after both parts comes after their join.                      *)
LEMMA JoinBefore ==
  ASSUME NEW s \in Seq(Nat), NEW t \in Seq(Nat), NEW q \in Seq(Nat),
         Before(s, q), Before(t, q)
  PROVE  Before(s \o t, q)
  <1>1. ASSUME NEW m \in 1 .. Len(s \o t), NEW n \in 1 .. Len(q)
        PROVE  (s \o t)[m] < q[n]
    <2>1. CASE m <= Len(s)
      BY <2>1 DEF Before
    <2>2. CASE ~ m <= Len(s)
      <3>1. m - Len(s) \in 1 .. Len(t) /\ (s \o t)[m] = t[m - Len(s)]
        BY <2>2
      <3> QED BY <3>1 DEF Before
    <2> QED BY <2>1, <2>2
  <1> QED BY <1>1 DEF Before

(* The metadata of the session comes before every item.                     *)
LEMMA Metadata ==
  ASSUME NEW x \in Nat
  PROVE  /\ <<0>> \in Seq(Nat) /\ Increasing(<<0>>) /\ AtMost(<<0>>, x)
         /\ \A t \in Seq(Nat) : Positive(t) => Before(<<0>>, t)
  BY DEF Increasing, AtMost, Before, Positive

(* Nothing is out of order in the empty sequence.                           *)
LEMMA Nothing ==
  /\ <<>> \in Seq(Nat) /\ Increasing(<<>>) /\ Positive(<<>>)
  /\ \A x : AtMost(<<>>, x)
  /\ \A s : Before(<<>>, s) /\ Before(s, <<>>)
  BY DEF Increasing, Positive, AtMost, Before

-----------------------------------------------------------------------------
(* The files, the channel and the writer start empty.                       *)
LEMMA InitInv == Init => Inv
  <1> SUFFICES ASSUME Init PROVE Inv
    OBVIOUS
  <1>1. /\ next = 0 /\ queue = <<>> /\ writer = "run" /\ open = FALSE
        /\ buffer = <<>> /\ pending = <<>> /\ disk = <<>>
    BY DEF Init
  <1>2. TypeInv /\ StageInv
    <2>1. <<>> \in Seq(Nat) /\ <<>> \in Seq(Cmds) /\ 0 \in Nat
      OBVIOUS
    <2> QED BY <1>1, <2>1, Zenon DEF TypeInv, StageInv
  <1>3. 1 .. Len(queue) = {}
    BY <1>1
  <1>4. OrderInv
    BY <1>1, <1>3, Nothing DEF OrderInv
  <1> QED BY <1>2, <1>4 DEF Inv

(* The items of a queued command.                                           *)
LEMMA QueueItems ==
  ASSUME TypeInv
  PROVE  \A k \in 1 .. Len(queue) : queue[k].items \in Seq(Nat)
  <1> TAKE k \in 1 .. Len(queue)
  <1>1. queue \in Seq(Cmds)
    BY DEF TypeInv
  <1>2. queue[k] \in Cmds
    BY <1>1, ElementOfSeq
  <1> QED BY <1>2 DEF Cmds

(* A command at the end of the queue whose items come after all others.     *)
LEMMA SendInv ==
  ASSUME Inv, writer = "run", NEW cmd \in Cmds, NEW n \in Nat, next <= n,
         queue' = Append(queue, cmd), next' = n,
         UNCHANGED <<writerVars, fileVars>>,
         Increasing(cmd.items), Positive(cmd.items), AtMost(cmd.items, n),
         \A s \in Seq(Nat) : AtMost(s, next) => Before(s, cmd.items)
  PROVE  Inv'
  <1>1. TypeInv'
    BY DEF Inv, TypeInv, writerVars, fileVars
  <1>2. StageInv'
    BY DEF Inv, StageInv, writerVars, fileVars
  <1>3. ASSUME NEW s \in Seq(Nat), AtMost(s, next)
        PROVE  AtMost(s, n)
    <2>1. next \in Nat /\ \A i \in 1 .. Len(s) : s[i] \in Nat
      BY DEF Inv, TypeInv
    <2> QED BY <1>3, <2>1 DEF AtMost
  <1>4. \A k \in 1 .. Len(queue) : queue[k].items \in Seq(Nat)
    BY QueueItems DEF Inv
  <1>5. /\ Len(queue') = Len(queue) + 1 /\ Len(queue) \in Nat
        /\ \A k \in 1 .. Len(queue) : queue'[k] = queue[k]
        /\ queue'[Len(queue) + 1] = cmd
    BY DEF Inv, TypeInv
  <1>6. OrderInv'
    <2>1. /\ disk' = disk /\ pending' = pending /\ buffer' = buffer
          /\ disk \in Seq(Nat) /\ pending \in Seq(Nat) /\ buffer \in Seq(Nat)
      BY DEF Inv, TypeInv, writerVars, fileVars
    <2>2. ASSUME NEW k \in 1 .. Len(queue')
          PROVE  /\ Increasing(queue'[k].items) /\ Positive(queue'[k].items)
                 /\ AtMost(queue'[k].items, n)
                 /\ Before(disk, queue'[k].items)
                 /\ Before(pending, queue'[k].items)
                 /\ Before(buffer, queue'[k].items)
      <3>1. CASE k = Len(queue) + 1
        BY <3>1, <1>5, <2>1 DEF Inv, OrderInv
      <3>2. CASE k \in 1 .. Len(queue)
        BY <3>2, <1>3, <1>4, <1>5, <2>1 DEF Inv, OrderInv
      <3> QED BY <3>1, <3>2, <1>5
    <2>3. ASSUME NEW j \in 1 .. Len(queue'), NEW k \in 1 .. Len(queue'), j < k
          PROVE  Before(queue'[j].items, queue'[k].items)
      <3>1. j \in 1 .. Len(queue)
        BY <2>3, <1>5
      <3>2. CASE k = Len(queue) + 1
        BY <3>1, <3>2, <1>4, <1>5 DEF Inv, OrderInv
      <3>3. CASE k \in 1 .. Len(queue)
        BY <2>3, <3>1, <3>3, <1>5 DEF Inv, OrderInv
      <3> QED BY <3>2, <3>3, <1>5
    <2> QED BY <1>3, <2>1, <2>2, <2>3 DEF Inv, OrderInv
  <1> QED BY <1>1, <1>2, <1>6 DEF Inv

(* Taking a command off the queue.                                          *)
LEMMA ReceiveFacts ==
  ASSUME Inv, NEW op, Receive(op)
  PROVE  /\ writer = "run" /\ pending = <<>>
         /\ 1 \in 1 .. Len(queue) /\ Head(queue) = queue[1] /\ Head(queue) \in Cmds
         /\ Head(queue).items \in Seq(Nat)
         /\ queue' \in Seq(Cmds)
         /\ \A k \in 1 .. Len(queue') : k + 1 \in 1 .. Len(queue) /\ queue'[k] = queue[k + 1]
  <1>1. writer = "run" /\ pending = <<>> /\ queue # <<>> /\ queue' = Tail(queue)
    BY DEF Receive, Idle
  <1>2. queue \in Seq(Cmds)
    BY DEF Inv, TypeInv
  <1>3. /\ 1 \in 1 .. Len(queue) /\ Head(queue) = queue[1] /\ Head(queue) \in Cmds
        /\ queue' \in Seq(Cmds)
        /\ \A k \in 1 .. Len(queue') : k + 1 \in 1 .. Len(queue) /\ queue'[k] = queue[k + 1]
    BY <1>1, <1>2
  <1>4. Head(queue).items \in Seq(Nat)
    BY <1>3 DEF Cmds
  <1> QED BY <1>1, <1>3, <1>4

(* What is left in the queue is in order after what was taken, if the file  *)
(* is left alone and what is buffered or pending comes before the rest.     *)
LEMMA ReceiveOrder ==
  ASSUME Inv, NEW op, Receive(op), UNCHANGED <<next, disk>>,
         Increasing(pending'), Increasing(buffer'), Before(disk, pending'),
         AtMost(pending', next), AtMost(buffer', next), Positive(buffer'),
         \A q \in Seq(Nat) :
            Before(buffer, q) /\ Before(Head(queue).items, q)
              => Before(pending', q) /\ Before(buffer', q)
  PROVE  OrderInv'
  <1>1. \A k \in 1 .. Len(queue') : k + 1 \in 1 .. Len(queue) /\ queue'[k] = queue[k + 1]
    BY ReceiveFacts
  <1>2. 1 \in 1 .. Len(queue) /\ Head(queue) = queue[1] /\ Len(queue') \in Nat
    BY ReceiveFacts
  <1>3. ASSUME NEW k \in 1 .. Len(queue')
        PROVE  /\ Increasing(queue'[k].items) /\ Positive(queue'[k].items)
               /\ AtMost(queue'[k].items, next)
               /\ Before(disk, queue'[k].items)
               /\ Before(pending', queue'[k].items)
               /\ Before(buffer', queue'[k].items)
    <2>1. queue'[k].items \in Seq(Nat)
      BY <1>1, QueueItems DEF Inv
    <2>2. 1 < k + 1
      BY <1>2
    <2>3. Before(queue[1].items, queue'[k].items) /\ Before(buffer, queue'[k].items)
      BY <1>1, <1>2, <2>2 DEF Inv, OrderInv
    <2> QED BY <1>1, <1>2, <2>1, <2>3 DEF Inv, OrderInv
  <1>4. ASSUME NEW j \in 1 .. Len(queue'), NEW k \in 1 .. Len(queue'), j < k
        PROVE  Before(queue'[j].items, queue'[k].items)
    <2>1. j + 1 < k + 1
      BY <1>2, <1>4
    <2> QED BY <1>1, <2>1 DEF Inv, OrderInv
  <1> QED BY <1>3, <1>4 DEF Inv, OrderInv

-----------------------------------------------------------------------------
(* One lemma per action of the session and of the writer.                   *)

(* record_items numbers its items after all that were recorded before.      *)
LEMMA RecordItemsInv ==
  ASSUME Inv, NEW n \in 1 .. MaxBatch, RecordItems(n)
  PROVE  Inv' /\ next < next' /\ disk' = disk
  <1> DEFINE items == [k \in 1 .. n |-> next + k]
             cmd == [op |-> "add", items |-> items, by |-> None]
  <1>1. next \in Nat /\ n \in Nat /\ 1 <= n
    BY RolloutAssumption DEF Inv, TypeInv
  <1>2. /\ items \in Seq(Nat) /\ Len(items) = n
        /\ \A k \in 1 .. n : items[k] = next + k
    BY <1>1
  <1>3. /\ writer = "run" /\ queue' = Append(queue, cmd) /\ next' = next + n
        /\ UNCHANGED <<writerVars, fileVars>>
    BY DEF RecordItems, Send
  <1> HIDE DEF items
  <1>4. cmd \in Cmds
    BY <1>2 DEF Cmds, Ops
  <1>5. Increasing(items) /\ Positive(items) /\ AtMost(items, next + n)
    BY <1>1, <1>2 DEF Increasing, Positive, AtMost
  <1>6. ASSUME NEW s \in Seq(Nat), AtMost(s, next)
        PROVE  Before(s, items)
    BY <1>1, <1>2, <1>6 DEF AtMost, Before
  <1>7. cmd.items = items
    OBVIOUS
  <1> HIDE DEF cmd
  <1>8. Inv'
    BY <1>1, <1>3, <1>4, <1>5, <1>6, <1>7, SendInv
  <1> QED BY <1>1, <1>3, <1>8 DEF fileVars

(* persist, flush and shutdown are called.                                  *)
LEMMA AskInv ==
  ASSUME Inv, NEW c \in Callers, NEW op \in {"persist", "flush", "shutdown"}, Ask(c, op)
  PROVE  Inv' /\ UNCHANGED <<next, disk>>
  <1>1. UNCHANGED <<next, queue, writer, open, buffer, pending, disk>>
    BY DEF Ask, writerVars, fileVars
  <1> QED BY <1>1 DEF Inv, TypeInv, StageInv, OrderInv

(* A call that waited for room queues a command without items.              *)
LEMMA EnqueueInv ==
  ASSUME Inv, CallInv, NEW c \in Callers, Enqueue(c)
  PROVE  Inv' /\ UNCHANGED <<next, disk>>
  <1> DEFINE cmd == [op |-> call[c], items |-> <<>>, by |-> c]
  <1>1. /\ writer = "run" /\ queue' = Append(queue, cmd) /\ next' = next
        /\ UNCHANGED <<writerVars, fileVars>>
    BY DEF Enqueue, Send
  <1>2. cmd \in Cmds /\ cmd.items = <<>>
    <2>1. call[c] \in Ops
      BY DEF Enqueue, CallInv, CallTypes, SendingInv, Ops
    <2> QED BY <2>1, Nothing DEF Cmds
  <1> HIDE DEF cmd
  <1>3. next \in Nat /\ next <= next
    BY DEF Inv, TypeInv
  <1>4. Inv'
    BY <1>1, <1>2, <1>3, Nothing, SendInv
  <1> QED BY <1>1, <1>4 DEF fileVars

(* Items reach the buffer behind the ones that are there.                   *)
LEMMA AddToBufferInv ==
  ASSUME Inv, AddToBuffer
  PROVE  Inv' /\ UNCHANGED <<next, disk>>
  <1> DEFINE it == Head(queue).items
  <1>1. /\ Receive("add") /\ ~ open /\ buffer' = buffer \o it
        /\ UNCHANGED <<next, writer, open, pending, disk>>
    BY DEF AddToBuffer, fileVars
  <1>2. /\ writer = "run" /\ pending = <<>> /\ 1 \in 1 .. Len(queue)
        /\ it = queue[1].items /\ it \in Seq(Nat) /\ queue' \in Seq(Cmds)
    BY <1>1, ReceiveFacts
  <1>3. buffer \in Seq(Nat) /\ next \in Nat
    BY DEF Inv, TypeInv
  <1>4. Increasing(it) /\ Positive(it) /\ AtMost(it, next) /\ Before(buffer, it)
    BY <1>2 DEF Inv, OrderInv
  <1> HIDE DEF it
  <1>5. Increasing(buffer') /\ AtMost(buffer', next) /\ Positive(buffer')
    BY <1>1, <1>2, <1>3, <1>4, Join DEF Inv, OrderInv
  <1>6. buffer' \in Seq(Nat)
    BY <1>1, <1>2, <1>3
  <1>7. \A q \in Seq(Nat) : Before(buffer, q) /\ Before(it, q)
                              => Before(pending', q) /\ Before(buffer', q)
    BY <1>1, <1>2, <1>3, JoinBefore, Nothing
  <1>8. OrderInv'
    BY <1>1, <1>5, <1>7, ReceiveOrder DEF it, Inv, OrderInv
  <1>9. TypeInv' /\ StageInv'
    BY <1>1, <1>2, <1>6 DEF Inv, TypeInv, StageInv
  <1> QED BY <1>1, <1>8, <1>9 DEF Inv

(* Items of an open file are next to be written.                            *)
LEMMA AddItemsInv ==
  ASSUME Inv, AddItems
  PROVE  Inv' /\ UNCHANGED <<next, disk>>
  <1> DEFINE it == Head(queue).items
  <1>1. /\ Receive("add") /\ open /\ pending' = it
        /\ UNCHANGED <<next, writer, open, buffer, disk>>
    BY DEF AddItems, fileVars
  <1>2. /\ writer = "run" /\ 1 \in 1 .. Len(queue)
        /\ it = queue[1].items /\ it \in Seq(Nat) /\ queue' \in Seq(Cmds)
    BY <1>1, ReceiveFacts
  <1>3. Increasing(it) /\ AtMost(it, next) /\ Before(disk, it)
    BY <1>2 DEF Inv, OrderInv
  <1>4. OrderInv'
    BY <1>1, <1>3, ReceiveOrder DEF Inv, OrderInv
  <1> HIDE DEF it
  <1>5. TypeInv' /\ StageInv'
    BY <1>1, <1>2 DEF Inv, TypeInv, StageInv
  <1> QED BY <1>1, <1>4, <1>5 DEF Inv

(* The new file gets the metadata and what was buffered.                    *)
LEMMA MaterializeInv ==
  ASSUME Inv, Materialize
  PROVE  Inv' /\ UNCHANGED <<next, disk>>
  <1>1. /\ Receive("persist") /\ ~ open /\ open' = TRUE
        /\ pending' = <<0>> \o buffer /\ buffer' = <<>>
        /\ UNCHANGED <<next, writer, disk>>
    BY DEF Materialize, fileVars
  <1>2. writer = "run" /\ queue' \in Seq(Cmds)
    BY <1>1, ReceiveFacts
  <1>3. buffer \in Seq(Nat) /\ next \in Nat /\ disk = <<>>
    BY <1>1, <1>2 DEF Inv, TypeInv, StageInv
  <1>4. /\ <<0>> \in Seq(Nat) /\ Increasing(<<0>>) /\ AtMost(<<0>>, next)
        /\ Before(<<0>>, buffer)
    BY <1>3, Metadata DEF Inv, OrderInv
  <1>5. Increasing(pending') /\ AtMost(pending', next)
    BY <1>1, <1>3, <1>4, Join DEF Inv, OrderInv
  <1>6. pending' \in Seq(Nat)
    BY <1>1, <1>3
  <1>7. \A k \in 1 .. Len(queue') : /\ k + 1 \in 1 .. Len(queue)
                                    /\ queue'[k] = queue[k + 1]
                                    /\ queue'[k].items \in Seq(Nat)
    BY <1>1, ReceiveFacts, QueueItems DEF Inv
  <1>8. ASSUME NEW k \in 1 .. Len(queue')
        PROVE  Before(pending', queue'[k].items)
    <2>1. Before(buffer, queue'[k].items) /\ Before(<<0>>, queue'[k].items)
      BY <1>3, <1>7, Metadata DEF Inv, OrderInv
    <2> QED BY <1>1, <1>3, <1>4, <1>7, <2>1, JoinBefore
  <1>9. ASSUME NEW j \in 1 .. Len(queue'), NEW k \in 1 .. Len(queue'), j < k
        PROVE  Before(queue'[j].items, queue'[k].items)
    <2>1. j + 1 < k + 1
      BY <1>9
    <2> QED BY <1>7, <2>1 DEF Inv, OrderInv
  <1>10. OrderInv'
    BY <1>1, <1>3, <1>5, <1>7, <1>8, <1>9, Nothing DEF Inv, OrderInv
  <1>11. TypeInv' /\ StageInv'
    BY <1>1, <1>2, <1>6, Nothing, Zenon DEF Inv, TypeInv, StageInv
  <1> QED BY <1>1, <1>10, <1>11 DEF Inv

(* A command that is only answered leaves everything else in place.         *)
LEMMA AnswerInv ==
  ASSUME Inv, Answer
  PROVE  Inv' /\ UNCHANGED <<next, disk>>
  <1>1. /\ \E op \in Ops : Receive(op)
        /\ UNCHANGED <<next, writer, open, buffer, pending, disk>>
    BY DEF Answer, Ops, writerVars, fileVars
  <1>2. PICK op \in Ops : Receive(op)
    BY <1>1
  <1>3. writer = "run" /\ pending = <<>> /\ queue' \in Seq(Cmds)
    BY <1>2, ReceiveFacts
  <1>4. OrderInv'
    BY <1>1, <1>2, <1>3, Nothing, ReceiveOrder DEF Inv, OrderInv
  <1>5. TypeInv' /\ StageInv'
    BY <1>1, <1>3 DEF Inv, TypeInv, StageInv
  <1> QED BY <1>1, <1>4, <1>5 DEF Inv

(* A line that is put behind the file's last is the next of the journal.    *)
LEMMA PutLineWrites ==
  ASSUME Inv, pending # <<>>, PutLine, next' = next
  PROVE  /\ disk' \in Seq(Nat) /\ disk' \in {disk, Append(disk, Head(pending))}
         /\ [J!Write]_<<next, disk>>
  <1>1. /\ disk \in Seq(Nat) /\ pending \in Seq(Nat) /\ next \in Nat
        /\ Before(disk, pending) /\ Increasing(pending)
        /\ AtMost(disk, next) /\ AtMost(pending, next)
    BY DEF Inv, TypeInv, OrderInv
  <1>2. /\ Head(pending) \in 0 .. next
        /\ \A n \in 1 .. Len(disk) : disk[n] < Head(pending)
    BY <1>1, MoveHead
  <1>3. DOMAIN disk = 1 .. Len(disk)
    BY <1>1
  <1>4. disk' \in {disk, Append(disk, Head(pending))}
    BY DEF PutLine
  <1>5. CASE disk' = Append(disk, Head(pending))
    <2>1. J!Write
      BY <1>2, <1>3, <1>5 DEF J!Write
    <2> QED BY <1>1, <1>2, <1>5, <2>1
  <1>6. CASE disk' = disk
    BY <1>1, <1>6
  <1> QED BY <1>4, <1>5, <1>6

(* The line written was the first pending one.                              *)
LEMMA WriteLineInv ==
  ASSUME Inv, WriteLine
  PROVE  Inv' /\ [J!Write]_<<next, disk>>
  <1>1. /\ writer = "run" /\ pending # <<>> /\ PutLine /\ pending' = Tail(pending)
        /\ UNCHANGED <<next, queue, writer, open, buffer>>
    BY DEF WriteLine
  <1>2. /\ disk' \in Seq(Nat) /\ disk' \in {disk, Append(disk, Head(pending))}
        /\ [J!Write]_<<next, disk>>
    BY <1>1, PutLineWrites
  <1>3. /\ disk \in Seq(Nat) /\ pending \in Seq(Nat) /\ next \in Nat
        /\ Before(disk, pending) /\ Increasing(pending)
        /\ AtMost(disk, next) /\ AtMost(pending, next)
    BY DEF Inv, TypeInv, OrderInv
  <1>4. /\ Before(disk', pending') /\ Increasing(pending')
        /\ AtMost(disk', next) /\ AtMost(pending', next)
    BY <1>1, <1>2, <1>3, MoveHead
  <1>5. pending' \in Seq(Nat)
    BY <1>1, <1>3
  <1>6. ASSUME NEW k \in 1 .. Len(queue)
        PROVE  Before(disk', queue[k].items) /\ Before(pending', queue[k].items)
    <2>1. /\ queue[k].items \in Seq(Nat)
          /\ Before(disk, queue[k].items) /\ Before(pending, queue[k].items)
      BY QueueItems DEF Inv, OrderInv
    <2> QED BY <1>1, <1>2, <1>3, <2>1, MoveBefore
  <1>7. OrderInv'
    BY <1>1, <1>4, <1>6 DEF Inv, OrderInv
  <1>8. TypeInv' /\ StageInv'
    BY <1>1, <1>2, <1>5 DEF Inv, TypeInv, StageInv
  <1> QED BY <1>2, <1>7, <1>8 DEF Inv

(* A writer that is gone has nothing left to write.                         *)
LEMMA GoneInv ==
  ASSUME Inv, writer' \in {"failed", "down"}, open' \in BOOLEAN,
         queue' = <<>>, pending' = <<>>, buffer' = <<>>, next' = next,
         disk' \in Seq(Nat), AtMost(disk', next)
  PROVE  Inv'
  <1>1. <<>> \in Seq(Cmds) /\ 1 .. Len(queue') = {}
    OBVIOUS
  <1>2. TypeInv'
    BY <1>1, Nothing DEF Inv, TypeInv
  <1>3. StageInv'
    BY DEF StageInv
  <1>4. OrderInv'
    BY <1>1, Nothing DEF OrderInv
  <1> QED BY <1>2, <1>3, <1>4 DEF Inv

(* A failed write has left the file as it was, torn, or a line longer.      *)
LEMMA WriteFailsInv ==
  ASSUME Inv, WriteFails
  PROVE  Inv' /\ [J!Write]_<<next, disk>>
  <1>1. /\ pending # <<>> /\ next' = next /\ open' = open /\ writer' = "failed"
        /\ queue' = <<>> /\ pending' = <<>> /\ buffer' = <<>>
        /\ Tear \/ PutLine \/ UNCHANGED fileVars
    BY DEF WriteFails, Returns
  <1>2. /\ disk \in Seq(Nat) /\ pending \in Seq(Nat) /\ next \in Nat /\ open \in BOOLEAN
        /\ Before(disk, pending) /\ Increasing(pending)
        /\ AtMost(disk, next) /\ AtMost(pending, next)
    BY DEF Inv, TypeInv, OrderInv
  <1>3. CASE disk' = disk
    <2>1. Inv'
      BY <1>1, <1>2, <1>3, GoneInv
    <2> QED BY <1>1, <1>3, <2>1
  <1>4. CASE PutLine
    <2>1. /\ disk' \in Seq(Nat) /\ disk' \in {disk, Append(disk, Head(pending))}
          /\ [J!Write]_<<next, disk>>
      BY <1>1, <1>4, PutLineWrites
    <2>2. AtMost(disk', next)
      BY <1>1, <1>2, <2>1, MoveHead
    <2>3. Inv'
      BY <1>1, <1>2, <2>1, <2>2, GoneInv
    <2> QED BY <2>1, <2>3
  <1> QED BY <1>1, <1>3, <1>4 DEF Tear, fileVars

(* A file that cannot be opened or flushed, and the death of the process.   *)
LEMMA OpenFailsInv ==
  ASSUME Inv, OpenFails
  PROVE  Inv' /\ UNCHANGED <<next, disk>>
  <1>1. /\ next' = next /\ open' = open /\ writer' = "failed" /\ disk' = disk
        /\ queue' = <<>> /\ pending' = <<>> /\ buffer' = <<>>
    BY DEF OpenFails, Returns, fileVars
  <1>2. disk \in Seq(Nat) /\ open \in BOOLEAN /\ AtMost(disk, next)
    BY DEF Inv, TypeInv, OrderInv
  <1>3. Inv'
    BY <1>1, <1>2, GoneInv
  <1> QED BY <1>1, <1>3

(* The process dies with everything that was not written.                   *)
LEMMA CrashInv ==
  ASSUME Inv, Crash
  PROVE  Inv' /\ UNCHANGED <<next, disk>>
  <1>1. /\ next' = next /\ open' = FALSE /\ writer' = "down" /\ disk' = disk
        /\ queue' = <<>> /\ pending' = <<>> /\ buffer' = <<>>
    BY DEF Crash, Tear, fileVars
  <1>2. disk \in Seq(Nat) /\ AtMost(disk, next)
    BY DEF Inv, TypeInv, OrderInv
  <1>3. open' \in BOOLEAN
    BY <1>1
  <1>4. Inv'
    BY <1>1, <1>2, <1>3, GoneInv
  <1> QED BY <1>1, <1>4

(* The file is opened again by a writer that has nothing yet to write.      *)
LEMMA ResumeInv ==
  ASSUME Inv, Resume
  PROVE  Inv' /\ UNCHANGED <<next, disk>>
  <1>1. /\ writer = "down" /\ writer' = "run" /\ open' = TRUE
        /\ UNCHANGED <<next, queue, buffer, pending, disk>>
    BY DEF Resume, fileVars
  <1>2. TypeInv' /\ StageInv'
    BY <1>1 DEF Inv, TypeInv, StageInv
  <1>3. OrderInv'
    BY <1>1 DEF Inv, OrderInv
  <1> QED BY <1>1, <1>2, <1>3 DEF Inv

-----------------------------------------------------------------------------
(* Every step keeps the order and is a step of the journal.                 *)
LEMMA StepInv ==
  ASSUME Inv, CallInv, [Next]_vars
  PROVE  Inv' /\ [J!Record \/ J!Write]_<<next, disk>>
  <1>1. ASSUME NEW n \in 1 .. MaxBatch, RecordItems(n)
        PROVE  Inv' /\ J!Record
    <2>1. Inv' /\ next < next' /\ disk' = disk /\ next \in Nat /\ next' \in Nat
      BY <1>1, RecordItemsInv DEF Inv, TypeInv
    <2> QED BY <2>1 DEF J!Record
  <1>2. ASSUME NEW c \in Callers, NEW op \in {"persist", "flush", "shutdown"}, Ask(c, op)
        PROVE  Inv' /\ UNCHANGED <<next, disk>>
    BY <1>2, AskInv
  <1>3. CASE AddToBuffer
    BY <1>3, AddToBufferInv
  <1>4. CASE AddItems
    BY <1>4, AddItemsInv
  <1>5. CASE Materialize
    BY <1>5, MaterializeInv
  <1>6. CASE Answer
    BY <1>6, AnswerInv
  <1>7. CASE WriteLine
    BY <1>7, WriteLineInv
  <1>8. CASE WriteFails
    BY <1>8, WriteFailsInv
  <1>9. CASE OpenFails
    BY <1>9, OpenFailsInv
  <1>10. CASE Crash
    BY <1>10, CrashInv
  <1>11. CASE Resume
    BY <1>11, ResumeInv
  <1>12. ASSUME NEW c \in Callers, Enqueue(c)
         PROVE  Inv' /\ UNCHANGED <<next, disk>>
    BY <1>12, EnqueueInv
  <1>13. CASE UNCHANGED vars
    BY <1>13 DEF vars, writerVars, fileVars, Inv, TypeInv, StageInv, OrderInv
  <1> QED BY <1>1, <1>2, <1>3, <1>4, <1>5, <1>6, <1>7, <1>8, <1>9, <1>10, <1>11, <1>12,
             <1>13
          DEF Next, WriterStep

-----------------------------------------------------------------------------
(* Nothing comes late in the empty sequence.                                *)
LEMMA NothingLater == \A x : Later(<<>>, x)
  BY DEF Later

(* A command sent: its items are later than every call, and it is the only  *)
(* one of its caller.                                                       *)
LEMMA SendCalls ==
  ASSUME Inv, CallInv, NEW cmd \in Cmds, queue' = Append(queue, cmd),
         UNCHANGED <<open, ackTo>>,
         CallTypes', cmd.op = "add" <=> cmd.by = None,
         Later(cmd.items, next),
         cmd.by # None => /\ cmd.items = <<>> /\ cmd.by \in sending
                          /\ call'[cmd.by] = cmd.op,
         sending' = sending \ {cmd.by},
         \A d \in Callers : d # cmd.by => call'[d] = call[d] /\ cover'[d] = cover[d]
  PROVE  CallInv'
  <1>1. /\ Len(queue') = Len(queue) + 1 /\ Len(queue) \in Nat
        /\ \A k \in 1 .. Len(queue) : queue'[k] = queue[k] /\ queue[k] \in Cmds
        /\ queue'[Len(queue) + 1] = cmd
    BY DEF Inv, TypeInv
  <1>2. \A d \in Callers : Later(cmd.items, cover[d])
    <2>1. cmd.items \in Seq(Nat) /\ next \in Nat
      BY DEF Cmds, Inv, TypeInv
    <2>2. ASSUME NEW d \in Callers PROVE cover[d] \in Nat /\ cover[d] <= next
      BY DEF CallInv, CallTypes
    <2>3. ASSUME NEW x \in Nat, x <= next PROVE Later(cmd.items, x)
      BY <2>1, <2>3 DEF Later
    <2> QED BY <2>2, <2>3
  <1>3. \A k \in 1 .. Len(queue) : queue[k].by # None =>
          queue[k].by \in Callers /\ queue[k].by # cmd.by
    <2> TAKE k \in 1 .. Len(queue)
    <2>1. queue[k].by \in Callers \cup {None}
      BY <1>1 DEF Cmds
    <2> QED BY <2>1 DEF CallInv, SendingInv
  <1>4. ackTo # None => ackTo \in Callers /\ ackTo # cmd.by
    BY DEF CallInv, CallTypes, SendingInv
  <1>5. ASSUME NEW k \in 1 .. Len(queue) PROVE CmdInv(k)'
    <2>1. CmdInv(k) /\ queue'[k] = queue[k]
      BY <1>1 DEF CallInv
    <2>2. CASE queue[k].by = None
      BY <2>1, <2>2 DEF CmdInv
    <2>3. CASE queue[k].by # None
      <3> DEFINE c == queue[k].by
      <3>1. c \in Callers /\ c # cmd.by /\ call'[c] = call[c] /\ cover'[c] = cover[c]
        BY <1>3, <2>3
      <3>2. ASSUME NEW j \in 1 .. Len(queue')
            PROVE  /\ k < j => Later(queue'[j].items, cover[c])
                   /\ queue'[j].by = c => j = k
        <4>1. CASE j \in 1 .. Len(queue)
          BY <1>1, <2>1, <2>3, <4>1 DEF CmdInv
        <4>2. CASE j = Len(queue) + 1
          BY <1>1, <1>2, <3>1, <4>2
        <4> QED BY <1>1, <4>1, <4>2
      <3> QED BY <2>1, <2>3, <3>1, <3>2 DEF CmdInv
    <2> QED BY <2>2, <2>3
  <1>6. ASSUME NEW k, k = Len(queue) + 1 PROVE CmdInv(k)'
    <2>1. queue'[k] = cmd /\ k \in Nat
      BY <1>1, <1>6
    <2>2. CASE cmd.by = None
      BY <2>1, <2>2 DEF CmdInv
    <2>3. CASE cmd.by # None
      <3>1. ASSUME NEW j \in 1 .. Len(queue')
            PROVE  ~ k < j /\ (queue'[j].by = cmd.by => j = k)
        <4>1. CASE j \in 1 .. Len(queue)
          BY <1>1, <1>3, <1>6, <2>3, <4>1
        <4>2. CASE j = Len(queue) + 1
          BY <1>1, <1>6, <4>2
        <4> QED BY <1>1, <4>1, <4>2
      <3> QED BY <2>1, <2>3, <3>1 DEF CmdInv
    <2> QED BY <2>2, <2>3
  <1>7. AckToInv'
    <2> SUFFICES ASSUME ackTo # None PROVE AckToInv'
      BY DEF AckToInv
    <2>1. /\ ackTo \in Callers /\ ackTo # cmd.by
          /\ call'[ackTo] = call[ackTo] /\ cover'[ackTo] = cover[ackTo]
      BY <1>4
    <2>2. ASSUME NEW j \in 1 .. Len(queue')
          PROVE  Later(queue'[j].items, cover[ackTo]) /\ queue'[j].by # ackTo
      <3>1. CASE j \in 1 .. Len(queue)
        BY <1>1, <3>1 DEF CallInv, AckToInv
      <3>2. CASE j = Len(queue) + 1
        BY <1>1, <1>2, <2>1, <3>2
      <3> QED BY <1>1, <3>1, <3>2
    <2> QED BY <2>1, <2>2 DEF CallInv, AckToInv
  <1>8. \A k \in 1 .. Len(queue') : CmdInv(k)'
    BY <1>1, <1>5, <1>6
  <1>9. SendingInv'
    <2> SUFFICES ASSUME NEW c \in sending, c # cmd.by
                 PROVE  /\ call'[c] # "idle" /\ ackTo # c
                        /\ \A k \in 1 .. Len(queue') : queue'[k].by # c
      BY DEF SendingInv
    <2>1. /\ c \in Callers /\ call[c] # "idle" /\ ackTo # c
          /\ \A k \in 1 .. Len(queue) : queue[k].by # c
      BY DEF CallInv, CallTypes, SendingInv
    <2>2. ASSUME NEW k \in 1 .. Len(queue') PROVE queue'[k].by # c
      <3>1. CASE k \in 1 .. Len(queue)
        BY <1>1, <2>1, <3>1
      <3>2. CASE k = Len(queue) + 1
        BY <1>1, <3>2
      <3> QED BY <1>1, <3>1, <3>2
    <2> QED BY <2>1, <2>2
  <1> QED BY <1>7, <1>8, <1>9 DEF CallInv

(* A command taken off the channel, whose caller waits on or is answered.   *)
LEMMA ReceiveCalls ==
  ASSUME Inv, CallInv, NEW op, Receive(op), CallTypes', cover' = cover,
         \A d \in Callers : d # Head(queue).by => call'[d] = call[d],
         call' = call \/ (Head(queue).by # None /\ ackTo' = ackTo),
         sending' = sending, open => open',
         \/ ackTo' = ackTo
         \/ ackTo' = Head(queue).by /\ op = "persist" /\ open'
  PROVE  CallInv'
  <1> DEFINE h == Head(queue).by
  <1>1. /\ 1 \in 1 .. Len(queue) /\ Head(queue) = queue[1] /\ Head(queue) \in Cmds
        /\ \A k \in 1 .. Len(queue') : k + 1 \in 1 .. Len(queue) /\ queue'[k] = queue[k + 1]
        /\ Len(queue') \in Nat /\ Head(queue).op = op
    BY ReceiveFacts DEF Receive
  <1>2. CmdInv(1)
    BY <1>1 DEF CallInv
  <1>3. \A k \in 1 .. Len(queue) : queue[k].by \in Callers \cup {None}
    <2> TAKE k \in 1 .. Len(queue)
    <2>1. queue[k] \in Cmds
      BY ElementOfSeq DEF Inv, TypeInv
    <2> QED BY <2>1 DEF Cmds
  <1>4. ASSUME NEW k \in 1 .. Len(queue') PROVE CmdInv(k)'
    <2>1. /\ CmdInv(k + 1) /\ queue'[k] = queue[k + 1] /\ k + 1 # 1
      BY <1>1 DEF CallInv
    <2>2. CASE queue[k + 1].by = None
      BY <2>1, <2>2 DEF CmdInv
    <2>3. CASE queue[k + 1].by # None
      <3> DEFINE c == queue[k + 1].by
      <3>1. c \in Callers /\ c # h
        BY <1>1, <1>3, <2>1, <2>3 DEF CmdInv
      <3>2. call'[c] = call[c]
        BY <3>1
      <3>3. ASSUME NEW j \in 1 .. Len(queue')
            PROVE  /\ k < j => Later(queue'[j].items, cover[c])
                   /\ queue'[j].by = c => j = k
        <4>1. j + 1 \in 1 .. Len(queue) /\ queue'[j] = queue[j + 1] /\ (k < j => k + 1 < j + 1)
          BY <1>1
        <4>2. j + 1 = k + 1 => j = k
          OBVIOUS
        <4> QED BY <2>1, <2>3, <4>1, <4>2 DEF CmdInv
      <3> QED BY <2>1, <2>3, <3>2, <3>3 DEF CmdInv
    <2> QED BY <2>2, <2>3
  <1>5. AckToInv'
    <2>1. CASE ackTo' = ackTo
      <3> SUFFICES ASSUME ackTo # None PROVE AckToInv'
        BY <2>1 DEF AckToInv
      <3>1. /\ ackTo \in Callers /\ open /\ call[ackTo] = "persist" /\ ackTo # h
            /\ \A j \in 1 .. Len(queue) :
                 Later(queue[j].items, cover[ackTo]) /\ queue[j].by # ackTo
        BY <1>1 DEF CallInv, CallTypes, AckToInv
      <3>2. call'[ackTo] = "persist"
        BY <3>1
      <3> QED BY <1>1, <2>1, <3>1, <3>2 DEF AckToInv
    <2>2. CASE ackTo' = h /\ op = "persist" /\ open' /\ call' = call
      <3>1. h # None /\ call[h] = "persist"
        BY <1>1, <1>2, <2>2 DEF CmdInv
      <3>2. ASSUME NEW j \in 1 .. Len(queue')
            PROVE  Later(queue'[j].items, cover[h]) /\ queue'[j].by # h
        <4>1. j + 1 \in 1 .. Len(queue) /\ queue'[j] = queue[j + 1] /\ 1 < j + 1 /\ j + 1 # 1
          BY <1>1
        <4> QED BY <1>1, <1>2, <3>1, <4>1 DEF CmdInv
      <3> QED BY <2>2, <3>1, <3>2 DEF AckToInv
    <2> QED BY <2>1, <2>2
  <1>6. SendingInv'
    <2> SUFFICES ASSUME NEW c \in sending
                 PROVE  /\ call'[c] # "idle" /\ ackTo' # c
                        /\ \A k \in 1 .. Len(queue') : queue'[k].by # c
      BY DEF SendingInv
    <2>1. /\ c \in Callers /\ call[c] # "idle" /\ ackTo # c
          /\ \A k \in 1 .. Len(queue) : queue[k].by # c
      BY DEF CallInv, CallTypes, SendingInv
    <2>2. c # h
      BY <1>1, <2>1
    <2> QED BY <1>1, <2>1, <2>2
  <1> QED BY <1>4, <1>5, <1>6 DEF CallInv

(* A writer that is gone leaves no call waiting.                            *)
LEMMA GoneCalls ==
  ASSUME CallTypes', queue' = <<>>, ackTo' = None, sending' = {}
  PROVE  CallInv'
  <1>1. 1 .. Len(queue') = {}
    OBVIOUS
  <1> QED BY <1>1 DEF CallInv, AckToInv, SendingInv

(* Nobody waits at first.                                                   *)
LEMMA InitCalls == Init => CallInv
  <1> SUFFICES ASSUME Init PROVE CallInv
    OBVIOUS
  <1>1. /\ next = 0 /\ start = 0 /\ queue = <<>> /\ writer = "run" /\ ackTo = None
        /\ call = [c \in Callers |-> "idle"] /\ cover = [c \in Callers |-> 0]
        /\ sending = {}
    BY DEF Init
  <1>2. 1 .. Len(queue) = {}
    BY <1>1
  <1> QED BY <1>1, <1>2 DEF CallInv, CallTypes, AckToInv, SendingInv

(* Every step keeps the calls and the channel together.                     *)
LEMMA CallStep ==
  ASSUME Inv, CallInv, [Next]_vars
  PROVE  CallInv'
  <1> USE DEF writerVars, fileVars, callVars
  <1>0. /\ next \in Nat /\ queue \in Seq(Cmds) /\ CallTypes
        /\ writer \in {"run", "failed", "down"}
    BY DEF Inv, TypeInv, CallInv
  <1>1. ASSUME NEW n \in 1 .. MaxBatch, RecordItems(n) PROVE CallInv'
    <2> DEFINE items == [k \in 1 .. n |-> next + k]
               cmd == [op |-> "add", items |-> items, by |-> None]
    <2>1. /\ writer = "run" /\ queue' = Append(queue, cmd) /\ next' = next + n
          /\ UNCHANGED <<start, writer, open, ackTo, call, cover, sending>>
      BY <1>1 DEF RecordItems, Send
    <2>2. n \in Nat /\ 1 <= n
      BY RolloutAssumption
    <2>3. items \in Seq(Nat) /\ Later(items, next)
      BY <1>0, <2>2 DEF Later
    <2>4. CallTypes'
      BY <1>0, <2>1, <2>2 DEF CallTypes
    <2> HIDE DEF items
    <2>5. cmd \in Cmds /\ cmd.op = "add" /\ cmd.by = None /\ cmd.items = items
      BY <2>3 DEF Cmds, Ops
    <2> HIDE DEF cmd
    <2>6. sending' = sending \ {None}
      BY <1>0, <2>1, RolloutAssumption DEF CallTypes
    <2> QED BY <2>1, <2>3, <2>4, <2>5, <2>6, SendCalls
  <1>2. ASSUME NEW c \in Callers, NEW op \in {"persist", "flush", "shutdown"}, Ask(c, op)
        PROVE  CallInv'
    <2>1. /\ call[c] = "idle" /\ call' = [call EXCEPT ![c] = op]
          /\ sending' = sending \cup {c}
          /\ UNCHANGED <<next, start, queue, writer, open, ackTo, cover>>
      BY <1>2 DEF Ask
    <2>2. CallTypes'
      BY <1>0, <2>1 DEF CallTypes
    <2>3. call'[c] = op /\ \A d \in Callers : d # c => call'[d] = call[d]
      BY <1>0, <2>1 DEF CallTypes
    <2>4. ackTo # c
      BY <2>1, RolloutAssumption DEF CallInv, AckToInv
    <2>5. ASSUME NEW k \in 1 .. Len(queue)
          PROVE  queue[k].by \in Callers \cup {None} /\ queue[k].by # c /\ CmdInv(k)
      <3>1. queue[k] \in Cmds /\ CmdInv(k)
        BY <1>0, ElementOfSeq DEF CallInv
      <3> QED BY <2>1, <3>1, RolloutAssumption DEF CmdInv, Cmds, Ops
    <2>6. ASSUME NEW k \in 1 .. Len(queue) PROVE CmdInv(k)'
      BY <2>1, <2>3, <2>5 DEF CmdInv
    <2>7. AckToInv'
      BY <1>0, <2>1, <2>3, <2>4 DEF CallInv, CallTypes, AckToInv
    <2>8. SendingInv'
      BY <1>0, <2>1, <2>3, <2>4, <2>5 DEF CallInv, CallTypes, SendingInv
    <2> QED BY <2>1, <2>2, <2>6, <2>7, <2>8 DEF CallInv
  <1>11. ASSUME NEW c \in Callers, Enqueue(c) PROVE CallInv'
    <2> DEFINE cmd == [op |-> call[c], items |-> <<>>, by |-> c]
    <2>1. /\ c \in sending /\ writer = "run" /\ queue' = Append(queue, cmd)
          /\ sending' = sending \ {c} /\ cover' = [cover EXCEPT ![c] = next]
          /\ UNCHANGED <<next, start, writer, open, ackTo, call>>
      BY <1>11 DEF Enqueue, Send
    <2>2. CallTypes'
      BY <1>0, <2>1 DEF CallTypes
    <2>3. call[c] \in {"persist", "flush", "shutdown"}
      BY <2>1 DEF CallInv, CallTypes, SendingInv
    <2>4. cmd \in Cmds /\ cmd.op = call[c] /\ cmd.by = c /\ cmd.items = <<>>
      BY <2>3, Nothing DEF Cmds, Ops
    <2> HIDE DEF cmd
    <2>5. \A d \in Callers : d # c => call'[d] = call[d] /\ cover'[d] = cover[d]
      BY <1>0, <2>1 DEF CallTypes
    <2>6. cmd.op # "add" /\ c # None
      BY <2>3, <2>4, RolloutAssumption
    <2> QED BY <2>1, <2>2, <2>4, <2>5, <2>6, NothingLater, SendCalls
  <1>3. CASE AddToBuffer \/ AddItems
    <2>1. /\ Receive("add") /\ UNCHANGED <<next, start, writer, open, ackTo, call, cover, sending>>
      BY <1>3 DEF AddToBuffer, AddItems
    <2>2. CallTypes'
      BY <1>0, <2>1 DEF CallTypes
    <2> QED BY <2>1, <2>2, ReceiveCalls
  <1>4. CASE Materialize
    <2>1. /\ Receive("persist") /\ open' = TRUE /\ ackTo' = Head(queue).by
          /\ UNCHANGED <<next, start, writer, call, cover, sending>>
      BY <1>4 DEF Materialize
    <2>2. Head(queue).by \in Callers \cup {None}
      BY <2>1, ReceiveFacts DEF Cmds
    <2>3. CallTypes'
      BY <1>0, <2>1, <2>2 DEF CallTypes
    <2> QED BY <2>1, <2>3, ReceiveCalls
  <1>5. CASE Answer
    <2> DEFINE c == Head(queue).by
    <2>1. PICK op \in {"persist", "flush", "shutdown"} : Receive(op)
      BY <1>5 DEF Answer
    <2>2. /\ call' = [call EXCEPT ![c] = "idle"]
          /\ UNCHANGED <<next, start, writer, open, ackTo, cover, sending>>
      BY <1>5 DEF Answer, Ack
    <2>3. 1 \in 1 .. Len(queue) /\ Head(queue) = queue[1] /\ Head(queue).op = op
      BY <2>1, ReceiveFacts DEF Receive
    <2>4. c # None
      BY <2>3 DEF CallInv, CmdInv
    <2>5. CallTypes' /\ \A d \in Callers : d # c => call'[d] = call[d]
      BY <1>0, <2>2 DEF CallTypes
    <2> QED BY <2>1, <2>2, <2>4, <2>5, ReceiveCalls
  <1>6. CASE WriteLine
    <2>1. /\ UNCHANGED <<next, start, queue, writer, open, cover, sending>>
          /\ \/ UNCHANGED <<call, ackTo>>
             \/ ackTo # None /\ ackTo' = None /\ call' = [call EXCEPT ![ackTo] = "idle"]
      BY <1>6 DEF WriteLine, Ack
    <2>2. CASE UNCHANGED <<call, ackTo>>
      BY <2>1, <2>2 DEF CallInv, CallTypes, CmdInv, AckToInv, SendingInv
    <2>3. CASE ackTo # None /\ ackTo' = None /\ call' = [call EXCEPT ![ackTo] = "idle"]
      <3>1. CallTypes' /\ \A d \in Callers : d # ackTo => call'[d] = call[d]
        BY <1>0, <2>1, <2>3 DEF CallTypes
      <3>2. ASSUME NEW k \in 1 .. Len(queue) PROVE CmdInv(k)'
        <4>1. CmdInv(k) /\ queue[k].by # ackTo
          BY <2>3 DEF CallInv, AckToInv
        <4>2. queue[k].by \in Callers \cup {None}
          <5>1. queue[k] \in Cmds
            BY <1>0, ElementOfSeq
          <5> QED BY <5>1 DEF Cmds
        <4> QED BY <2>1, <3>1, <4>1, <4>2 DEF CmdInv
      <3>3. SendingInv'
        BY <1>0, <2>1, <2>3, <3>1, RolloutAssumption DEF CallInv, CallTypes, SendingInv
      <3> QED BY <2>1, <2>3, <3>1, <3>2, <3>3 DEF CallInv, AckToInv
    <2> QED BY <2>1, <2>2, <2>3
  <1>7. CASE WriteFails \/ OpenFails
    <2>1. /\ queue' = <<>> /\ ackTo' = None /\ call' = [d \in Callers |-> "idle"]
          /\ sending' = {} /\ writer' = "failed" /\ UNCHANGED <<next, start, cover>>
      BY <1>7 DEF WriteFails, OpenFails, Returns
    <2>2. CallTypes'
      BY <1>0, <2>1 DEF CallTypes
    <2> QED BY <2>1, <2>2, GoneCalls
  <1>8. CASE Crash
    <2>1. /\ queue' = <<>> /\ ackTo' = None /\ call' = [d \in Callers |-> "idle"]
          /\ sending' = {} /\ start' = next /\ UNCHANGED <<next, cover>>
      BY <1>8 DEF Crash
    <2>2. CallTypes'
      BY <1>0, <2>1 DEF CallTypes
    <2> QED BY <2>1, <2>2, GoneCalls
  <1>9. CASE Resume
    <2>1. /\ writer' = "run" /\ open' = TRUE
          /\ UNCHANGED <<next, start, queue, ackTo, call, cover, sending>>
      BY <1>9 DEF Resume
    <2> QED BY <2>1 DEF CallInv, CallTypes, CmdInv, AckToInv, SendingInv
  <1>10. CASE UNCHANGED vars
    BY <1>10 DEF vars, CallInv, CallTypes, CmdInv, AckToInv, SendingInv
  <1> QED BY <1>1, <1>2, <1>3, <1>4, <1>5, <1>6, <1>7, <1>8, <1>9, <1>10, <1>11
          DEF Next, WriterStep

-----------------------------------------------------------------------------
(* Items are in order along their way from record_items to the file, and    *)
(* what a call waits for is recorded before what is queued behind it.       *)
THEOREM RolloutInvariance == Spec => [](Inv /\ CallInv)
  <1>1. Inv /\ CallInv /\ [Next]_vars => Inv' /\ CallInv'
    BY StepInv, CallStep
  <1> QED BY InitInv, InitCalls, <1>1, PTL DEF Spec

(* The recorder implements the journal: over failed writes, torn lines,     *)
(* crashes and resumes the complete lines are only appended to, in the      *)
(* order in which record_items took the items.                              *)
THEOREM RolloutIsJournal == Spec => RefinesJournal
  <1>1. Init => J!Init
    BY DEF Init, J!Init
  <1>2. Inv /\ CallInv /\ [Next]_vars => [J!Record \/ J!Write]_<<next, disk>>
    BY StepInv
  <1> QED BY <1>1, <1>2, RolloutInvariance, PTL DEF Spec, RefinesJournal, J!Spec

-----------------------------------------------------------------------------
(* What is lost.  An item of this run that is neither in the file nor on    *)
(* its way, or an acknowledged one that is not in the file, was appended to *)
(* a torn line; every torn line can still cost one item, until something is *)
(* appended to it.                                                          *)

Elems(s) == {s[n] : n \in 1 .. Len(s)}
Queued(q) == UNION {Elems(q[k].items) : k \in 1 .. Len(q)}
InFlight == Elems(pending) \cup Elems(buffer) \cup Queued(queue)
Current == IF writer = "run" THEN start + 1 .. next ELSE {}
Missing == (acked \cup Current) \ (Lines \cup InFlight)
Owed == IF tail = "clean" THEN 0 ELSE 1

LossTypes ==
  /\ tail \in {"clean", "torn", "cut"} /\ torn \in Nat
  /\ acked \subseteq 1 .. next
  /\ acked \cap InFlight = {}

LossInv == LossTypes /\ Cardinality(Missing) + Owed <= torn

(* The elements of the sequences the writer builds.                         *)
LEMMA ElemsFacts ==
  ASSUME NEW s \in Seq(Nat)
  PROVE  /\ Elems(<<>>) = {}
         /\ \A x \in Nat : Elems(Append(s, x)) = Elems(s) \cup {x}
         /\ s # <<>> => Elems(s) = {Head(s)} \cup Elems(Tail(s))
  <1>1. Elems(<<>>) = {}
    BY DEF Elems
  <1>2. ASSUME NEW x \in Nat PROVE Elems(Append(s, x)) = Elems(s) \cup {x}
    <2>1. /\ Len(Append(s, x)) = Len(s) + 1 /\ Len(s) \in Nat
          /\ \A n \in 1 .. Len(s) : Append(s, x)[n] = s[n]
          /\ Append(s, x)[Len(s) + 1] = x
      OBVIOUS
    <2>2. 1 .. Len(Append(s, x)) = (1 .. Len(s)) \cup {Len(s) + 1}
      BY <2>1
    <2> HIDE <1>2
    <2> QED BY <2>1, <2>2 DEF Elems
  <1>3. ASSUME s # <<>> PROVE Elems(s) = {Head(s)} \cup Elems(Tail(s))
    <2>1. /\ Len(Tail(s)) = Len(s) - 1 /\ Len(s) \in Nat \ {0} /\ Head(s) = s[1]
          /\ \A n \in 1 .. Len(Tail(s)) : Tail(s)[n] = s[n + 1]
      BY <1>3
    <2>2. ASSUME NEW n \in 1 .. Len(s) PROVE s[n] \in {Head(s)} \cup Elems(Tail(s))
      <3>1. CASE n = 1
        BY <2>1, <3>1
      <3>2. CASE n # 1
        <4>1. n - 1 \in 1 .. Len(Tail(s)) /\ Tail(s)[n - 1] = s[n]
          BY <2>1, <3>2
        <4> QED BY <4>1 DEF Elems
      <3> QED BY <3>1, <3>2
    <2>3. ASSUME NEW n \in 1 .. Len(Tail(s)) PROVE Tail(s)[n] \in Elems(s)
      BY <2>1 DEF Elems
    <2>4. s[1] \in Elems(s)
      BY <2>1 DEF Elems
    <2> QED BY <2>1, <2>2, <2>3, <2>4 DEF Elems
  <1> QED BY <1>1, <1>2, <1>3

(* The elements of two sequences joined.                                    *)
LEMMA ElemsJoin ==
  ASSUME NEW s \in Seq(Nat), NEW t \in Seq(Nat)
  PROVE  Elems(s \o t) = Elems(s) \cup Elems(t)
  <1>1. /\ Len(s \o t) = Len(s) + Len(t) /\ Len(s) \in Nat /\ Len(t) \in Nat
        /\ \A n \in 1 .. Len(s) : (s \o t)[n] = s[n]
    OBVIOUS
  <1>2. ASSUME NEW n \in 1 .. Len(t) PROVE (s \o t)[Len(s) + n] = t[n]
    OBVIOUS
  <1>3. ASSUME NEW n \in 1 .. Len(s \o t) PROVE (s \o t)[n] \in Elems(s) \cup Elems(t)
    <2>1. CASE n \in 1 .. Len(s)
      BY <1>1, <2>1 DEF Elems
    <2>2. CASE n \notin 1 .. Len(s)
      <3>1. n - Len(s) \in 1 .. Len(t) /\ (s \o t)[n] = t[n - Len(s)]
        BY <1>1, <2>2
      <3> QED BY <3>1 DEF Elems
    <2> QED BY <2>1, <2>2
  <1>4. ASSUME NEW n \in 1 .. Len(s) PROVE s[n] \in Elems(s \o t)
    BY <1>1 DEF Elems
  <1>5. ASSUME NEW n \in 1 .. Len(t) PROVE t[n] \in Elems(s \o t)
    <2>1. Len(s) + n \in 1 .. Len(s \o t)
      BY <1>1
    <2> QED BY <1>2, <2>1 DEF Elems
  <1> QED BY <1>3, <1>4, <1>5 DEF Elems

(* The items of a channel that is sent to or received from.                 *)
LEMMA QueuedFacts ==
  ASSUME NEW q \in Seq(Cmds)
  PROVE  /\ Queued(<<>>) = {}
         /\ \A c \in Cmds : Queued(Append(q, c)) = Queued(q) \cup Elems(c.items)
         /\ q # <<>> => Queued(q) = Elems(Head(q).items) \cup Queued(Tail(q))
  <1>1. Queued(<<>>) = {}
    BY DEF Queued
  <1>2. ASSUME NEW c \in Cmds PROVE Queued(Append(q, c)) = Queued(q) \cup Elems(c.items)
    <2>1. /\ Len(Append(q, c)) = Len(q) + 1 /\ Len(q) \in Nat
          /\ \A n \in 1 .. Len(q) : Append(q, c)[n] = q[n]
          /\ Append(q, c)[Len(q) + 1] = c
      OBVIOUS
    <2>2. 1 .. Len(Append(q, c)) = (1 .. Len(q)) \cup {Len(q) + 1}
      BY <2>1
    <2>3. ASSUME NEW x PROVE x \in Queued(Append(q, c)) <=> x \in Queued(q) \cup Elems(c.items)
      <3>1. x \in Queued(Append(q, c)) <=>
              \E n \in 1 .. Len(Append(q, c)) : x \in Elems(Append(q, c)[n].items)
        BY DEF Queued
      <3>2. x \in Queued(q) <=> \E n \in 1 .. Len(q) : x \in Elems(q[n].items)
        BY DEF Queued
      <3> QED BY <2>1, <2>2, <3>1, <3>2
    <2> QED BY <2>3
  <1>3. ASSUME q # <<>> PROVE Queued(q) = Elems(Head(q).items) \cup Queued(Tail(q))
    <2>1. /\ Len(Tail(q)) = Len(q) - 1 /\ Len(q) \in Nat \ {0} /\ Head(q) = q[1]
          /\ \A n \in 1 .. Len(Tail(q)) : Tail(q)[n] = q[n + 1]
      BY <1>3
    <2>2. ASSUME NEW n \in 1 .. Len(q), NEW x \in Elems(q[n].items)
          PROVE  x \in Elems(Head(q).items) \cup Queued(Tail(q))
      <3>1. CASE n = 1
        BY <2>1, <2>2, <3>1
      <3>2. CASE n # 1
        <4>1. n - 1 \in 1 .. Len(Tail(q)) /\ Tail(q)[n - 1] = q[n]
          BY <2>1, <3>2
        <4> QED BY <2>2, <4>1 DEF Queued
      <3> QED BY <3>1, <3>2
    <2>3. ASSUME NEW n \in 1 .. Len(Tail(q)), NEW x \in Elems(Tail(q)[n].items)
          PROVE  x \in Queued(q)
      <3>1. n + 1 \in 1 .. Len(q) /\ Tail(q)[n] = q[n + 1]
        BY <2>1
      <3> QED BY <2>3, <3>1 DEF Queued
    <2>4. Elems(q[1].items) \subseteq Queued(q)
      BY <2>1 DEF Queued
    <2> QED BY <2>1, <2>2, <2>3, <2>4 DEF Queued
  <1> QED BY <1>1, <1>2, <1>3

(* The state of a step, as sets: what is in the file and on its way.        *)
LEMMA SetFacts ==
  ASSUME Inv
  PROVE  /\ next \in Nat /\ queue \in Seq(Cmds) /\ Lines = Elems(disk)
         /\ pending \in Seq(Nat) /\ buffer \in Seq(Nat) /\ disk \in Seq(Nat)
         /\ \A x \in InFlight : x \in Nat /\ x <= next
  <1>1. /\ next \in Nat /\ queue \in Seq(Cmds) /\ pending \in Seq(Nat)
        /\ buffer \in Seq(Nat) /\ disk \in Seq(Nat)
    BY DEF Inv, TypeInv
  <1>2. Lines = Elems(disk)
    BY <1>1 DEF Lines, Elems
  <1>3. ASSUME NEW s \in Seq(Nat), AtMost(s, next)
        PROVE  \A x \in Elems(s) : x \in Nat /\ x <= next
    BY <1>3 DEF Elems, AtMost
  <1>4. \A k \in 1 .. Len(queue) : queue[k].items \in Seq(Nat) /\ AtMost(queue[k].items, next)
    BY QueueItems DEF Inv, OrderInv
  <1>5. \A x \in Queued(queue) : x \in Nat /\ x <= next
    BY <1>3, <1>4 DEF Queued
  <1>6. \A x \in Elems(pending) \cup Elems(buffer) : x \in Nat /\ x <= next
    BY <1>1, <1>3 DEF Inv, OrderInv
  <1> QED BY <1>1, <1>2, <1>5, <1>6 DEF InFlight

(* A set of recorded items is finite.                                       *)
LEMMA RecordedFinite ==
  ASSUME NEW n \in Nat, NEW S, S \subseteq 1 .. n
  PROVE  IsFiniteSet(S) /\ Cardinality(S) \in Nat
  <1>1. IsFiniteSet(1 .. n)
    BY FS_Interval
  <1>2. IsFiniteSet(S)
    BY <1>1, FS_Subset
  <1> QED BY <1>2, FS_CardinalityType

(* The items of this run are among those recorded.                          *)
LEMMA RunRecorded ==
  ASSUME NEW n \in Nat, NEW s \in Nat
  PROVE  s + 1 .. n \subseteq 1 .. n
  OBVIOUS

(* The count of what is missing, against the lines torn: nothing more, one  *)
(* item appended to the torn line, or a line torn.                          *)
LEMMA LossCount ==
  ASSUME Inv, CallInv, LossInv, Inv', CallInv', LossTypes',
         \/ /\ Missing' \subseteq Missing /\ torn' = torn
            /\ tail = "clean" => tail' = "clean"
         \/ /\ \E x : Missing' \subseteq Missing \cup {x}
            /\ torn' = torn /\ tail # "clean" /\ tail' = "clean"
         \/ Missing' \subseteq Missing /\ torn' = torn + 1 /\ tail = "clean"
  PROVE  LossInv'
  <1> DEFINE M == Missing
             N == Missing'
  <1>1. IsFiniteSet(M) /\ Cardinality(M) \in Nat
    <2>1. next \in Nat /\ start \in Nat /\ acked \subseteq 1 .. next
      BY DEF Inv, TypeInv, CallInv, CallTypes, LossInv, LossTypes
    <2>2. M \subseteq 1 .. next
      BY <2>1, RunRecorded, Zenon DEF Missing, Current
    <2> QED BY <2>1, <2>2, RecordedFinite
  <1>2. IsFiniteSet(N) /\ Cardinality(N) \in Nat
    <2>1. next' \in Nat /\ start' \in Nat /\ acked' \subseteq 1 .. next'
      BY DEF Inv, TypeInv, CallInv, CallTypes, LossTypes
    <2>2. N \subseteq 1 .. next'
      BY <2>1, RunRecorded, Zenon DEF Missing, Current
    <2> QED BY <2>1, <2>2, RecordedFinite
  <1>3. torn \in Nat /\ torn' \in Nat /\ Cardinality(M) + Owed <= torn
    BY DEF LossInv, LossTypes
  <1>4. SUFFICES Cardinality(N) + Owed' <= torn'
    BY DEF LossInv
  <1> HIDE DEF M, N
  <1>5. N \subseteq M => Cardinality(N) <= Cardinality(M)
    BY <1>1, FS_Subset
  <1>6. ASSUME NEW x, N \subseteq M \cup {x} PROVE Cardinality(N) <= Cardinality(M) + 1
    <2> DEFINE K == M \cup {x}
    <2>1. IsFiniteSet(K)
          /\ Cardinality(K) = IF x \in M THEN Cardinality(M) ELSE Cardinality(M) + 1
      BY <1>1, FS_AddElement, Zenon
    <2>2. Cardinality(N) <= Cardinality(K)
      BY <1>6, <2>1, FS_Subset
    <2> HIDE DEF K
    <2> QED BY <1>1, <1>2, <2>1, <2>2
  <1>7. CASE N \subseteq M /\ torn' = torn /\ (tail = "clean" => tail' = "clean")
    BY <1>1, <1>2, <1>3, <1>5, <1>7 DEF Owed
  <1>8. CASE /\ \E x : N \subseteq M \cup {x}
             /\ torn' = torn /\ tail # "clean" /\ tail' = "clean"
    BY <1>1, <1>2, <1>3, <1>6, <1>8 DEF Owed
  <1>9. CASE N \subseteq M /\ torn' = torn + 1 /\ tail = "clean"
    BY <1>1, <1>2, <1>3, <1>5, <1>9 DEF Owed
  <1> QED BY <1>7, <1>8, <1>9 DEF M, N

(* A command received for c: its items leave the channel.                   *)
LEMMA ReceiveSets ==
  ASSUME Inv, CallInv, NEW op, Receive(op)
  PROVE  /\ Queued(queue) = Elems(Head(queue).items) \cup Queued(queue')
         /\ Elems(pending) = {}
         /\ op # "add" =>
              /\ Head(queue).by \in Callers /\ call[Head(queue).by] = op
              /\ Elems(Head(queue).items) = {}
              /\ \A x \in Queued(queue') : cover[Head(queue).by] < x
  <1>1. /\ queue \in Seq(Cmds) /\ queue # <<>> /\ queue' = Tail(queue)
        /\ pending = <<>> /\ pending \in Seq(Nat) /\ Head(queue).op = op
    BY SetFacts DEF Receive, Idle
  <1>2. /\ Queued(queue) = Elems(Head(queue).items) \cup Queued(queue')
        /\ Elems(pending) = {}
    BY <1>1, QueuedFacts, ElemsFacts
  <1>3. ASSUME op # "add"
        PROVE  /\ Head(queue).by \in Callers /\ call[Head(queue).by] = op
               /\ Elems(Head(queue).items) = {}
               /\ \A x \in Queued(queue') : cover[Head(queue).by] < x
    <2> DEFINE c == Head(queue).by
    <2>1. /\ 1 \in 1 .. Len(queue) /\ Head(queue) = queue[1] /\ Head(queue) \in Cmds
          /\ \A k \in 1 .. Len(queue') : k + 1 \in 1 .. Len(queue) /\ queue'[k] = queue[k + 1]
          /\ Len(queue') \in Nat
      BY ReceiveFacts
    <2>2. CmdInv(1)
      BY <2>1 DEF CallInv
    <2>3. c # None /\ c \in Callers /\ call[c] = op /\ Head(queue).items = <<>>
      BY <1>1, <1>3, <2>1, <2>2 DEF CmdInv, Cmds
    <2>4. Elems(Head(queue).items) = {}
      BY <1>1, <2>3, ElemsFacts
    <2>5. ASSUME NEW k \in 1 .. Len(queue') PROVE Later(queue'[k].items, cover[c])
      <3>1. k + 1 \in 1 .. Len(queue) /\ 1 < k + 1 /\ queue'[k] = queue[k + 1]
        BY <2>1
      <3> QED BY <2>1, <2>2, <2>3, <3>1 DEF CmdInv
    <2>6. \A x \in Queued(queue') : cover[c] < x
      BY <2>5 DEF Queued, Elems, Later
    <2> QED BY <2>3, <2>4, <2>6
  <1> QED BY <1>2, <1>3

(* What a call is promised is of this run, and recorded before the call.    *)
LEMMA PromisedFacts ==
  ASSUME Inv, CallInv, NEW c \in Callers
  PROVE  /\ Promised(c) \subseteq start + 1 .. next /\ Promised(c) \subseteq 1 .. next
         /\ \A x \in Promised(c) : x \in Nat /\ x <= cover[c] /\ 0 < x
  <1>1. next \in Nat /\ start \in Nat /\ cover[c] \in Nat /\ cover[c] <= next
    BY DEF Inv, TypeInv, CallInv, CallTypes
  <1>2. \A x \in Promised(c) : x \in start + 1 .. cover[c]
    BY DEF Promised
  <1> QED BY <1>1, <1>2

(* Items sent are on their way.                                             *)
LEMMA RecordLoss ==
  ASSUME Inv, CallInv, LossInv, NEW n \in 1 .. MaxBatch, RecordItems(n)
  PROVE  LossTypes' /\ Missing' \subseteq Missing /\ UNCHANGED <<tail, torn>>
  <1> DEFINE items == [k \in 1 .. n |-> next + k]
             cmd == [op |-> "add", items |-> items, by |-> None]
  <1>1. /\ writer = "run" /\ queue' = Append(queue, cmd) /\ next' = next + n
        /\ UNCHANGED <<start, writer, buffer, pending, disk, tail, torn, acked>>
    BY DEF RecordItems, Send, writerVars, fileVars, callVars
  <1>2. n \in Nat /\ 1 <= n /\ next \in Nat /\ start \in Nat /\ start <= next
    BY RolloutAssumption DEF Inv, TypeInv, CallInv, CallTypes
  <1>3. items \in Seq(Nat) /\ Len(items) = n
    BY <1>2
  <1>4. Elems(items) = next + 1 .. next + n
    <2>1. ASSUME NEW x \in next + 1 .. next + n PROVE x \in Elems(items)
      <3>1. x - next \in 1 .. n /\ items[x - next] = x
        BY <1>2
      <3> QED BY <1>3, <3>1 DEF Elems
    <2>2. ASSUME NEW k \in 1 .. n PROVE items[k] \in next + 1 .. next + n
      BY <1>2
    <2> QED BY <1>3, <2>1, <2>2 DEF Elems
  <1> HIDE DEF items
  <1>5. cmd \in Cmds /\ cmd.items = items
    BY <1>3 DEF Cmds, Ops
  <1> HIDE DEF cmd
  <1>6. Queued(queue') = Queued(queue) \cup (next + 1 .. next + n)
    BY <1>1, <1>4, <1>5, SetFacts, QueuedFacts
  <1>7. InFlight' = InFlight \cup (next + 1 .. next + n)
    BY <1>1, <1>6 DEF InFlight
  <1>8. acked \subseteq 1 .. next /\ acked \cap InFlight = {}
    BY DEF LossInv, LossTypes
  <1>9. LossTypes'
    <2>1. acked \subseteq 1 .. next + n
      BY <1>2, <1>8
    <2>2. acked \cap (next + 1 .. next + n) = {}
      BY <1>2, <1>8
    <2> QED BY <1>1, <1>7, <1>8, <2>1, <2>2 DEF LossInv, LossTypes
  <1>10. start + 1 .. next + n = (start + 1 .. next) \cup (next + 1 .. next + n)
    BY <1>2
  <1>11. Current' = Current \cup (next + 1 .. next + n)
    BY <1>1, <1>10 DEF Current
  <1>12. Lines' = Lines
    BY <1>1 DEF Lines
  <1> QED BY <1>1, <1>7, <1>9, <1>11, <1>12 DEF Missing

(* The call itself, and commands that move items within the writer.         *)
LEMMA MovedLoss ==
  ASSUME LossInv, InFlight' = InFlight, UNCHANGED <<next, start, writer, disk, tail, torn, acked>>
  PROVE  LossTypes' /\ Missing' \subseteq Missing
  <1>1. Lines' = Lines /\ Current' = Current
    BY DEF Lines, Current
  <1> QED BY <1>1 DEF LossInv, LossTypes, Missing

(* A command that is only answered, when nothing that it covers is left to  *)
(* write.                                                                   *)
LEMMA AnswerLoss ==
  ASSUME Inv, CallInv, LossInv, Answer
  PROVE  LossTypes' /\ Missing' \subseteq Missing /\ UNCHANGED <<tail, torn>>
  <1> DEFINE c == Head(queue).by
  <1>1. PICK op \in {"persist", "flush", "shutdown"} :
          Receive(op) /\ (op = "persist" => open)
    BY DEF Answer
  <1>2. /\ acked' = acked \cup Promised(c)
        /\ UNCHANGED <<next, start, writer, open, buffer, pending, disk, tail, torn>>
    BY DEF Answer, Ack, writerVars, fileVars
  <1>3. writer = "run"
    BY <1>1 DEF Receive, Idle
  <1>4. /\ Queued(queue) = Queued(queue') /\ Elems(pending) = {} /\ c \in Callers
        /\ call[c] = op /\ \A x \in Queued(queue') : cover[c] < x
    BY <1>1, ReceiveSets
  <1>5. InFlight' = InFlight
    BY <1>2, <1>4 DEF InFlight
  <1>6. /\ Promised(c) \subseteq start + 1 .. next /\ Promised(c) \subseteq 1 .. next
        /\ \A x \in Promised(c) : x \in Nat /\ x <= cover[c]
    BY <1>4, PromisedFacts
  <1>7. Promised(c) \cap InFlight = {}
    <2> SUFFICES ASSUME NEW x \in Promised(c), x \in InFlight PROVE FALSE
      OBVIOUS
    <2>1. open
      BY <1>1, <1>4 DEF Promised
    <2>2. Elems(buffer) = {}
      BY <2>1, SetFacts, ElemsFacts DEF Inv, StageInv
    <2>3. x \in Queued(queue') /\ x \in Nat /\ cover[c] \in Nat
      BY <1>4, <1>6, <2>2 DEF InFlight, CallInv, CallTypes
    <2>4. cover[c] < x /\ x <= cover[c]
      BY <1>4, <1>6, <2>3
    <2> QED BY <2>3, <2>4
  <1>8. LossTypes'
    BY <1>2, <1>5, <1>6, <1>7 DEF LossInv, LossTypes
  <1>9. Lines' = Lines /\ Current' = Current /\ Promised(c) \subseteq Current
    BY <1>2, <1>3, <1>6 DEF Lines, Current
  <1> QED BY <1>2, <1>5, <1>8, <1>9 DEF Missing

(* The new file's metadata and the buffered items are on their way.         *)
LEMMA MaterializeLoss ==
  ASSUME Inv, CallInv, LossInv, Materialize
  PROVE  LossTypes' /\ Missing' \subseteq Missing /\ UNCHANGED <<tail, torn>>
  <1>1. /\ Receive("persist") /\ pending' = <<0>> \o buffer /\ buffer' = <<>>
        /\ UNCHANGED <<next, start, writer, disk, tail, torn, acked>>
    BY DEF Materialize, fileVars, callVars
  <1>2. Queued(queue) = Queued(queue') /\ Elems(pending) = {}
    <2>1. PICK op : op = "persist" /\ Receive(op)
      BY <1>1
    <2> QED BY <2>1, ReceiveSets
  <1>3. buffer \in Seq(Nat) /\ <<0>> \in Seq(Nat) /\ Elems(<<0>>) = {0}
    BY SetFacts DEF Elems
  <1>4. Elems(pending') = {0} \cup Elems(buffer) /\ Elems(buffer') = {}
    <2>1. Elems(<<0>> \o buffer) = Elems(<<0>>) \cup Elems(buffer)
      BY <1>3, ElemsJoin
    <2>2. Elems(<<>>) = {}
      BY DEF Elems
    <2> QED BY <1>1, <1>3, <2>1, <2>2
  <1>5. InFlight' = InFlight \cup {0}
    BY <1>2, <1>4 DEF InFlight
  <1>6. 0 \notin acked
    BY DEF LossInv, LossTypes
  <1>7. Lines' = Lines /\ Current' = Current
    BY <1>1 DEF Lines, Current
  <1> QED BY <1>1, <1>5, <1>6, <1>7 DEF LossInv, LossTypes, Missing

(* A line put: in the file, or behind the torn one.                         *)
LEMMA PutSets ==
  ASSUME Inv, pending # <<>>, PutLine
  PROVE  /\ tail' = "clean" /\ torn' = torn
         /\ tail = "clean" => Lines' = Lines \cup {Head(pending)}
         /\ tail # "clean" => Lines' = Lines
         /\ Elems(pending) = {Head(pending)} \cup Elems(Tail(pending))
  <1>1. pending \in Seq(Nat) /\ disk \in Seq(Nat) /\ Lines = Elems(disk)
    BY SetFacts
  <1>2. Head(pending) \in Nat
    BY <1>1
  <1>3. CASE tail = "clean"
    <2>1. disk' = Append(disk, Head(pending))
      BY <1>3 DEF PutLine
    <2>2. disk' \in Seq(Nat) /\ Elems(disk') = Elems(disk) \cup {Head(pending)}
      BY <1>1, <1>2, <2>1, ElemsFacts
    <2>3. Lines' = Elems(disk')
      BY <2>2 DEF Lines, Elems
    <2> QED BY <1>1, <1>3, <2>2, <2>3, ElemsFacts DEF PutLine
  <1>4. CASE tail # "clean"
    BY <1>1, <1>4, ElemsFacts DEF PutLine, Lines
  <1> QED BY <1>3, <1>4

(* One line is written.  Behind a torn line it is lost; when it is the last *)
(* one of persist, what the call covers is written.                         *)
LEMMA WriteLoss ==
  ASSUME Inv, CallInv, LossInv, WriteLine
  PROVE  /\ LossTypes' /\ torn' = torn /\ tail' = "clean"
         /\ \/ Missing' \subseteq Missing
            \/ tail # "clean" /\ \E x : Missing' \subseteq Missing \cup {x}
  <1> DEFINE h == Head(pending)
  <1>1. /\ writer = "run" /\ pending # <<>> /\ PutLine /\ pending' = Tail(pending)
        /\ UNCHANGED <<next, start, queue, writer, open, buffer>>
        /\ \/ acked' = acked
           \/ Len(pending) = 1 /\ ackTo # None /\ acked' = acked \cup Promised(ackTo)
    BY DEF WriteLine, Ack, callVars
  <1>2. /\ tail' = "clean" /\ torn' = torn
        /\ tail = "clean" => Lines' = Lines \cup {h}
        /\ tail # "clean" => Lines' = Lines
        /\ Elems(pending) = {h} \cup Elems(pending')
    BY <1>1, PutSets
  <1>3. InFlight = InFlight' \cup {h}
    BY <1>1, <1>2 DEF InFlight
  <1>4. ASSUME ackTo # None, Len(pending) = 1
        PROVE  /\ Promised(ackTo) \subseteq Current /\ Promised(ackTo) \subseteq 1 .. next
               /\ Promised(ackTo) \cap InFlight' = {}
    <2>1. ackTo \in Callers /\ open
      BY <1>4 DEF CallInv, CallTypes, AckToInv
    <2>2. /\ Promised(ackTo) \subseteq start + 1 .. next /\ Promised(ackTo) \subseteq 1 .. next
          /\ \A x \in Promised(ackTo) : x \in Nat /\ x <= cover[ackTo]
      BY <2>1, PromisedFacts
    <2>3. Elems(buffer) = {}
      BY <2>1, SetFacts, ElemsFacts DEF Inv, StageInv
    <2>4. pending' = <<>>
      <3>1. pending \in Seq(Nat)
        BY SetFacts
      <3> QED BY <1>1, <1>4, <3>1
    <2>5. Elems(pending') = {}
      BY <2>4 DEF Elems
    <2>6. \A x \in Queued(queue) : cover[ackTo] < x
      BY <1>4 DEF CallInv, AckToInv, Queued, Elems, Later
    <2>7. ASSUME NEW x \in Promised(ackTo), x \in InFlight' PROVE FALSE
      <3>1. x \in Queued(queue)
        BY <1>1, <2>3, <2>5, <2>7 DEF InFlight
      <3>2. x \in Nat /\ cover[ackTo] \in Nat /\ x <= cover[ackTo] /\ cover[ackTo] < x
        BY <2>1, <2>2, <2>6, <3>1 DEF CallInv, CallTypes
      <3> QED BY <3>2
    <2>8. Promised(ackTo) \subseteq Current
      BY <1>1, <2>2 DEF Current
    <2> QED BY <2>2, <2>7, <2>8
  <1>5. /\ acked \subseteq acked' /\ acked' \subseteq acked \cup Current
        /\ acked' \subseteq 1 .. next /\ acked' \cap InFlight' = {}
    BY <1>1, <1>3, <1>4 DEF LossInv, LossTypes
  <1>6. LossTypes'
    BY <1>1, <1>2, <1>5 DEF LossInv, LossTypes
  <1>7. Current' = Current
    BY <1>1 DEF Current
  <1>8. CASE tail = "clean"
    BY <1>2, <1>3, <1>5, <1>6, <1>7, <1>8 DEF Missing
  <1>9. CASE tail # "clean"
    <2>1. Missing' \subseteq Missing \cup {h}
      BY <1>2, <1>3, <1>5, <1>7, <1>9 DEF Missing
    <2> QED BY <1>2, <1>6, <1>9, <2>1
  <1> QED BY <1>8, <1>9

(* A writer that is gone: what was on its way had not been acknowledged.    *)
LEMMA GoneLoss ==
  ASSUME Inv, LossInv, writer' # "run", queue' = <<>>, pending' = <<>>, buffer' = <<>>,
         UNCHANGED <<next, acked>>, tail' \in {"clean", "torn", "cut"}, torn' \in Nat,
         Lines \subseteq Lines'
  PROVE  LossTypes' /\ Missing' \subseteq Missing
  <1>1. Elems(<<>>) = {} /\ Queued(<<>>) = {}
    BY DEF Elems, Queued
  <1>2. InFlight' = {} /\ Current' = {}
    BY <1>1 DEF InFlight, Current
  <1> QED BY <1>2 DEF LossInv, LossTypes, Missing

-----------------------------------------------------------------------------
(* Every step keeps the account of what is lost.                            *)
LEMMA LossStep ==
  ASSUME Inv, CallInv, LossInv, [Next]_vars
  PROVE  LossInv'
  <1> USE DEF writerVars, fileVars, callVars
  <1>0. /\ Inv' /\ CallInv' /\ torn \in Nat /\ torn + 1 \in Nat
        /\ tail \in {"clean", "torn", "cut"}
    BY StepInv, CallStep DEF LossInv, LossTypes
  <1>1. ASSUME NEW n \in 1 .. MaxBatch, RecordItems(n) PROVE LossInv'
    BY <1>0, <1>1, RecordLoss, LossCount
  <1>2. ASSUME NEW c \in Callers, NEW op \in {"persist", "flush", "shutdown"}, Ask(c, op)
        PROVE  LossInv'
    <2>1. /\ InFlight' = InFlight
          /\ UNCHANGED <<next, start, writer, disk, tail, torn, acked>>
      BY <1>2 DEF Ask, InFlight
    <2> QED BY <1>0, <2>1, MovedLoss, LossCount
  <1>12. ASSUME NEW c \in Callers, Enqueue(c) PROVE LossInv'
    <2> DEFINE cmd == [op |-> call[c], items |-> <<>>, by |-> c]
    <2>1. /\ queue' = Append(queue, cmd)
          /\ UNCHANGED <<next, start, writer, buffer, pending, disk, tail, torn, acked>>
      BY <1>12 DEF Enqueue, Send
    <2>2. cmd \in Cmds /\ cmd.items = <<>>
      <3>1. call[c] \in Ops
        BY <1>12 DEF Enqueue, CallInv, CallTypes, SendingInv, Ops
      <3> QED BY <3>1, Nothing DEF Cmds
    <2> HIDE DEF cmd
    <2>3. Queued(queue') = Queued(queue)
      <3>1. Queued(Append(queue, cmd)) = Queued(queue) \cup Elems(cmd.items)
        BY <2>2, SetFacts, QueuedFacts
      <3>2. Elems(<<>>) = {}
        BY DEF Elems
      <3> QED BY <2>1, <2>2, <3>1, <3>2
    <2>4. InFlight' = InFlight
      BY <2>1, <2>3 DEF InFlight
    <2> QED BY <1>0, <2>1, <2>4, MovedLoss, LossCount
  <1>3. CASE AddToBuffer \/ AddItems
    <2>1. /\ Receive("add")
          /\ \/ buffer' = buffer \o Head(queue).items /\ pending' = pending
             \/ pending' = Head(queue).items /\ buffer' = buffer
          /\ UNCHANGED <<next, start, writer, disk, tail, torn, acked>>
      BY <1>3 DEF AddToBuffer, AddItems
    <2>2. Queued(queue) = Elems(Head(queue).items) \cup Queued(queue') /\ Elems(pending) = {}
      BY <2>1, ReceiveSets
    <2>3. Head(queue).items \in Seq(Nat) /\ buffer \in Seq(Nat)
      BY <2>1, ReceiveFacts, SetFacts
    <2>4. InFlight' = InFlight
      <3>1. Elems(buffer \o Head(queue).items) = Elems(buffer) \cup Elems(Head(queue).items)
        BY <2>3, ElemsJoin
      <3>2. CASE buffer' = buffer \o Head(queue).items /\ pending' = pending
        BY <2>2, <3>1, <3>2 DEF InFlight
      <3>3. CASE pending' = Head(queue).items /\ buffer' = buffer
        BY <2>2, <3>3 DEF InFlight
      <3> QED BY <2>1, <3>2, <3>3
    <2> QED BY <1>0, <2>1, <2>4, MovedLoss, LossCount
  <1>4. CASE Materialize
    BY <1>0, <1>4, MaterializeLoss, LossCount
  <1>5. CASE Answer
    BY <1>0, <1>5, AnswerLoss, LossCount
  <1>6. CASE WriteLine
    BY <1>0, <1>6, WriteLoss, LossCount
  <1>7. CASE WriteFails
    <2>1. /\ pending # <<>> /\ writer' # "run" /\ queue' = <<>> /\ pending' = <<>>
          /\ buffer' = <<>> /\ UNCHANGED <<next, acked>>
      BY <1>7 DEF WriteFails, Returns
    <2>2. CASE Tear
      <3>1. /\ tail' \in {"torn", "cut"} /\ Lines' = Lines
            /\ \/ tail = "clean" /\ torn' = torn + 1
               \/ tail # "clean" /\ torn' = torn
        BY <2>2 DEF Tear, Lines
      <3>2. LossTypes' /\ Missing' \subseteq Missing
        BY <1>0, <2>1, <3>1, GoneLoss
      <3> QED BY <1>0, <3>1, <3>2, LossCount
    <2>3. CASE PutLine
      <3>1. tail' = "clean" /\ torn' = torn /\ Lines \subseteq Lines'
        BY <1>0, <2>1, <2>3, PutSets
      <3> QED BY <1>0, <2>1, <3>1, GoneLoss, LossCount
    <2>4. CASE UNCHANGED fileVars
      <3>1. tail' = tail /\ torn' = torn /\ Lines' = Lines
        BY <2>4 DEF Lines
      <3> QED BY <1>0, <2>1, <3>1, GoneLoss, LossCount
    <2> QED BY <1>7, <2>2, <2>3, <2>4 DEF WriteFails
  <1>8. CASE OpenFails
    <2>1. /\ writer' # "run" /\ queue' = <<>> /\ pending' = <<>> /\ buffer' = <<>>
          /\ UNCHANGED <<next, acked, tail, torn, disk>>
      BY <1>8 DEF OpenFails, Returns
    <2>2. Lines' = Lines
      BY <2>1 DEF Lines
    <2> QED BY <1>0, <2>1, <2>2, GoneLoss, LossCount
  <1>9. CASE Crash
    <2>1. /\ writer' # "run" /\ queue' = <<>> /\ pending' = <<>> /\ buffer' = <<>>
          /\ UNCHANGED <<next, acked, disk>>
          /\ \/ tail = "clean" /\ tail' \in {"torn", "cut"} /\ torn' = torn + 1
             \/ tail # "clean" /\ tail' \in {"torn", "cut"} /\ torn' = torn
             \/ UNCHANGED <<tail, torn>>
      BY <1>9 DEF Crash, Tear
    <2>2. Lines' = Lines
      BY <2>1 DEF Lines
    <2>3. LossTypes' /\ Missing' \subseteq Missing
      BY <1>0, <2>1, <2>2, GoneLoss
    <2> QED BY <1>0, <2>1, <2>3, LossCount
  <1>10. CASE Resume
    <2>1. /\ writer = "down" /\ writer' = "run"
          /\ UNCHANGED <<next, start, queue, buffer, pending, disk, tail, torn, acked>>
      BY <1>10 DEF Resume
    <2>2. InFlight' = InFlight /\ Lines' = Lines
      BY <2>1 DEF InFlight, Lines
    <2>3. Current' = {}
      <3>1. start = next /\ next \in Nat
        BY <2>1 DEF CallInv, CallTypes, Inv, TypeInv
      <3>2. next + 1 .. next = {}
        BY <3>1
      <3> QED BY <2>1, <3>1, <3>2 DEF Current
    <2>4. LossTypes' /\ Missing' \subseteq Missing
      BY <2>1, <2>2, <2>3 DEF LossInv, LossTypes, Missing
    <2> QED BY <1>0, <2>1, <2>4, LossCount
  <1>11. CASE UNCHANGED vars
    <2>1. /\ InFlight' = InFlight
          /\ UNCHANGED <<next, start, writer, disk, tail, torn, acked>>
      BY <1>11 DEF vars, InFlight
    <2> QED BY <1>0, <2>1, MovedLoss, LossCount
  <1> QED BY <1>1, <1>2, <1>3, <1>4, <1>5, <1>6, <1>7, <1>8, <1>9, <1>10, <1>11,
             <1>12
          DEF Next, WriterStep

(* What persist, flush and shutdown answered for stays in the file, over    *)
(* any crashes, failed writes and resumes, but for one item at most per     *)
(* torn line, unless the last line was cut inside a character.              *)
THEOREM AckedStaysDurable == Spec => []AckedIsDurable
  <1>1. Init => LossInv
    <2> SUFFICES ASSUME Init PROVE LossInv
      OBVIOUS
    <2>1. /\ next = 0 /\ start = 0 /\ queue = <<>> /\ writer = "run"
          /\ buffer = <<>> /\ pending = <<>> /\ tail = "clean" /\ torn = 0 /\ acked = {}
      BY DEF Init
    <2>2. start + 1 .. next = {}
      BY <2>1
    <2>3. Missing = {}
      BY <2>1, <2>2 DEF Missing, Current
    <2> QED BY <2>1, <2>3, FS_EmptySet DEF LossInv, LossTypes, Owed
  <1>2. Inv /\ CallInv /\ LossInv /\ [Next]_vars => LossInv'
    BY LossStep
  <1>3. Inv /\ CallInv /\ LossInv => AckedIsDurable
    <2> SUFFICES ASSUME Inv, CallInv, LossInv PROVE AckedIsDurable
      OBVIOUS
    <2>1. /\ next \in Nat /\ start \in Nat /\ acked \subseteq 1 .. next
          /\ acked \cap InFlight = {} /\ torn \in Nat /\ Cardinality(Missing) + Owed <= torn
      BY DEF Inv, TypeInv, CallInv, CallTypes, LossInv, LossTypes
    <2>2. Missing \subseteq 1 .. next
      BY <2>1, RunRecorded, Zenon DEF Missing, Current
    <2>3. IsFiniteSet(Missing) /\ Cardinality(Missing) \in Nat
      BY <2>1, <2>2, RecordedFinite
    <2>4. acked \ Lines \subseteq Missing
      BY <2>1 DEF Missing
    <2>5. /\ Cardinality(acked \ Lines) <= Cardinality(Missing)
          /\ Cardinality(acked \ Lines) \in Nat
      BY <2>3, <2>4, FS_Subset, FS_CardinalityType
    <2>6. Owed \in {0, 1}
      BY DEF Owed
    <2> QED BY <2>1, <2>3, <2>5, <2>6 DEF AckedIsDurable
  <1> QED BY <1>1, <1>2, <1>3, RolloutInvariance, PTL DEF Spec
=============================================================================
