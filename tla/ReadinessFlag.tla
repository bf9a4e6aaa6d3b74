--------------------------- MODULE ReadinessFlag ---------------------------
(***************************************************************************)
(* utils/readiness/src/lib.rs, the flag that holds mutating tools back      *)
(* until the ghost snapshot of their turn has been taken: a subscriber      *)
(* takes a token and marks the flag ready with it (GhostSnapshotTask), a    *)
(* waiter calls wait_ready (ToolRegistry::dispatch).  Every step is one     *)
(* access to an atomic, to the lock of the token set or to the watch        *)
(* channel, since they run on different threads of the runtime.             *)
(***************************************************************************)
EXTENDS Integers, FiniteSets

CONSTANTS Subscribers, Waiters,
          TokenSpace,    \* how many values a token has (2^32 in the code)
          None

Procs  == Subscribers \cup Waiters
Tokens == 0 .. TokenSpace - 1

(* The code's loop over fetch_add ends: there is always a token that is not *)
(* zero and not in use.                                                     *)
ASSUME FlagAssumption ==
  /\ Subscribers \cap Waiters = {}
  /\ IsFiniteSet(Subscribers)
  /\ TokenSpace \in Nat /\ TokenSpace > Cardinality(Subscribers) + 1
  /\ None \notin Procs

VARIABLES ready,      \* the atomic flag
          tokens,     \* the active subscriptions
          nextId,     \* the atomic token counter
          lock,       \* who holds the lock of the token set
          sent,       \* the value of the watch channel
          receivers,  \* the receivers of the watch channel
          pc,         \* where each process is
          token       \* the token of each subscriber

vars == <<ready, tokens, nextId, lock, sent, receivers, pc, token>>

SubscriberLabels == {"idle", "subLock", "subscribe", "holding", "markLock", "mark",
                     "send", "marked", "notMarked", "refused", "error"}
WaiterLabels == {"idle", "try", "check", "open", "reload", "receive", "borrow",
                 "await", "done", "dropped"}

Goto(p, l) == pc' = [pc EXCEPT ![p] = l]

Init ==
  /\ ready = FALSE /\ sent = FALSE
  /\ tokens = {} /\ receivers = {}
  /\ nextId = 1
  /\ lock = None
  /\ pc = [p \in Procs |-> "idle"]
  /\ token = [s \in Subscribers |-> 0]

-----------------------------------------------------------------------------
(* with_tokens: the lock, waited for at most LOCK_TIMEOUT.                  *)
Acquire(p, from, to) ==
  /\ pc[p] = from /\ lock = None
  /\ lock' = p
  /\ Goto(p, to)
  /\ UNCHANGED <<ready, tokens, nextId, sent, receivers, token>>

LockTimesOut(s) ==
  /\ pc[s] \in {"subLock", "markLock"} /\ lock # None
  /\ Goto(s, "error")
  /\ UNCHANGED <<ready, tokens, nextId, lock, sent, receivers, token>>

(* subscribe: the check before the lock.                                    *)
SubscribeChecks(s) ==
  /\ pc[s] = "idle"
  /\ Goto(s, IF ready THEN "refused" ELSE "subLock")
  /\ UNCHANGED <<ready, tokens, nextId, lock, sent, receivers, token>>

(* The tokens fetch_add yields before one is taken, and that one.           *)
Usable(k) == k # 0 /\ k \notin tokens
After(n) == (nextId + n) % TokenSpace
TakenAfter(n) == Usable(After(n)) /\ \A m \in 0 .. n - 1 : ~ Usable(After(m))

(* Mutant of Subscribe: only the check before the lock.                     *)
SubscribeNoRecheck(s) ==
  /\ pc[s] = "subscribe"
  /\ lock' = None
  /\ \E n \in Tokens :
       /\ TakenAfter(n)
       /\ tokens' = tokens \cup {After(n)}
       /\ nextId' = After(n + 1)
       /\ token' = [token EXCEPT ![s] = After(n)]
       /\ Goto(s, "holding")
  /\ UNCHANGED <<ready, sent, receivers>>

(* subscribe: the recheck and the insertion under the lock.                 *)
Subscribe(s) ==
  /\ pc[s] = "subscribe"
  /\ lock' = None
  /\ IF ready
     THEN Goto(s, "refused") /\ UNCHANGED <<tokens, nextId, token>>
     ELSE \E n \in Tokens :
            /\ TakenAfter(n)
            /\ tokens' = tokens \cup {After(n)}
            /\ nextId' = After(n + 1)
            /\ token' = [token EXCEPT ![s] = After(n)]
            /\ Goto(s, "holding")
  /\ UNCHANGED <<ready, sent, receivers>>

(* mark_ready: the check before the lock.                                   *)
MarkChecks(s) ==
  /\ pc[s] = "holding"
  /\ Goto(s, IF ready \/ token[s] = 0 THEN "notMarked" ELSE "markLock")
  /\ UNCHANGED <<ready, tokens, nextId, lock, sent, receivers, token>>

(* mark_ready: the token is spent and the flag set under the lock.          *)
Mark(s) ==
  /\ pc[s] = "mark"
  /\ lock' = None
  /\ IF token[s] \in tokens
     THEN /\ ready' = TRUE
          /\ tokens' = {}
          /\ Goto(s, "send")
     ELSE Goto(s, "notMarked") /\ UNCHANGED <<ready, tokens>>
  /\ UNCHANGED <<nextId, sent, receivers, token>>

(* watch::Sender::send fails, and does not keep the value, when there is no *)
(* receiver; the code ignores the error.                                    *)
Broadcast == sent' = (sent \/ receivers # {})

(* Mutant of MarkSends: nobody is told.                                     *)
MarkSendsNothing(s) ==
  /\ pc[s] = "send"
  /\ Goto(s, "marked")
  /\ UNCHANGED <<ready, tokens, nextId, lock, sent, receivers, token>>

MarkSends(s) ==
  /\ pc[s] = "send"
  /\ Broadcast
  /\ Goto(s, "marked")
  /\ UNCHANGED <<ready, tokens, nextId, lock, receivers, token>>

-----------------------------------------------------------------------------
(* is_ready, which wait_ready calls first.                                  *)
WaitChecks(w) ==
  /\ pc[w] = "idle"
  /\ Goto(w, IF ready THEN "done" ELSE "try")
  /\ UNCHANGED <<ready, tokens, nextId, lock, sent, receivers, token>>

TryLockFails(w) ==
  /\ pc[w] = "try" /\ lock # None
  /\ Goto(w, "reload")
  /\ UNCHANGED <<ready, tokens, nextId, lock, sent, receivers, token>>

(* Mutant of CheckTokens: the flag is set whoever has subscribed.           *)
CheckTokensAlways(w) ==
  /\ pc[w] = "check"
  /\ lock' = None
  /\ ready' = TRUE
  /\ Goto(w, IF ready THEN "done" ELSE "open")
  /\ UNCHANGED <<tokens, nextId, sent, receivers, token>>

(* A flag nobody has subscribed to becomes ready; `open` is where is_ready  *)
(* still has to send.                                                       *)
CheckTokens(w) ==
  /\ pc[w] = "check"
  /\ lock' = None
  /\ IF tokens = {}
     THEN ready' = TRUE /\ Goto(w, IF ready THEN "done" ELSE "open")
     ELSE Goto(w, "reload") /\ UNCHANGED ready
  /\ UNCHANGED <<tokens, nextId, sent, receivers, token>>

CheckSends(w) ==
  /\ pc[w] = "open"
  /\ Broadcast
  /\ Goto(w, "done")
  /\ UNCHANGED <<ready, tokens, nextId, lock, receivers, token>>

Reload(w) ==
  /\ pc[w] = "reload"
  /\ Goto(w, IF ready THEN "done" ELSE "receive")
  /\ UNCHANGED <<ready, tokens, nextId, lock, sent, receivers, token>>

(* wait_ready after is_ready said no.                                       *)
AddReceiver(w) ==
  /\ pc[w] = "receive"
  /\ receivers' = receivers \cup {w}
  /\ Goto(w, "borrow")
  /\ UNCHANGED <<ready, tokens, nextId, lock, sent, token>>

Borrow(w) ==
  /\ pc[w] = "borrow"
  /\ Goto(w, IF sent THEN "done" ELSE "await")
  /\ receivers' = IF sent THEN receivers \ {w} ELSE receivers
  /\ UNCHANGED <<ready, tokens, nextId, lock, sent, token>>

Changed(w) ==
  /\ pc[w] = "await" /\ sent
  /\ receivers' = receivers \ {w}
  /\ Goto(w, "done")
  /\ UNCHANGED <<ready, tokens, nextId, lock, sent, token>>

(* The tool call is cancelled while it waits (handle_tool_call).            *)
WaitDropped(w) ==
  /\ pc[w] = "await"
  /\ receivers' = receivers \ {w}
  /\ Goto(w, "dropped")
  /\ UNCHANGED <<ready, tokens, nextId, lock, sent, token>>

-----------------------------------------------------------------------------
SubscriberStep(s) ==
  \/ SubscribeChecks(s) \/ Acquire(s, "subLock", "subscribe") \/ Subscribe(s)
  \/ MarkChecks(s) \/ Acquire(s, "markLock", "mark") \/ Mark(s) \/ MarkSends(s)

WaiterStep(w) ==
  \/ WaitChecks(w) \/ Acquire(w, "try", "check") \/ TryLockFails(w)
  \/ CheckTokens(w) \/ CheckSends(w) \/ Reload(w)
  \/ AddReceiver(w) \/ Borrow(w) \/ Changed(w)

Next ==
  \/ \E s \in Subscribers : SubscriberStep(s) \/ LockTimesOut(s)
  \/ \E w \in Waiters : WaiterStep(w) \/ WaitDropped(w)

Spec == Init /\ [][Next]_vars

(* Threads of the runtime run, and a snapshot ends.  Nobody has to give up. *)
FairSpec ==
  /\ Spec
  /\ \A s \in Subscribers : WF_vars(SubscriberStep(s))
  /\ \A w \in Waiters : WF_vars(WaiterStep(w))

-----------------------------------------------------------------------------
(* Every variable has its type.                                             *)
TypeOK ==
  /\ {ready, sent} \subseteq BOOLEAN
  /\ tokens \subseteq Tokens \ {0}
  /\ nextId \in Tokens
  /\ lock \in Procs \cup {None}
  /\ receivers \subseteq Waiters
  /\ pc \in [Procs -> SubscriberLabels \cup WaiterLabels]
  /\ token \in [Subscribers -> Tokens]

(* Once the flag is ready no subscription is left and none is granted, so   *)
(* nobody holds a token that could still be thought to delay anything: the  *)
(* check of `subscribe` outside the lock and mark_ready's store inside it   *)
(* cannot cross.                                                            *)
NoTokenOnceReady == ready => tokens = {}

(* The flag refines a latch: mark_ready returns true at most once, a flag   *)
(* with subscriptions is opened only by one of them, a waiter returns only  *)
(* when it is open, and it never closes.  A flag that nobody has subscribed *)
(* to opens without a token being marked (is_ready's doc comment says that  *)
(* at least one needs to be).                                               *)
L == INSTANCE Latch WITH open    <- ready,
                         holders <- {s \in Subscribers : token[s] \in tokens},
                         openers <- {s \in Subscribers : pc[s] \in {"send", "marked"}},
                         passed  <- {w \in Waiters : pc[w] = "done"}
RefinesLatch == L!LatchSpec

Returned(w) == pc[w] \in {"done", "dropped"}

(* A waiter that was listening when the flag became ready is woken: between *)
(* the store and the broadcast nothing can make it miss both.               *)
ListenersWake ==
  \A w \in Waiters :
    []((pc[w] \in {"borrow", "await"} /\ ~ ready /\ <>ready) => <>Returned(w))

(* "Asynchronously wait until the flag becomes ready": once it is, nobody   *)
(* who has called wait_ready waits for ever.                                *)
WaitersWake == \A w \in Waiters : ready ~> Returned(w)
=============================================================================
