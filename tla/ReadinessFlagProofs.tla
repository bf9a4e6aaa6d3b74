------------------------ MODULE ReadinessFlagProofs ------------------------
(* Theorems about ReadinessFlag, for any subscribers, waiters and size of   *)
(* the token space.                                                         *)
EXTENDS ReadinessFlag, FiniteSetTheorems, TLAPS

(* What the refinement rests on.  A critical section excludes the others;   *)
(* while the flag is not ready a granted token is in the set and nobody has *)
(* been told anything; and nobody is told before the flag is ready.         *)
FlagInv ==
  /\ pc \in [Procs -> SubscriberLabels \cup WaiterLabels]
  /\ token \in [Subscribers -> Int]
  /\ nextId \in Tokens
  /\ 0 \notin tokens
  /\ ready \in BOOLEAN /\ sent \in BOOLEAN
  /\ sent => ready
  /\ ready => tokens = {}
  /\ \A p \in Procs : pc[p] \in {"send", "marked", "open", "done"} => ready
  /\ ~ ready => \A s \in Subscribers : token[s] = 0 \/ token[s] \in tokens
  /\ \A s \in Subscribers : pc[s] \in {"idle", "subLock", "subscribe", "refused"} => token[s] = 0

(* A remainder is one of the values below the modulus.                      *)
LEMMA ModRange == ASSUME NEW a \in Nat, NEW n \in Nat, n > 0 PROVE a % n \in 0 .. n - 1
  OBVIOUS

(* There are at least two tokens.                                           *)
LEMMA SpaceBig == TokenSpace > 1
  BY FlagAssumption, FS_CardinalityType

(* The counter stays in the token space.                                    *)
LEMMA AfterRange == ASSUME nextId \in Tokens, NEW n \in Nat PROVE After(n) \in Tokens
<1>1. nextId + n \in Nat
  BY DEF Tokens
<1> QED BY <1>1, ModRange, SpaceBig, FlagAssumption DEF After, Tokens

(* The invariant holds in every state of the flag.                          *)
THEOREM FlagInvariance == Spec => []FlagInv
<1>1. Init => FlagInv
  <2> SUFFICES ASSUME Init PROVE FlagInv
    OBVIOUS
  <2>1. pc \in [Procs -> SubscriberLabels \cup WaiterLabels] /\ token \in [Subscribers -> Int]
    BY DEF Init, SubscriberLabels, WaiterLabels
  <2>2. nextId \in Tokens
    BY FlagAssumption, SpaceBig DEF Init, Tokens
  <2> QED BY <2>1, <2>2 DEF Init, FlagInv, Procs
<1>2. FlagInv /\ [Next]_vars => FlagInv'
  <2> SUFFICES ASSUME FlagInv, [Next]_vars PROVE FlagInv'
    OBVIOUS
  <2> USE FlagAssumption DEF FlagInv, Procs, Goto, SubscriberLabels, WaiterLabels
  <2>1. CASE UNCHANGED vars
    BY <2>1 DEF vars
  <2>2. ASSUME NEW s \in Subscribers, SubscriberStep(s) \/ LockTimesOut(s)
        PROVE  FlagInv'
    <3>1. CASE SubscribeChecks(s)
      BY <3>1 DEF SubscribeChecks
    <3>2. CASE Acquire(s, "subLock", "subscribe")
      BY <3>2 DEF Acquire
    <3>3. CASE Subscribe(s)
      <4>1. CASE ready
        BY <3>3, <4>1 DEF Subscribe
      <4>2. CASE ~ ready
        <5>1. PICK n \in Tokens : /\ TakenAfter(n)
                                  /\ tokens' = tokens \cup {After(n)}
                                  /\ token' = [token EXCEPT ![s] = After(n)]
                                  /\ pc' = [pc EXCEPT ![s] = "holding"]
          BY <3>3, <4>2 DEF Subscribe
        <5>2. After(n) # 0 /\ After(n) \notin tokens
          BY <5>1 DEF TakenAfter, Usable
        <5>3. After(n) \in Tokens /\ nextId' \in Tokens
          BY <3>3, <4>2, AfterRange DEF Subscribe, Tokens
        <5>4. UNCHANGED <<ready, sent>>
          BY <3>3 DEF Subscribe
        <5> QED BY <4>2, <5>1, <5>2, <5>3, <5>4 DEF Tokens
      <4> QED BY <4>1, <4>2
    <3>4. CASE MarkChecks(s)
      BY <3>4 DEF MarkChecks
    <3>5. CASE Acquire(s, "markLock", "mark")
      BY <3>5 DEF Acquire
    <3>6. CASE Mark(s)
      BY <3>6 DEF Mark
    <3>7. CASE MarkSends(s)
      BY <3>7 DEF MarkSends, Broadcast
    <3>8. CASE LockTimesOut(s)
      BY <3>8 DEF LockTimesOut
    <3> QED BY <2>2, <3>1, <3>2, <3>3, <3>4, <3>5, <3>6, <3>7, <3>8 DEF SubscriberStep
  <2>3. ASSUME NEW w \in Waiters, WaiterStep(w) \/ WaitDropped(w)
        PROVE  FlagInv'
    <3>1. CASE WaitChecks(w)
      BY <3>1 DEF WaitChecks
    <3>2. CASE Acquire(w, "try", "check")
      BY <3>2 DEF Acquire
    <3>3. CASE TryLockFails(w)
      BY <3>3 DEF TryLockFails
    <3>4. CASE CheckTokens(w)
      BY <3>4 DEF CheckTokens
    <3>5. CASE CheckSends(w)
      BY <3>5 DEF CheckSends, Broadcast
    <3>6. CASE Reload(w)
      BY <3>6 DEF Reload
    <3>7. CASE AddReceiver(w)
      BY <3>7 DEF AddReceiver
    <3>8. CASE Borrow(w)
      BY <3>8 DEF Borrow
    <3>9. CASE Changed(w)
      BY <3>9 DEF Changed
    <3>10. CASE WaitDropped(w)
      BY <3>10 DEF WaitDropped
    <3> QED BY <2>3, <3>1, <3>2, <3>3, <3>4, <3>5, <3>6, <3>7, <3>8, <3>9, <3>10 DEF WaiterStep
  <2> QED BY <2>1, <2>2, <2>3 DEF Next
<1> QED BY <1>1, <1>2, PTL DEF Spec

(* No subscription is left, and none is granted, once the flag is ready.    *)
THEOREM NoLateSubscription == Spec => []NoTokenOnceReady
<1>1. FlagInv => NoTokenOnceReady
  BY DEF FlagInv, NoTokenOnceReady
<1> QED BY <1>1, FlagInvariance, PTL

(* The flag implements the latch.                                           *)
THEOREM FlagRefinesLatch == Spec => RefinesLatch
<1>1. Init => L!LatchInit
  BY DEF Init, L!LatchInit, Procs
<1>2. FlagInv /\ FlagInv' /\ [Next]_vars => [L!LatchNext]_(L!latchVars)
  <2> SUFFICES ASSUME FlagInv, FlagInv', [Next]_vars PROVE [L!LatchNext]_(L!latchVars)
    OBVIOUS
  <2> USE FlagAssumption DEF Procs, Goto, L!latchVars
  <2>1. CASE UNCHANGED vars
    BY <2>1 DEF vars
  <2>2. ASSUME NEW s \in Subscribers, SubscriberStep(s) \/ LockTimesOut(s)
        PROVE  [L!LatchNext]_(L!latchVars)
    <3>1. CASE SubscribeChecks(s)
      BY <3>1 DEF SubscribeChecks, FlagInv
    <3>2. CASE Acquire(s, "subLock", "subscribe")
      BY <3>2 DEF Acquire, FlagInv
    <3>3. CASE Subscribe(s)
      <4>1. CASE ready
        BY <3>3, <4>1 DEF Subscribe, FlagInv
      <4>2. CASE ~ ready
        <5>1. PICK n \in Tokens : /\ TakenAfter(n)
                                  /\ tokens' = tokens \cup {After(n)}
                                  /\ token' = [token EXCEPT ![s] = After(n)]
                                  /\ pc' = [pc EXCEPT ![s] = "holding"]
          BY <3>3, <4>2 DEF Subscribe
        <5>2. After(n) # 0 /\ After(n) \notin tokens
          BY <5>1 DEF TakenAfter, Usable
        <5>3. {r \in Subscribers : token'[r] \in tokens'}
                = {r \in Subscribers : token[r] \in tokens} \cup {s}
          BY <4>2, <5>1, <5>2 DEF FlagInv
        <5>4. L!Grant(s)
          BY <3>3, <4>2, <5>1, <5>3 DEF L!Grant, Subscribe, FlagInv
        <5> QED BY <5>4 DEF L!LatchNext
      <4> QED BY <4>1, <4>2
    <3>4. CASE MarkChecks(s)
      BY <3>4 DEF MarkChecks, FlagInv
    <3>5. CASE Acquire(s, "markLock", "mark")
      BY <3>5 DEF Acquire, FlagInv
    <3>6. CASE Mark(s)
      <4>1. CASE token[s] \in tokens
        <5>1. ~ ready
          BY <4>1 DEF FlagInv
        <5>2. {r \in Subscribers : pc'[r] \in {"send", "marked"}} = {s}
          BY <3>6, <4>1, <5>1 DEF Mark, FlagInv
        <5>3. L!Open(s)
          BY <3>6, <4>1, <5>1, <5>2 DEF L!Open, Mark, FlagInv
        <5> QED BY <5>3 DEF L!LatchNext
      <4>2. CASE token[s] \notin tokens
        BY <3>6, <4>2 DEF Mark, FlagInv
      <4> QED BY <4>1, <4>2
    <3>7. CASE MarkSends(s)
      BY <3>7 DEF MarkSends, FlagInv
    <3>8. CASE LockTimesOut(s)
      BY <3>8 DEF LockTimesOut, FlagInv
    <3> QED BY <2>2, <3>1, <3>2, <3>3, <3>4, <3>5, <3>6, <3>7, <3>8 DEF SubscriberStep
  <2>3. ASSUME NEW w \in Waiters, WaiterStep(w) \/ WaitDropped(w)
        PROVE  [L!LatchNext]_(L!latchVars)
    <3>0. ASSUME ready, UNCHANGED <<ready, tokens, token>>, pc' = [pc EXCEPT ![w] = "done"]
          PROVE  L!LatchNext
      <4>1. L!Pass(w)
        BY <3>0 DEF L!Pass, FlagInv
      <4> QED BY <4>1 DEF L!LatchNext
    <3>1. CASE WaitChecks(w)
      BY <3>0, <3>1 DEF WaitChecks, FlagInv
    <3>2. CASE Acquire(w, "try", "check")
      BY <3>2 DEF Acquire, FlagInv
    <3>3. CASE TryLockFails(w)
      BY <3>3 DEF TryLockFails, FlagInv
    <3>4. CASE CheckTokens(w)
      <4>1. CASE tokens = {} /\ ~ ready
        <5>1. L!OpenUnclaimed
          BY <3>4, <4>1 DEF L!OpenUnclaimed, CheckTokens, FlagInv
        <5> QED BY <5>1 DEF L!LatchNext
      <4>2. CASE tokens = {} /\ ready
        BY <3>0, <3>4, <4>2 DEF CheckTokens, FlagInv
      <4>3. CASE tokens # {}
        BY <3>4, <4>3 DEF CheckTokens, FlagInv
      <4> QED BY <4>1, <4>2, <4>3
    <3>5. CASE CheckSends(w)
      BY <3>0, <3>5 DEF CheckSends, FlagInv
    <3>6. CASE Reload(w)
      BY <3>0, <3>6 DEF Reload, FlagInv
    <3>7. CASE AddReceiver(w)
      BY <3>7 DEF AddReceiver, FlagInv
    <3>8. CASE Borrow(w)
      BY <3>0, <3>8 DEF Borrow, FlagInv
    <3>9. CASE Changed(w)
      BY <3>0, <3>9 DEF Changed, FlagInv
    <3>10. CASE WaitDropped(w)
      BY <3>10 DEF WaitDropped, FlagInv
    <3> QED BY <2>3, <3>1, <3>2, <3>3, <3>4, <3>5, <3>6, <3>7, <3>8, <3>9, <3>10 DEF WaiterStep
  <2> QED BY <2>1, <2>2, <2>3 DEF Next
<1> QED BY <1>1, <1>2, FlagInvariance, PTL DEF Spec, RefinesLatch, L!LatchSpec
=============================================================================
