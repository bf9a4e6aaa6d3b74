------------------------- MODULE AgentGuardsProofs -------------------------
(***************************************************************************)
(* For any number of tool calls and agents: the counter of Guards covers   *)
(* what is registered and reserved, so it behaves as a pool of slots.      *)
(***************************************************************************)
EXTENDS AgentGuards, FiniteSetTheorems, TLAPS

(* An actor that registers a thread has one, and a new one has a name.      *)
ActorShape ==
  \A a \in Actors :
    /\ pc[a] \in {"commit", "recommit", "send", "remove", "release"} => agent[a] \in Agents
    /\ pc[a] = "create" /\ agent[a] = None => name[a] \in Names
    /\ pc[a] \in {"load", "compare", "name", "create"} =>
         agent[a] = None \/ agent[a] \in known

IInv == TypeOK /\ ActorShape /\ CountCovers

(* Cardinalities of a set that gains or loses an element.                   *)
LEMMA CardGain ==
  ASSUME NEW S, IsFiniteSet(S), NEW x
  PROVE  /\ Cardinality(S) \in Nat
         /\ Cardinality(S \cup {x}) <= Cardinality(S) + 1
         /\ x \notin S => Cardinality(S \cup {x}) = Cardinality(S) + 1
  <1>1. Cardinality(S) \in Nat
    BY FS_CardinalityType
  <1>2. Cardinality(S \cup {x}) = IF x \in S THEN Cardinality(S) ELSE Cardinality(S) + 1
    BY FS_AddElement
  <1> QED BY <1>1, <1>2

(* ... and one that loses an element.                                      *)
LEMMA CardLoss ==
  ASSUME NEW S, IsFiniteSet(S), NEW x \in S
  PROVE  Cardinality(S) \in Nat /\ Cardinality(S \ {x}) = Cardinality(S) - 1
  BY FS_RemoveElement, FS_CardinalityType

(* The sets that are counted are finite.                                    *)
LEMMA Finite ==
  ASSUME TypeOK
  PROVE  /\ IsFiniteSet(set) /\ IsFiniteSet(Owing)
         /\ Cardinality(set) \in Nat /\ Cardinality(Owing) \in Nat
  <1>1. IsFiniteSet(set) /\ IsFiniteSet(Owing)
    BY GuardsAssumption, FS_Subset DEF TypeOK, Owing
  <1> QED BY <1>1, FS_CardinalityType

(* The invariant holds initially.                                           *)
LEMMA InitIInv == Init => IInv
  <1> SUFFICES ASSUME Init PROVE IInv
    OBVIOUS
  <1>1. TypeOK
    BY DEF Init, TypeOK, Labels
  <1>4. ActorShape
    BY DEF Init, ActorShape
  <1>2. set = {} /\ Owing = {}
    BY DEF Init, Owing
  <1>3. CountCovers
    BY <1>2, FS_EmptySet DEF Init, CountCovers
  <1> QED BY <1>1, <1>3, <1>4 DEF IInv

(* Whoever owes a slot can give it back.                                    *)
LEMMA OwingCounts ==
  ASSUME IInv, NEW a \in Owing
  PROVE  total \in Nat /\ total > 0
  <1>1. Cardinality(Owing) > 0
    <2>1. Cardinality(Owing) # 0
      BY Finite, FS_EmptySet DEF IInv
    <2> QED BY <2>1, Finite DEF IInv
  <1> QED BY <1>1, Finite DEF IInv, TypeOK, CountCovers

(* Types and the shape of an actor.                                         *)
LEMMA TypeStep == IInv /\ [Next]_vars => TypeOK' /\ ActorShape'
  <1> SUFFICES ASSUME IInv, [Next]_vars PROVE TypeOK' /\ ActorShape'
    OBVIOUS
  <1> USE GuardsAssumption DEF Labels, guardVars, threadVars, actorVars
  <1>1. ASSUME NEW a \in Actors, SpawnAgent(a) PROVE TypeOK' /\ ActorShape'
    BY <1>1 DEF SpawnAgent, Begin, Goto, IInv, TypeOK, ActorShape
  <1>2. ASSUME NEW a \in Actors, NEW t \in Agents, ResumeAgent(a, t) PROVE TypeOK' /\ ActorShape'
    BY <1>2 DEF ResumeAgent, Begin, Goto, IInv, TypeOK, ActorShape
  <1>3. ASSUME NEW a \in Actors, NEW t \in Agents, SendInput(a, t) PROVE TypeOK' /\ ActorShape'
    BY <1>3 DEF SendInput, Begin, Goto, IInv, TypeOK, ActorShape
  <1>4. ASSUME NEW a \in Actors, NEW t \in Agents, CloseAgent(a, t) PROVE TypeOK' /\ ActorShape'
    BY <1>4 DEF CloseAgent, Begin, Goto, IInv, TypeOK, ActorShape
  <1>5. ASSUME NEW a \in Actors, Load(a) PROVE TypeOK' /\ ActorShape'
    BY <1>5 DEF Load, Goto, IInv, TypeOK, ActorShape
  <1>6. ASSUME NEW a \in Actors, LimitReached(a) PROVE TypeOK' /\ ActorShape'
    BY <1>6 DEF LimitReached, Goto, IInv, TypeOK, ActorShape
  <1>7. ASSUME NEW a \in Actors, Exchange(a) PROVE TypeOK' /\ ActorShape'
    BY <1>7 DEF Exchange, Goto, IInv, TypeOK, ActorShape
  <1>8. ASSUME NEW a \in Actors, Retry(a) PROVE TypeOK' /\ ActorShape'
    BY <1>8 DEF Retry, IInv, TypeOK, ActorShape
  <1>9. ASSUME NEW a \in Actors, ReserveName(a) PROVE TypeOK' /\ ActorShape'
    <2>1. reset' \in BOOLEAN
      BY <1>9, Zenon DEF ReserveName, Goto, IInv, TypeOK
    <2>2. \E n \in Names \cup {None} :
            /\ name' = [name EXCEPT ![a] = n] /\ used' \subseteq Names
            /\ agent[a] = None => n \in Names
      <3>1. CASE agent[a] = None
        BY <1>9, <3>1 DEF ReserveName, IInv, TypeOK
      <3>2. CASE agent[a] # None
        <4>1. agent[a] \in Agents /\ nick[agent[a]] \in Names \cup {None}
          BY <1>9, <3>2 DEF ReserveName, IInv, TypeOK, ActorShape
        <4>2. PICK n \in {nick[agent[a]], None} :
                name' = [name EXCEPT ![a] = n] /\ used' = used \cup Named(n)
          BY <1>9, <3>2 DEF ReserveName
        <4>3. n \in Names \cup {None} /\ used' \subseteq Names
          BY <4>1, <4>2 DEF Named, IInv, TypeOK
        <4> QED BY <3>2, <4>2, <4>3
      <3> QED BY <3>1, <3>2
    <2>3. /\ pc' = [pc EXCEPT ![a] = "create"] /\ pc[a] = "name"
          /\ UNCHANGED <<total, set, threadVars, seen, agent>>
      BY <1>9 DEF ReserveName, Goto
    <2> QED BY <2>1, <2>2, <2>3 DEF IInv, TypeOK, ActorShape
  <1>10. ASSUME NEW a \in Actors, CreateThread(a) PROVE TypeOK' /\ ActorShape'
    BY <1>10 DEF CreateThread, Goto, IInv, TypeOK, ActorShape
  <1>11. ASSUME NEW a \in Actors, DropReservation(a) PROVE TypeOK' /\ ActorShape'
    <2>1. total' \in Nat
      BY <1>11, OwingCounts DEF DropReservation, Goto, Owing, IInv, TypeOK
    <2> QED BY <1>11, <2>1 DEF DropReservation, Goto, IInv, TypeOK, ActorShape
  <1>12. ASSUME NEW a \in Actors, Commit(a) PROVE TypeOK' /\ ActorShape'
    BY <1>12 DEF Commit, Named, Goto, IInv, TypeOK, ActorShape
  <1>13. ASSUME NEW a \in Actors, Send(a) PROVE TypeOK' /\ ActorShape'
    BY <1>13 DEF Send, Goto, IInv, TypeOK, ActorShape
  <1>14. ASSUME NEW a \in Actors, RemoveThread(a) PROVE TypeOK' /\ ActorShape'
    BY <1>14 DEF RemoveThread, Goto, IInv, TypeOK, ActorShape
  <1>15. ASSUME NEW a \in Actors, Abandon(a) PROVE TypeOK' /\ ActorShape'
    BY <1>15 DEF Abandon, Goto, IInv, TypeOK, ActorShape
  <1>16. ASSUME NEW a \in Actors, Release(a) PROVE TypeOK' /\ ActorShape'
    BY <1>16 DEF Release, Goto, IInv, TypeOK, ActorShape
  <1>17. ASSUME NEW a \in Actors, GiveBack(a) PROVE TypeOK' /\ ActorShape'
    <2>1. total' \in Nat
      BY <1>17, OwingCounts DEF GiveBack, Goto, Owing, IInv, TypeOK
    <2> QED BY <1>17, <2>1 DEF GiveBack, Goto, IInv, TypeOK, ActorShape
  <1>18. ASSUME NEW t \in Agents, StopThread(t) PROVE TypeOK' /\ ActorShape'
    BY <1>18 DEF StopThread, IInv, TypeOK, ActorShape
  <1>19. CASE UNCHANGED vars
    BY <1>19 DEF vars, IInv, TypeOK, ActorShape
  <1> QED
    BY <1>1, <1>2, <1>3, <1>4, <1>5, <1>6, <1>7, <1>8, <1>9, <1>10, <1>11,
       <1>12, <1>13, <1>14, <1>15, <1>16, <1>17, <1>18, <1>19
    DEF Next, ToolCall, ActorStep

(* The count: five steps move a slot, the others leave both sides alone.    *)
LEMMA CountStep == IInv /\ [Next]_vars => CountCovers'
  <1> SUFFICES ASSUME IInv, [Next]_vars PROVE CountCovers'
    OBVIOUS
  <1> USE DEF guardVars, threadVars, actorVars
  <1> DEFINE Still == set' = set /\ Owing' = Owing /\ total' = total
  <1>0. Still => CountCovers'
    BY DEF IInv, CountCovers
  <1>1. ASSUME NEW a \in Actors, SpawnAgent(a) PROVE CountCovers'
    <2>1. Still
      BY <1>1 DEF SpawnAgent, Begin, Goto, Owing, IInv, TypeOK, Labels
    <2> QED BY <1>0, <2>1
  <1>2. ASSUME NEW a \in Actors, NEW t \in Agents, ResumeAgent(a, t) PROVE CountCovers'
    <2>1. Still
      BY <1>2 DEF ResumeAgent, Begin, Goto, Owing, IInv, TypeOK, Labels
    <2> QED BY <1>0, <2>1
  <1>3. ASSUME NEW a \in Actors, NEW t \in Agents, SendInput(a, t) PROVE CountCovers'
    <2>1. Still
      BY <1>3 DEF SendInput, Begin, Goto, Owing, IInv, TypeOK, Labels
    <2> QED BY <1>0, <2>1
  <1>4. ASSUME NEW a \in Actors, NEW t \in Agents, CloseAgent(a, t) PROVE CountCovers'
    <2>1. Still
      BY <1>4 DEF CloseAgent, Begin, Goto, Owing, IInv, TypeOK, Labels
    <2> QED BY <1>0, <2>1
  <1>5. ASSUME NEW a \in Actors, Load(a) PROVE CountCovers'
    <2>1. Still
      BY <1>5 DEF Load, Goto, Owing, IInv, TypeOK, Labels
    <2> QED BY <1>0, <2>1
  <1>6. ASSUME NEW a \in Actors, LimitReached(a) PROVE CountCovers'
    <2>1. Still
      BY <1>6 DEF LimitReached, Goto, Owing, IInv, TypeOK, Labels
    <2> QED BY <1>0, <2>1
  <1>7. ASSUME NEW a \in Actors, Exchange(a) PROVE CountCovers'
    <2>1. a \notin Owing /\ Owing' = Owing \cup {a} /\ set' = set /\ total' = total + 1
      BY <1>7 DEF Exchange, Goto, Owing, IInv, TypeOK
    <2> QED BY <2>1, Finite, CardGain DEF IInv, TypeOK, CountCovers
  <1>8. ASSUME NEW a \in Actors, Retry(a) PROVE CountCovers'
    <2>1. Still
      BY <1>8 DEF Retry, Owing, IInv, TypeOK, Labels
    <2> QED BY <1>0, <2>1
  <1>9. ASSUME NEW a \in Actors, ReserveName(a) PROVE CountCovers'
    <2>1. Still
      BY <1>9 DEF ReserveName, Goto, Owing, IInv, TypeOK, Labels
    <2> QED BY <1>0, <2>1
  <1>10. ASSUME NEW a \in Actors, CreateThread(a) PROVE CountCovers'
    <2>1. Still
      BY <1>10 DEF CreateThread, Goto, Owing, IInv, TypeOK, Labels
    <2> QED BY <1>0, <2>1
  <1>11. ASSUME NEW a \in Actors, DropReservation(a) PROVE CountCovers'
    <2>1. a \in Owing /\ Owing' = Owing \ {a} /\ set' = set /\ total' = total - 1
      BY <1>11 DEF DropReservation, Goto, Owing, IInv, TypeOK
    <2> QED BY <2>1, Finite, CardLoss DEF IInv, TypeOK, CountCovers
  <1>12. ASSUME NEW a \in Actors, Commit(a) PROVE CountCovers'
    <2>1. /\ a \in Owing /\ Owing' = Owing \ {a}
          /\ set' = set \cup {agent[a]} /\ total' = total
      BY <1>12 DEF Commit, Goto, Owing, IInv, TypeOK
    <2>2. /\ Cardinality(Owing') = Cardinality(Owing) - 1
          /\ Cardinality(set') <= Cardinality(set) + 1
      BY <2>1, Finite, CardGain, CardLoss DEF IInv
    <2>3. Cardinality(set') \in Nat
      BY <2>1, Finite, FS_AddElement, FS_CardinalityType DEF IInv
    <2> QED BY <2>1, <2>2, <2>3, Finite DEF IInv, TypeOK, CountCovers
  <1>13. ASSUME NEW a \in Actors, Send(a) PROVE CountCovers'
    <2>1. Still
      BY <1>13 DEF Send, Goto, Owing, IInv, TypeOK, Labels
    <2> QED BY <1>0, <2>1
  <1>14. ASSUME NEW a \in Actors, RemoveThread(a) PROVE CountCovers'
    <2>1. Still
      BY <1>14 DEF RemoveThread, Goto, Owing, IInv, TypeOK, Labels
    <2> QED BY <1>0, <2>1
  <1>15. ASSUME NEW a \in Actors, Abandon(a) PROVE CountCovers'
    <2>1. Still
      BY <1>15 DEF Abandon, Goto, Owing, IInv, TypeOK, Labels
    <2> QED BY <1>0, <2>1
  <1>16. ASSUME NEW a \in Actors, Release(a) PROVE CountCovers'
    <2>1. CASE agent[a] \notin set
      <3>1. Still
        BY <1>16, <2>1 DEF Release, Goto, Owing, IInv, TypeOK
      <3> QED BY <1>0, <3>1
    <2>2. CASE agent[a] \in set
      <3>1. /\ a \notin Owing /\ Owing' = Owing \cup {a}
            /\ set' = set \ {agent[a]} /\ total' = total
        BY <1>16, <2>2 DEF Release, Goto, Owing, IInv, TypeOK
      <3>2. /\ Cardinality(Owing') = Cardinality(Owing) + 1
            /\ Cardinality(set') = Cardinality(set) - 1
        BY <2>2, <3>1, Finite, CardGain, CardLoss DEF IInv
      <3> QED BY <3>1, <3>2, Finite DEF IInv, TypeOK, CountCovers
    <2> QED BY <2>1, <2>2
  <1>17. ASSUME NEW a \in Actors, GiveBack(a) PROVE CountCovers'
    <2>1. a \in Owing /\ Owing' = Owing \ {a} /\ set' = set /\ total' = total - 1
      BY <1>17 DEF GiveBack, Goto, Owing, IInv, TypeOK
    <2> QED BY <2>1, Finite, CardLoss DEF IInv, TypeOK, CountCovers
  <1>18. ASSUME NEW t \in Agents, StopThread(t) PROVE CountCovers'
    <2>1. Still
      BY <1>18 DEF StopThread, Owing, IInv, TypeOK, Labels
    <2> QED BY <1>0, <2>1
  <1>19. CASE UNCHANGED vars
    <2>1. Still
      BY <1>19 DEF vars, Owing
    <2> QED BY <1>0, <2>1
  <1> QED
    BY <1>1, <1>2, <1>3, <1>4, <1>5, <1>6, <1>7, <1>8, <1>9, <1>10, <1>11,
       <1>12, <1>13, <1>14, <1>15, <1>16, <1>17, <1>18, <1>19
    DEF Next, ToolCall, ActorStep

(* The inductive invariant.                                                 *)
THEOREM GuardsInvariance == Spec => []IInv
  <1>1. IInv /\ [Next]_vars => IInv'
    BY TypeStep, CountStep DEF IInv
  <1> QED BY InitIInv, <1>1, PTL DEF Spec

(* total_count never falls below the threads and reservations it stands     *)
(* for, however spawns, resumes, closes and dropped calls interleave.       *)
THEOREM CountCoversAgents == Spec => []CountCovers
  <1>1. IInv => CountCovers
    BY DEF IInv
  <1> QED BY GuardsInvariance, <1>1, PTL

(* The compare-exchange loop, the drop of a reservation and the release of  *)
(* a thread implement a pool of MaxThreads slots.                           *)
THEOREM GuardsRefinePool == Spec => RefinesPool
  <1>1. Init => Pool!PoolInit
    BY DEF Init, Pool!PoolInit
  <1>2. IInv /\ [Next]_vars => [Pool!PoolNext]_total
    <2> SUFFICES ASSUME IInv, [Next]_vars PROVE Pool!TakeSlot \/ Pool!GiveSlot \/ UNCHANGED total
      BY DEF Pool!PoolNext
    <2>1. ASSUME NEW a \in Actors, Exchange(a) PROVE Pool!TakeSlot
      BY <2>1, GuardsAssumption DEF Exchange, Pool!TakeSlot, IInv, TypeOK
    <2>2. ASSUME NEW a \in Actors, DropReservation(a) \/ GiveBack(a) PROVE Pool!GiveSlot
      <3>1. a \in Owing /\ total' = total - 1
        BY <2>2 DEF DropReservation, GiveBack, Owing
      <3> QED BY <3>1, OwingCounts DEF Pool!GiveSlot
    <2>3. ASSUME NEW a \in Actors, ToolCall(a) PROVE UNCHANGED total
      BY <2>3 DEF ToolCall, SpawnAgent, ResumeAgent, SendInput, CloseAgent, Begin, guardVars
    <2>4. ASSUME NEW a \in Actors,
                 \/ Load(a) \/ LimitReached(a) \/ Retry(a) \/ ReserveName(a)
                 \/ CreateThread(a) \/ Commit(a) \/ Send(a) \/ RemoveThread(a)
                 \/ Abandon(a) \/ Release(a)
          PROVE  UNCHANGED total
      BY <2>4 DEF Load, LimitReached, Retry, ReserveName, CreateThread, Commit, Send,
                  RemoveThread, Abandon, Release, guardVars
    <2>5. ASSUME NEW t \in Agents, StopThread(t) PROVE UNCHANGED total
      BY <2>5 DEF StopThread, guardVars
    <2>6. CASE UNCHANGED vars
      BY <2>6 DEF vars, guardVars
    <2> QED BY <2>1, <2>2, <2>3, <2>4, <2>5, <2>6 DEF Next, ActorStep
  <1> QED BY <1>1, <1>2, GuardsInvariance, PTL DEF Spec, RefinesPool, Pool!PoolSpec

-----------------------------------------------------------------------------
(* Nicknames.  A name is in used_agent_nicknames from its reservation on,   *)
(* so that a new one differs from every name drawn before.                  *)
NameInv ==
  ~ reset =>
    /\ \A t \in Agents \ earlier : nick[t] # None => nick[t] \in used
    /\ \A a \in Actors : pc[a] = "create" /\ name[a] # None =>
         name[a] \in used /\ (agent[a] # None => name[a] = nick[agent[a]])
    /\ \A a, b \in Actors :
         /\ a # b /\ pc[a] = "create" /\ pc[b] = "create"
         /\ agent[a] = None /\ agent[b] \notin earlier
         => name[a] # name[b]

NInv == NameInv /\ NamesDistinct

(* Every step keeps the nicknames apart.                                    *)
LEMMA NameStep == IInv /\ NInv /\ [Next]_vars => NInv'
  <1> SUFFICES ASSUME IInv, NInv, [Next]_vars PROVE NInv'
    OBVIOUS
  <1> USE GuardsAssumption DEF guardVars, threadVars, actorVars, IInv, NInv, NameInv, NamesDistinct
  <1>1. ASSUME NEW a \in Actors, SpawnAgent(a) PROVE NInv'
    BY <1>1 DEF SpawnAgent, Begin, Goto, TypeOK, ActorShape
  <1>2. ASSUME NEW a \in Actors, NEW t \in Agents, ResumeAgent(a, t) PROVE NInv'
    BY <1>2 DEF ResumeAgent, Begin, Goto, TypeOK, ActorShape
  <1>3. ASSUME NEW a \in Actors, NEW t \in Agents, SendInput(a, t) PROVE NInv'
    BY <1>3 DEF SendInput, Begin, Goto, TypeOK, ActorShape
  <1>4. ASSUME NEW a \in Actors, NEW t \in Agents, CloseAgent(a, t) PROVE NInv'
    BY <1>4 DEF CloseAgent, Begin, Goto, TypeOK, ActorShape
  <1>5. ASSUME NEW a \in Actors, Load(a) PROVE NInv'
    BY <1>5 DEF Load, Goto, TypeOK, ActorShape
  <1>6. ASSUME NEW a \in Actors, LimitReached(a) PROVE NInv'
    BY <1>6 DEF LimitReached, Goto, TypeOK, ActorShape
  <1>7. ASSUME NEW a \in Actors, Exchange(a) PROVE NInv'
    BY <1>7 DEF Exchange, Goto, TypeOK, ActorShape
  <1>8. ASSUME NEW a \in Actors, Retry(a) PROVE NInv'
    BY <1>8 DEF Retry, TypeOK, ActorShape
  <1>9. ASSUME NEW a \in Actors, ReserveName(a) PROVE NInv'
    <2> SUFFICES ASSUME ~ reset' PROVE NInv'
      OBVIOUS
    <2>1. /\ pc' = [pc EXCEPT ![a] = "create"]
          /\ UNCHANGED <<threadVars, seen, agent>>
      BY <1>9 DEF ReserveName, Goto
    <2>2. CASE agent[a] # None
      <3>1. PICK n \in {nick[agent[a]], None} :
              /\ name' = [name EXCEPT ![a] = n]
              /\ used' = used \cup Named(n) /\ reset' = reset
        BY <1>9, <2>2 DEF ReserveName, Goto
      <3> QED BY <1>9, <2>1, <2>2, <3>1 DEF ReserveName, Named, TypeOK, ActorShape
    <2>3. CASE agent[a] = None
      <3>1. PICK n \in Names \ used :
              name' = [name EXCEPT ![a] = n] /\ used' = used \cup {n} /\ ~ reset
        BY <1>9, <2>3 DEF ReserveName, Goto
      <3> QED BY <1>9, <2>1, <2>3, <3>1 DEF ReserveName, TypeOK, ActorShape
    <2> QED BY <2>2, <2>3
  <1>10. ASSUME NEW a \in Actors, CreateThread(a) PROVE NInv'
    BY <1>10 DEF CreateThread, Goto, TypeOK, ActorShape
  <1>11. ASSUME NEW a \in Actors, DropReservation(a) PROVE NInv'
    BY <1>11 DEF DropReservation, Goto, TypeOK, ActorShape
  <1>12. ASSUME NEW a \in Actors, Commit(a) PROVE NInv'
    BY <1>12 DEF Commit, Goto, TypeOK, ActorShape
  <1>13. ASSUME NEW a \in Actors, Send(a) PROVE NInv'
    BY <1>13 DEF Send, Goto, TypeOK, ActorShape
  <1>14. ASSUME NEW a \in Actors, RemoveThread(a) PROVE NInv'
    BY <1>14 DEF RemoveThread, Goto, TypeOK, ActorShape
  <1>15. ASSUME NEW a \in Actors, Abandon(a) PROVE NInv'
    BY <1>15 DEF Abandon, Goto, TypeOK, ActorShape
  <1>16. ASSUME NEW a \in Actors, Release(a) PROVE NInv'
    BY <1>16 DEF Release, Goto, TypeOK, ActorShape
  <1>17. ASSUME NEW a \in Actors, GiveBack(a) PROVE NInv'
    BY <1>17 DEF GiveBack, Goto, TypeOK, ActorShape
  <1>18. ASSUME NEW t \in Agents, StopThread(t) PROVE NInv'
    BY <1>18 DEF StopThread, TypeOK, ActorShape
  <1>19. CASE UNCHANGED vars
    BY <1>19 DEF vars
  <1> QED
    BY <1>1, <1>2, <1>3, <1>4, <1>5, <1>6, <1>7, <1>8, <1>9, <1>10, <1>11,
       <1>12, <1>13, <1>14, <1>15, <1>16, <1>17, <1>18, <1>19
    DEF Next, ToolCall, ActorStep

(* Until a reset, the agents of a session have different nicknames for      *)
(* life, whatever threads of other sessions are resumed among them.         *)
THEOREM NicknamesDistinct == Spec => []NamesDistinct
  <1>1. Init => NInv
    BY DEF Init, NInv, NameInv, NamesDistinct
  <1>2. IInv /\ NInv /\ [Next]_vars => NInv'
    BY NameStep
  <1>3. NInv => NamesDistinct
    BY DEF NInv
  <1> QED BY <1>1, <1>2, <1>3, GuardsInvariance, PTL DEF Spec
=============================================================================
