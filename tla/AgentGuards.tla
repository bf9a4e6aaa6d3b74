---------------------------- MODULE AgentGuards ----------------------------
(***************************************************************************)
(* The sub-agents of a user session: core/src/agent/guards.rs, the calls   *)
(* of core/src/agent/control.rs that use it, the map of live threads of    *)
(* core/src/thread_manager.rs and the spawn, resume, send and close tools  *)
(* of core/src/tools/handlers/multi_agents.rs.  An actor is a tool call of *)
(* one of the agents; they share one AgentControl.  A step is one access   *)
(* to the atomic counter, to the lock of ActiveAgents or to the map.       *)
(***************************************************************************)
EXTENDS Naturals, FiniteSets

CONSTANTS Actors, Agents, Names, MaxThreads, None

ASSUME GuardsAssumption ==
  /\ IsFiniteSet(Actors) /\ IsFiniteSet(Agents)
  /\ MaxThreads \in Nat
  /\ None \notin Agents \cup Names

VARIABLES total,    \* total_count
          set,      \* threads_set
          used,     \* used_agent_nicknames
          reset,    \* nickname_reset_count > 0
          live,     \* the threads of the manager
          stopped,  \* live threads whose session loop has ended
          known,    \* the threads that have a rollout
          earlier,  \* those of them that other sessions and processes made
          nick,     \* the nickname in the metadata of each thread (state_db)
          pc,       \* where each actor is
          seen,     \* the count it has loaded
          agent,    \* the agent it works on, None for a new one
          name      \* the nickname it has reserved

guardVars == <<total, set, used, reset>>
threadVars == <<live, stopped, known, earlier, nick>>
actorVars == <<pc, seen, agent, name>>
vars == <<guardVars, threadVars, actorVars>>

Goto(a, l) == pc' = [pc EXCEPT ![a] = l]

Init ==
  /\ total = 0 /\ set = {} /\ used = {} /\ reset = FALSE
  /\ live = {} /\ stopped = {}
  /\ known \in SUBSET Agents /\ earlier = known
  /\ nick \in [Agents -> Names \cup {None}]
  /\ \A t \in Agents \ known : nick[t] = None
  /\ pc = [a \in Actors |-> "idle"]
  /\ seen = [a \in Actors |-> 0]
  /\ agent = [a \in Actors |-> None]
  /\ name = [a \in Actors |-> None]

-----------------------------------------------------------------------------
(* The tool calls.                                                          *)

Begin(a, t, l) ==
  /\ agent' = [agent EXCEPT ![a] = t]
  /\ Goto(a, l)
  /\ UNCHANGED <<guardVars, threadVars, seen, name>>

SpawnAgent(a) == pc[a] = "idle" /\ Begin(a, None, "load")

(* resume_agent: a thread the manager does not have is restored from its    *)
(* rollout, whoever made it.                                                *)
ResumeAgent(a, t) ==
  /\ pc[a] = "idle" /\ t \in known \ live
  /\ Begin(a, t, "load")

SendInput(a, t) == pc[a] = "idle" /\ t \in known /\ Begin(a, t, "send")

(* close_agent: a thread that has shut down is left alone, another one is   *)
(* sent Op::Shutdown (it stops when it gets there) and removed.             *)
CloseAgent(a, t) ==
  /\ pc[a] = "idle" /\ t \in live \ stopped
  /\ Begin(a, t, "remove")

-----------------------------------------------------------------------------
(* reserve_spawn_slot, try_increment_spawned.                               *)

Load(a) ==
  /\ pc[a] = "load"
  /\ seen' = [seen EXCEPT ![a] = total]
  /\ Goto(a, "compare")
  /\ UNCHANGED <<guardVars, threadVars, agent, name>>

LimitReached(a) ==
  /\ pc[a] = "compare" /\ seen[a] >= MaxThreads
  /\ Goto(a, "idle")
  /\ UNCHANGED <<guardVars, threadVars, seen, agent, name>>

(* Mutant of Exchange: the count read before is trusted.                    *)
FetchAdd(a) ==
  /\ pc[a] = "compare" /\ seen[a] < MaxThreads
  /\ total' = total + 1
  /\ Goto(a, "name")
  /\ UNCHANGED <<set, used, reset, threadVars, seen, agent, name>>

Exchange(a) ==
  /\ pc[a] = "compare" /\ seen[a] < MaxThreads
  /\ total = seen[a]
  /\ total' = total + 1
  /\ Goto(a, "name")
  /\ UNCHANGED <<set, used, reset, threadVars, seen, agent, name>>

(* The exchange failed, because of another one or spuriously.               *)
Retry(a) ==
  /\ pc[a] = "compare" /\ seen[a] < MaxThreads
  /\ seen' = [seen EXCEPT ![a] = total]
  /\ UNCHANGED <<guardVars, threadVars, pc, agent, name>>

(* What an optional nickname adds to a set of names.                        *)
Named(n) == {n} \ {None}

(* Mutant of ReserveName: names are drawn without looking.                  *)
ReserveAnyName(a) ==
  /\ pc[a] = "name"
  /\ \E n \in IF agent[a] = None THEN Names ELSE {nick[agent[a]], None} :
       name' = [name EXCEPT ![a] = n] /\ used' = used \cup Named(n)
  /\ Goto(a, "create")
  /\ UNCHANGED <<total, set, reset, threadVars, seen, agent>>

(* reserve_agent_nickname: the stored name of a resumed thread as it is,    *)
(* none when the state db does not give it, a name not used yet for a new   *)
(* agent, or any name after a reset.                                        *)
ReserveName(a) ==
  /\ pc[a] = "name"
  /\ LET free == Names \ used IN
     \/ /\ agent[a] # None
        /\ \E n \in {nick[agent[a]], None} :
             name' = [name EXCEPT ![a] = n] /\ used' = used \cup Named(n)
        /\ UNCHANGED reset
     \/ /\ agent[a] = None
        /\ \E n \in IF free # {} THEN free ELSE Names :
             /\ name' = [name EXCEPT ![a] = n]
             /\ used' = IF free # {} THEN used \cup {n} ELSE {n}
        /\ reset' = (reset \/ free = {})
  /\ Goto(a, "create")
  /\ UNCHANGED <<total, set, threadVars, seen, agent>>

(* Codex::spawn and finalize_thread_spawn: the thread is in the map.        *)
CreateThread(a) ==
  /\ pc[a] = "create"
  /\ \E t \in Agents :
       /\ IF agent[a] = None THEN t \notin known ELSE t = agent[a]
       /\ live' = live \cup {t}
       /\ stopped' = stopped \ {t}
       /\ known' = known \cup {t}
       /\ nick' = IF agent[a] = None THEN [nick EXCEPT ![t] = name[a]] ELSE nick
       /\ agent' = [agent EXCEPT ![a] = t]
       /\ Goto(a, IF agent[a] = None THEN "commit" ELSE "recommit")
  /\ UNCHANGED <<guardVars, earlier, seen, name>>

(* The thread cannot be created, or the call is dropped with its turn: the  *)
(* reservation is dropped and gives its slot back.                          *)
DropReservation(a) ==
  /\ pc[a] = "create"
  /\ total' = total - 1
  /\ Goto(a, "idle")
  /\ UNCHANGED <<set, used, reset, threadVars, seen, agent, name>>

(* SpawnReservation::commit, after which a new agent is sent its prompt.    *)
Commit(a) ==
  /\ pc[a] \in {"commit", "recommit"}
  /\ set' = set \cup {agent[a]}
  /\ used' = used \cup Named(name[a])
  /\ Goto(a, IF pc[a] = "commit" THEN "send" ELSE "idle")
  /\ UNCHANGED <<total, reset, threadVars, seen, agent, name>>

-----------------------------------------------------------------------------
(* send_input: a thread whose loop has ended is removed and released.       *)
Send(a) ==
  /\ pc[a] = "send"
  /\ Goto(a, IF agent[a] \in stopped THEN "remove" ELSE "idle")
  /\ UNCHANGED <<guardVars, threadVars, seen, agent, name>>

(* remove_thread, of send_input and shutdown_agent.                         *)
RemoveThread(a) ==
  /\ pc[a] = "remove"
  /\ live' = live \ {agent[a]}
  /\ stopped' = stopped \ {agent[a]}
  /\ Goto(a, "release")
  /\ UNCHANGED <<guardVars, known, earlier, nick, seen, agent, name>>

(* The call is dropped with its turn before it has the map's lock.          *)
Abandon(a) ==
  /\ pc[a] = "remove"
  /\ Goto(a, "idle")
  /\ UNCHANGED <<guardVars, threadVars, seen, agent, name>>

(* Mutant of Release: the slot is given back whatever is registered.        *)
ReleaseAlways(a) ==
  /\ pc[a] = "release"
  /\ set' = set \ {agent[a]}
  /\ Goto(a, "giveBack")
  /\ UNCHANGED <<total, used, reset, threadVars, seen, agent, name>>

(* release_spawned_thread, under the lock.                                  *)
Release(a) ==
  /\ pc[a] = "release"
  /\ set' = set \ {agent[a]}
  /\ Goto(a, IF agent[a] \in set THEN "giveBack" ELSE "idle")
  /\ UNCHANGED <<total, used, reset, threadVars, seen, agent, name>>

GiveBack(a) ==
  /\ pc[a] = "giveBack"
  /\ total' = total - 1
  /\ Goto(a, "idle")
  /\ UNCHANGED <<set, used, reset, threadVars, seen, agent, name>>

(* The session loop of the thread reaches an Op::Shutdown, of close_agent   *)
(* or of a client.                                                          *)
StopThread(t) ==
  /\ t \in live \ stopped
  /\ stopped' = stopped \cup {t}
  /\ UNCHANGED <<guardVars, live, known, earlier, nick, actorVars>>

-----------------------------------------------------------------------------
ToolCall(a) ==
  \/ SpawnAgent(a)
  \/ \E t \in Agents : ResumeAgent(a, t) \/ SendInput(a, t) \/ CloseAgent(a, t)

ActorStep(a) ==
  \/ Load(a) \/ LimitReached(a) \/ Exchange(a) \/ Retry(a) \/ ReserveName(a)
  \/ CreateThread(a) \/ DropReservation(a) \/ Commit(a) \/ Send(a)
  \/ RemoveThread(a) \/ Abandon(a) \/ Release(a) \/ GiveBack(a)

Next ==
  \/ \E a \in Actors : ToolCall(a) \/ ActorStep(a)
  \/ \E t \in Agents : StopThread(t)

Spec == Init /\ [][Next]_vars

-----------------------------------------------------------------------------
Labels == {"idle", "load", "compare", "name", "create", "commit", "recommit",
           "send", "remove", "release", "giveBack"}

(* The values the variables may take.                                       *)
TypeOK ==
  /\ total \in Nat
  /\ set \subseteq Agents /\ live \subseteq Agents /\ stopped \subseteq live
  /\ used \subseteq Names /\ reset \in BOOLEAN
  /\ known \subseteq Agents /\ earlier \subseteq known
  /\ nick \in [Agents -> Names \cup {None}]
  /\ pc \in [Actors -> Labels]
  /\ seen \in [Actors -> Nat]
  /\ agent \in [Actors -> Agents \cup {None}]
  /\ name \in [Actors -> Names \cup {None}]

(* The actors that own a slot no registered thread stands for.              *)
Owing == {a \in Actors : pc[a] \in {"name", "create", "commit", "recommit", "giveBack"}}

(* The counter covers every registered thread and every reservation, so it  *)
(* never underflows and nobody spawns into a slot that is still owned:      *)
(* concurrent resumes and closes of one thread can only lose slots.         *)
CountCovers == Cardinality(set) + Cardinality(Owing) <= total

(* The counter is a pool of MaxThreads slots, for every interleaving of the *)
(* compare-exchange loops with drops and releases.                          *)
Pool == INSTANCE SlotPool WITH Capacity <- MaxThreads, taken <- total
RefinesPool == Pool!PoolSpec

(* Until the names run out no two agents of this session have the same      *)
(* nickname, closed and resumed ones and ones still being created included. *)
(* A thread of another session or process that is resumed here brings the   *)
(* name it has, which nothing compares with the names of this session.      *)
NamesDistinct ==
  LET ours == Agents \ earlier IN
  ~ reset =>
    /\ \A t, u \in ours : t # u /\ nick[t] # None => nick[t] # nick[u]
    /\ \A a \in Actors, t \in ours :
         /\ pc[a] = "create" /\ agent[a] \notin earlier
         /\ name[a] # None /\ name[a] = nick[t]
         => agent[a] = t
=============================================================================
