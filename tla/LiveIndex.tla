----------------------------- MODULE LiveIndex -----------------------------
(***************************************************************************)
(* The code graph of a session: core/src/tools/handlers/code_graph.rs.     *)
(* One background task walks the working directory and publishes the       *)
(* handle; another waits for it, then watches the directory and applies    *)
(* batches of changes, while the user and the agent edit files.            *)
(***************************************************************************)
EXTENDS CodeGraph

CONSTANTS InitialFiles,  \* the files there may be when the session starts
          EarlyEdits,    \* may files change before the watcher is started?
          Renames,       \* may files be renamed?
          Failures,      \* may the indexing panic, or the watcher fail to start?
          MaxEdits       \* bound on changes to the files

ASSUME LiveIndexAssumption ==
  /\ InitialFiles \subseteq Files
  /\ {EarlyEdits, Renames, Failures} \subseteq BOOLEAN
  /\ MaxEdits \in Nat

VARIABLES disk,     \* the files
          edits,    \* changes to the files so far
          task,     \* the indexing task
          toRead,   \* files listed by the walk and not read yet
          graph,    \* RepoHandle.graph; before that, the elements collected
          bm25,     \* RepoHandle.bm25
          twins,    \* (history) ids ever indexed for two definitions at once
          ready,    \* is the shared handle Some?
          watch,    \* the watcher task
          events,   \* the watcher's channel
          batch,    \* the events drained from it and not applied yet
          blind     \* (history) files whose last change the watcher has missed

taskVars  == <<task, toRead>>
indexVars == <<graph, bm25, twins>>
watchVars == <<watch, events, batch>>
vars == <<disk, edits, taskVars, indexVars, ready, watchVars, blind>>

NoEvents == [changed |-> {}, removed |-> {}]
EventSets == [changed : SUBSET Files, removed : SUBSET Files]
Watching == watch \in {"sleep", "removing", "changing"}

Init ==
  /\ disk \in [Files -> Contents \cup {None}]
  /\ \A f \in Files \ InitialFiles : disk[f] = None
  /\ edits = 0
  /\ task = "walk"
  /\ toRead = {}
  /\ graph = EmptyGraph
  /\ bm25 = EmptyBm25
  /\ twins = {}
  /\ ready = FALSE
  /\ watch = "poll"
  /\ events = NoEvents
  /\ batch = NoEvents
  /\ blind = {}

-----------------------------------------------------------------------------
(* The user, the agent's tools and other programs change files.  A watched  *)
(* change is sent to the channel; an unwatched one goes unnoticed unless    *)
(* the walk has yet to read the file.                                       *)

MayEdit ==
  /\ edits < MaxEdits
  /\ EarlyEdits \/ Watching
  /\ edits' = edits + 1
  /\ UNCHANGED <<taskVars, indexVars, ready, watch, batch>>

Unseen(fs) == IF task = "walk" THEN {} ELSE fs \ toRead

WriteFile(f, c) ==
  /\ MayEdit
  /\ disk' = [disk EXCEPT ![f] = c]
  /\ IF Watching
     THEN /\ events' = [events EXCEPT !.changed = @ \cup {f}]
          /\ blind' = blind \ {f}
     ELSE blind' = blind \cup Unseen({f}) /\ UNCHANGED events

DeleteFile(f) ==
  /\ MayEdit
  /\ disk[f] # None
  /\ disk' = [disk EXCEPT ![f] = None]
  /\ IF Watching
     THEN /\ events' = [events EXCEPT !.removed = @ \cup {f}]
          /\ blind' = blind \ {f}
     ELSE blind' = blind \cup Unseen({f}) /\ UNCHANGED events

(* Both ends of a rename are Modify(Name) events, hence Modified.  The old  *)
(* name no longer has anything to read.                                     *)
RenameFile(f, h) ==
  /\ Renames
  /\ MayEdit
  /\ f # h /\ disk[f] # None
  /\ disk' = [disk EXCEPT ![f] = None, ![h] = disk[f]]
  /\ IF Watching
     THEN /\ events' = [events EXCEPT !.changed = @ \cup {f, h}]
          /\ blind' = (blind \ {h}) \cup {f}
     ELSE blind' = blind \cup Unseen({f, h}) /\ UNCHANGED events

-----------------------------------------------------------------------------
(* The indexing task.                                                       *)

(* walk_and_index lists the files first ...                                 *)
WalkLists ==
  /\ task = "walk"
  /\ toRead' = {f \in Files : disk[f] # None}
  /\ task' = "read"
  /\ UNCHANGED <<disk, edits, indexVars, ready, watchVars, blind>>

(* ... then reads them in parallel; one that is gone by then is skipped.    *)
WalkReads(f) ==
  /\ task = "read"
  /\ f \in toRead
  /\ toRead' = toRead \ {f}
  /\ graph' = IF disk[f] = None THEN graph ELSE AddNodes(graph, f, disk[f])
  /\ UNCHANGED <<disk, edits, task, bm25, twins, ready, watchVars, blind>>

(* The ids that two definitions of a source share.                          *)
SharedIds(f, c) == {f} \X c.twice

(* Everything is read: build both indexes, unless there is nothing at all.  *)
Bm25Of(g) ==
  LET texts == UNION {Texts(f, g.contents[f]) : f \in Indexed(g)}
  IN [docs    |-> {p \in texts : p[2] = LastText(g.contents[p[1][1]], p[1][2])},
      posts   |-> texts,
      numDocs |-> Cardinality(texts)]

BuildIndex ==
  /\ task = "read" /\ toRead = {}
  /\ IF Indexed(graph) = {}
     THEN task' = "empty" /\ UNCHANGED indexVars
     ELSE /\ graph' = BuildEdges(graph)
          /\ bm25' = Bm25Of(graph)
          /\ twins' = UNION {SharedIds(f, graph.contents[f]) : f \in Indexed(graph)}
          /\ task' = "built"
  /\ UNCHANGED <<disk, edits, toRead, ready, watchVars, blind>>

(* A panic of the blocking task is logged and no more.                      *)
IndexPanics ==
  /\ Failures
  /\ task = "read"
  /\ task' = "empty"
  /\ UNCHANGED <<disk, edits, toRead, indexVars, ready, watchVars, blind>>

Publish ==
  /\ task = "built"
  /\ ready' = TRUE
  /\ task' = "done"
  /\ UNCHANGED <<disk, edits, toRead, indexVars, watchVars, blind>>

-----------------------------------------------------------------------------
(* The watcher task polls for the handle, and only then starts to watch.    *)

StartWatcher ==
  /\ watch = "poll" /\ ready
  /\ watch' = "sleep"
  /\ UNCHANGED <<disk, edits, taskVars, indexVars, ready, events, batch, blind>>

StartWatcherFails ==
  /\ Failures
  /\ watch = "poll" /\ ready
  /\ watch' = "failed"
  /\ UNCHANGED <<disk, edits, taskVars, indexVars, ready, events, batch, blind>>

(* Mutant of Drain: a removal in the batch outweighs any other event.       *)
DrainRemovedWins ==
  /\ watch = "sleep"
  /\ events # NoEvents
  /\ batch' = [events EXCEPT !.changed = @ \ events.removed]
  /\ events' = NoEvents
  /\ watch' = "removing"
  /\ UNCHANGED <<disk, edits, taskVars, indexVars, ready, blind>>

(* After the debounce, drain the channel into a set and a list.             *)
Drain ==
  /\ watch = "sleep"
  /\ events # NoEvents
  /\ batch' = events
  /\ events' = NoEvents
  /\ watch' = "removing"
  /\ UNCHANGED <<disk, edits, taskVars, indexVars, ready, blind>>

(* Mutant of ApplyRemoved: the keyword index is forgotten.                  *)
ApplyRemovedGraphOnly ==
  /\ watch = "removing"
  /\ graph' = RemoveFiles(graph, batch.removed)
  /\ batch' = [batch EXCEPT !.removed = {}]
  /\ watch' = IF batch.changed = {} THEN "sleep" ELSE "changing"
  /\ UNCHANGED <<disk, edits, taskVars, bm25, twins, ready, events, blind>>

(* Mutant of ApplyRemoved: the task returns when nothing else has changed.  *)
ApplyRemovedReturns ==
  /\ watch = "removing"
  /\ bm25' = RemoveDocuments(bm25, UNION {ElementIds(graph, f) : f \in batch.removed})
  /\ graph' = RemoveFiles(graph, batch.removed)
  /\ batch' = [batch EXCEPT !.removed = {}]
  /\ watch' = IF batch.changed = {} THEN "failed" ELSE "changing"
  /\ UNCHANGED <<disk, edits, taskVars, twins, ready, events, blind>>

(* Under the write lock: the removed files first ...                        *)
ApplyRemoved ==
  /\ watch = "removing"
  /\ bm25' = RemoveDocuments(bm25, UNION {ElementIds(graph, f) : f \in batch.removed})
  /\ graph' = RemoveFiles(graph, batch.removed)
  /\ batch' = [batch EXCEPT !.removed = {}]
  /\ watch' = IF batch.changed = {} THEN "sleep" ELSE "changing"
  /\ UNCHANGED <<disk, edits, taskVars, twins, ready, events, blind>>

(* Mutant of ApplyChanged: the old documents are removed last.              *)
ApplyChangedLateRemoval(f) ==
  /\ watch = "changing"
  /\ f \in batch.changed
  /\ batch' = [batch EXCEPT !.changed = @ \ {f}]
  /\ watch' = IF batch.changed = {f} THEN "sleep" ELSE "changing"
  /\ IF disk[f] = None
     THEN UNCHANGED indexVars
     ELSE /\ bm25' = RemoveDocuments(AddDocuments(bm25, f, disk[f]),
                                     ElementIds(graph, f))
          /\ graph' = UpdateFile(graph, f, disk[f])
          /\ twins' = twins \cup SharedIds(f, disk[f])
  /\ UNCHANGED <<disk, edits, taskVars, ready, events, blind>>

(* ... then each changed one, in any order, as it is on disk by now; what   *)
(* cannot be read is left as it was indexed.                                *)
ApplyChanged(f) ==
  /\ watch = "changing"
  /\ f \in batch.changed
  /\ batch' = [batch EXCEPT !.changed = @ \ {f}]
  /\ watch' = IF batch.changed = {f} THEN "sleep" ELSE "changing"
  /\ IF disk[f] = None
     THEN UNCHANGED indexVars
     ELSE /\ bm25' = AddDocuments(RemoveDocuments(bm25, ElementIds(graph, f)),
                                  f, disk[f])
          /\ graph' = UpdateFile(graph, f, disk[f])
          /\ twins' = twins \cup SharedIds(f, disk[f])
  /\ UNCHANGED <<disk, edits, taskVars, ready, events, blind>>

-----------------------------------------------------------------------------
Edit == \E f \in Files : \/ \E c \in Contents : WriteFile(f, c)
                         \/ DeleteFile(f)
                         \/ \E h \in Files : RenameFile(f, h)
IndexTask == WalkLists \/ (\E f \in Files : WalkReads(f)) \/ BuildIndex
               \/ IndexPanics \/ Publish
WatchTask == StartWatcher \/ StartWatcherFails \/ Drain \/ ApplyRemoved
               \/ \E f \in Files : ApplyChanged(f)
Next == Edit \/ IndexTask \/ WatchTask
Spec == Init /\ [][Next]_vars

(* Both tasks are spawned on the runtime and never wait for an edit.        *)
FairSpec == Spec /\ WF_vars(IndexTask) /\ WF_vars(WatchTask)

-----------------------------------------------------------------------------
(* Types of every variable.                                                 *)
TypeOK ==
  /\ disk \in [Files -> Contents \cup {None}]
  /\ edits \in Nat
  /\ task \in {"walk", "read", "empty", "built", "done"}
  /\ toRead \subseteq Files
  /\ graph \in Graphs
  /\ bm25 \in Bm25s
  /\ twins \subseteq Nodes
  /\ ready \in BOOLEAN
  /\ watch \in {"poll", "failed", "sleep", "removing", "changing"}
  /\ events \in EventSets
  /\ batch \in EventSets
  /\ blind \subseteq Files

Pending(f) ==
  IF disk[f] = None THEN f \in events.removed \cup batch.removed
                    ELSE f \in events.changed \cup batch.changed

(* A published index disagrees with the disk about a file only while an     *)
(* event that will correct it is under way, or if the watcher could not see *)
(* the file's last change or saw it as the source of a rename: no order of  *)
(* edits, drains and reads loses a change (start_file_watcher).             *)
OnlyBlindFilesStale ==
  ready => \A f \in Files \ blind : graph.contents[f] = disk[f] \/ Pending(f)

(* Whatever find_callers reports does call that name, in the sources as     *)
(* indexed, and the callee is defined where the edge ends (update_file      *)
(* replaces nodes under edges of other files).                              *)
CallEdgesSound ==
  \A e \in graph.edges :
    /\ HasSource(graph, e.from) /\ HasSource(graph, e.to)
    /\ e.kind = "Calls" =>
         <<e.from[2], e.to[2]>> \in graph.contents[e.from[1]].calls

(* A call to a name that the caller's own file defines has its edge, to     *)
(* that definition and to no other (resolve_call_target's first priority),  *)
(* however files are re-indexed later.                                      *)
LocalCallsExact ==
  ready => \A f \in Indexed(graph) : \A p \in graph.contents[f].calls :
    p[1] # p[2] /\ p[2] \in graph.contents[f].defs =>
      {e.to : e \in {d \in graph.edges : /\ d.kind = "Calls" /\ d.from = <<f, p[1]>>
                                         /\ d.to[2] = p[2]}} = {<<f, p[2]>>}

(* Every hit of search_code is an element that get_code_source knows, but   *)
(* for the ids that two definitions of one file have shared (two impl       *)
(* blocks of a type): removing such a document leaves postings behind.      *)
SearchHitsHaveSource ==
  SearchHits(bm25) \ twins \subseteq UNION {ElementIds(graph, f) : f \in Files}

(* Every indexed element can be found: no removal takes the postings of an  *)
(* element that stays or that was added after it (start_file_watcher).      *)
SearchIsComplete ==
  ready => UNION {ElementIds(graph, f) : f \in Files} \subseteq SearchHits(bm25)

(* The keyword index scores with the right number of documents, however     *)
(* often their files are re-indexed (num_docs of add and remove_document);  *)
(* only definitions that share an id make it count too many.                *)
CountIsRight ==
  ready => /\ bm25.numDocs >= Cardinality(bm25.docs)
           /\ twins = {} => bm25.numDocs = Cardinality(bm25.docs)

(* Once watched, a file's change reaches the index.                         *)
ChangesAreIndexed ==
  \A f \in Files : Pending(f) ~> (graph.contents[f] = disk[f] \/ f \in blind)
=============================================================================
