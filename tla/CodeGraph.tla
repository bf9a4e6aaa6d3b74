----------------------------- MODULE CodeGraph -----------------------------
(***************************************************************************)
(* The repository graph and the keyword index of happy-core: graph/mod.rs, *)
(* graph/queries.rs and vector/bm25.rs.  Sources are abstracted to what    *)
(* the parser extracts from them.  Elements of one file with one name are  *)
(* one node here, and parallel edges one edge: queries go by name.  Only   *)
(* the keyword index, keyed by element id, tells them apart.               *)
(***************************************************************************)
EXTENDS Integers, FiniteSets

CONSTANTS Files, Names,
          FileElement,   \* the name of the element of a file itself
          None,
          Contents       \* the sources a file may have

(* defs: the elements defined; twice: those defined twice, e.g. two impl    *)
(* blocks of one type; calls, bases: <<element, name it refers to>>;        *)
(* imports, names: the modules and the names that are imported.             *)
ASSUME ContentsAssumption ==
  /\ Contents \subseteq [defs : SUBSET Names, twice : SUBSET Names,
                         calls : SUBSET (Names \X Names),
                         bases : SUBSET (Names \X Names),
                         imports : SUBSET Files, names : SUBSET Names]
  /\ \A c \in Contents :
       /\ c.twice \subseteq c.defs
       /\ \A p \in c.calls \cup c.bases : p[1] \in c.defs
  /\ None \notin Contents
  /\ IsFiniteSet(Files) /\ IsFiniteSet(Names)
  /\ FileElement \notin Names

Elements(c) == c.defs \cup {FileElement}
Nodes == Files \X (Names \cup {FileElement})
EdgeKinds == {"Defines", "Imports", "Calls", "Inherits"}
Edges == [kind : EdgeKinds, from : Nodes, to : Nodes]
Edge(kind, from, to) == [kind |-> kind, from |-> from, to |-> to]

(* contents: file_to_nodes, element_arena and file_imports by file;         *)
(* before: the order in which the files' nodes were pushed to the lists of  *)
(* name_to_nodes.                                                           *)
Graphs == [contents : [Files -> Contents \cup {None}],
           before : SUBSET (Files \X Files),
           edges : SUBSET Edges]

EmptyGraph == [contents |-> [f \in Files |-> None], before |-> {}, edges |-> {}]

Indexed(g) == {f \in Files : g.contents[f] # None}
Candidates(g, n) == {f \in Indexed(g) : n \in g.contents[f].defs}

(* The first of some files in a list of name_to_nodes; g.before orders them *)
(* totally, so there is one.                                                *)
IsFirst(g, fs, f) == \A h \in fs : <<h, f>> \notin g.before
FirstOf(g, fs) ==
  CHOOSE f \in fs : (\E h \in fs : IsFirst(g, fs, h)) => IsFirst(g, fs, f)

(* Mutant of ResolveCall: the caller's own file has no priority.            *)
ResolveCallAnywhere(g, n, file) == FirstOf(g, Candidates(g, n))

(* resolve_call_target: the caller's own file, else the first candidate in  *)
(* a module that the file imports, else the first candidate.                *)
ResolveCall(g, n, file) ==
  LET cands    == Candidates(g, n)
      imported == cands \cap g.contents[file].imports
  IN IF file \in cands THEN file
     ELSE FirstOf(g, IF imported # {} THEN imported ELSE cands)

DefinesEdges(g, f) ==
  {Edge("Defines", <<f, FileElement>>, <<f, n>>) : n \in g.contents[f].defs}

ImportEdges(g, f) ==
  {Edge("Imports", <<f, FileElement>>, <<h, FileElement>>) :
     h \in g.contents[f].imports \cap Indexed(g)}
  \cup
  {Edge("Imports", <<f, FileElement>>, <<FirstOf(g, Candidates(g, n)), n>>) :
     n \in {m \in g.contents[f].names : Candidates(g, m) # {}}}

(* Calls to the caller itself make no edge.                                 *)
CallEdges(g, f) ==
  {Edge("Calls", <<f, p[1]>>, <<ResolveCall(g, p[2], f), p[2]>>) :
     p \in {q \in g.contents[f].calls :
              /\ Candidates(g, q[2]) # {}
              /\ <<ResolveCall(g, q[2], f), q[2]>> # <<f, q[1]>>}}

InheritsEdges(g, f) ==
  {Edge("Inherits", <<f, p[1]>>, <<FirstOf(g, Candidates(g, p[2])), p[2]>>) :
     p \in {q \in g.contents[f].bases : Candidates(g, q[2]) # {}}}

OutEdges(g, f) ==
  DefinesEdges(g, f) \cup ImportEdges(g, f) \cup CallEdges(g, f)
    \cup InheritsEdges(g, f)

(* add_node for the elements of one file.                                   *)
AddNodes(g, f, c) ==
  [g EXCEPT !.contents = [@ EXCEPT ![f] = c],
            !.before = @ \cup {<<h, f>> : h \in Indexed(g) \ {f}}]

(* build_from_elements, the nodes being there.                              *)
BuildEdges(g) == [g EXCEPT !.edges = UNION {OutEdges(g, f) : f \in Indexed(g)}]

(* Mutant of RemoveFiles: edges into a file are kept for its new nodes.     *)
RemoveFilesKeepIncoming(g, fs) ==
  [contents |-> [f \in Files |-> IF f \in fs THEN None ELSE g.contents[f]],
   before   |-> {p \in g.before : p[1] \notin fs /\ p[2] \notin fs},
   edges    |-> {e \in g.edges : e.from[1] \notin fs}]

(* remove_file, for each of a set of files.                                 *)
RemoveFiles(g, fs) ==
  [contents |-> [f \in Files |-> IF f \in fs THEN None ELSE g.contents[f]],
   before   |-> {p \in g.before : p[1] \notin fs /\ p[2] \notin fs},
   edges    |-> {e \in g.edges : e.from[1] \notin fs /\ e.to[1] \notin fs}]

(* update_file: the edges of the changed file only.                         *)
UpdateFile(g, f, c) ==
  LET h == AddNodes(RemoveFiles(g, {f}), f, c)
  IN [h EXCEPT !.edges = @ \cup OutEdges(h, f)]

(* Queries: get_source and element_ids_for_file.                            *)
HasSource(g, id) == id[1] \in Indexed(g) /\ id[2] \in Elements(g.contents[id[1]])
ElementIds(g, f) == IF g.contents[f] = None THEN {}
                    ELSE {f} \X Elements(g.contents[f])

-----------------------------------------------------------------------------
(* BM25.  The k-th definition with one id has a text of its own: a posting  *)
(* <<id, k>> stands for the terms found in that text only.                  *)

Postings == Nodes \X (1..2)
Bm25s == [docs : SUBSET Postings, posts : SUBSET Postings, numDocs : Nat]
EmptyBm25 == [docs |-> {}, posts |-> {}, numDocs |-> 0]

LastText(c, n) == IF n \in c.twice THEN 2 ELSE 1
Texts(f, c) ==
  {p \in ({f} \X Elements(c)) \X (1..2) : p[2] <= LastText(c, p[1][2])}

(* Mutant of AddDocuments: num_docs only counts the first build.            *)
AddDocumentsUncounted(b, f, c) ==
  [docs    |-> {d \in b.docs : d[1] \notin {f} \X Elements(c)}
                 \cup {p \in Texts(f, c) : p[2] = LastText(c, p[1][2])},
   posts   |-> b.posts \cup Texts(f, c),
   numDocs |-> b.numDocs]

(* add_document for every element of a file: documents keeps the last text  *)
(* of an id, the inverted index all of them.                                *)
AddDocuments(b, f, c) ==
  [docs    |-> {d \in b.docs : d[1] \notin {f} \X Elements(c)}
                 \cup {p \in Texts(f, c) : p[2] = LastText(c, p[1][2])},
   posts   |-> b.posts \cup Texts(f, c),
   numDocs |-> b.numDocs + Cardinality(Texts(f, c))]

(* Mutant of RemoveDocuments: the count is decremented for every term.      *)
RemoveDocumentsPerTerm(b, ids) ==
  LET gone == {d \in b.docs : d[1] \in ids}
  IN [docs    |-> b.docs \ gone,
      posts   |-> b.posts \ gone,
      numDocs |-> b.numDocs - 2 * Cardinality(gone)]

(* remove_document for a set of ids: the postings of the terms recorded in  *)
(* documents.                                                               *)
RemoveDocuments(b, ids) ==
  LET gone == {d \in b.docs : d[1] \in ids}
      n    == Cardinality(gone)
  IN [docs    |-> b.docs \ gone,
      posts   |-> b.posts \ gone,
      numDocs |-> IF n > b.numDocs THEN 0 ELSE b.numDocs - n]

SearchHits(b) == {p[1] : p \in b.posts}
=============================================================================
