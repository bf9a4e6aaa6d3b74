-------------------------- MODULE LiveIndexProofs --------------------------
(***************************************************************************)
(* Proofs about LiveIndex, for any files, sources and number of edits.     *)
(* The lemmas on the operators of CodeGraph come first; then the type      *)
(* invariant, the freshness of the index and the soundness of its edges.   *)
(***************************************************************************)
EXTENDS LiveIndex, FiniteSetTheorems, TLAPS

-----------------------------------------------------------------------------
(* The operators of CodeGraph.                                              *)

(* A file chosen as the first of some files is one of them.                 *)
LEMMA FirstOfIn ==
  ASSUME NEW g, NEW fs, fs # {}
  PROVE  FirstOf(g, fs) \in fs
<1> DEFINE P(f) == (\E h \in fs : IsFirst(g, fs, h)) => IsFirst(g, fs, f)
<1>1. \E f \in fs : P(f)
  <2>1. CASE \E h \in fs : IsFirst(g, fs, h)
    BY <2>1
  <2>2. CASE ~ \E h \in fs : IsFirst(g, fs, h)
    BY <2>2
  <2> QED
    BY <2>1, <2>2
<1>2. (CHOOSE f \in fs : P(f)) \in fs
  <2> HIDE DEF P
  <2> QED
    BY <1>1
<1> QED
  BY <1>2 DEF FirstOf

(* A call is resolved to a file that defines the callee, and to the         *)
(* caller's own if it does (resolve_call_target).                           *)
LEMMA ResolveCallIn ==
  ASSUME NEW g, NEW n, NEW f, Candidates(g, n) # {}
  PROVE  /\ ResolveCall(g, n, f) \in Candidates(g, n)
         /\ f \in Candidates(g, n) => ResolveCall(g, n, f) = f
<1> DEFINE cands == Candidates(g, n)
           imported == cands \cap g.contents[f].imports
           fs == IF imported # {} THEN imported ELSE cands
<1>1. fs # {} /\ fs \subseteq cands
  OBVIOUS
<1>2. FirstOf(g, fs) \in fs
  BY <1>1, FirstOfIn
<1>3. ResolveCall(g, n, f) = IF f \in cands THEN f ELSE FirstOf(g, fs)
  BY DEF ResolveCall
<1> QED
  BY <1>1, <1>2, <1>3

(* What a source may hold.                                                  *)
LEMMA ContentFacts ==
  ASSUME NEW c \in Contents
  PROVE  /\ c.defs \in SUBSET Names /\ c.twice \subseteq c.defs
         /\ c.calls \in SUBSET (Names \X Names)
         /\ c.bases \in SUBSET (Names \X Names)
         /\ c.imports \in SUBSET Files /\ c.names \in SUBSET Names
         /\ \A p \in c.calls \cup c.bases : p[1] \in c.defs
         /\ c # None
  BY ContentsAssumption

(* The ids that a source defines twice are ids of its elements, and there   *)
(* are none only when it defines nothing twice.                             *)
LEMMA SharedIdsFacts ==
  ASSUME NEW f \in Files, NEW c \in Contents
  PROVE  /\ SharedIds(f, c) \subseteq Nodes
         /\ SharedIds(f, c) = {} => c.twice = {}
<1>1. c.twice \subseteq Names
  BY ContentFacts
<1>2. \A n \in c.twice : <<f, n>> \in SharedIds(f, c)
  BY DEF SharedIds
<1> QED
  BY <1>1, <1>2 DEF SharedIds, Nodes

(* Every edge joins two elements of indexed files, and a call edge stands   *)
(* for a call in the source of its origin.                                  *)
EdgeOK(g, e) ==
  /\ e \in Edges
  /\ HasSource(g, e.from) /\ HasSource(g, e.to)
  /\ e.kind = "Calls" => <<e.from[2], e.to[2]>> \in g.contents[e.from[1]].calls

(* The edges that are built for a file are sound (build_import_edges,       *)
(* build_call_edges, build_inheritance_edges and the defines edges).        *)
LEMMA OutEdgesSound ==
  ASSUME NEW g \in Graphs, NEW f \in Indexed(g), NEW e \in OutEdges(g, f)
  PROVE  EdgeOK(g, e) /\ e.from[1] = f
<1> DEFINE c == g.contents[f]
<1>1. c \in Contents /\ f \in Files
  BY DEF Indexed, Graphs
<1>2. /\ c.defs \in SUBSET Names
      /\ c.calls \in SUBSET (Names \X Names)
      /\ c.bases \in SUBSET (Names \X Names)
      /\ c.imports \in SUBSET Files /\ c.names \in SUBSET Names
      /\ \A p \in c.calls \cup c.bases : p[1] \in c.defs
  BY <1>1, ContentFacts
<1> HIDE DEF c
<1>3. \A h \in Indexed(g) : h \in Files /\ HasSource(g, <<h, FileElement>>)
  BY DEF HasSource, Elements, Indexed
<1>4. \A n : \A h \in Candidates(g, n) :
        h \in Files /\ HasSource(g, <<h, n>>)
  BY DEF HasSource, Elements, Candidates, Indexed
<1>5. \A n \in c.defs : HasSource(g, <<f, n>>)
  BY DEF HasSource, Elements, c
<1>6. \A n \in Names \cup {FileElement}, h \in Files : <<h, n>> \in Nodes
  BY DEF Nodes
<1>7. CASE e \in DefinesEdges(g, f)
  <2>1. PICK n \in c.defs : e = Edge("Defines", <<f, FileElement>>, <<f, n>>)
    BY <1>7 DEF DefinesEdges, c
  <2> QED
    BY <2>1, <1>1, <1>2, <1>3, <1>5, <1>6 DEF EdgeOK, Edge, Edges, EdgeKinds
<1>8. CASE e \in ImportEdges(g, f)
  <2>1. CASE \E h \in c.imports \cap Indexed(g) :
               e = Edge("Imports", <<f, FileElement>>, <<h, FileElement>>)
    BY <2>1, <1>1, <1>2, <1>3, <1>6 DEF EdgeOK, Edge, Edges, EdgeKinds
  <2>2. CASE \E n \in c.names : Candidates(g, n) # {} /\
               e = Edge("Imports", <<f, FileElement>>,
                        <<FirstOf(g, Candidates(g, n)), n>>)
    <3>1. PICK n \in c.names : Candidates(g, n) # {} /\
               e = Edge("Imports", <<f, FileElement>>,
                        <<FirstOf(g, Candidates(g, n)), n>>)
      BY <2>2
    <3>2. FirstOf(g, Candidates(g, n)) \in Candidates(g, n)
      BY <3>1, FirstOfIn
    <3> QED
      BY <3>1, <3>2, <1>1, <1>2, <1>3, <1>4, <1>6 DEF EdgeOK, Edge, Edges, EdgeKinds
  <2> QED
    BY <1>8, <2>1, <2>2 DEF ImportEdges, c
<1>9. CASE e \in CallEdges(g, f)
  <2>1. PICK p \in c.calls : Candidates(g, p[2]) # {} /\
          e = Edge("Calls", <<f, p[1]>>, <<ResolveCall(g, p[2], f), p[2]>>)
    BY <1>9 DEF CallEdges, c
  <2>2. ResolveCall(g, p[2], f) \in Candidates(g, p[2])
    BY <2>1, ResolveCallIn
  <2>3. p = <<p[1], p[2]>> /\ p[1] \in c.defs /\ p[1] \in Names /\ p[2] \in Names
    BY <1>2
  <2>4. e.kind = "Calls" /\ e.from = <<f, p[1]>> /\ e.to[2] = p[2] /\ e.from[1] = f
    BY <2>1 DEF Edge
  <2>5. HasSource(g, e.from) /\ HasSource(g, e.to) /\ e \in Edges
    BY <2>1, <2>2, <2>3, <1>1, <1>4, <1>5, <1>6 DEF Edge, Edges, EdgeKinds
  <2>6. <<e.from[2], e.to[2]>> \in g.contents[e.from[1]].calls
    BY <2>3, <2>4 DEF c
  <2> QED
    BY <2>4, <2>5, <2>6 DEF EdgeOK
<1>10. CASE e \in InheritsEdges(g, f)
  <2>1. PICK p \in c.bases : Candidates(g, p[2]) # {} /\
          e = Edge("Inherits", <<f, p[1]>>, <<FirstOf(g, Candidates(g, p[2])), p[2]>>)
    BY <1>10 DEF InheritsEdges, c
  <2>2. FirstOf(g, Candidates(g, p[2])) \in Candidates(g, p[2])
    BY <2>1, FirstOfIn
  <2>3. p[1] \in c.defs /\ p[1] \in Names /\ p[2] \in Names
    BY <1>2
  <2> QED
    BY <2>1, <2>2, <2>3, <1>1, <1>4, <1>5, <1>6 DEF EdgeOK, Edge, Edges, EdgeKinds
<1> QED
  BY <1>7, <1>8, <1>9, <1>10 DEF OutEdges

GraphSound(g) == \A e \in g.edges : EdgeOK(g, e)

(* The call targets recorded for a call, and the files whose local calls    *)
(* all have exactly their edge.                                             *)
CallTargets(g, f, p) ==
  {e.to : e \in {d \in g.edges : /\ d.kind = "Calls" /\ d.from = <<f, p[1]>>
                                 /\ d.to[2] = p[2]}}
LocalExact(g, f) ==
  \A p \in g.contents[f].calls :
    p[1] # p[2] /\ p[2] \in g.contents[f].defs =>
      CallTargets(g, f, p) = {<<f, p[2]>>}

(* Of the edges built for a file, those of a local call are the one to the  *)
(* definition in the file.                                                  *)
LEMMA OutEdgesLocal ==
  ASSUME NEW g \in Graphs, NEW f \in Indexed(g), NEW p \in g.contents[f].calls,
         p[1] # p[2], p[2] \in g.contents[f].defs
  PROVE  /\ Edge("Calls", <<f, p[1]>>, <<f, p[2]>>) \in OutEdges(g, f)
         /\ \A e \in OutEdges(g, f) :
              e.kind = "Calls" /\ e.to[2] = p[2] => e.to = <<f, p[2]>>
<1>1. f \in Candidates(g, p[2])
  BY DEF Candidates
<1>2. ResolveCall(g, p[2], f) = f
  BY <1>1, ResolveCallIn
<1>3. Edge("Calls", <<f, p[1]>>, <<f, p[2]>>) \in CallEdges(g, f)
  <2>1. <<ResolveCall(g, p[2], f), p[2]>> # <<f, p[1]>>
    BY <1>2
  <2>2. p \in {q \in g.contents[f].calls :
              /\ Candidates(g, q[2]) # {}
              /\ <<ResolveCall(g, q[2], f), q[2]>> # <<f, q[1]>>}
    BY <1>1, <2>1
  <2> QED
    BY <1>2, <2>2 DEF CallEdges
<1>4. ASSUME NEW e \in OutEdges(g, f), e.kind = "Calls", e.to[2] = p[2]
      PROVE  e.to = <<f, p[2]>>
  <2>1. e \in CallEdges(g, f)
    BY <1>4 DEF OutEdges, DefinesEdges, ImportEdges, InheritsEdges, Edge
  <2>2. PICK q \in g.contents[f].calls :
          e = Edge("Calls", <<f, q[1]>>, <<ResolveCall(g, q[2], f), q[2]>>)
    BY <2>1 DEF CallEdges
  <2>3. e.to = <<ResolveCall(g, q[2], f), q[2]>> /\ q[2] = p[2]
    BY <1>4, <2>2 DEF Edge
  <2> QED
    BY <1>2, <2>3
<1> QED
  BY <1>3, <1>4 DEF OutEdges

(* The graph being built: nodes, then all edges (build_from_elements).      *)
LEMMA AddNodesType ==
  ASSUME NEW g \in Graphs, NEW f \in Files, NEW c \in Contents
  PROVE  /\ AddNodes(g, f, c) \in Graphs
         /\ AddNodes(g, f, c).contents = [g.contents EXCEPT ![f] = c]
         /\ AddNodes(g, f, c).edges = g.edges
<1> DEFINE files == [g.contents EXCEPT ![f] = c]
           order == g.before \cup {<<h, f>> : h \in Indexed(g) \ {f}}
<1>1. AddNodes(g, f, c) = [g EXCEPT !.contents = files, !.before = order]
  BY DEF AddNodes
<1>2. files \in [Files -> Contents \cup {None}]
  BY DEF Graphs
<1>3. order \in SUBSET (Files \X Files)
  BY DEF Graphs, Indexed
<1> HIDE DEF files, order
<1>4. /\ AddNodes(g, f, c) \in Graphs
      /\ AddNodes(g, f, c).contents = files
      /\ AddNodes(g, f, c).edges = g.edges
  BY <1>1, <1>2, <1>3 DEF Graphs
<1> QED
  BY <1>4 DEF files

(* build_edges draws every edge from the content its source file has in the *)
(* graph, and every call to a name of the same file stays in that file.     *)
LEMMA BuildEdgesSound ==
  ASSUME NEW g \in Graphs
  PROVE  /\ BuildEdges(g) \in Graphs
         /\ BuildEdges(g).contents = g.contents
         /\ GraphSound(BuildEdges(g))
         /\ \A f \in Indexed(g) : LocalExact(BuildEdges(g), f)
<1> DEFINE b == BuildEdges(g)
<1>1. /\ b.edges = UNION {OutEdges(g, f) : f \in Indexed(g)}
      /\ b.contents = g.contents /\ b.before = g.before
  BY DEF BuildEdges, Graphs
<1>2. \A e \in b.edges : \E f \in Indexed(g) : e \in OutEdges(g, f)
  BY <1>1
<1>3. \A e \in b.edges : EdgeOK(g, e)
  BY <1>2, OutEdgesSound
<1>4. b.edges \subseteq Edges
  BY <1>3 DEF EdgeOK
<1>5. b \in Graphs
  BY <1>1, <1>4 DEF BuildEdges, Graphs
<1>6. GraphSound(b)
  BY <1>1, <1>3 DEF GraphSound, EdgeOK, HasSource, Indexed
<1>7. ASSUME NEW f \in Indexed(g), NEW p \in g.contents[f].calls,
             p[1] # p[2], p[2] \in g.contents[f].defs
      PROVE  CallTargets(b, f, p) = {<<f, p[2]>>}
  <2>1. Edge("Calls", <<f, p[1]>>, <<f, p[2]>>) \in b.edges
    BY <1>1, <1>7, OutEdgesLocal
  <2>2. ASSUME NEW e \in b.edges, e.kind = "Calls", e.from = <<f, p[1]>>,
               e.to[2] = p[2]
        PROVE  e.to = <<f, p[2]>>
    <3>1. PICK h \in Indexed(g) : e \in OutEdges(g, h)
      BY <1>2
    <3>2. h = f
      BY <2>2, <3>1, OutEdgesSound
    <3> QED
      BY <1>7, <2>2, <3>1, <3>2, OutEdgesLocal
  <2> HIDE DEF b
  <2>3. <<f, p[2]>> \in CallTargets(b, f, p)
    BY <2>1 DEF CallTargets, Edge
  <2> QED
    BY <2>2, <2>3 DEF CallTargets
<1> QED
  BY <1>1, <1>5, <1>6, <1>7 DEF LocalExact

(* Removing files leaves the edges between the others.                      *)
LEMMA RemoveFilesSound ==
  ASSUME NEW g \in Graphs, NEW fs \in SUBSET Files
  PROVE  LET h == RemoveFiles(g, fs) IN
         /\ h \in Graphs
         /\ h.contents = [f \in Files |-> IF f \in fs THEN None ELSE g.contents[f]]
         /\ \A e : e \in h.edges <=> e \in g.edges /\ e.from[1] \notin fs
                                                   /\ e.to[1] \notin fs
         /\ GraphSound(g) => GraphSound(h)
<1> DEFINE h == RemoveFiles(g, fs)
<1>1. h \in Graphs
  BY DEF RemoveFiles, Graphs
<1>2. h.contents = [f \in Files |-> IF f \in fs THEN None ELSE g.contents[f]]
  BY DEF RemoveFiles
<1>3. \A e : e \in h.edges <=> e \in g.edges /\ e.from[1] \notin fs
                                            /\ e.to[1] \notin fs
  BY DEF RemoveFiles
<1>4. ASSUME GraphSound(g), NEW e \in h.edges
      PROVE  EdgeOK(h, e)
  <2> HIDE DEF h
  <2>1. EdgeOK(g, e) /\ e.from[1] \notin fs /\ e.to[1] \notin fs
    BY <1>3, <1>4 DEF GraphSound
  <2>2. \A f \in Files \ fs : h.contents[f] = g.contents[f]
    BY <1>2
  <2> QED
    BY <2>1, <2>2 DEF EdgeOK, HasSource, Indexed
<1> QED
  BY <1>1, <1>2, <1>3, <1>4 DEF GraphSound

(* Re-indexing a file replaces its nodes and its edges and drops the edges  *)
(* into it (update_file); what is left is sound.                            *)
LEMMA UpdateFileSound ==
  ASSUME NEW g \in Graphs, GraphSound(g), NEW f \in Files, NEW c \in Contents
  PROVE  LET u == UpdateFile(g, f, c) IN
         /\ u \in Graphs
         /\ u.contents = [g.contents EXCEPT ![f] = c]
         /\ GraphSound(u)
         /\ LocalExact(u, f)
         /\ \A e : e.from[1] # f => (e \in u.edges <=> e \in g.edges /\ e.to[1] # f)
<1> DEFINE r == RemoveFiles(g, {f})
           h == AddNodes(r, f, c)
           u == UpdateFile(g, f, c)
<1>1. /\ r \in Graphs /\ GraphSound(r)
      /\ r.contents = [x \in Files |-> IF x \in {f} THEN None ELSE g.contents[x]]
      /\ \A e : e \in r.edges <=> e \in g.edges /\ e.from[1] \notin {f}
                                              /\ e.to[1] \notin {f}
  BY RemoveFilesSound
<1> HIDE DEF r
<1>2. /\ h \in Graphs /\ h.contents = [r.contents EXCEPT ![f] = c]
      /\ h.edges = r.edges
  BY <1>1, AddNodesType
<1>3. u = [h EXCEPT !.edges = @ \cup OutEdges(h, f)]
  BY DEF UpdateFile, r
<1> HIDE DEF h, u
<1>4. /\ u.contents = h.contents /\ u.before = h.before
      /\ u.edges = h.edges \cup OutEdges(h, f)
  BY <1>2, <1>3 DEF Graphs
<1>5. f \in Indexed(h) /\ h.contents[f] = c
  BY <1>1, <1>2, ContentFacts DEF Indexed
<1>6. \A e \in OutEdges(h, f) : EdgeOK(h, e) /\ e.from[1] = f
  BY <1>2, <1>5, OutEdgesSound
<1>7. \A e \in r.edges : EdgeOK(h, e)
  <2>1. \A x \in Files \ {f} : h.contents[x] = r.contents[x]
    BY <1>1, <1>2
  <2>2. \A e \in r.edges : EdgeOK(r, e) /\ e.from[1] # f /\ e.to[1] # f
    BY <1>1 DEF GraphSound
  <2> QED
    BY <2>1, <2>2 DEF EdgeOK, HasSource, Indexed
<1>8. \A e \in u.edges : EdgeOK(h, e)
  BY <1>2, <1>4, <1>6, <1>7
<1>9. u.edges \subseteq Edges
  BY <1>8 DEF EdgeOK
<1>10. u \in Graphs
  BY <1>2, <1>3, <1>4, <1>9 DEF Graphs
<1>11. GraphSound(u)
  BY <1>4, <1>8 DEF GraphSound, EdgeOK, HasSource, Indexed
<1>12. u.contents = [g.contents EXCEPT ![f] = c]
  BY <1>1, <1>2, <1>4 DEF Graphs
<1>13. \A e : e.from[1] # f => (e \in u.edges <=> e \in g.edges /\ e.to[1] # f)
  BY <1>1, <1>2, <1>4, <1>6
<1>14. ASSUME NEW p \in u.contents[f].calls, p[1] # p[2], p[2] \in u.contents[f].defs
       PROVE  CallTargets(u, f, p) = {<<f, p[2]>>}
  <2>1. p \in h.contents[f].calls /\ p[2] \in h.contents[f].defs
    BY <1>4, <1>14
  <2>a. /\ Edge("Calls", <<f, p[1]>>, <<f, p[2]>>) \in OutEdges(h, f)
        /\ \A d \in OutEdges(h, f) :
             d.kind = "Calls" /\ d.to[2] = p[2] => d.to = <<f, p[2]>>
    <3>1. h \in Graphs /\ f \in Indexed(h) /\ p[1] # p[2]
      BY <1>2, <1>5, <1>14
    <3> QED BY <2>1, <3>1, OutEdgesLocal, Zenon
  <2>2. Edge("Calls", <<f, p[1]>>, <<f, p[2]>>) \in u.edges
    BY <1>4, <2>a
  <2>3. ASSUME NEW e \in u.edges, e.kind = "Calls", e.from = <<f, p[1]>>,
               e.to[2] = p[2]
        PROVE  e.to = <<f, p[2]>>
    <3>1. e \in OutEdges(h, f)
      BY <1>1, <1>2, <1>4, <2>3
    <3> QED
      BY <2>3, <2>a, <3>1
  <2>4. <<f, p[2]>> \in CallTargets(u, f, p)
    BY <2>2 DEF CallTargets, Edge
  <2> QED
    BY <2>3, <2>4 DEF CallTargets
<1> QED
  BY <1>10, <1>11, <1>12, <1>13, <1>14 DEF LocalExact, u

-----------------------------------------------------------------------------
(* The keyword index.                                                       *)

(* The documents of finitely many files are finitely many.                  *)
LEMMA PostingsFinite ==
  ASSUME NEW S \in SUBSET Postings
  PROVE  IsFiniteSet(S) /\ Cardinality(S) \in Nat
<1>1. IsFiniteSet(Names \cup {FileElement})
  BY ContentsAssumption, FS_AddElement
<1>2. IsFiniteSet(Nodes)
  BY <1>1, ContentsAssumption, FS_Product DEF Nodes
<1>3. IsFiniteSet(1..2)
  <2>1. 1..2 = {1} \cup {2}
    OBVIOUS
  <2>2. IsFiniteSet({1})
    BY FS_Singleton
  <2>3. IsFiniteSet({1} \cup {2})
    BY <2>2, FS_AddElement
  <2> QED
    BY <2>1, <2>3
<1>4. IsFiniteSet(Postings)
  BY <1>2, <1>3, FS_Product DEF Postings
<1>5. IsFiniteSet(S)
  BY <1>4, FS_Subset
<1> QED
  BY <1>5, FS_CardinalityType

(* The texts of a file are postings.                                        *)
LEMMA TextsType ==
  ASSUME NEW f \in Files, NEW c \in Contents
  PROVE  Texts(f, c) \in SUBSET Postings
<1>1. Elements(c) \subseteq Names \cup {FileElement}
  BY ContentFacts DEF Elements
<1> QED
  BY <1>1 DEF Texts, Postings, Nodes

(* add_document keeps the keyword index well typed.                         *)
LEMMA AddDocumentsType ==
  ASSUME NEW b \in Bm25s, NEW f \in Files, NEW c \in Contents
  PROVE  AddDocuments(b, f, c) \in Bm25s
<1>1. Texts(f, c) \in SUBSET Postings /\ Cardinality(Texts(f, c)) \in Nat
  BY TextsType, PostingsFinite
<1> QED
  BY <1>1 DEF AddDocuments, Bm25s

(* remove_documents keeps the keyword index well typed: num_docs saturates  *)
(* at zero.                                                                 *)
LEMMA RemoveDocumentsType ==
  ASSUME NEW b \in Bm25s, NEW ids
  PROVE  RemoveDocuments(b, ids) \in Bm25s
<1> DEFINE gone == {d \in b.docs : d[1] \in ids}
           n == Cardinality(gone)
           left == IF n > b.numDocs THEN 0 ELSE b.numDocs - n
<1>1. gone \in SUBSET Postings
  BY DEF Bm25s
<1>2. n \in Nat
  BY <1>1, PostingsFinite
<1>3. left \in Nat
  <2> HIDE DEF n
  <2> QED
    BY <1>2 DEF Bm25s
<1>4. RemoveDocuments(b, ids) =
        [docs |-> b.docs \ gone, posts |-> b.posts \ gone, numDocs |-> left]
  BY DEF RemoveDocuments
<1> HIDE DEF gone, left
<1> QED
  BY <1>3, <1>4 DEF Bm25s

(* The keyword index of the first build is well typed.                      *)
LEMMA Bm25OfType ==
  ASSUME NEW g \in Graphs
  PROVE  Bm25Of(g) \in Bm25s
<1> DEFINE texts == UNION {Texts(f, g.contents[f]) : f \in Indexed(g)}
<1>1. \A f \in Indexed(g) : Texts(f, g.contents[f]) \in SUBSET Postings
  BY TextsType DEF Indexed, Graphs
<1>2. texts \in SUBSET Postings
  BY <1>1
<1>3. Cardinality(texts) \in Nat
  BY <1>2, PostingsFinite
<1> QED
  BY <1>2, <1>3 DEF Bm25Of, Bm25s

-----------------------------------------------------------------------------
(* Type correctness.                                                        *)

(* Before the index task starts every variable has its type.                *)
LEMMA InitType == Init => TypeOK
<1>1. EmptyGraph \in Graphs
  BY DEF EmptyGraph, Graphs
<1>2. EmptyBm25 \in Bm25s
  BY DEF EmptyBm25, Bm25s
<1>3. NoEvents \in EventSets
  BY DEF NoEvents, EventSets
<1> SUFFICES ASSUME Init PROVE TypeOK
  OBVIOUS
<1>4. /\ graph \in Graphs /\ bm25 \in Bm25s
      /\ events \in EventSets /\ batch \in EventSets
  BY <1>1, <1>2, <1>3 DEF Init
<1>5. ready \in BOOLEAN
  BY DEF Init
<1> QED
  BY <1>4, <1>5 DEF Init, TypeOK

(* A change of the disk preserves the types.                                *)
LEMMA EditType ==
  ASSUME TypeOK, Edit
  PROVE  TypeOK'
<1>1. PICK f \in Files : \/ \E c \in Contents : WriteFile(f, c)
                         \/ DeleteFile(f)
                         \/ \E h \in Files : RenameFile(f, h)
  BY DEF Edit
<1>2. MayEdit
  BY <1>1 DEF WriteFile, DeleteFile, RenameFile
<1>3. disk' \in [Files -> Contents \cup {None}]
  BY <1>1 DEF WriteFile, DeleteFile, RenameFile, TypeOK
<1>4. events' \in EventSets /\ blind' \subseteq Files
  BY <1>1 DEF WriteFile, DeleteFile, RenameFile, TypeOK, EventSets, Unseen
<1> QED
  BY <1>2, <1>3, <1>4 DEF MayEdit, TypeOK, taskVars, indexVars

(* A step of start_code_graph_indexing preserves the types.                 *)
LEMMA IndexTaskType ==
  ASSUME TypeOK, IndexTask
  PROVE  TypeOK'
<1>1. CASE WalkLists
  BY <1>1 DEF WalkLists, TypeOK, indexVars, watchVars
<1>2. ASSUME NEW f \in Files, WalkReads(f) PROVE TypeOK'
  <2>1. graph' \in Graphs
    <3>1. disk[f] # None => disk[f] \in Contents
      BY DEF TypeOK
    <3> QED
      BY <1>2, <3>1, AddNodesType DEF WalkReads, TypeOK
  <2> QED
    BY <1>2, <2>1 DEF WalkReads, TypeOK, watchVars
<1>3. CASE BuildIndex
  <2>1. graph' \in Graphs /\ bm25' \in Bm25s
    BY <1>3, BuildEdgesSound, Bm25OfType DEF BuildIndex, indexVars, TypeOK
  <2>2. twins' \subseteq Nodes
    <3>1. \A f \in Indexed(graph) : SharedIds(f, graph.contents[f]) \subseteq Nodes
      BY SharedIdsFacts DEF TypeOK, Graphs, Indexed
    <3> QED
      BY <1>3, <3>1 DEF BuildIndex, indexVars, TypeOK
  <2> QED
    BY <1>3, <2>1, <2>2 DEF BuildIndex, TypeOK, watchVars
<1>4. CASE IndexPanics
  BY <1>4 DEF IndexPanics, TypeOK, indexVars, watchVars
<1>5. CASE Publish
  BY <1>5 DEF Publish, TypeOK, indexVars, watchVars
<1> QED
  BY <1>1, <1>2, <1>3, <1>4, <1>5 DEF IndexTask

(* Edges are sound at every moment, the building included.                  *)
LEMMA WatchTaskType ==
  ASSUME TypeOK, GraphSound(graph), WatchTask
  PROVE  TypeOK'
<1>1. CASE StartWatcher \/ StartWatcherFails
  BY <1>1 DEF StartWatcher, StartWatcherFails, TypeOK, taskVars, indexVars
<1>2. CASE Drain
  BY <1>2 DEF Drain, TypeOK, EventSets, NoEvents, taskVars, indexVars
<1>3. CASE ApplyRemoved
  <2>1. graph' \in Graphs
    BY <1>3, RemoveFilesSound DEF ApplyRemoved, TypeOK, EventSets
  <2>2. bm25' \in Bm25s
    BY <1>3, RemoveDocumentsType DEF ApplyRemoved, TypeOK
  <2> QED
    BY <1>3, <2>1, <2>2 DEF ApplyRemoved, TypeOK, EventSets, taskVars
<1>4. ASSUME NEW f \in Files, ApplyChanged(f) PROVE TypeOK'
  <2>1. disk[f] # None => disk[f] \in Contents
    BY DEF TypeOK
  <2>2. graph' \in Graphs
    <3>1. graph \in Graphs
      BY DEF TypeOK
    <3>2. disk[f] # None => UpdateFile(graph, f, disk[f]) \in Graphs
      BY <2>1, <3>1, UpdateFileSound
    <3> QED
      BY <1>4, <3>1, <3>2 DEF ApplyChanged, indexVars
  <2>3. bm25' \in Bm25s
    BY <1>4, <2>1, RemoveDocumentsType, AddDocumentsType DEF ApplyChanged, TypeOK,
       indexVars
  <2>4. twins' \subseteq Nodes
    BY <1>4, <2>1, SharedIdsFacts DEF ApplyChanged, indexVars, TypeOK
  <2> QED
    BY <1>4, <2>2, <2>3, <2>4 DEF ApplyChanged, TypeOK, EventSets, taskVars
<1> QED
  BY <1>1, <1>2, <1>3, <1>4 DEF WatchTask

-----------------------------------------------------------------------------
(* The inductive invariant.  TaskInv is the hand-over between the two       *)
(* tasks; FreshInv extends OnlyBlindFilesStale to the walk and says which   *)
(* part of a batch may be outstanding; EdgeInv is about the edges.          *)

Built == task \in {"built", "done"}

TaskInv ==
  /\ ready <=> task = "done"
  /\ watch # "poll" => ready
  /\ task = "walk" => graph = EmptyGraph /\ blind = {}
  /\ task = "read" => \A f \in toRead : graph.contents[f] = None
  /\ Built => toRead = {}
  /\ ~ Built => graph.edges = {}

(* A removal never comes without the event of a later re-creation, which is *)
(* applied after it.                                                        *)
RemovalAnswered(f) ==
  disk[f] # None =>
    /\ f \in events.removed => f \in events.changed
    /\ f \in batch.removed => f \in events.changed \cup batch.changed

FreshInv ==
  /\ watch \in {"poll", "failed"} => events = NoEvents
  /\ watch \in {"poll", "failed", "sleep"} => batch = NoEvents
  /\ \A f \in Files : RemovalAnswered(f)
  /\ watch = "changing" => batch.removed = {}
  /\ task = "read" => \A f \in Files \ (blind \cup toRead) : graph.contents[f] = disk[f]
  /\ Built => \A f \in Files \ blind : graph.contents[f] = disk[f] \/ Pending(f)

EdgeInv ==
  /\ GraphSound(graph)
  /\ Built => \A f \in Indexed(graph) : LocalExact(graph, f)

(* Every step preserves the relation between the two tasks' progress and    *)
(* what they have produced.                                                 *)
LEMMA TaskStep ==
  ASSUME TypeOK, TaskInv, [Next]_vars
  PROVE  TaskInv'
<1>1. CASE Edit
  <2>1. PICK f \in Files : \/ \E c \in Contents : WriteFile(f, c)
                           \/ DeleteFile(f)
                           \/ \E h \in Files : RenameFile(f, h)
    BY <1>1 DEF Edit
  <2>2. MayEdit
    BY <2>1 DEF WriteFile, DeleteFile, RenameFile
  <2>3. task = "walk" => ~ Watching
    BY DEF TaskInv, Watching
  <2>4. task = "walk" => blind' = blind
    BY <2>1, <2>3 DEF WriteFile, DeleteFile, RenameFile, Unseen
  <2> QED
    BY <2>2, <2>4 DEF MayEdit, TaskInv, Built, taskVars, indexVars
<1>2. CASE WalkLists
  BY <1>2 DEF WalkLists, TaskInv, Built, EmptyGraph, indexVars, watchVars
<1>3. ASSUME NEW f \in Files, WalkReads(f) PROVE TaskInv'
  <2>1. disk[f] # None => disk[f] \in Contents
    BY DEF TypeOK
  <2>2. /\ graph'.edges = graph.edges
        /\ \/ graph' = graph
           \/ graph'.contents = [graph.contents EXCEPT ![f] = disk[f]]
    BY <1>3, <2>1, AddNodesType DEF WalkReads, TypeOK
  <2>3. \A h \in Files \ {f} : graph'.contents[h] = graph.contents[h]
    BY <2>2 DEF TypeOK, Graphs
  <2>4. \A h \in toRead' : graph'.contents[h] = None
    BY <1>3, <2>3 DEF WalkReads, TypeOK, TaskInv
  <2> QED
    BY <1>3, <2>2, <2>4 DEF WalkReads, TaskInv, Built, watchVars
<1>4. CASE BuildIndex
  BY <1>4 DEF BuildIndex, TaskInv, Built, indexVars, watchVars
<1>5. CASE IndexPanics
  BY <1>5 DEF IndexPanics, TaskInv, Built, indexVars, watchVars
<1>6. CASE Publish
  BY <1>6 DEF Publish, TaskInv, Built, indexVars, watchVars
<1>7. CASE StartWatcher \/ StartWatcherFails \/ Drain
  BY <1>7 DEF StartWatcher, StartWatcherFails, Drain, TaskInv, Built, taskVars,
     indexVars
<1>8. CASE ApplyRemoved \/ \E f \in Files : ApplyChanged(f)
  <2>1. watch \in {"removing", "changing"} /\ UNCHANGED <<task, toRead, ready>>
    BY <1>8 DEF ApplyRemoved, ApplyChanged, taskVars
  <2> QED
    BY <2>1 DEF TaskInv, Built
<1>9. CASE UNCHANGED vars
  BY <1>9 DEF vars, TaskInv, Built, taskVars, indexVars, watchVars
<1> QED
  BY <1>1, <1>2, <1>3, <1>4, <1>5, <1>6, <1>7, <1>8, <1>9 DEF Next, IndexTask, WatchTask

(* A change that is not seen makes the file blind; one that is seen becomes *)
(* pending.                                                                 *)
LEMMA FreshEdit ==
  ASSUME TypeOK, TaskInv, FreshInv, Edit
  PROVE  FreshInv'
<1>1. PICK f \in Files : \/ \E c \in Contents : WriteFile(f, c)
                         \/ DeleteFile(f)
                         \/ \E h \in Files : RenameFile(f, h)
  BY DEF Edit
<1>2. MayEdit
  BY <1>1 DEF WriteFile, DeleteFile, RenameFile
<1>3. UNCHANGED <<task, toRead, graph, watch, batch, ready>>
  BY <1>2 DEF MayEdit, taskVars, indexVars
<1>4. CASE Watching
  <2>1. task = "done" /\ Built
    BY <1>4 DEF TaskInv, Watching, Built
  <2>2. \A h \in Files \ blind' :
          \/ disk'[h] = disk[h] /\ h \notin blind
          \/ disk'[h] = None /\ h \in events'.removed
          \/ disk'[h] # None /\ h \in events'.changed
    <3>1. CASE \E c \in Contents : WriteFile(f, c)
      BY <1>4, <3>1, ContentFacts DEF WriteFile, TypeOK, EventSets
    <3>2. CASE DeleteFile(f)
      BY <1>4, <3>2 DEF DeleteFile, TypeOK, EventSets
    <3>3. CASE \E h \in Files : RenameFile(f, h)
      BY <1>4, <3>3 DEF RenameFile, TypeOK, EventSets
    <3> QED
      BY <1>1, <3>1, <3>2, <3>3
  <2>3. events.removed \subseteq events'.removed /\ events.changed \subseteq events'.changed
    BY <1>1, <1>4 DEF WriteFile, DeleteFile, RenameFile, TypeOK, EventSets
  <2>4. \A h \in Files \ blind' : graph.contents[h] = disk'[h] \/ Pending(h)'
    BY <1>3, <2>1, <2>2, <2>3 DEF FreshInv, Pending
  <2>5. \A h \in Files : \/ disk'[h] = disk[h]
                         \/ disk'[h] = None
                         \/ h \in events'.changed
    <3>1. CASE \E c \in Contents : WriteFile(f, c)
      BY <1>4, <3>1 DEF WriteFile, TypeOK, EventSets
    <3>2. CASE DeleteFile(f)
      BY <1>4, <3>2 DEF DeleteFile, TypeOK
    <3>3. CASE \E h \in Files : RenameFile(f, h)
      BY <1>4, <3>3 DEF RenameFile, TypeOK, EventSets
    <3> QED
      BY <1>1, <3>1, <3>2, <3>3
  <2>6. \A h \in Files : h \in events'.removed => h \in events.removed \/ disk'[h] = None
    BY <1>1, <1>4 DEF WriteFile, DeleteFile, RenameFile, TypeOK, EventSets
  <2>7. \A h \in Files : RemovalAnswered(h)'
    BY <1>3, <2>3, <2>5, <2>6 DEF FreshInv, RemovalAnswered
  <2>8. watch \notin {"poll", "failed"}
    BY <1>4 DEF Watching
  <2> QED
    BY <1>3, <2>1, <2>4, <2>7, <2>8 DEF FreshInv, Built
<1>5. CASE ~ Watching
  <2>1. /\ events' = events
        /\ \A h \in Files : h \notin blind' => h \notin blind
        /\ task # "walk" => \A h \in Files \ (blind' \cup toRead) : disk'[h] = disk[h]
    <3>1. CASE \E c \in Contents : WriteFile(f, c)
      BY <1>5, <3>1 DEF WriteFile, TypeOK, Unseen
    <3>2. CASE DeleteFile(f)
      BY <1>5, <3>2 DEF DeleteFile, TypeOK, Unseen
    <3>3. CASE \E h \in Files : RenameFile(f, h)
      BY <1>5, <3>3 DEF RenameFile, TypeOK, Unseen
    <3> QED
      BY <1>1, <3>1, <3>2, <3>3
  <2>2. Built => toRead = {} /\ task # "walk"
    BY DEF TaskInv, Built
  <2>3. Built => \A h \in Files \ blind' : graph.contents[h] = disk'[h] \/ Pending(h)'
    BY <1>3, <2>1, <2>2 DEF FreshInv, Pending
  <2>4. task = "read" => \A h \in Files \ (blind' \cup toRead) : graph.contents[h] = disk'[h]
    BY <2>1 DEF FreshInv
  <2>5. events = NoEvents /\ batch = NoEvents
    BY <1>5 DEF FreshInv, Watching, TypeOK
  <2>6. \A h \in Files : RemovalAnswered(h)'
    BY <1>3, <2>1, <2>5 DEF RemovalAnswered, NoEvents
  <2> QED
    BY <1>3, <2>1, <2>3, <2>4, <2>6 DEF FreshInv, Built
<1> QED
  BY <1>4, <1>5

(* A step of the index task leaves every stale file blind or announced.     *)
LEMMA FreshIndexTask ==
  ASSUME TypeOK, TaskInv, FreshInv, IndexTask
  PROVE  FreshInv'
<1>0. UNCHANGED <<watch, events, batch, disk>>
  BY DEF IndexTask, WalkLists, WalkReads, BuildIndex, IndexPanics, Publish, watchVars
<1>a. \A f \in Files : RemovalAnswered(f)'
  BY <1>0 DEF FreshInv, RemovalAnswered
<1>1. CASE WalkLists
  <2>1. \A f \in Files : graph.contents[f] = None
    BY <1>1 DEF WalkLists, TaskInv, EmptyGraph
  <2>2. \A f \in Files \ (blind' \cup toRead') : graph'.contents[f] = disk'[f]
    BY <1>1, <2>1 DEF WalkLists, indexVars
  <2> QED
    BY <1>1, <2>2, <1>0, <1>a DEF WalkLists, FreshInv, Built, watchVars, indexVars
<1>2. ASSUME NEW f \in Files, WalkReads(f) PROVE FreshInv'
  <2>1. disk[f] # None => disk[f] \in Contents
    BY DEF TypeOK
  <2>2. \/ graph' = graph /\ disk[f] = None
        \/ graph'.contents = [graph.contents EXCEPT ![f] = disk[f]]
    BY <1>2, <2>1, AddNodesType DEF WalkReads, TypeOK
  <2>3. graph.contents[f] = None
    BY <1>2 DEF WalkReads, TaskInv
  <2>4. \A h \in Files : graph'.contents[h] = IF h = f THEN disk[f] ELSE graph.contents[h]
    BY <2>2, <2>3 DEF TypeOK, Graphs
  <2>5. \A h \in Files \ (blind' \cup toRead') : graph'.contents[h] = disk'[h]
    BY <1>2, <2>4 DEF WalkReads, FreshInv
  <2> QED
    BY <1>2, <2>5, <1>0, <1>a DEF WalkReads, FreshInv, Built, watchVars
<1>3. CASE BuildIndex
  <2>1. graph'.contents = graph.contents
    BY <1>3, BuildEdgesSound DEF BuildIndex, TypeOK, indexVars
  <2>2. \A f \in Files \ blind' : graph'.contents[f] = disk'[f]
    BY <1>3, <2>1 DEF BuildIndex, FreshInv
  <2> QED
    BY <1>3, <2>2, <1>0, <1>a DEF BuildIndex, FreshInv, Built, watchVars
<1>4. CASE IndexPanics
  BY <1>4, <1>0, <1>a DEF IndexPanics, FreshInv, Built, watchVars, indexVars
<1>5. CASE Publish
  BY <1>5, <1>0, <1>a DEF Publish, FreshInv, Built, Pending, watchVars, indexVars
<1> QED
  BY <1>1, <1>2, <1>3, <1>4, <1>5 DEF IndexTask

(* A step of the watcher task leaves every stale file blind or announced.   *)
LEMMA FreshWatchTask ==
  ASSUME TypeOK, TaskInv, FreshInv, EdgeInv, WatchTask
  PROVE  FreshInv'
<1>1. CASE StartWatcher \/ StartWatcherFails
  BY <1>1 DEF StartWatcher, StartWatcherFails, FreshInv, RemovalAnswered, Built,
     Pending, taskVars, indexVars
<1>2. CASE Drain
  <2>1. \A f \in Files : Pending(f) => Pending(f)'
    BY <1>2 DEF Drain, FreshInv, Pending, NoEvents
  <2>2. \A f \in Files : RemovalAnswered(f)'
    BY <1>2 DEF Drain, FreshInv, RemovalAnswered, NoEvents
  <2> QED
    BY <1>2, <2>1, <2>2 DEF Drain, FreshInv, Built, taskVars, indexVars
<1>3. CASE ApplyRemoved
  <2>1. graph'.contents = [f \in Files |-> IF f \in batch.removed THEN None
                                          ELSE graph.contents[f]]
    BY <1>3, RemoveFilesSound DEF ApplyRemoved, TypeOK, EventSets
  <2>2. batch'.removed = {} /\ batch'.changed = batch.changed
    BY <1>3 DEF ApplyRemoved, TypeOK, EventSets
  <2>3. Built
    BY <1>3 DEF ApplyRemoved, TaskInv, Built
  <2>4. UNCHANGED <<disk, events, blind, task, toRead>>
    BY <1>3 DEF ApplyRemoved, taskVars
  <2>5. ASSUME NEW f \in Files \ blind
        PROVE  graph'.contents[f] = disk[f] \/ Pending(f)'
    <3>1. graph.contents[f] = disk[f] \/ Pending(f)
      BY <2>3 DEF FreshInv
    <3>2. CASE f \in batch.removed
      <4>1. graph'.contents[f] = None
        BY <2>1, <3>2
      <4>2. CASE disk[f] = None
        BY <4>1, <4>2
      <4>3. CASE disk[f] # None
        <5>1. f \in events.changed \cup batch.changed
          BY <3>2, <4>3 DEF FreshInv, RemovalAnswered
        <5> QED
          BY <2>2, <2>4, <4>3, <5>1 DEF Pending
      <4> QED
        BY <4>2, <4>3
    <3>3. CASE f \notin batch.removed
      BY <2>1, <2>2, <2>4, <3>1, <3>3 DEF Pending
    <3> QED
      BY <3>2, <3>3
  <2>6. watch' = IF batch.changed = {} THEN "sleep" ELSE "changing"
    BY <1>3 DEF ApplyRemoved
  <2>7. batch' = [changed |-> batch.changed, removed |-> {}]
    BY <1>3 DEF ApplyRemoved, TypeOK, EventSets
  <2>8. \A f \in Files : RemovalAnswered(f)'
    BY <2>2, <2>4 DEF FreshInv, RemovalAnswered
  <2> QED
    BY <2>2, <2>3, <2>4, <2>5, <2>6, <2>7, <2>8 DEF FreshInv, Built, NoEvents
<1>4. ASSUME NEW f \in Files, ApplyChanged(f) PROVE FreshInv'
  <2>1. disk[f] # None => disk[f] \in Contents
    BY DEF TypeOK
  <2>2. \/ graph' = graph /\ disk[f] = None
        \/ graph'.contents = [graph.contents EXCEPT ![f] = disk[f]]
    <3>1. graph \in Graphs /\ GraphSound(graph)
      BY DEF TypeOK, EdgeInv
    <3>2. disk[f] # None => UpdateFile(graph, f, disk[f]).contents
                              = [graph.contents EXCEPT ![f] = disk[f]]
      BY <2>1, <3>1, UpdateFileSound
    <3> QED
      BY <1>4, <3>2 DEF ApplyChanged, indexVars
  <2>3. /\ batch' = [changed |-> batch.changed \ {f}, removed |-> batch.removed]
        /\ watch = "changing" /\ batch.removed = {}
        /\ watch' = IF batch.changed = {f} THEN "sleep" ELSE "changing"
    BY <1>4 DEF ApplyChanged, TypeOK, EventSets, FreshInv
  <2>4. Built
    BY <1>4 DEF ApplyChanged, TaskInv, Built
  <2>5. UNCHANGED <<disk, events, blind, task, toRead>>
    BY <1>4 DEF ApplyChanged, taskVars
  <2>6. \A h \in Files : h # f => graph'.contents[h] = graph.contents[h]
    BY <2>2 DEF TypeOK, Graphs
  <2>7. ASSUME NEW h \in Files \ blind
        PROVE  graph'.contents[h] = disk[h] \/ Pending(h)'
    <3>1. graph.contents[h] = disk[h] \/ Pending(h)
      BY <2>4 DEF FreshInv
    <3>2. CASE h # f
      BY <2>3, <2>5, <2>6, <3>1, <3>2 DEF Pending
    <3>3. CASE h = f /\ disk[f] = None
      <4>1. Pending(h) => Pending(h)'
        BY <2>3, <2>5, <3>3 DEF Pending
      <4> QED
        BY <2>2, <3>1, <3>3, <4>1 DEF TypeOK, Graphs
    <3>4. CASE h = f /\ disk[f] # None
      BY <2>2, <3>4 DEF TypeOK, Graphs
    <3> QED
      BY <3>2, <3>3, <3>4
  <2>8. \A h \in Files : RemovalAnswered(h)'
    BY <2>3, <2>5 DEF FreshInv, RemovalAnswered
  <2> QED
    BY <2>3, <2>4, <2>5, <2>7, <2>8 DEF FreshInv, Built, NoEvents
<1> QED
  BY <1>1, <1>2, <1>3, <1>4 DEF WatchTask

(* Local calls of a file survive as long as the file itself is not touched. *)
LEMMA LocalKept ==
  ASSUME NEW g, NEW h, NEW f, LocalExact(g, f),
         h.contents[f] = g.contents[f],
         \A e : e.from[1] = f => (e \in h.edges => e \in g.edges),
         \A e : e.from[1] = f /\ e.to[1] = f => (e \in g.edges => e \in h.edges)
  PROVE  LocalExact(h, f)
<1> SUFFICES ASSUME NEW p \in h.contents[f].calls, p[1] # p[2],
                    p[2] \in h.contents[f].defs
             PROVE  CallTargets(h, f, p) = {<<f, p[2]>>}
  BY DEF LocalExact
<1>1. CallTargets(g, f, p) = {<<f, p[2]>>}
  BY DEF LocalExact
<1>2. PICK e \in g.edges : /\ e.kind = "Calls" /\ e.from = <<f, p[1]>>
                           /\ e.to[2] = p[2] /\ e.to = <<f, p[2]>>
  BY <1>1 DEF CallTargets
<1>3. e \in h.edges
  BY <1>2
<1>4. <<f, p[2]>> \in CallTargets(h, f, p)
  BY <1>2, <1>3 DEF CallTargets
<1>5. CallTargets(h, f, p) \subseteq CallTargets(g, f, p)
  BY DEF CallTargets
<1> QED
  BY <1>1, <1>4, <1>5

(* Every step preserves the soundness of the edges and the exactness of     *)
(* local calls.                                                             *)
LEMMA EdgeStep ==
  ASSUME TypeOK, TaskInv, EdgeInv, [Next]_vars
  PROVE  EdgeInv'
<1>0. graph \in Graphs
  BY DEF TypeOK
<1>1. CASE UNCHANGED <<graph, task>>
  BY <1>1 DEF EdgeInv, Built
<1>2. CASE WalkLists \/ IndexPanics
  BY <1>2 DEF WalkLists, IndexPanics, EdgeInv, Built, indexVars
<1>3. ASSUME NEW f \in Files, WalkReads(f) PROVE EdgeInv'
  <2>1. graph.edges = {} /\ task = "read" /\ task' = "read"
    BY <1>3 DEF WalkReads, TaskInv, Built
  <2>2. disk[f] # None => disk[f] \in Contents
    BY DEF TypeOK
  <2>3. graph'.edges = {}
    BY <1>0, <1>3, <2>1, <2>2, AddNodesType DEF WalkReads
  <2> QED
    BY <2>1, <2>3 DEF EdgeInv, GraphSound, Built
<1>4. CASE BuildIndex
  <2>1. CASE Indexed(graph) = {}
    BY <1>4, <2>1 DEF BuildIndex, EdgeInv, Built, indexVars
  <2>2. CASE Indexed(graph) # {}
    <3>1. graph' = BuildEdges(graph)
      BY <1>4, <2>2 DEF BuildIndex
    <3>2. GraphSound(graph') /\ graph'.contents = graph.contents
      BY <1>0, <3>1, BuildEdgesSound
    <3>3. \A f \in Indexed(graph) : LocalExact(graph', f)
      BY <1>0, <3>1, BuildEdgesSound
    <3>4. Indexed(graph') = Indexed(graph)
      BY <3>2 DEF Indexed
    <3> QED
      BY <3>2, <3>3, <3>4 DEF EdgeInv
  <2> QED
    BY <2>1, <2>2
<1>5. CASE Publish
  BY <1>5 DEF Publish, EdgeInv, Built, indexVars
<1>6. CASE ApplyRemoved
  <2> DEFINE fs == batch.removed
  <2>1. graph' = RemoveFiles(graph, fs) /\ fs \in SUBSET Files /\ Built
    BY <1>6 DEF ApplyRemoved, TypeOK, EventSets, TaskInv, Built
  <2> HIDE DEF fs
  <2>2. /\ GraphSound(graph')
        /\ graph'.contents = [f \in Files |-> IF f \in fs THEN None ELSE graph.contents[f]]
        /\ \A e : e \in graph'.edges <=> e \in graph.edges /\ e.from[1] \notin fs
                                                         /\ e.to[1] \notin fs
    BY <1>0, <2>1, RemoveFilesSound DEF EdgeInv
  <2>3. ASSUME NEW f \in Indexed(graph') PROVE LocalExact(graph', f)
    <3>1. f \in Indexed(graph) /\ f \notin fs /\ graph'.contents[f] = graph.contents[f]
      BY <2>2 DEF Indexed
    <3>2. LocalExact(graph, f)
      BY <2>1, <3>1 DEF EdgeInv
    <3> QED
      BY <2>2, <3>1, <3>2, LocalKept
  <2> QED
    BY <2>2, <2>3 DEF EdgeInv
<1>7. ASSUME NEW f \in Files, ApplyChanged(f), disk[f] # None PROVE EdgeInv'
  <2>1. graph' = UpdateFile(graph, f, disk[f]) /\ disk[f] \in Contents /\ Built
    BY <1>7 DEF ApplyChanged, TypeOK, TaskInv, Built
  <2>2. GraphSound(graph)
    BY DEF EdgeInv
  <2>3. /\ GraphSound(graph') /\ LocalExact(graph', f)
        /\ graph'.contents = [graph.contents EXCEPT ![f] = disk[f]]
        /\ \A e : e.from[1] # f =>
             (e \in graph'.edges <=> e \in graph.edges /\ e.to[1] # f)
    BY <1>0, <2>1, <2>2, UpdateFileSound
  <2>4. ASSUME NEW h \in Indexed(graph'), h # f PROVE LocalExact(graph', h)
    <3>1. h \in Indexed(graph) /\ graph'.contents[h] = graph.contents[h]
      BY <1>0, <2>3, <2>4 DEF Indexed, Graphs
    <3>2. LocalExact(graph, h)
      BY <2>1, <3>1 DEF EdgeInv
    <3> QED
      BY <2>3, <2>4, <3>1, <3>2, LocalKept
  <2> QED
    BY <2>3, <2>4 DEF EdgeInv
<1>8. CASE Edit \/ StartWatcher \/ StartWatcherFails \/ Drain
  <2>1. UNCHANGED <<graph, task>>
    BY <1>8 DEF Edit, WriteFile, DeleteFile, RenameFile, MayEdit, StartWatcher,
       StartWatcherFails, Drain, taskVars, indexVars
  <2> QED
    BY <1>1, <2>1
<1>9. ASSUME NEW f \in Files, ApplyChanged(f), disk[f] = None PROVE EdgeInv'
  BY <1>1, <1>9 DEF ApplyChanged, taskVars, indexVars
<1>10. CASE UNCHANGED vars
  BY <1>1, <1>10 DEF vars, taskVars, indexVars
<1> QED
  BY <1>2, <1>3, <1>4, <1>5, <1>6, <1>7, <1>8, <1>9, <1>10 DEF Next, IndexTask, WatchTask

-----------------------------------------------------------------------------
(* The invariant and its consequences.                                      *)

IInv == TypeOK /\ TaskInv /\ FreshInv /\ EdgeInv

(* Initially nothing is indexed and nothing is pending.                     *)
LEMMA InitInv == Init => IInv
<1> SUFFICES ASSUME Init PROVE IInv
  OBVIOUS
<1>1. TypeOK
  BY InitType
<1>2. TaskInv
  BY DEF Init, TaskInv, Built, EmptyGraph
<1>3. FreshInv
  BY DEF Init, FreshInv, Built, RemovalAnswered, NoEvents
<1>4. EdgeInv
  BY DEF Init, EdgeInv, GraphSound, Built, EmptyGraph
<1> QED
  BY <1>1, <1>2, <1>3, <1>4 DEF IInv

(* IInv is inductive: every step of the specification preserves it.         *)
THEOREM IndexInvariance == Spec => []IInv
<1>1. Init => IInv
  BY InitInv
<1>2. IInv /\ [Next]_vars => IInv'
  <2> SUFFICES ASSUME IInv, [Next]_vars PROVE IInv'
    OBVIOUS
  <2>1. TypeOK /\ TaskInv /\ FreshInv /\ EdgeInv
    BY DEF IInv
  <2>2. TypeOK'
    <3>1. CASE UNCHANGED vars
      BY <2>1, <3>1 DEF TypeOK, vars, taskVars, indexVars, watchVars
    <3> QED
      BY <2>1, <3>1, EditType, IndexTaskType, WatchTaskType DEF Next, EdgeInv
  <2>3. TaskInv'
    BY <2>1, TaskStep
  <2>4. FreshInv'
    <3>1. CASE UNCHANGED vars
      BY <2>1, <3>1 DEF FreshInv, RemovalAnswered, Built, Pending, vars, taskVars, indexVars,
         watchVars
    <3> QED
      BY <2>1, <3>1, FreshEdit, FreshIndexTask, FreshWatchTask DEF Next
  <2>5. EdgeInv'
    BY <2>1, EdgeStep
  <2> QED
    BY <2>2, <2>3, <2>4, <2>5 DEF IInv
<1> QED
  BY <1>1, <1>2, PTL DEF Spec

(* Type correctness of the live index.                                      *)
THEOREM IndexTypeCorrect == Spec => []TypeOK
<1>1. IInv => TypeOK
  BY DEF IInv
<1> QED
  BY <1>1, IndexInvariance, PTL

(* No interleaving of edits, the walk, drains and reads loses a change that *)
(* the watcher could see (start_file_watcher).                              *)
THEOREM NoChangeLost == Spec => []OnlyBlindFilesStale
<1>1. IInv => OnlyBlindFilesStale
  BY DEF IInv, TaskInv, FreshInv, Built, OnlyBlindFilesStale
<1> QED
  BY <1>1, IndexInvariance, PTL

(* However files are re-indexed, an edge ends at elements that exist and a  *)
(* call edge stands for a call in the source (update_file, remove_file).    *)
THEOREM EdgesSound == Spec => []CallEdgesSound
<1>1. IInv => CallEdgesSound
  BY DEF IInv, EdgeInv, GraphSound, EdgeOK, CallEdgesSound
<1> QED
  BY <1>1, IndexInvariance, PTL

(* Calls within a file are found, and resolved to the file itself.          *)
THEOREM LocalCallsFound == Spec => []LocalCallsExact
<1>1. IInv => LocalCallsExact
  BY DEF IInv, TaskInv, EdgeInv, Built, LocalExact, CallTargets, LocalCallsExact
<1> QED
  BY <1>1, IndexInvariance, PTL

-----------------------------------------------------------------------------
(* The keyword index, for any sources.                                      *)

(* `documents' holds the last text of every element of the graph, and the   *)
(* inverted index has at least the postings of those texts.                 *)
LastTexts(g) ==
  {p \in Postings : /\ HasSource(g, p[1])
                    /\ p[2] = LastText(g.contents[p[1][1]], p[1][2])}

DocsExact(b, g) == b.docs = LastTexts(g) /\ b.docs \subseteq b.posts

DocsInv == Built => DocsExact(bm25, graph)

(* Removing the documents of some files together with their nodes.          *)
LEMMA RemoveDocsExact ==
  ASSUME NEW b \in Bm25s, NEW g \in Graphs, DocsExact(b, g), NEW fs \in SUBSET Files
  PROVE  DocsExact(RemoveDocuments(b, UNION {ElementIds(g, f) : f \in fs}),
                   RemoveFiles(g, fs))
<1> DEFINE ids == UNION {ElementIds(g, f) : f \in fs}
           gone == {d \in b.docs : d[1] \in ids}
           r == RemoveDocuments(b, ids)
           h == RemoveFiles(g, fs)
<1>1. h.contents = [f \in Files |-> IF f \in fs THEN None ELSE g.contents[f]]
  BY RemoveFilesSound
<1>2. \A id \in Nodes : HasSource(g, id) => (id \in ids <=> id[1] \in fs)
  BY DEF HasSource, ElementIds, Nodes, Indexed
<1>3. \A id \in Nodes : HasSource(h, id) <=> HasSource(g, id) /\ id[1] \notin fs
  BY <1>1 DEF HasSource, Indexed
<1>4. \A p \in Postings : p[1] \in Nodes
  BY DEF Postings
<1>5. \A id \in Nodes : id[1] \notin fs => h.contents[id[1]] = g.contents[id[1]]
  BY <1>1 DEF Nodes
<1> HIDE DEF ids, h
<1>6. b.docs \ gone = LastTexts(h)
  BY <1>2, <1>3, <1>4, <1>5 DEF DocsExact, LastTexts
<1>7. r.docs = b.docs \ gone /\ r.posts = b.posts \ gone
  BY DEF RemoveDocuments
<1> QED
  BY <1>6, <1>7 DEF DocsExact, ids, h

(* Adding the documents of a file the graph did not hold.                   *)
LEMMA AddDocsExact ==
  ASSUME NEW b \in Bm25s, NEW g \in Graphs, DocsExact(b, g),
         NEW f \in Files, g.contents[f] = None, NEW c \in Contents,
         NEW h, h.contents = [g.contents EXCEPT ![f] = c]
  PROVE  DocsExact(AddDocuments(b, f, c), h)
<1> DEFINE last == {p \in Texts(f, c) : p[2] = LastText(c, p[1][2])}
           a == AddDocuments(b, f, c)
<1>1. Elements(c) \subseteq Names \cup {FileElement}
  BY ContentFacts DEF Elements
<1>2. \A n : LastText(c, n) \in 1..2
  BY DEF LastText
<1>3. last = {p \in Postings : /\ p[1][1] = f /\ p[1][2] \in Elements(c)
                               /\ p[2] = LastText(c, p[1][2])}
  BY <1>1, <1>2 DEF Texts, Postings, Nodes
<1>4. \A p \in b.docs : p[1][1] # f
  BY DEF DocsExact, LastTexts, HasSource, Indexed
<1>5. \A id \in Nodes : HasSource(h, id) <=>
        HasSource(g, id) \/ (id[1] = f /\ id[2] \in Elements(c))
  BY ContentFacts DEF HasSource, Indexed, Graphs
<1>6. /\ h.contents[f] = c
      /\ \A id \in Nodes : HasSource(g, id) => id[1] # f /\ h.contents[id[1]] = g.contents[id[1]]
  BY DEF HasSource, Indexed, Graphs, Nodes
<1>7. \A p \in Postings : p[1] \in Nodes
  BY DEF Postings
<1> HIDE DEF last
<1>8. LastTexts(h) = LastTexts(g) \cup last
  BY <1>3, <1>5, <1>6, <1>7 DEF LastTexts
<1>9. {d \in b.docs : d[1] \notin {f} \X Elements(c)} = b.docs
  BY <1>4
<1>10. a.docs = b.docs \cup last /\ a.posts = b.posts \cup Texts(f, c)
  BY <1>9 DEF AddDocuments, last
<1>11. last \subseteq Texts(f, c)
  BY DEF last
<1> QED
  BY <1>8, <1>10, <1>11 DEF DocsExact

(* The first build.                                                         *)
LEMMA BuildDocsExact ==
  ASSUME NEW g \in Graphs, NEW h, h.contents = g.contents
  PROVE  DocsExact(Bm25Of(g), h)
<1> DEFINE texts == UNION {Texts(f, g.contents[f]) : f \in Indexed(g)}
           last == {p \in texts : p[2] = LastText(g.contents[p[1][1]], p[1][2])}
<1>1. \A f \in Indexed(g) : f \in Files /\ g.contents[f] \in Contents
  BY DEF Indexed, Graphs
<1>2. \A c \in Contents : Elements(c) \subseteq Names \cup {FileElement}
  BY ContentFacts DEF Elements
<1>3. \A c, n : LastText(c, n) \in 1..2
  BY DEF LastText
<1>4. ASSUME NEW p \in last PROVE p \in LastTexts(h)
  <2>1. PICK f \in Indexed(g) : p \in Texts(f, g.contents[f])
    OBVIOUS
  <2>2. /\ p[1] \in {f} \X Elements(g.contents[f]) /\ p \in Postings
    BY <1>1, <2>1, TextsType DEF Texts
  <2> QED
    BY <2>1, <2>2 DEF LastTexts, HasSource, Indexed
<1>5. ASSUME NEW p \in LastTexts(h) PROVE p \in last
  <2>1. /\ p \in Postings /\ p[1][1] \in Indexed(g)
        /\ p[1][2] \in Elements(g.contents[p[1][1]])
        /\ p[2] = LastText(g.contents[p[1][1]], p[1][2])
    BY DEF LastTexts, HasSource, Indexed
  <2>2. p \in Texts(p[1][1], g.contents[p[1][1]])
    BY <1>3, <2>1 DEF Texts, Postings, Nodes
  <2> QED
    BY <2>1, <2>2
<1>6. Bm25Of(g).docs = last /\ Bm25Of(g).posts = texts
  BY DEF Bm25Of
<1>7. last \subseteq texts
  OBVIOUS
<1> HIDE DEF texts, last
<1> QED
  BY <1>4, <1>5, <1>6, <1>7 DEF DocsExact

(* Every step keeps `documents' exact, whether or not ids are unique.       *)
LEMMA DocsStep ==
  ASSUME IInv, DocsInv, [Next]_vars
  PROVE  DocsInv'
<1>0. graph \in Graphs /\ bm25 \in Bm25s
  BY DEF IInv, TypeOK
<1>1. CASE UNCHANGED <<graph, task, bm25>>
  BY <1>1 DEF DocsInv, Built
<1>2. CASE WalkLists \/ IndexPanics \/ Publish \/ \E f \in Files : WalkReads(f)
  BY <1>2 DEF WalkLists, IndexPanics, Publish, WalkReads, DocsInv, Built, indexVars
<1>3. CASE BuildIndex
  <2>1. CASE Indexed(graph) = {}
    BY <1>3, <2>1 DEF BuildIndex, DocsInv, Built, indexVars
  <2>2. CASE Indexed(graph) # {}
    <3>1. graph' = BuildEdges(graph) /\ bm25' = Bm25Of(graph) /\ task' = "built"
      BY <1>3, <2>2 DEF BuildIndex
    <3>2. graph'.contents = graph.contents
      BY <1>0, <3>1, BuildEdgesSound
    <3> QED
      BY <1>0, <3>1, <3>2, BuildDocsExact DEF DocsInv, Built
  <2> QED
    BY <2>1, <2>2
<1>4. CASE ApplyRemoved
  <2>1. batch.removed \in SUBSET Files /\ Built /\ task' = task
    BY <1>4 DEF ApplyRemoved, IInv, TypeOK, EventSets, TaskInv, Built, taskVars
  <2>2. DocsExact(bm25', graph')
    BY <1>0, <1>4, <2>1, RemoveDocsExact DEF ApplyRemoved, DocsInv
  <2> QED
    BY <2>1, <2>2 DEF DocsInv, Built
<1>5. ASSUME NEW f \in Files, ApplyChanged(f), disk[f] # None PROVE DocsInv'
  <2> DEFINE b == RemoveDocuments(bm25, ElementIds(graph, f))
             g == RemoveFiles(graph, {f})
             c == disk[f]
  <2>1. c \in Contents /\ Built /\ task' = task
    BY <1>5 DEF ApplyChanged, IInv, TypeOK, TaskInv, Built, taskVars
  <2>2. bm25' = AddDocuments(b, f, c) /\ graph' = UpdateFile(graph, f, c)
    BY <1>5 DEF ApplyChanged
  <2>3. ElementIds(graph, f) = UNION {ElementIds(graph, h) : h \in {f}}
    OBVIOUS
  <2>4. DocsExact(b, g) /\ b \in Bm25s
    BY <1>0, <2>1, <2>3, RemoveDocsExact, RemoveDocumentsType DEF DocsInv
  <2>5. /\ g \in Graphs
        /\ g.contents = [h \in Files |-> IF h \in {f} THEN None ELSE graph.contents[h]]
    BY <1>0, RemoveFilesSound
  <2>6. graph'.contents = [graph.contents EXCEPT ![f] = c]
    BY <1>0, <2>1, <2>2, UpdateFileSound DEF IInv, EdgeInv
  <2> HIDE DEF b, g, c
  <2>7. g.contents[f] = None /\ graph'.contents = [g.contents EXCEPT ![f] = c]
    BY <1>0, <2>5, <2>6 DEF Graphs
  <2>8. DocsExact(bm25', graph')
    BY <2>1, <2>2, <2>4, <2>5, <2>7, AddDocsExact
  <2> QED
    BY <2>1, <2>8 DEF DocsInv, Built
<1>6. CASE Edit \/ StartWatcher \/ StartWatcherFails \/ Drain \/ UNCHANGED vars
           \/ \E f \in Files : ApplyChanged(f) /\ disk[f] = None
  <2>1. UNCHANGED <<graph, task, bm25>>
    BY <1>6 DEF Edit, WriteFile, DeleteFile, RenameFile, MayEdit, StartWatcher,
       StartWatcherFails, Drain, ApplyChanged, vars, taskVars, indexVars
  <2> QED
    BY <1>1, <2>1
<1> QED
  BY <1>2, <1>3, <1>4, <1>5, <1>6 DEF Next, IndexTask, WatchTask

(* SearchIsComplete: every element of the graph is found by search_code,    *)
(* for any sources, also when several of their elements share an id.        *)
THEOREM ElementsAreFound == Spec => []SearchIsComplete
<1>1. Init => DocsInv
  BY DEF Init, DocsInv, Built
<1>2. IInv /\ DocsInv /\ [Next]_vars => DocsInv'
  BY DocsStep
<1>3. IInv /\ DocsInv => SearchIsComplete
  <2> SUFFICES ASSUME IInv, DocsInv, ready,
                      NEW f \in Files, NEW id \in ElementIds(graph, f)
               PROVE  id \in SearchHits(bm25)
    BY DEF SearchIsComplete
  <2>1. DocsExact(bm25, graph)
    BY DEF IInv, TaskInv, Built, DocsInv
  <2>2. graph.contents[f] \in Contents /\ graph.contents[f] # None
    BY DEF IInv, TypeOK, Graphs, ElementIds
  <2>3. Elements(graph.contents[f]) \subseteq Names \cup {FileElement}
    BY <2>2, ContentFacts DEF Elements
  <2>4. HasSource(graph, id) /\ id \in Nodes /\ id[1] = f
    BY <2>2, <2>3 DEF ElementIds, HasSource, Indexed, Nodes
  <2> DEFINE k == LastText(graph.contents[f], id[2])
  <2>5. k \in 1..2
    BY DEF LastText
  <2>6. <<id, k>> \in LastTexts(graph)
    BY <2>4, <2>5 DEF LastTexts, Postings
  <2> HIDE DEF k
  <2>7. <<id, k>> \in bm25.posts /\ <<id, k>>[1] = id
    BY <2>1, <2>6 DEF DocsExact
  <2> QED
    BY <2>7 DEF SearchHits
<1> QED
  BY <1>1, <1>2, <1>3, IndexInvariance, PTL DEF Spec

(* What is left behind: a posting that is not of the current text of an     *)
(* element has an id that two definitions have shared, and only those are   *)
(* counted too often.                                                       *)
PostsInv == \A p \in bm25.posts : p[1] \in twins \/ p \in bm25.docs

NumInv ==
  /\ bm25.numDocs >= Cardinality(bm25.docs)
  /\ twins = {} => bm25.numDocs = Cardinality(bm25.docs)

SearchInv == IF Built THEN PostsInv /\ NumInv ELSE bm25 = EmptyBm25

(* The numbers of documents that are removed and added.                     *)
LEMMA RemoveCount ==
  ASSUME NEW b \in Bm25s, NEW ids, b.numDocs >= Cardinality(b.docs)
  PROVE  LET r == RemoveDocuments(b, ids)
         IN  /\ Cardinality(b.docs) \in Nat /\ Cardinality(r.docs) \in Nat
             /\ r.numDocs \in Nat
             /\ r.numDocs - Cardinality(r.docs) = b.numDocs - Cardinality(b.docs)
<1> DEFINE gone == {d \in b.docs : d[1] \in ids}
           r == RemoveDocuments(b, ids)
<1>1. IsFiniteSet(b.docs) /\ IsFiniteSet(gone) /\ Cardinality(b.docs) \in Nat
      /\ Cardinality(gone) \in Nat /\ b.numDocs \in Nat
  BY PostingsFinite DEF Bm25s
<1>2. gone \subseteq b.docs
  OBVIOUS
<1>3. /\ r.docs = b.docs \ gone
      /\ r.numDocs = IF Cardinality(gone) > b.numDocs THEN 0
                     ELSE b.numDocs - Cardinality(gone)
  BY DEF RemoveDocuments, gone
<1> HIDE DEF gone, r
<1>4. b.docs \cap gone = gone
  BY <1>2
<1>5. Cardinality(b.docs \ gone) = Cardinality(b.docs) - Cardinality(b.docs \cap gone)
  BY <1>1, FS_Difference, Zenon
<1>6. Cardinality(gone) <= Cardinality(b.docs)
  BY <1>1, <1>2, FS_Subset, Zenon
<1> QED
  BY <1>1, <1>3, <1>4, <1>5, <1>6 DEF r

(* ... and added to a keyword index without documents of that file.         *)
LEMMA AddCount ==
  ASSUME NEW b \in Bm25s, NEW f \in Files, NEW c \in Contents,
         \A d \in b.docs : d[1][1] # f,
         b.numDocs >= Cardinality(b.docs)
  PROVE  LET a == AddDocuments(b, f, c)
         IN  /\ a.docs = b.docs \cup {p \in Texts(f, c) : p[2] = LastText(c, p[1][2])}
             /\ a.posts = b.posts \cup Texts(f, c)
             /\ a.numDocs >= Cardinality(a.docs)
             /\ c.twice = {} /\ b.numDocs = Cardinality(b.docs) =>
                  a.numDocs = Cardinality(a.docs)
<1> DEFINE texts == Texts(f, c)
           last == {p \in texts : p[2] = LastText(c, p[1][2])}
           a == AddDocuments(b, f, c)
<1>1. {d \in b.docs : d[1] \notin {f} \X Elements(c)} = b.docs
  OBVIOUS
<1>2. /\ a.docs = b.docs \cup last /\ a.posts = b.posts \cup texts
      /\ a.numDocs = b.numDocs + Cardinality(texts)
  BY <1>1 DEF AddDocuments
<1>3. texts \in SUBSET Postings
  BY TextsType
<1>4. c.twice = {} => last = texts
  <2> SUFFICES ASSUME c.twice = {}, NEW p \in texts PROVE p[2] = LastText(c, p[1][2])
    OBVIOUS
  <2>1. LastText(c, p[1][2]) = 1
    BY DEF LastText
  <2>2. p[2] \in 1..2 /\ p[2] <= 1
    BY <2>1 DEF Texts
  <2> QED
    BY <2>1, <2>2
<1>5. \A p \in last : p[1][1] = f
  BY DEF Texts
<1>6. last \subseteq texts
  OBVIOUS
<1> HIDE DEF texts, last, a
<1>7. last \in SUBSET Postings
  BY <1>3, <1>6
<1>8. /\ IsFiniteSet(b.docs) /\ Cardinality(b.docs) \in Nat
      /\ IsFiniteSet(texts) /\ Cardinality(texts) \in Nat
      /\ IsFiniteSet(last) /\ Cardinality(last) \in Nat /\ b.numDocs \in Nat
  BY <1>3, <1>7, PostingsFinite DEF Bm25s
<1>9. b.docs \cap last = {}
  BY <1>5
<1>10. Cardinality(b.docs \cup last) = Cardinality(b.docs) + Cardinality(last)
  <2>1. Cardinality(b.docs \cap last) = 0
    BY <1>9, FS_EmptySet
  <2>2. Cardinality(b.docs \cup last) =
          Cardinality(b.docs) + Cardinality(last) - Cardinality(b.docs \cap last)
    BY <1>8, FS_Union, Zenon
  <2> QED
    BY <1>8, <2>1, <2>2
<1>11. Cardinality(last) <= Cardinality(texts)
  BY <1>6, <1>8, FS_Subset, Zenon
<1>12. a.numDocs >= Cardinality(a.docs)
  BY <1>2, <1>8, <1>10, <1>11
<1>13. ASSUME c.twice = {}, b.numDocs = Cardinality(b.docs)
       PROVE  a.numDocs = Cardinality(a.docs)
  BY <1>2, <1>4, <1>8, <1>10, <1>13
<1> QED
  BY <1>2, <1>12, <1>13 DEF texts, last, a

(* A text of an id that is not shared is the only one.                      *)
LEMMA OnlyText ==
  ASSUME NEW f \in Files, NEW c \in Contents, NEW p \in Texts(f, c),
         p[1] \notin SharedIds(f, c)
  PROVE  p[2] = LastText(c, p[1][2])
<1>1. p[1] \in {f} \X Elements(c) /\ p[2] \in 1..2 /\ p[2] <= LastText(c, p[1][2])
  BY DEF Texts
<1>2. p[1][2] \notin c.twice
  BY <1>1 DEF SharedIds
<1>3. LastText(c, p[1][2]) = 1
  BY <1>2 DEF LastText
<1> QED
  BY <1>1, <1>3

(* The first build.                                                         *)
LEMMA BuildSearch ==
  ASSUME NEW g \in Graphs
  PROVE  LET b == Bm25Of(g)
             shared == UNION {SharedIds(f, g.contents[f]) : f \in Indexed(g)}
         IN  /\ \A p \in b.posts : p[1] \in shared \/ p \in b.docs
             /\ b.numDocs >= Cardinality(b.docs)
             /\ shared = {} => b.numDocs = Cardinality(b.docs)
<1> DEFINE texts == UNION {Texts(f, g.contents[f]) : f \in Indexed(g)}
           last == {p \in texts : p[2] = LastText(g.contents[p[1][1]], p[1][2])}
           shared == UNION {SharedIds(f, g.contents[f]) : f \in Indexed(g)}
<1>1. \A f \in Indexed(g) : f \in Files /\ g.contents[f] \in Contents
  BY DEF Indexed, Graphs
<1>2. ASSUME NEW p \in texts, p[1] \notin shared PROVE p \in last
  <2>1. PICK f \in Indexed(g) : p \in Texts(f, g.contents[f])
    OBVIOUS
  <2>2. p[1] \notin SharedIds(f, g.contents[f]) /\ p[1][1] = f
    BY <1>2, <2>1 DEF Texts
  <2>3. p[2] = LastText(g.contents[f], p[1][2])
    BY <1>1, <2>1, <2>2, OnlyText
  <2> QED
    BY <2>2, <2>3
<1>3. texts \in SUBSET Postings
  BY <1>1, TextsType
<1>4. last \subseteq texts
  OBVIOUS
<1>5. Bm25Of(g).docs = last /\ Bm25Of(g).posts = texts /\ Bm25Of(g).numDocs = Cardinality(texts)
  BY DEF Bm25Of
<1> HIDE DEF texts, last, shared
<1>6. last \in SUBSET Postings
  BY <1>3, <1>4
<1>7. /\ IsFiniteSet(texts) /\ Cardinality(texts) \in Nat
      /\ IsFiniteSet(last) /\ Cardinality(last) \in Nat
  BY <1>3, <1>6, PostingsFinite
<1>8. Cardinality(last) <= Cardinality(texts)
  BY <1>4, <1>7, FS_Subset, Zenon
<1>9. shared = {} => last = texts
  BY <1>2, <1>4
<1> QED
  BY <1>2, <1>5, <1>7, <1>8, <1>9 DEF shared

(* Every step keeps the account of what is left behind.                     *)
LEMMA SearchStep ==
  ASSUME IInv, DocsInv, SearchInv, [Next]_vars
  PROVE  SearchInv'
<1>0. graph \in Graphs /\ bm25 \in Bm25s
  BY DEF IInv, TypeOK
<1>1. CASE UNCHANGED <<task, bm25, twins>>
  BY <1>1 DEF SearchInv, PostsInv, NumInv, Built
<1>2. CASE WalkLists \/ IndexPanics \/ Publish \/ \E f \in Files : WalkReads(f)
  BY <1>2 DEF WalkLists, IndexPanics, Publish, WalkReads, SearchInv, PostsInv, NumInv,
     Built, indexVars
<1>3. CASE BuildIndex
  <2>1. CASE Indexed(graph) = {}
    BY <1>3, <2>1 DEF BuildIndex, SearchInv, Built, indexVars
  <2>2. CASE Indexed(graph) # {}
    <3>1. /\ bm25' = Bm25Of(graph) /\ task' = "built"
          /\ twins' = UNION {SharedIds(f, graph.contents[f]) : f \in Indexed(graph)}
      BY <1>3, <2>2 DEF BuildIndex
    <3>2. PostsInv' /\ NumInv'
      BY <1>0, <3>1, BuildSearch DEF PostsInv, NumInv
    <3> QED
      BY <3>1, <3>2 DEF SearchInv, Built
  <2> QED
    BY <2>1, <2>2
<1>4. CASE ApplyRemoved
  <2> DEFINE ids == UNION {ElementIds(graph, f) : f \in batch.removed}
  <2>1. Built /\ task' = task /\ twins' = twins /\ bm25' = RemoveDocuments(bm25, ids)
    BY <1>4 DEF ApplyRemoved, IInv, TaskInv, Built, taskVars
  <2> HIDE DEF ids
  <2>2. PostsInv /\ NumInv
    BY <2>1 DEF SearchInv
  <2>3. PostsInv'
    BY <2>1, <2>2 DEF PostsInv, RemoveDocuments
  <2>4. NumInv'
    BY <1>0, <2>1, <2>2, RemoveCount DEF NumInv, Bm25s
  <2> QED
    BY <2>1, <2>3, <2>4 DEF SearchInv, Built
<1>5. ASSUME NEW f \in Files, ApplyChanged(f), disk[f] # None PROVE SearchInv'
  <2> DEFINE b == RemoveDocuments(bm25, ElementIds(graph, f))
             c == disk[f]
  <2>1. c \in Contents /\ Built /\ task' = task
    BY <1>5 DEF ApplyChanged, IInv, TypeOK, TaskInv, Built, taskVars
  <2>2. bm25' = AddDocuments(b, f, c) /\ twins' = twins \cup SharedIds(f, c)
    BY <1>5 DEF ApplyChanged
  <2>3. PostsInv /\ NumInv
    BY <2>1 DEF SearchInv
  <2>4. \A p \in b.posts : p[1] \in twins \/ p \in b.docs
    BY <2>3 DEF PostsInv, RemoveDocuments
  <2>5. /\ b \in Bm25s /\ b.numDocs >= Cardinality(b.docs)
        /\ twins = {} => b.numDocs = Cardinality(b.docs)
    <3>1. /\ Cardinality(bm25.docs) \in Nat /\ Cardinality(b.docs) \in Nat
          /\ b.numDocs \in Nat
          /\ b.numDocs - Cardinality(b.docs) = bm25.numDocs - Cardinality(bm25.docs)
      BY <1>0, <2>3, RemoveCount DEF NumInv
    <3>2. b \in Bm25s /\ bm25.numDocs \in Nat
      BY <1>0, RemoveDocumentsType DEF Bm25s
    <3> HIDE DEF b
    <3> QED
      BY <2>3, <3>1, <3>2 DEF NumInv
  <2>6. \A d \in b.docs : d[1][1] # f
    <3>1. ElementIds(graph, f) = UNION {ElementIds(graph, h) : h \in {f}}
      OBVIOUS
    <3>2. DocsExact(b, RemoveFiles(graph, {f}))
      BY <1>0, <2>1, <3>1, RemoveDocsExact DEF DocsInv
    <3>3. RemoveFiles(graph, {f}).contents =
            [h \in Files |-> IF h \in {f} THEN None ELSE graph.contents[h]]
      BY <1>0, RemoveFilesSound
    <3> HIDE DEF b
    <3> QED
      BY <3>2, <3>3 DEF DocsExact, LastTexts, HasSource, Indexed
  <2> HIDE DEF b, c
  <2>7. /\ bm25'.docs = b.docs \cup {p \in Texts(f, c) : p[2] = LastText(c, p[1][2])}
        /\ bm25'.posts = b.posts \cup Texts(f, c)
        /\ bm25'.numDocs >= Cardinality(bm25'.docs)
        /\ c.twice = {} /\ b.numDocs = Cardinality(b.docs) =>
             bm25'.numDocs = Cardinality(bm25'.docs)
    BY <2>1, <2>2, <2>5, <2>6, AddCount
  <2>8. PostsInv'
    <3> SUFFICES ASSUME NEW p \in bm25'.posts, p[1] \notin twins' PROVE p \in bm25'.docs
      BY DEF PostsInv
    <3>1. CASE p \in b.posts
      BY <2>2, <2>4, <2>7, <3>1
    <3>2. CASE p \in Texts(f, c)
      <4>1. p[2] = LastText(c, p[1][2])
        BY <2>1, <2>2, <3>2, OnlyText
      <4> QED
        BY <2>7, <3>2, <4>1
    <3> QED
      BY <2>7, <3>1, <3>2
  <2>9. NumInv'
    <3>1. twins' = {} => twins = {} /\ c.twice = {}
      BY <2>1, <2>2, SharedIdsFacts
    <3> QED
      BY <2>5, <2>7, <3>1 DEF NumInv
  <2> QED
    BY <2>1, <2>8, <2>9 DEF SearchInv, Built
<1>6. CASE Edit \/ StartWatcher \/ StartWatcherFails \/ Drain \/ UNCHANGED vars
           \/ \E f \in Files : ApplyChanged(f) /\ disk[f] = None
  <2>1. UNCHANGED <<task, bm25, twins>>
    BY <1>6 DEF Edit, WriteFile, DeleteFile, RenameFile, MayEdit, StartWatcher,
       StartWatcherFails, Drain, ApplyChanged, vars, taskVars, indexVars
  <2> QED
    BY <1>1, <2>1
<1> QED
  BY <1>2, <1>3, <1>4, <1>5, <1>6 DEF Next, IndexTask, WatchTask

(* The keyword index in every state: `documents' is exact, and what else is *)
(* in the inverted index or the count comes from shared ids.                *)
THEOREM SearchInvariance == Spec => [](DocsInv /\ SearchInv)
<1>1. Init => DocsInv /\ SearchInv
  BY DEF Init, DocsInv, SearchInv, Built
<1>2. IInv /\ DocsInv /\ SearchInv /\ [Next]_vars => DocsInv' /\ SearchInv'
  BY DocsStep, SearchStep
<1> QED
  BY <1>1, <1>2, IndexInvariance, PTL DEF Spec

(* SearchHitsHaveSource: for any sources, a hit of search_code that         *)
(* get_code_source does not know has an id that two definitions of a file   *)
(* have shared.                                                             *)
THEOREM HitsHaveSource == Spec => []SearchHitsHaveSource
<1>1. IInv /\ DocsInv /\ SearchInv => SearchHitsHaveSource
  <2> SUFFICES ASSUME IInv, DocsInv, SearchInv, NEW p \in bm25.posts, p[1] \notin twins
               PROVE  p[1] \in UNION {ElementIds(graph, f) : f \in Files}
    BY DEF SearchHitsHaveSource, SearchHits
  <2>1. Built /\ p \in LastTexts(graph)
    BY DEF SearchInv, PostsInv, EmptyBm25, DocsInv, DocsExact
  <2>2. p[1] \in Nodes /\ HasSource(graph, p[1])
    BY <2>1 DEF LastTexts, Postings
  <2>3. p[1] \in ElementIds(graph, p[1][1]) /\ p[1][1] \in Files
    BY <2>2 DEF HasSource, ElementIds, Nodes, Indexed
  <2> QED
    BY <2>3
<1> QED
  BY <1>1, SearchInvariance, IndexInvariance, PTL

(* CountIsRight: for any sources, num_docs is never too small after any     *)
(* sequence of re-indexings, and too large only once ids were shared.       *)
THEOREM CountStaysRight == Spec => []CountIsRight
<1>1. IInv /\ SearchInv => CountIsRight
  BY DEF IInv, TaskInv, Built, SearchInv, NumInv, CountIsRight
<1> QED
  BY <1>1, SearchInvariance, IndexInvariance, PTL
=============================================================================
