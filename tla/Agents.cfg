SPECIFICATION Spec
CONSTANTS
  a1 = a1
  a2 = a2
  t1 = t1
  t2 = t2
  n1 = n1
  n2 = n2
  None = None
  Actors <- MCTwoActors
  Agents <- MCAgents
  Names <- MCNames
  MaxThreads = 2
INVARIANTS CountCovers NamesDistinct
PROPERTY RefinesPool
SYMMETRY MCSymmetry
