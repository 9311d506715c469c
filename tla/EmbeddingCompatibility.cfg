\* Five calls of two stores with three embedders of two models; fairness of
\* queries.
SPECIFICATION FairSpec
CONSTANTS
  s1 = s1
  s2 = s2
  c1 = c1
  c2 = c2
  c3 = c3
  c4 = c4
  c5 = c5
  ea = ea
  eb = eb
  ew = ew
  A = A
  B = B
  Stores = {s1, s2}
  Embedders = {ea, eb, ew}
  Models = {A, B}
  ModelOf <- MCModelOf
  Fitting = {ea, eb}
  Calls = {c1, c2, c3, c4, c5}
  StoreOf <- MCStoreOf
  EmbedderOf <- MCEmbedderOf
  Unset = Unset
  Missing = Missing
INVARIANTS
  OneVectorSpace
  EmbeddingInv
PROPERTIES
  EveryCallEnds
