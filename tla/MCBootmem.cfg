\* Two cores, memory for six headers in two separate pieces, two descriptors
\* for three names.
SPECIFICATION FairSpec
CONSTANTS
  Core = {1, 2}
  Word = 32
  AlignSize = 2
  InitFree <- MCInitFree
  Names = {"a", "b", "c"}
  NumNamed = 2
  Request <- MCRequest
INVARIANTS FreeListSound AnswersRight
PROPERTY PoolServed
