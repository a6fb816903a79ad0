\* Three cores.  The writers' counters wrap around after every third writer;
\* core_num starts with any number; two levels of nesting, value in two bits.
SPECIFICATION LocksSpec
CONSTANTS
  Core = {0, 1, 2}
  Wrap = 3
  Invalid = 128
  MaxDepth = 2
  Word = 4
INVARIANTS Exclusion RecExclusion RecLevelsCounted
PROPERTIES ReaderBarsWriters PreferenceKept WritersServed ReadersServed
           RecLeftoverShortLived RecReentryNeverBlocks
