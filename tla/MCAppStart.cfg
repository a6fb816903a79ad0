\* Three CPUs whose forks and affinity calls may fail; the application then
\* uses three coremasks that overlap, with room for two in the barrier's table
\* and exit counts modulo 2.  A core may stop at the bound, at a barrier others
\* never reach, in assert(0), or wait for a fork that failed.
SPECIFICATION StartSpec
CONSTANTS
  Core = {0, 1, 2}
  Masks <- MCMasks
  AppMasks = {{0, 1, 2}, {0, 1}, {2}}
  MaxSyncs = 2
  Wrap = 2
  MaxRounds = 3
  Faults = TRUE
INVARIANTS NoEarlyExit ExitNotMissed StartSound
PROPERTIES BarrierOpens AllStart
CHECK_DEADLOCK FALSE
