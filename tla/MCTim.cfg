\* Four buckets of two cycles, ticks as long as a bucket, two entries in two
\* chunks of two.  The longest time, of four ticks, is a whole turn of the wheel:
\* cvmx_tim_add_entry accepts it, and nothing is claimed of what follows, so that
\* such a state is checked and not explored further.
SPECIFICATION Spec
CONSTANTS
  BucketLen = 2
  TickCycles = 2
  MaxTicks = 4
  Entries = 2
  Chunk = {c1, c2}
  Work = {w1, w2}
  MaxDelay = 1
  None = None
INVARIANTS WheelSound DeleteHitsEntry
PROPERTY FiresWhenDue
CONSTRAINT NoWrap
SYMMETRY Symmetry
