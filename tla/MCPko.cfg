\* Two cores, three buffers with room for two commands each.
SPECIFICATION FairSpec
CONSTANTS
  Core = {1, 2}
  Packet = {p1, p2}
  Buffer = {b1, b2, b3}
  PoolWords = 6
  None = None
INVARIANT QueueSound
PROPERTY FifoServed
