------------------------------- MODULE MCBootmem -------------------------------
(* Requests and memory for the model checker.  Addresses below 32 in headers   *)
(* of 2: the bootloader left a block of 8 at 4 and one of 4 at 16.             *)
EXTENDS CvmxBootmem

MCInitFree == [a \in {4, 16} |-> IF a = 4 THEN 8 ELSE 4]

Rng(s, align, min, max) ==
  [op |-> "range", size |-> s, min |-> min, max |-> max, align |-> align, name |-> "a"]
NamedRange(s, align, min, max, n) ==
  [op |-> "named", size |-> s, min |-> min, max |-> max, align |-> align, name |-> n]
Named(o, n) ==
  [op |-> o, size |-> 0, min |-> 0, max |-> 0, align |-> 0, name |-> n]
Avail(s) ==
  [op |-> "avail", size |-> s, min |-> 0, max |-> 0, align |-> 0, name |-> "a"]

\* cvmx_bootmem_alloc, cvmx_bootmem_alloc_address with address + size as the
\* maximum, exact places given by the minimum alone, ranges (the alignment of one
\* moves the base above its maximum), and the walk that adds up the free blocks
MCRequest ==
  { Rng(0, 0, 0, 0), Rng(2, 8, 0, 0), Rng(2, 0, 10, 12), Rng(2, 0, 7, 0),
    Rng(2, 8, 0, 6),
    NamedRange(3, 4, 6, 18, "a"), NamedRange(2, 0, 6, 0, "b"),
    NamedRange(5, 0, 0, 0, "c"),
    Named("free", "a"), Named("free", "b"), Named("free", "c"), Named("find", "a"),
    Avail(4) }
=============================================================================
