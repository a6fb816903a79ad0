------------------------------- MODULE CvmxTim -------------------------------
(***************************************************************************)
(* The timer wheel of the Octeon executive (cvmx-tim.h, cvmx-tim.c): one   *)
(* ring of buckets that software fills and the timer hardware empties with *)
(* no lock between them.  A bucket is a list of chunks from an FPA pool;   *)
(* each chunk holds work entries and, in its last word, the next chunk.    *)
(*                                                                         *)
(* The ring of one core is modelled; other rings share only the pool.      *)
(* Time is relative so that the wheel can turn for ever: now counts cycles *)
(* modulo one revolution, stored times count down.                         *)
(***************************************************************************)
EXTENDS Integers, FiniteSets

CONSTANTS
  BucketLen,   \* cycles per bucket, 1 << bucket_shift
  TickCycles,  \* tick_cycles: cycles per tick of the caller
  MaxTicks,    \* max_ticks
  Entries,     \* entries_per_chunk
  Chunk,       \* the chunks of CVMX_FPA_TIMER_POOL
  Work,        \* work queue entries
  MaxDelay,    \* cycles between reading the clock and writing the bucket
  None

\* the shift is chosen so that a tick is at least one bucket long
ASSUME TimeAssumption ==
  /\ {BucketLen, TickCycles, MaxTicks, Entries} \subseteq Nat \ {0}
  /\ BucketLen <= TickCycles
  /\ MaxDelay \in Nat
ASSUME ChunkAssumption == IsFiniteSet(Chunk)
\* About the software's environment, which the code cannot see to: between reading
\* the clock and writing the bucket less time passes than the two ticks that an
\* entry is at least ahead, but for the bucket that the rounding may cost.
ASSUME DelayAssumption == MaxDelay <= 2 * TickCycles - BucketLen
ASSUME NoneAssumption == None \notin Chunk \cup Work \cup Nat

VARIABLES
  now,      \* cycles since the wheel's last revolution
  hw,       \* the hardware has yet to visit, visits, or has left this bucket
  running,  \* enable_timers
  bucket,   \* first_chunk_addr, num_entries, chunk_remainder, last_chunk
  mem,      \* the contents of the chunks
  pool,     \* the chunks in the pool
  call,     \* the call software is in: an entry to add or to delete
  info,     \* the cvmx_tim_delete_t of each work entry
  due,      \* history: bucket periods until the entry is due, None if not set
  wrapped   \* history: a time was accepted that is a turn of the wheel ahead

wheel == <<bucket, mem, pool>>
vars  == <<now, hw, running, bucket, mem, pool, call, info, due, wrapped>>

-----------------------------------------------------------------------------
(* cvmx_tim_setup *)

\* the bits are smeared to the right of the highest one, then 1 is added
Pow2At(n) == \E k \in 0 .. n : n = 2^k

NumBuckets ==
  LET temp == (MaxTicks * TickCycles) \div BucketLen
  IN CHOOSE n \in temp .. 2 * temp :
       Pow2At(n) /\ \A m \in temp .. n - 1 : ~Pow2At(m)

\* cvmx_tim_setup refuses fewer
ASSUME BucketsAssumption == NumBuckets \in Nat /\ NumBuckets >= 3

Buckets == 0 .. NumBuckets - 1
Current == now \div BucketLen

NoCall == [op |-> "none", work |-> None, bucket |-> 0, ticks |-> 0, age |-> 0]
NoInfo == [left |-> 0, chunk |-> None, slot |-> 0]
Empty  == [first |-> None, num |-> 0, rem |-> 0, last |-> None]
Blank  == [entry |-> [i \in 0 .. Entries - 1 |-> None], next |-> None]

TypeOK ==
  /\ now \in 0 .. NumBuckets * BucketLen - 1
  /\ hw \in {"todo", "busy", "done"}
  /\ running \in BOOLEAN
  /\ bucket \in [Buckets -> [first : Chunk \cup {None}, num : 0 .. Entries * Cardinality(Chunk),
                             rem : 0 .. Entries - 1, last : Chunk \cup {None}]]
  /\ mem \in [Chunk -> [entry : [0 .. Entries - 1 -> Work \cup {None}],
                        next : Chunk \cup {None}]]
  /\ pool \in SUBSET Chunk
  /\ call \in [op : {"none", "add", "delete"}, work : Work \cup {None},
               bucket : Buckets, ticks : 0 .. MaxTicks + 1, age : 0 .. MaxDelay]
  /\ info \in [Work -> [left : 0 .. MaxTicks * TickCycles,
                        chunk : Chunk \cup {None}, slot : 0 .. Entries - 1]]
  /\ due \in [Work -> 0 .. 2 * NumBuckets \cup {None}]
  /\ wrapped \in BOOLEAN

\* cvmx_tim_setup and the first cvmx_tim_start
Init ==
  /\ now = 0 /\ hw = "todo" /\ running = TRUE
  /\ bucket = [b \in Buckets |-> Empty]
  /\ mem = [c \in Chunk |-> Blank]
  /\ pool = Chunk
  /\ call = NoCall
  /\ info = [w \in Work |-> NoInfo]
  /\ due = [w \in Work |-> None]
  /\ wrapped = FALSE

-----------------------------------------------------------------------------
(* cvmx_tim_add_entry *)

\* "Two buckets forward should be safe"
Soonest(ticks) == IF ticks < 2 THEN 2 ELSE ticks

WorkBucket(ticks) == (ticks * TickCycles + now) \div BucketLen

\* the bucket is a whole turn of the wheel ahead, or more
Wraps(t) == WorkBucket(t) - Current >= NumBuckets

\* The clock is read and the bucket chosen; later than MaxTicks is refused.  That
\* refuses no time that wraps when MaxTicks fills the wheel, and the two ticks of
\* Soonest are not compared at all.
AddEntry(w, ticks) ==
  LET t == Soonest(ticks)
  IN /\ running /\ call = NoCall /\ due[w] = None
     /\ ticks <= MaxTicks
     /\ call' = [op |-> "add", work |-> w, bucket |-> WorkBucket(t) % NumBuckets,
                 ticks |-> t, age |-> 0]
     /\ due' = [due EXCEPT ![w] = WorkBucket(t) - Current]
     /\ wrapped' = (wrapped \/ Wraps(t))
     /\ UNCHANGED <<now, hw, running, wheel, info>>

\* faulty: the commit time is the time the entry is due
Commit_Due(t) == t * TickCycles

Commit(t) == (t - 2) * TickCycles

\* the delete_info, filled in for the entry at slot i of chunk c
Remember(c, i) ==
  LET left == Commit(call.ticks) - call.age
  IN info' = [info EXCEPT ![call.work] =
                [left |-> IF left < 0 THEN 0 ELSE left, chunk |-> c, slot |-> i]]

Slot(b) == Entries - b.rem

\* room in the last chunk
AddToChunk ==
  LET b == bucket[call.bucket]
  IN /\ call.op = "add" /\ b.rem # 0
     /\ mem' = [mem EXCEPT ![b.last].entry[Slot(b)] = call.work]
     /\ bucket' = [bucket EXCEPT ![call.bucket].rem = b.rem - 1,
                                 ![call.bucket].num = b.num + 1]
     /\ Remember(b.last, Slot(b))
     /\ call' = NoCall
     /\ UNCHANGED <<now, hw, running, pool, due, wrapped>>

\* faulty: the chunk pointer tells whether there is a chunk
HasChunk_Pointer(b) == b.first # None

\* "the hardware doesn't NULL out the chunk pointers on free"
HasChunk(b) == b.num # 0

Remainder == Entries - 1

\* the bucket is empty or its last chunk full.  The new chunk's next word is left
\* as it is: num_entries bounds the list.
AddChunk ==
  LET b == bucket[call.bucket]
  IN /\ call.op = "add" /\ b.rem = 0
     /\ \E c \in pool :
          /\ pool' = pool \ {c}
          /\ mem' = LET m == [mem EXCEPT ![c].entry[0] = call.work]
                    IN IF HasChunk(b) THEN [m EXCEPT ![b.last].next = c] ELSE m
          /\ bucket' = [bucket EXCEPT ![call.bucket] =
                          [first |-> IF HasChunk(b) THEN b.first ELSE c,
                           num |-> b.num + 1, rem |-> Remainder, last |-> c]]
          /\ Remember(c, 0)
     /\ call' = NoCall
     /\ UNCHANGED <<now, hw, running, due, wrapped>>

\* CVMX_TIM_STATUS_NO_MEMORY
AddFails ==
  /\ call.op = "add" /\ bucket[call.bucket].rem = 0 /\ pool = {}
  /\ due' = [due EXCEPT ![call.work] = None]
  /\ call' = NoCall
  /\ UNCHANGED <<now, hw, running, wheel, info, wrapped>>

-----------------------------------------------------------------------------
(* cvmx_tim_delete_entry *)

\* before commit_cycles, else CVMX_TIM_STATUS_BUSY
DeleteEntry(w) ==
  /\ running /\ call = NoCall
  /\ info[w].chunk # None
  /\ info[w].left > 0
  /\ call' = [NoCall EXCEPT !.op = "delete", !.work = w]
  /\ UNCHANGED <<now, hw, running, wheel, info, due, wrapped>>

\* faulty: the entry stays in its chunk
ZeroEntry_Left ==
  /\ call.op = "delete"
  /\ info' = [info EXCEPT ![call.work] = NoInfo]
  /\ due' = [due EXCEPT ![call.work] = None]
  /\ call' = NoCall
  /\ UNCHANGED <<now, hw, running, wheel, wrapped>>

ZeroEntry ==
  LET d == info[call.work]
  IN /\ call.op = "delete"
     /\ mem' = [mem EXCEPT ![d.chunk].entry[d.slot] = None]
     /\ info' = [info EXCEPT ![call.work] = NoInfo]
     /\ due' = [due EXCEPT ![call.work] = None]
     /\ call' = NoCall
     /\ UNCHANGED <<now, hw, running, bucket, pool, wrapped>>

-----------------------------------------------------------------------------
(* the timer hardware and the clock *)

\* the n-th chunk of a bucket's list
ChunkAt(b, n) ==
  LET hop[i \in 0 .. n] == IF i = 0 THEN b.first ELSE mem[hop[i - 1]].next
  IN hop[n]

ChunksOf(b) == {ChunkAt(b, i \div Entries) : i \in 0 .. b.num - 1}
EntriesOf(b) ==
  {mem[ChunkAt(b, i \div Entries)].entry[i % Entries] : i \in 0 .. b.num - 1} \ {None}

HwBegin ==
  /\ running /\ hw = "todo"
  /\ hw' = "busy"
  /\ UNCHANGED <<now, running, wheel, call, info, due, wrapped>>

\* chunks in the pool are anyone's: nothing of their contents can be relied on
Wiped(cs) == mem' = [c \in Chunk |-> IF c \in cs THEN Blank ELSE mem[c]]

\* the list is traversed, its entries become work, its chunks are freed and the
\* two counters zeroed; the pointers stay
HwEnd ==
  LET b == bucket[Current]
  IN /\ hw = "busy"
     /\ hw' = "done"
     /\ pool' = pool \cup ChunksOf(b)
     /\ Wiped(ChunksOf(b))
     /\ bucket' = [bucket EXCEPT ![Current].num = 0, ![Current].rem = 0]
     /\ due' = [w \in Work |-> IF w \in EntriesOf(b) THEN None ELSE due[w]]
     /\ UNCHANGED <<now, running, call, info, wrapped>>

\* a cycle passes; a bucket period ends when the hardware is done with it.  A
\* delete_info past its commit time is of no more use.
Tick ==
  LET next == (now + 1) % (NumBuckets * BucketLen)
      over == next \div BucketLen # Current
  IN /\ running
     /\ call # NoCall => call.age < MaxDelay
     /\ over => hw = "done"
     /\ now' = next
     /\ hw' = IF over THEN "todo" ELSE hw
     /\ call' = IF call = NoCall THEN call ELSE [call EXCEPT !.age = @ + 1]
     /\ info' = [w \in Work |-> IF info[w].left > 1 \/ (call.work = w /\ info[w].left = 1)
                                  THEN [info[w] EXCEPT !.left = @ - 1]
                                ELSE IF call.work = w THEN info[w] ELSE NoInfo]
     /\ due' = [w \in Work |-> IF over /\ due[w] \notin {None, 0} THEN due[w] - 1
                               ELSE due[w]]
     /\ UNCHANGED <<running, wheel, wrapped>>

-----------------------------------------------------------------------------
(* cvmx_tim_shutdown *)

\* one chunk is freed for each started run of entries_per_chunk entries
Freed(b) == {ChunkAt(b, i) : i \in 0 .. ((b.num + Entries - 1) \div Entries) - 1}

\* the application has no call in progress and the hardware is stopped
Shutdown ==
  /\ running /\ call = NoCall /\ hw # "busy"
  /\ running' = FALSE
  /\ pool' = pool \cup UNION {Freed(bucket[b]) : b \in Buckets}
  /\ Wiped(pool')
  /\ bucket' = [b \in Buckets |-> [bucket[b] EXCEPT !.num = 0]]
  /\ info' = [w \in Work |-> NoInfo]
  /\ due' = [w \in Work |-> None]
  /\ UNCHANGED <<now, hw, call, wrapped>>

\* cvmx_tim_setup takes new, zeroed buckets; cvmx_tim_start
Setup ==
  /\ ~running
  /\ running' = TRUE
  /\ now' = 0 /\ hw' = "todo"
  /\ bucket' = [b \in Buckets |-> Empty]
  /\ UNCHANGED <<mem, pool, call, info, due, wrapped>>

-----------------------------------------------------------------------------
Software ==
  \/ \E w \in Work, ticks \in 0 .. MaxTicks + 1 : AddEntry(w, ticks)
  \/ AddToChunk \/ AddChunk \/ AddFails
  \/ \E w \in Work : DeleteEntry(w)
  \/ ZeroEntry
  \/ Shutdown \/ Setup

Next == Software \/ HwBegin \/ HwEnd \/ Tick

Spec == Init /\ [][Next]_vars

-----------------------------------------------------------------------------
Scheduled == {w \in Work : due[w] # None /\ call.work # w}

\* Every chunk is in the pool or in the list of exactly one bucket, and no list
\* runs into another: what the hardware frees is never still in use.
ChunksConserved ==
  running =>
    /\ \A b \in Buckets : ChunksOf(bucket[b]) \cap (pool \cup {None}) = {}
    /\ \A a, b \in Buckets : a # b => ChunksOf(bucket[a]) \cap ChunksOf(bucket[b]) = {}
    /\ Cardinality(pool) + Cardinality(UNION {ChunksOf(bucket[b]) : b \in Buckets})
         = Cardinality(Chunk)

\* A shutdown returns every chunk to the pool.
ShutdownReturnsAll == ~running => pool = Chunk

\* A scheduled entry is in the list of one bucket only, the one the hardware
\* reaches when the entry is due.
InItsBucket ==
  \A w \in Scheduled : \A b \in Buckets :
    w \in EntriesOf(bucket[b]) <=> b = (Current + due[w]) % NumBuckets

\* "we can't update a timer that is being used by the hardware": the bucket an
\* add is about to write is neither being traversed nor next in line.
BucketAtRest == call.op = "add" => call.bucket # Current \/ hw = "done"

\* As long as no accepted time has wrapped, a delete that passed the commit time
\* writes to the entry itself: its chunk was not freed, let alone allocated
\* again, and is not being traversed.
DeleteHitsEntry ==
  ~wrapped /\ call.op = "delete" =>
    LET d == info[call.work]
    IN /\ d.chunk \notin pool
       /\ mem[d.chunk].entry[d.slot] = call.work
       /\ ~(hw = "busy" /\ d.chunk \in ChunksOf(bucket[Current]))

\* As long as no accepted time has wrapped, an entry becomes work in the bucket
\* period it was scheduled for, never a turn of the wheel early, and a deleted
\* one never does.
FiresWhenDue ==
  [][~wrapped /\ hw = "busy" /\ hw' = "done" =>
       \A w \in EntriesOf(bucket[Current]) : due[w] = 0]_vars

\* "Make sure the specified time won't wrap our bucket list" (cvmx-tim.h:209):
\* the bucket of an accepted time is less than one turn of the wheel ahead.
NoWrap == ~wrapped

\* As long as no accepted time has wrapped, the wheel is in order whenever
\* software or hardware looks at it: no chunk is lost or used twice, every entry
\* waits in its own bucket, and software writes to no bucket the hardware is at.
WheelSound ==
  wrapped \/ (TypeOK /\ ChunksConserved /\ ShutdownReturnsAll /\ InItsBucket /\ BucketAtRest)
=============================================================================
