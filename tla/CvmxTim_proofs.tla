---------------------------- MODULE CvmxTim_proofs ----------------------------
(***************************************************************************)
(* Proofs about CvmxTim, for any wheel, chunks and work entries: the wheel *)
(* stays in order, a delete hits its own entry and entries fire when they  *)
(* are due, for as long as no time was accepted that is a turn of the      *)
(* wheel ahead.                                                            *)
(***************************************************************************)
EXTENDS CvmxTim, FiniteSetTheorems, WellFoundedInduction, NaturalsInduction,
        TLAPS

\* cycles until the bucket of an entry begins, and which bucket it is
Rest(w)   == due[w] * BucketLen - (now % BucketLen)
Target(w) == (Current + due[w]) % NumBuckets

\* the add in progress is of this entry
Adding(w) == call.op = "add" /\ call.work = w

\* the delete_info of an entry can still be used
Usable(w) ==
  /\ info[w].chunk # None
  /\ info[w].left > 0 \/ (call.op = "delete" /\ call.work = w)

Types ==
  /\ now \in 0 .. NumBuckets * BucketLen - 1
  /\ hw \in {"todo", "busy", "done"}
  /\ running \in BOOLEAN
  /\ bucket \in [Buckets -> [first : Chunk \cup {None}, num : Nat,
                             rem : 0 .. Entries - 1, last : Chunk \cup {None}]]
  /\ mem \in [Chunk -> [entry : [0 .. Entries - 1 -> Work \cup {None}],
                        next : Chunk \cup {None}]]
  /\ pool \in SUBSET Chunk
  /\ call \in [op : {"none", "add", "delete"}, work : Work \cup {None},
               bucket : Buckets, ticks : 0 .. MaxTicks + 1, age : 0 .. MaxDelay]
  /\ info \in [Work -> [left : 0 .. MaxTicks * TickCycles,
                        chunk : Chunk \cup {None}, slot : 0 .. Entries - 1]]
  /\ due \in [Work -> 0 .. NumBuckets - 1 \cup {None}]

\* how far away every entry is
TimedEntry(w) ==
  /\ due[w] # None /\ hw = "done" => due[w] >= 1
  /\ Adding(w) => /\ due[w] # None /\ call.bucket = Target(w) /\ call.ticks >= 2
                  /\ Rest(w) >= call.ticks * TickCycles - call.age - BucketLen + 1
  /\ info[w].chunk # None /\ info[w].left > 0 =>
       due[w] # None /\ Rest(w) >= info[w].left + 2 * TickCycles - BucketLen + 1
  /\ call.op = "delete" /\ call.work = w =>
       /\ info[w].chunk # None /\ due[w] # None
       /\ Rest(w) >= 2 * TickCycles - BucketLen + 2 - call.age

Timed ==
  /\ \A w \in Work : TimedEntry(w)
  /\ call.op = "none" => call = NoCall
  /\ call.op # "none" => call.work \in Work

\* the i-th chunk of bucket b is ch[b][i], and it has k[b] of them
Chains(k, ch) ==
  /\ k \in [Buckets -> Nat] /\ ch \in [Buckets -> [Nat -> Chunk \cup {None}]]
  /\ \A b \in Buckets, i \in Nat : i < k[b] => ch[b][i] \in Chunk /\ ch[b][i] \notin pool
  /\ \A a, b \in Buckets, i, j \in Nat :
       i < k[a] /\ j < k[b] /\ ch[a][i] = ch[b][j] => a = b /\ i = j
  /\ \A b \in Buckets, i \in Nat : i + 1 < k[b] => mem[ch[b][i]].next = ch[b][i + 1]
  /\ \A b \in Buckets : k[b] > 0 => bucket[b].first = ch[b][0] /\ bucket[b].last = ch[b][k[b] - 1]
  /\ \A b \in Buckets : bucket[b].num + bucket[b].rem = Entries * k[b]
  /\ \A c \in Chunk : c \in pool \/ \E b \in Buckets, i \in Nat : i < k[b] /\ c = ch[b][i]

\* slot s of the i-th chunk of bucket b is one of the entries that count
Filled(k, b, i, s) ==
  /\ b \in Buckets /\ i \in Nat /\ s \in 0 .. Entries - 1
  /\ i + 1 < k[b] \/ (i + 1 = k[b] /\ s < Entries - bucket[b].rem)

Holds(k, ch, b, i, s, w) == Filled(k, b, i, s) /\ mem[ch[b][i]].entry[s] = w

\* every entry that is set and not being added has one place, in its bucket
Placed(k, ch) ==
  /\ \A w \in Work : \A b, i, s : Holds(k, ch, b, i, s, w) =>
       due[w] # None /\ b = Target(w) /\ ~Adding(w)
  /\ \A w \in Work : \A a, i, s, b, j, t :
       Holds(k, ch, a, i, s, w) /\ Holds(k, ch, b, j, t, w) => a = b /\ i = j /\ s = t
  /\ \A w \in Work : due[w] # None /\ ~Adding(w) => \E b, i, s : Holds(k, ch, b, i, s, w)
  /\ \A w \in Work : Usable(w) =>
       \E b, i : Holds(k, ch, b, i, info[w].slot, w) /\ ch[b][i] = info[w].chunk

\* after a shutdown nothing is left
Off ==
  /\ pool = Chunk /\ hw # "busy" /\ call = NoCall
  /\ \A b \in Buckets : bucket[b].num = 0
  /\ \A w \in Work : due[w] = None /\ info[w] = NoInfo

WheelInv ==
  /\ Types /\ Timed
  /\ running => \E k, ch : Chains(k, ch) /\ Placed(k, ch)
  /\ ~running => Off

-----------------------------------------------------------------------------
(* Numbers *)

LEMMA Sizes ==
  /\ BucketLen \in Nat \ {0} /\ TickCycles \in Nat \ {0} /\ MaxTicks \in Nat \ {0}
  /\ Entries \in Nat \ {0} /\ BucketLen <= TickCycles /\ MaxDelay \in Nat
  /\ NumBuckets \in Nat \ {0} /\ NumBuckets >= 3
  /\ None \notin Chunk /\ None \notin Work /\ None \notin Nat
  BY TimeAssumption, BucketsAssumption, NoneAssumption

LEMMA DivMod ==
  ASSUME NEW a \in Nat \ {0}, NEW x \in Int
  PROVE  /\ x \div a \in Int /\ x % a \in 0 .. a - 1
         /\ x = a * (x \div a) + (x % a)
  OBVIOUS

LEMMA DivUnique ==
  ASSUME NEW a \in Nat \ {0}, NEW q \in Int, NEW m \in 0 .. a - 1, NEW x \in Int, x = a * q + m
  PROVE  x % a = m /\ x \div a = q
  OBVIOUS

\* cycle x of the wheel is cycle m of bucket q
CycleOf(x, q, m) ==
  /\ x \in Int /\ q \in Int /\ m \in Int /\ 0 <= m /\ m < BucketLen
  /\ x = BucketLen * q + m

LEMMA CycleAt ==
  ASSUME NEW x, NEW q, NEW m, CycleOf(x, q, m)
  PROVE  x % BucketLen = m /\ x \div BucketLen = q
<1>1. BucketLen \in Nat \ {0} /\ m \in 0 .. BucketLen - 1 /\ x \in Int /\ q \in Int
      /\ x = BucketLen * q + m
  BY Sizes DEF CycleOf
<1> QED
  BY <1>1, DivUnique

\* products with a positive number keep the order
LEMMA ProductOrder ==
  ASSUME NEW a \in Nat \ {0}, NEW x \in Int, NEW y \in Int
  PROVE  a * x < a * y <=> x < y
<1>1. PICK d \in Int : d = y - x
  OBVIOUS
<1>2. a * y = a * x + a * d
  BY <1>1
<1>3. d > 0 => a * d > 0
  OBVIOUS
<1>4. d <= 0 => a * d <= 0
  OBVIOUS
<1>5. a * x \in Int /\ a * d \in Int
  OBVIOUS
<1> QED
  BY <1>1, <1>2, <1>3, <1>4, <1>5

\* the clock as a bucket and the cycles since it began
LEMMA ClockIs ==
  ASSUME NEW n \in 0 .. NumBuckets * BucketLen - 1
  PROVE  /\ n \div BucketLen \in 0 .. NumBuckets - 1 /\ n % BucketLen \in 0 .. BucketLen - 1
         /\ n = BucketLen * (n \div BucketLen) + (n % BucketLen)
<1>1. n \in Int /\ BucketLen \in Nat \ {0} /\ NumBuckets \in Nat
  BY Sizes
<1>2. PICK q \in Int, r \in 0 .. BucketLen - 1 : q = n \div BucketLen /\ r = n % BucketLen /\ n = BucketLen * q + r
  BY <1>1, DivMod
<1>3. q < NumBuckets
  <2>1. BucketLen * q < BucketLen * NumBuckets
    BY <1>1, <1>2
  <2> QED
    BY <1>1, <2>1, ProductOrder
<1>4. q >= 0
  <2>1. BucketLen * (0 - 1) < BucketLen * q
    BY <1>1, <1>2
  <2> QED
    BY <1>1, <2>1, ProductOrder
<1> QED
  BY <1>1, <1>2, <1>3, <1>4

\* counting on around the wheel
LEMMA Around ==
  ASSUME NEW q \in 0 .. NumBuckets - 1, NEW d \in 0 .. NumBuckets - 1
  PROVE  (q + d) % NumBuckets = IF q + d < NumBuckets THEN q + d ELSE q + d - NumBuckets
<1>1. NumBuckets \in Nat \ {0}
  BY Sizes
<1>2. CASE q + d < NumBuckets
  <2>1. q + d = NumBuckets * 0 + (q + d) /\ q + d \in 0 .. NumBuckets - 1 /\ q + d \in Int
    BY <1>1, <1>2
  <2>2. (q + d) % NumBuckets = q + d
    BY <1>1, <2>1, DivUnique
  <2> QED
    BY <1>2, <2>2
<1>3. CASE ~(q + d < NumBuckets)
  <2>1. /\ q + d = NumBuckets * 1 + (q + d - NumBuckets)
        /\ q + d - NumBuckets \in 0 .. NumBuckets - 1 /\ q + d \in Int
    BY <1>1, <1>3
  <2>2. (q + d) % NumBuckets = q + d - NumBuckets
    BY <1>1, <2>1, DivUnique
  <2> QED
    BY <1>3, <2>2
<1> QED
  BY <1>2, <1>3

\* what a cycle does to the clock
LEMMA TickIs ==
  ASSUME NEW n \in 0 .. NumBuckets * BucketLen - 1, NEW m, m = (n + 1) % (NumBuckets * BucketLen),
         NEW q, NEW r, q = n \div BucketLen, r = n % BucketLen
  PROVE  /\ m \in 0 .. NumBuckets * BucketLen - 1
         /\ r + 1 < BucketLen => m \div BucketLen = q /\ m % BucketLen = r + 1
         /\ r + 1 = BucketLen => m % BucketLen = 0 /\ m \div BucketLen = IF q + 1 < NumBuckets THEN q + 1 ELSE 0
<1>1. BucketLen \in Nat \ {0} /\ NumBuckets \in Nat \ {0} /\ NumBuckets * BucketLen \in Nat \ {0} /\ n \in Int
  BY Sizes
<1>2. q \in 0 .. NumBuckets - 1 /\ r \in 0 .. BucketLen - 1 /\ n = BucketLen * q + r
  BY ClockIs
<1>3. PICK T \in Nat \ {0} : T = NumBuckets * BucketLen
  BY <1>1
<1>4. n + 1 <= T /\ n + 1 \in Nat /\ n + 1 \in Int
  BY <1>1, <1>3
<1>y. PICK y \in Int : y = n + 1
  BY <1>4
<1>5. n + 1 < T => m = n + 1
  <2>1. n + 1 = T * 0 + (n + 1)
    BY <1>3, <1>4
  <2> QED
    BY <1>3, <1>4, <2>1, DivUnique
<1>6. n + 1 = T => m = 0
  <2>1. T = T * 1 + 0 /\ 0 \in 0 .. T - 1 /\ T \in Int
    BY <1>3
  <2>2. T % T = 0
    BY <1>3, <2>1, DivUnique
  <2> QED
    BY <1>3, <2>2
<1>7. m \in 0 .. NumBuckets * BucketLen - 1
  BY <1>3, <1>4, <1>5, <1>6
<1>8. ASSUME r + 1 < BucketLen PROVE m \div BucketLen = q /\ m % BucketLen = r + 1
  <2>1. n + 1 = BucketLen * q + (r + 1) /\ r + 1 \in 0 .. BucketLen - 1 /\ q \in Int
    BY <1>1, <1>2, <1>8
  <2>2. n + 1 # T
    <3>1. n + 1 = T => (n + 1) % BucketLen = 0
      <4>1. T = BucketLen * NumBuckets + 0 /\ 0 \in 0 .. BucketLen - 1 /\ T \in Int /\ NumBuckets \in Int
        BY <1>1, <1>3
      <4>2. T % BucketLen = 0
        BY <1>1, <4>1, DivUnique
      <4> QED
        BY <4>2
    <3>2. (n + 1) % BucketLen = r + 1
      <4>1. y = BucketLen * q + (r + 1)
        BY <1>y, <2>1
      <4>2. y % BucketLen = r + 1
        <5>1. CycleOf(y, q, r + 1)
          BY <1>1, <2>1, <4>1 DEF CycleOf
        <5> QED
          BY <5>1, CycleAt
      <4> QED
        BY <1>y, <4>2
    <3> QED
      BY <1>2, <3>1, <3>2
  <2>3. m = n + 1
    BY <1>4, <1>5, <2>2
  <2>4. m = BucketLen * q + (r + 1) /\ m \in Int
    BY <1>4, <2>1, <2>3
  <2>5. CycleOf(m, q, r + 1)
    BY <1>1, <2>1, <2>4 DEF CycleOf
  <2> QED
    BY <2>5, CycleAt
<1>9. ASSUME r + 1 = BucketLen PROVE m % BucketLen = 0 /\ m \div BucketLen = IF q + 1 < NumBuckets THEN q + 1 ELSE 0
  <2>1. n + 1 = BucketLen * (q + 1) + 0 /\ 0 \in 0 .. BucketLen - 1 /\ q + 1 \in Int
    BY <1>1, <1>2, <1>9
  <2>2. CASE q + 1 < NumBuckets
    <3>1. BucketLen * (q + 1) < BucketLen * NumBuckets
      BY <1>1, <2>1, <2>2, ProductOrder
    <3>2. n + 1 < T
      BY <1>1, <1>3, <2>1, <3>1
    <3>3. m = BucketLen * (q + 1) + 0 /\ m \in Int
      BY <1>4, <1>5, <2>1, <3>2
    <3>4. m % BucketLen = 0 /\ m \div BucketLen = q + 1
      <4>1. CycleOf(m, q + 1, 0)
        BY <1>1, <2>1, <3>3 DEF CycleOf
      <4> QED
        BY <4>1, CycleAt
    <3> QED
      BY <2>2, <3>4
  <2>3. CASE ~(q + 1 < NumBuckets)
    <3>1. q + 1 = NumBuckets
      BY <1>1, <1>2, <2>3
    <3>2. m = 0
      BY <1>1, <1>3, <1>6, <2>1, <3>1
    <3>3. 0 = BucketLen * 0 + 0
      BY <1>1
    <3>4. 0 % BucketLen = 0 /\ 0 \div BucketLen = 0
      BY <1>1, <2>1, <3>3, DivUnique
    <3> QED
      BY <2>3, <3>2, <3>4
  <2> QED
    BY <2>2, <2>3
<1> QED
  BY <1>7, <1>8, <1>9

\* the bucket of a new entry is ahead
LEMMA AddTimes ==
  ASSUME NEW n \in 0 .. NumBuckets * BucketLen - 1, NEW t \in 2 .. MaxTicks + 1
  PROVE  LET d == (t * TickCycles + n) \div BucketLen - n \div BucketLen
         IN /\ d \in Nat /\ d >= 1
            /\ d * BucketLen - (n % BucketLen) >= t * TickCycles - BucketLen + 1
<1>1. /\ BucketLen \in Nat \ {0} /\ TickCycles \in Nat \ {0} /\ MaxTicks \in Nat \ {0}
      /\ NumBuckets \in Nat \ {0} /\ BucketLen <= TickCycles
  BY Sizes
<1>2. PICK q \in Int, r \in 0 .. BucketLen - 1 :
        q = n \div BucketLen /\ r = n % BucketLen /\ n = BucketLen * q + r
  BY ClockIs, <1>1
<1>3. PICK x \in Nat : x = t * TickCycles
  BY <1>1
<1>4. 2 * TickCycles <= x
  <2>1. PICK u \in Nat : u = t - 2
    BY <1>1
  <2>2. u * TickCycles >= 0 /\ u * TickCycles \in Int
    BY <1>1
  <2>3. x = 2 * TickCycles + u * TickCycles
    BY <1>1, <1>3, <2>1
  <2> QED
    BY <1>1, <2>2, <2>3
<1>5. PICK y \in Int : y = x + n
  BY <1>1
<1>6. PICK p \in Int, m \in 0 .. BucketLen - 1 :
        p = y \div BucketLen /\ m = y % BucketLen /\ y = BucketLen * p + m
  BY <1>1, DivMod
<1>7. PICK d \in Int : d = p - q
  OBVIOUS
<1>8. BucketLen * d = x + r - m
  <2>1. BucketLen * d = BucketLen * p - BucketLen * q
    BY <1>1, <1>7
  <2>2. BucketLen * p = x + n - m /\ BucketLen * q = n - r
    BY <1>1, <1>2, <1>5, <1>6
  <2> QED
    BY <1>1, <1>2, <2>1, <2>2
<1>9. BucketLen * d - r >= x - BucketLen + 1
  BY <1>1, <1>2, <1>6, <1>8
<1>10. d >= 1
  <2>1. BucketLen * 0 < BucketLen * d
    BY <1>1, <1>2, <1>4, <1>9
  <2>2. 0 < d
    BY <1>1, <2>1, ProductOrder
  <2> QED
    BY <2>2
<1>12. (t * TickCycles + n) \div BucketLen - n \div BucketLen = d
  BY <1>2, <1>3, <1>5, <1>6, <1>7
<1>13. d * BucketLen = BucketLen * d
  BY <1>1
<1> QED
  BY <1>1, <1>2, <1>3, <1>9, <1>10, <1>12, <1>13

\* time passes at the same pace for the bucket and for the clock
LEMMA Passes ==
  ASSUME NEW d \in Int, NEW r \in Int
  PROVE  /\ d * BucketLen - (r + 1) = (d * BucketLen - r) - 1
         /\ r + 1 = BucketLen => (d - 1) * BucketLen - 0 = (d * BucketLen - r) - 1
<1>1. BucketLen \in Int /\ d * BucketLen \in Int
  BY Sizes
<1>2. (d - 1) * BucketLen = d * BucketLen - BucketLen
  BY <1>1
<1> QED
  BY <1>1, <1>2

\* a bucket that is some cycles away is not the current one
LEMMA StillAhead ==
  ASSUME NEW d \in Nat, NEW r \in Nat, d * BucketLen - r >= 1 PROVE d >= 1
<1>1. BucketLen \in Nat
  BY Sizes
<1>2. d = 0 => d * BucketLen = 0
  BY <1>1
<1> QED
  BY <1>1, <1>2

-----------------------------------------------------------------------------
(* An empty wheel *)

Emptied ==
  /\ pool = Chunk /\ call = NoCall
  /\ \A b \in Buckets : bucket[b].num = 0 /\ bucket[b].rem = 0
  /\ \A w \in Work : due[w] = None /\ info[w] = NoInfo

Wheeled == \E k, ch : Chains(k, ch) /\ Placed(k, ch)

LEMMA EmptyWheel == Types /\ Emptied => Wheeled
<1> SUFFICES ASSUME Types, Emptied PROVE Wheeled
  OBVIOUS
<1>1. PICK k, ch : k = [b \in Buckets |-> 0] /\ ch = [b \in Buckets |-> [i \in Nat |-> None]]
  OBVIOUS
<1>2. \A b \in Buckets : k[b] = 0
  BY <1>1
<1>3. k \in [Buckets -> Nat] /\ ch \in [Buckets -> [Nat -> Chunk \cup {None}]]
  BY <1>1
<1>4. Chains(k, ch)
  <2>1. \A b \in Buckets : bucket[b].num + bucket[b].rem = Entries * k[b]
    BY <1>2, Sizes DEF Emptied
  <2>2. \A b \in Buckets, i \in Nat : ~(i < k[b]) /\ ~(i + 1 < k[b]) /\ ~(k[b] > 0)
    BY <1>2
  <2> QED
    BY <1>3, <2>1, <2>2 DEF Chains, Emptied
<1>5. \A b, i, s : ~Filled(k, b, i, s)
  BY <1>2 DEF Filled
<1>6. \A w \in Work : ~Usable(w)
  BY DEF Usable, Emptied, NoInfo
<1>7. Placed(k, ch)
  BY <1>5, <1>6 DEF Placed, Holds, Emptied
<1> QED
  BY <1>4, <1>7 DEF Wheeled

LEMMA EmptyWheelNext == Types' /\ Emptied' => Wheeled'
  BY EmptyWheel, PTL

LEMMA EmptyTimed == Types /\ Emptied => Timed
<1> SUFFICES ASSUME Types, Emptied PROVE Timed
  OBVIOUS
<1>1. call.op = "none" /\ \A w \in Work : ~Adding(w) /\ due[w] = None /\ info[w].chunk = None
  BY DEF Emptied, NoCall, NoInfo, Adding
<1> QED
  BY <1>1 DEF Timed, TimedEntry, Emptied

LEMMA EmptyTimedNext == Types' /\ Emptied' => Timed'
  BY EmptyTimed, PTL

LEMMA TypesParts ==
  /\ NoCall \in [op : {"none", "add", "delete"}, work : Work \cup {None},
                 bucket : Buckets, ticks : 0 .. MaxTicks + 1, age : 0 .. MaxDelay]
  /\ NoInfo \in [left : 0 .. MaxTicks * TickCycles,
                 chunk : Chunk \cup {None}, slot : 0 .. Entries - 1]
  /\ Empty \in [first : Chunk \cup {None}, num : Nat, rem : 0 .. Entries - 1, last : Chunk \cup {None}]
  /\ Blank \in [entry : [0 .. Entries - 1 -> Work \cup {None}], next : Chunk \cup {None}]
  /\ 0 \in 0 .. NumBuckets * BucketLen - 1 /\ 0 \in Buckets
<1>1. MaxTicks * TickCycles \in Nat /\ NumBuckets * BucketLen \in Nat \ {0}
  BY Sizes
<1>2. 0 \in Buckets
  BY Sizes DEF Buckets
<1>3. 0 \in 0 .. MaxTicks + 1 /\ 0 \in 0 .. MaxDelay /\ 0 \in 0 .. Entries - 1
      /\ 0 \in 0 .. MaxTicks * TickCycles
  BY <1>1, Sizes
<1> QED
  BY <1>1, <1>2, <1>3 DEF NoCall, NoInfo, Empty, Blank

LEMMA InitWheel == ASSUME Init PROVE WheelInv
<1>1. Types
  BY TypesParts DEF Init, Types
<1>2. Emptied
  BY DEF Init, Emptied, Empty
<1> QED
  BY <1>1, <1>2, EmptyWheel, EmptyTimed DEF WheelInv, Wheeled, Init

LEMMA SetupWheel == ASSUME WheelInv, Setup PROVE WheelInv'
<1>1. Types'
  BY TypesParts DEF WheelInv, Setup, Types
<1>2. Emptied'
  BY DEF WheelInv, Off, Setup, Emptied, Empty
<1>3. running'
  BY DEF Setup
<1> QED
  BY <1>1, <1>2, <1>3, EmptyWheelNext, EmptyTimedNext DEF WheelInv, Wheeled

-----------------------------------------------------------------------------
(* Steps that leave the buckets as they are *)

\* the current bucket, and how the distance to an entry's bucket is counted
LEMMA NowIs ==
  ASSUME Types
  PROVE  /\ now \in Int /\ now \in 0 .. NumBuckets * BucketLen - 1
         /\ Current \in 0 .. NumBuckets - 1 /\ Current \in Buckets
         /\ now % BucketLen \in 0 .. BucketLen - 1 /\ now % BucketLen \in Nat
         /\ \A w \in Work : due[w] # None => due[w] \in 0 .. NumBuckets - 1 /\ due[w] \in Nat
         /\ \A w \in Work : due[w] # None => Target(w) \in Buckets /\ Rest(w) \in Int
<1>1. BucketLen \in Nat \ {0} /\ NumBuckets \in Nat \ {0} /\ NumBuckets * BucketLen \in Nat
  BY Sizes
<1>2. now \in 0 .. NumBuckets * BucketLen - 1
  BY DEF Types
<1>3. Current \in 0 .. NumBuckets - 1 /\ now % BucketLen \in 0 .. BucketLen - 1
  BY <1>2, ClockIs DEF Current
<1>4. \A w \in Work : due[w] # None => due[w] \in 0 .. NumBuckets - 1
  BY DEF Types
<1>5. ASSUME NEW w \in Work, due[w] # None PROVE Target(w) \in Buckets /\ Rest(w) \in Int
  <2>1. due[w] \in Int /\ Current \in Int /\ now % BucketLen \in Int
    BY <1>1, <1>3, <1>4, <1>5
  <2>2. PICK x \in Int : x = Current + due[w]
    BY <2>1
  <2>3. x % NumBuckets \in 0 .. NumBuckets - 1
    BY <1>1, DivMod
  <2>4. due[w] * BucketLen \in Int
    BY <1>1, <2>1
  <2> QED
    BY <2>1, <2>2, <2>3, <2>4 DEF Target, Rest, Buckets
<1> QED
  BY <1>1, <1>2, <1>3, <1>4, <1>5 DEF Buckets

LEMMA SameChains ==
  ASSUME NEW k, NEW ch, Chains(k, ch), UNCHANGED wheel
  PROVE  /\ Chains(k, ch)'
         /\ \A b, i, s, w : Holds(k, ch, b, i, s, w)' <=> Holds(k, ch, b, i, s, w)
<1>1. UNCHANGED <<bucket, mem, pool>>
  BY DEF wheel
<1> QED
  BY <1>1 DEF Chains, Holds, Filled

\* What has to be seen of such a step: no entry in a bucket changes its bucket,
\* and only an entry in a bucket is set or can be deleted.
LEMMA SamePlaces ==
  ASSUME NEW k, NEW ch, Placed(k, ch),
         \A b, i, s, w : Holds(k, ch, b, i, s, w)' <=> Holds(k, ch, b, i, s, w),
         \A w \in Work : due[w] # None /\ ~Adding(w) =>
           due'[w] # None /\ Target(w)' = Target(w) /\ ~Adding(w)',
         \A w \in Work : due'[w] # None /\ ~Adding(w)' => due[w] # None /\ ~Adding(w),
         \A w \in Work : Usable(w)' => /\ Usable(w) /\ info'[w].slot = info[w].slot
                                       /\ info'[w].chunk = info[w].chunk
  PROVE  Placed(k, ch)'
<1>1. \A w \in Work : \A b, i, s : Holds(k, ch, b, i, s, w)' =>
        due'[w] # None /\ b = Target(w)' /\ ~Adding(w)'
  BY DEF Placed
<1>2. \A w \in Work : \A a, i, s, b, j, t :
        Holds(k, ch, a, i, s, w)' /\ Holds(k, ch, b, j, t, w)' => a = b /\ i = j /\ s = t
  BY DEF Placed
<1>3. \A w \in Work : due'[w] # None /\ ~Adding(w)' => \E b, i, s : Holds(k, ch, b, i, s, w)'
  BY DEF Placed
<1>4. ASSUME NEW w \in Work, Usable(w)'
      PROVE  (\E b, i : Holds(k, ch, b, i, info[w].slot, w) /\ ch[b][i] = info[w].chunk)'
  <2>1. PICK b, i : Holds(k, ch, b, i, info[w].slot, w) /\ ch[b][i] = info[w].chunk
    BY <1>4 DEF Placed
  <2>2. PICK s : s = info[w].slot /\ s = info'[w].slot /\ Holds(k, ch, b, i, s, w)
    BY <1>4, <2>1
  <2>3. Holds(k, ch, b, i, s, w)' /\ ch[b][i] = info'[w].chunk
    BY <1>4, <2>1, <2>2
  <2> QED
    BY <2>2, <2>3
<1> QED
  BY <1>1, <1>2, <1>3, <1>4 DEF Placed

LEMMA AddEntryWheel ==
  ASSUME WheelInv, NEW v \in Work, NEW ticks \in 0 .. MaxTicks + 1, AddEntry(v, ticks), ~wrapped'
  PROVE  WheelInv'
<1>1. PICK t : t = Soonest(ticks)
  OBVIOUS
<1>2. t \in 2 .. MaxTicks + 1 /\ t \in 0 .. MaxTicks + 1
  BY <1>1, Sizes DEF AddEntry, Soonest
<1>3. PICK d : d = WorkBucket(t) - Current
  OBVIOUS
<1>4. d \in 1 .. NumBuckets - 1
      /\ d * BucketLen - (now % BucketLen) >= t * TickCycles - BucketLen + 1
  <2>1. /\ d \in Nat /\ d >= 1
        /\ d * BucketLen - (now % BucketLen) >= t * TickCycles - BucketLen + 1
    BY <1>2, <1>3, AddTimes, NowIs DEF WheelInv, WorkBucket, Current
  <2>2. d < NumBuckets
    <3>1. wrapped' = (wrapped \/ Wraps(t))
      BY <1>1 DEF AddEntry
    <3>2. ~Wraps(t)
      BY <3>1, Zenon
    <3> QED
      BY <1>3, <2>1, <3>2, Sizes DEF Wraps
  <2> QED
    BY <2>1, <2>2, Sizes
<1>5. WorkBucket(t) \in Int /\ Current \in Int
  <2>1. t * TickCycles + now \in Int /\ BucketLen \in Nat \ {0}
    BY <1>2, Sizes, NowIs DEF WheelInv
  <2>2. PICK x \in Int : x = t * TickCycles + now
    BY <2>1
  <2>3. x \div BucketLen \in Int
    BY <2>1, DivMod
  <2> QED
    BY <2>2, <2>3, NowIs DEF WorkBucket, WheelInv
<1>6. WorkBucket(t) = Current + d
  BY <1>3, <1>5
<1>7. (Current + d) % NumBuckets \in Buckets
  <2>1. NumBuckets \in Nat \ {0} /\ Current + d \in Int
    BY <1>4, <1>5, Sizes
  <2>2. PICK x \in Int : x = Current + d
    BY <2>1
  <2>3. x % NumBuckets \in 0 .. NumBuckets - 1
    BY <2>1, DivMod
  <2> QED
    BY <2>2, <2>3 DEF Buckets
<1>8. /\ running /\ call = NoCall /\ due[v] = None
      /\ call' = [op |-> "add", work |-> v, bucket |-> (Current + d) % NumBuckets,
                  ticks |-> t, age |-> 0]
      /\ due' = [due EXCEPT ![v] = d]
      /\ UNCHANGED <<now, hw, running, bucket, mem, pool, info>>
  BY <1>1, <1>3, <1>6 DEF AddEntry, wheel
<1>9. Types /\ Timed /\ due \in [Work -> 0 .. NumBuckets - 1 \cup {None}] /\ d \in 0 .. NumBuckets - 1
  <2>1. d \in 0 .. NumBuckets - 1
    BY <1>4, Sizes
  <2> QED
    BY <2>1 DEF WheelInv, Types
<1>10. due'[v] = d /\ \A w \in Work : w # v => due'[w] = due[w]
  BY <1>8, <1>9
<1>11. Types'
  <2>1. due' \in [Work -> 0 .. NumBuckets - 1 \cup {None}]
    BY <1>8, <1>9
  <2>2. call' \in [op : {"none", "add", "delete"}, work : Work \cup {None},
                   bucket : Buckets, ticks : 0 .. MaxTicks + 1, age : 0 .. MaxDelay]
    BY <1>2, <1>7, <1>8, Sizes
  <2> QED
    BY <1>8, <1>9, <2>1, <2>2 DEF Types
<1>12. /\ call'.op = "add" /\ call'.work = v /\ call'.bucket = (Current + d) % NumBuckets
       /\ call'.ticks = t /\ call'.age = 0 /\ d # None
  <2>1. d # None
    BY <1>4, Sizes
  <2> QED
    BY <1>8, <2>1
<1>13. \A w \in Work : (Adding(w)' <=> w = v) /\ ~Adding(w) /\ (Usable(w)' <=> info[w].chunk # None /\ info[w].left > 0)
       /\ (Usable(w) <=> info[w].chunk # None /\ info[w].left > 0)
  BY <1>8, <1>12 DEF Adding, Usable, NoCall
<1>14. \A w \in Work : info[w].chunk # None /\ info[w].left > 0 => due[w] # None
  BY <1>9 DEF Timed, TimedEntry
<1>15. \A w \in Work : w # v => Target(w)' = Target(w) /\ Rest(w)' = Rest(w)
  BY <1>8, <1>10 DEF Target, Rest, Current
<1>16. Timed'
  <2>1. ASSUME NEW w \in Work, w # v PROVE TimedEntry(w)'
    BY <1>8, <1>9, <1>10, <1>12, <1>13, <1>15, <2>1 DEF Timed, TimedEntry
  <2>2. TimedEntry(v)'
    <3>1. Target(v)' = call'.bucket
      BY <1>8, <1>10, <1>12 DEF Target, Current
    <3>2. Rest(v)' >= call'.ticks * TickCycles - call'.age - BucketLen + 1
      <4>1. Rest(v)' = d * BucketLen - (now % BucketLen)
        BY <1>8, <1>10 DEF Rest
      <4>2. t * TickCycles \in Int
        BY <1>2, Sizes
      <4> QED
        BY <1>4, <1>12, <4>1, <4>2, Sizes
    <3>3. ~(info[v].chunk # None /\ info[v].left > 0)
      BY <1>8, <1>14
    <3>4. call'.ticks >= 2 /\ due'[v] >= 1
      BY <1>2, <1>4, <1>10, <1>12
    <3> QED
      BY <1>8, <1>10, <1>12, <3>1, <3>2, <3>3, <3>4 DEF TimedEntry
  <2> QED
    BY <1>12, <2>1, <2>2 DEF Timed
<1>17. PICK k, ch : Chains(k, ch) /\ Placed(k, ch)
  BY <1>8 DEF WheelInv
<1>18. Chains(k, ch)' /\ \A b, i, s, w : Holds(k, ch, b, i, s, w)' <=> Holds(k, ch, b, i, s, w)
  BY <1>8, <1>17, SameChains DEF wheel
<1>19. Placed(k, ch)'
  <2>1. \A w \in Work : due[w] # None /\ ~Adding(w) =>
           due'[w] # None /\ Target(w)' = Target(w) /\ ~Adding(w)'
    BY <1>8, <1>10, <1>13, <1>15
  <2>2. \A w \in Work : due'[w] # None /\ ~Adding(w)' => due[w] # None /\ ~Adding(w)
    BY <1>10, <1>13
  <2>3. \A w \in Work : Usable(w)' => /\ Usable(w) /\ info'[w].slot = info[w].slot
                                      /\ info'[w].chunk = info[w].chunk
    BY <1>8, <1>13
  <2> QED
    BY <1>17, <1>18, <2>1, <2>2, <2>3, SamePlaces
<1> QED
  BY <1>8, <1>11, <1>16, <1>18, <1>19 DEF WheelInv

\* a call is only made while the wheel runs
LEMMA CallRuns ==
  ASSUME WheelInv, call.op # "none"
  PROVE  running /\ call.work \in Work /\ \E k, ch : Chains(k, ch) /\ Placed(k, ch)
  BY DEF WheelInv, Off, NoCall, Timed

LEMMA AddFailsWheel == ASSUME WheelInv, AddFails PROVE WheelInv'
<1>1. /\ call.op = "add" /\ due' = [due EXCEPT ![call.work] = None] /\ call' = NoCall
      /\ UNCHANGED <<now, hw, running, bucket, mem, pool, info>>
  BY DEF AddFails, wheel
<1>2. PICK v \in Work : v = call.work
  BY <1>1, CallRuns
<1>3. PICK k, ch : Chains(k, ch) /\ Placed(k, ch)
  BY <1>1, CallRuns
<1>4. running /\ Types /\ Timed /\ due \in [Work -> 0 .. NumBuckets - 1 \cup {None}]
  BY <1>1, CallRuns DEF WheelInv, Types
<1>5. due'[v] = None /\ \A w \in Work : w # v => due'[w] = due[w]
  BY <1>1, <1>2, <1>4
<1>6. \A w \in Work : (Adding(w) <=> w = v) /\ ~Adding(w)'
      /\ (Usable(w)' <=> info[w].chunk # None /\ info[w].left > 0)
      /\ (Usable(w) <=> info[w].chunk # None /\ info[w].left > 0)
  BY <1>1, <1>2 DEF Adding, Usable, NoCall
<1>7. ~(info[v].chunk # None /\ info[v].left > 0)
  BY <1>3, <1>6 DEF Placed
<1>8. Types'
  <2>1. due' \in [Work -> 0 .. NumBuckets - 1 \cup {None}]
    BY <1>1, <1>4
  <2> QED
    BY <1>1, <1>4, <2>1, TypesParts DEF Types
<1>9. \A w \in Work : w # v => Target(w)' = Target(w) /\ Rest(w)' = Rest(w)
  BY <1>1, <1>5 DEF Target, Rest, Current
<1>10. Timed'
  <2>1. ASSUME NEW w \in Work, w # v PROVE TimedEntry(w)'
    BY <1>1, <1>4, <1>5, <1>6, <1>9, <2>1 DEF Timed, TimedEntry, NoCall
  <2>2. TimedEntry(v)'
    BY <1>1, <1>5, <1>6, <1>7 DEF TimedEntry, NoCall
  <2> QED
    BY <1>1, <2>1, <2>2 DEF Timed, NoCall
<1>11. Chains(k, ch)' /\ \A b, i, s, w : Holds(k, ch, b, i, s, w)' <=> Holds(k, ch, b, i, s, w)
  BY <1>1, <1>3, SameChains DEF wheel
<1>12. Placed(k, ch)'
  <2>1. \A w \in Work : due[w] # None /\ ~Adding(w) =>
           due'[w] # None /\ Target(w)' = Target(w) /\ ~Adding(w)'
    BY <1>5, <1>6, <1>9
  <2>2. \A w \in Work : due'[w] # None /\ ~Adding(w)' => due[w] # None /\ ~Adding(w)
    BY <1>5, <1>6
  <2>3. \A w \in Work : Usable(w)' => /\ Usable(w) /\ info'[w].slot = info[w].slot
                                      /\ info'[w].chunk = info[w].chunk
    BY <1>1, <1>6
  <2> QED
    BY <1>3, <1>11, <2>1, <2>2, <2>3, SamePlaces
<1> QED
  BY <1>1, <1>4, <1>8, <1>10, <1>11, <1>12 DEF WheelInv

LEMMA DeleteEntryWheel == ASSUME WheelInv, NEW v \in Work, DeleteEntry(v) PROVE WheelInv'
<1>1. /\ running /\ call = NoCall /\ info[v].chunk # None /\ info[v].left > 0
      /\ call' = [NoCall EXCEPT !.op = "delete", !.work = v]
      /\ UNCHANGED <<now, hw, running, bucket, mem, pool, info, due>>
  BY DEF DeleteEntry, wheel
<1>2. call' = [op |-> "delete", work |-> v, bucket |-> 0, ticks |-> 0, age |-> 0]
  BY <1>1 DEF NoCall
<1>3. PICK k, ch : Chains(k, ch) /\ Placed(k, ch)
  BY <1>1 DEF WheelInv
<1>4. Types /\ Timed
  BY DEF WheelInv
<1>5. \A w \in Work : ~Adding(w) /\ ~Adding(w)' /\ (Usable(w)' <=> Usable(w))
  BY <1>1, <1>2 DEF Adding, Usable, NoCall
<1>6. Types'
  <2>1. call' \in [op : {"none", "add", "delete"}, work : Work \cup {None},
                   bucket : Buckets, ticks : 0 .. MaxTicks + 1, age : 0 .. MaxDelay]
    BY <1>2, TypesParts, Sizes
  <2> QED
    BY <1>1, <1>4, <2>1 DEF Types
<1>7. \A w \in Work : Target(w)' = Target(w) /\ Rest(w)' = Rest(w)
  BY <1>1 DEF Target, Rest, Current
<1>8. Timed'
  <2>1. ASSUME NEW w \in Work PROVE TimedEntry(w)'
    <3>1. w = v => due[w] # None /\ Rest(w) >= 2 * TickCycles - BucketLen + 2 - 0
      <4>1. due[v] # None /\ Rest(v) >= info[v].left + 2 * TickCycles - BucketLen + 1
        BY <1>1, <1>4 DEF Timed, TimedEntry
      <4>2. info[v].left \in Int /\ due[v] \in Int /\ now % BucketLen \in Int /\ BucketLen \in Int
        <5>1. info[v].left \in Int /\ due[v] \in Int
          BY <1>4, <4>1 DEF Types
        <5>2. now % BucketLen \in Int /\ BucketLen \in Int
          BY <1>4, NowIs, Sizes
        <5> QED BY <5>1, <5>2
      <4>3. Rest(v) \in Int
        BY <4>2 DEF Rest
      <4> QED
        BY <1>1, <4>1, <4>2, <4>3, Sizes
    <3>2. call'.op = "delete" /\ call'.work = v /\ call'.age = 0
      BY <1>2
    <3> QED
      BY <1>1, <1>4, <1>5, <1>7, <3>1, <3>2 DEF Timed, TimedEntry
  <2> QED
    BY <1>2, <2>1 DEF Timed
<1>9. Chains(k, ch)' /\ \A b, i, s, w : Holds(k, ch, b, i, s, w)' <=> Holds(k, ch, b, i, s, w)
  BY <1>1, <1>3, SameChains DEF wheel
<1>10. Placed(k, ch)'
  BY <1>1, <1>3, <1>5, <1>7, <1>9, SamePlaces
<1> QED
  BY <1>1, <1>6, <1>8, <1>9, <1>10 DEF WheelInv

LEMMA HwBeginWheel == ASSUME WheelInv, HwBegin PROVE WheelInv'
<1>1. /\ running /\ hw' = "busy" /\ UNCHANGED <<now, running, bucket, mem, pool, call, info, due>>
  BY DEF HwBegin, wheel
<1>2. PICK k, ch : Chains(k, ch) /\ Placed(k, ch)
  BY <1>1 DEF WheelInv
<1>3. Types /\ Timed
  BY DEF WheelInv
<1>4. \A w \in Work : (Adding(w)' <=> Adding(w)) /\ (Usable(w)' <=> Usable(w))
  BY <1>1 DEF Adding, Usable
<1>5. \A w \in Work : Target(w)' = Target(w) /\ Rest(w)' = Rest(w)
  BY <1>1 DEF Target, Rest, Current
<1>6. Types'
  BY <1>1, <1>3 DEF Types
<1>7. Timed'
  <2>1. ASSUME NEW w \in Work PROVE TimedEntry(w)'
    BY <1>1, <1>3, <1>4, <1>5 DEF Timed, TimedEntry
  <2> QED
    BY <1>1, <1>3, <2>1 DEF Timed
<1>8. Chains(k, ch)' /\ \A b, i, s, w : Holds(k, ch, b, i, s, w)' <=> Holds(k, ch, b, i, s, w)
  BY <1>1, <1>2, SameChains DEF wheel
<1>9. Placed(k, ch)'
  BY <1>1, <1>2, <1>4, <1>5, <1>8, SamePlaces
<1> QED
  BY <1>1, <1>6, <1>7, <1>8, <1>9 DEF WheelInv

\* What a cycle does: inside a bucket period, and at its end.
LEMMA TickDoes ==
  ASSUME Types, Tick
  PROVE  /\ now' \in 0 .. NumBuckets * BucketLen - 1
         /\ running /\ UNCHANGED <<running, bucket, mem, pool>>
         /\ \/ /\ Current' = Current /\ now' % BucketLen = (now % BucketLen) + 1
               /\ hw' = hw /\ due' = due
            \/ /\ (now % BucketLen) + 1 = BucketLen /\ now' % BucketLen = 0
               /\ Current' = IF Current + 1 < NumBuckets THEN Current + 1 ELSE 0
               /\ hw = "done" /\ hw' = "todo"
               /\ due' = [w \in Work |-> IF due[w] \notin {None, 0} THEN due[w] - 1 ELSE due[w]]
<1>1. PICK q, r : q = Current /\ r = now % BucketLen
  OBVIOUS
<1>2. PICK m : m = (now + 1) % (NumBuckets * BucketLen)
  OBVIOUS
<1>3. /\ m \in 0 .. NumBuckets * BucketLen - 1
      /\ r + 1 < BucketLen => m \div BucketLen = q /\ m % BucketLen = r + 1
      /\ r + 1 = BucketLen => /\ m % BucketLen = 0
                              /\ m \div BucketLen = IF q + 1 < NumBuckets THEN q + 1 ELSE 0
  <2>1. now \in 0 .. NumBuckets * BucketLen - 1 /\ q = now \div BucketLen
    BY <1>1 DEF Types, Current
  <2> QED
    BY <1>1, <1>2, <2>1, TickIs
<1>4. now' = m /\ running /\ UNCHANGED <<running, bucket, mem, pool>>
  BY <1>2 DEF Tick, wheel
<1>5. q \in 0 .. NumBuckets - 1 /\ r \in 0 .. BucketLen - 1
  BY <1>1, NowIs
<1>6. Current' = m \div BucketLen
  BY <1>4 DEF Current
<1>7. CASE r + 1 < BucketLen
  <2>1. ~(m \div BucketLen # Current)
    BY <1>1, <1>3, <1>7
  <2>2. hw' = hw /\ due' = [w \in Work |-> due[w]]
    BY <1>2, <2>1 DEF Tick
  <2>3. due' = due
    BY <2>2 DEF Types
  <2> QED
    BY <1>1, <1>3, <1>4, <1>6, <1>7, <2>2, <2>3
<1>8. CASE r + 1 = BucketLen
  <2>1. m \div BucketLen # Current
    BY <1>1, <1>3, <1>5, <1>8, Sizes
  <2>2. hw = "done" /\ hw' = "todo"
        /\ due' = [w \in Work |-> IF due[w] \notin {None, 0} THEN due[w] - 1 ELSE due[w]]
    BY <1>2, <2>1 DEF Tick
  <2> QED
    BY <1>1, <1>3, <1>4, <1>6, <1>8, <2>2
<1> QED
  BY <1>5, <1>7, <1>8, Sizes

\* No entry changes its bucket, and every bucket is a cycle nearer.
LEMMA TickNearer ==
  ASSUME Types, Timed, Tick, NEW w \in Work
  PROVE  /\ due'[w] \in 0 .. NumBuckets - 1 \cup {None}
         /\ due'[w] # None <=> due[w] # None
         /\ due[w] # None => Target(w)' = Target(w) /\ Rest(w)' = Rest(w) - 1
         /\ due'[w] # None /\ hw' = "done" => due'[w] >= 1
<1>1. due[w] # None => due[w] \in 0 .. NumBuckets - 1 /\ due[w] \in Nat
  BY NowIs
<1>2. PICK q, r : q = Current /\ r = now % BucketLen
  OBVIOUS
<1>3. q \in 0 .. NumBuckets - 1 /\ r \in 0 .. BucketLen - 1 /\ NumBuckets \in Nat /\ BucketLen \in Nat
  BY <1>2, NowIs, Sizes
<1>4. due[w] # None /\ hw = "done" => due[w] >= 1
  BY DEF Timed, TimedEntry
<1>5. CASE Current' = Current /\ now' % BucketLen = (now % BucketLen) + 1 /\ hw' = hw /\ due' = due
  <2>1. ASSUME due[w] # None PROVE Target(w)' = Target(w) /\ Rest(w)' = Rest(w) - 1
    <3>1. Target(w)' = Target(w)
      BY <1>5 DEF Target
    <3>2. PICK d \in Int : d = due[w]
      BY <1>1, <2>1
    <3>3. Rest(w)' = d * BucketLen - (r + 1) /\ Rest(w) = d * BucketLen - r
      BY <1>2, <1>5, <3>2 DEF Rest
    <3>4. r \in Int
      BY <1>3
    <3> QED
      BY <3>1, <3>2, <3>3, <3>4, Passes
  <2> QED
    BY <1>1, <1>4, <1>5, <2>1
<1>6. CASE /\ (now % BucketLen) + 1 = BucketLen /\ now' % BucketLen = 0
           /\ Current' = IF Current + 1 < NumBuckets THEN Current + 1 ELSE 0
           /\ hw = "done" /\ hw' = "todo"
           /\ due' = [x \in Work |-> IF due[x] \notin {None, 0} THEN due[x] - 1 ELSE due[x]]
  <2>1. CASE due[w] = None
    BY <1>6, <2>1
  <2>2. CASE due[w] # None
    <3>1. PICK d \in 1 .. NumBuckets - 1 : d = due[w] /\ due'[w] = d - 1
      BY <1>1, <1>4, <1>6, <2>2
    <3>2. d - 1 # None /\ d - 1 \in 0 .. NumBuckets - 1 /\ d \in 0 .. NumBuckets - 1 /\ d \in Int
      BY <3>1, Sizes
    <3>3. PICK q1 : q1 = IF q + 1 < NumBuckets THEN q + 1 ELSE 0
      OBVIOUS
    <3>4. (q1 + (d - 1)) % NumBuckets = (q + d) % NumBuckets
      <4>1. q1 \in 0 .. NumBuckets - 1
        BY <1>3, <3>3
      <4>2. (q1 + (d - 1)) % NumBuckets =
              IF q1 + (d - 1) < NumBuckets THEN q1 + (d - 1) ELSE q1 + (d - 1) - NumBuckets
        BY <3>2, <4>1, Around
      <4>3. (q + d) % NumBuckets = IF q + d < NumBuckets THEN q + d ELSE q + d - NumBuckets
        BY <1>3, <3>2, Around
      <4> QED
        BY <1>3, <3>1, <3>3, <4>2, <4>3
    <3>5. Target(w)' = Target(w)
      BY <1>2, <1>6, <3>1, <3>3, <3>4 DEF Target
    <3>6. Rest(w)' = (d - 1) * BucketLen - 0 /\ Rest(w) = d * BucketLen - r /\ r + 1 = BucketLen
      BY <1>2, <1>6, <3>1 DEF Rest
    <3>7. Rest(w)' = Rest(w) - 1
      <4>1. r \in Int
        BY <1>3
      <4> QED
        BY <3>2, <3>6, <4>1, Passes
    <3> QED
      BY <1>6, <2>2, <3>1, <3>2, <3>5, <3>7
  <2> QED
    BY <2>1, <2>2
<1> QED
  BY <1>5, <1>6, TickDoes

LEMMA TickWheel == ASSUME WheelInv, Tick PROVE WheelInv'
<1>1. Types /\ Timed
  BY DEF WheelInv
<1>2. /\ now' \in 0 .. NumBuckets * BucketLen - 1 /\ running
      /\ UNCHANGED <<running, bucket, mem, pool>>
      /\ hw' \in {"todo", "busy", "done"}
  BY <1>1, TickDoes DEF Types
<1>3. \A w \in Work : /\ due'[w] \in 0 .. NumBuckets - 1 \cup {None}
                      /\ due'[w] # None <=> due[w] # None
                      /\ due[w] # None => Target(w)' = Target(w) /\ Rest(w)' = Rest(w) - 1
                      /\ due'[w] # None /\ hw' = "done" => due'[w] >= 1
  BY <1>1, TickNearer
<1>4. /\ call # NoCall => call.age < MaxDelay
      /\ call' = IF call = NoCall THEN call ELSE [call EXCEPT !.age = @ + 1]
      /\ info' = [w \in Work |-> IF info[w].left > 1 \/ (call.work = w /\ info[w].left = 1)
                                   THEN [info[w] EXCEPT !.left = @ - 1]
                                 ELSE IF call.work = w THEN info[w] ELSE NoInfo]
  BY DEF Tick
<1>5. /\ call'.op = call.op /\ call'.work = call.work /\ call'.bucket = call.bucket
      /\ call'.ticks = call.ticks /\ call'.age \in 0 .. MaxDelay
      /\ call.op # "none" => call'.age = call.age + 1 /\ call.age \in Int
      /\ call' \in [op : {"none", "add", "delete"}, work : Work \cup {None},
                    bucket : Buckets, ticks : 0 .. MaxTicks + 1, age : 0 .. MaxDelay]
  <2>1. CASE call = NoCall
    BY <1>1, <1>4, <2>1 DEF Types, NoCall
  <2>2. CASE call # NoCall
    <3>1. call' = [call EXCEPT !.age = @ + 1] /\ call.age < MaxDelay
      BY <1>4, <2>2
    <3>2. call.age \in 0 .. MaxDelay /\ call.age \in Int
      BY <1>1, Sizes DEF Types
    <3>3. call.age + 1 \in 0 .. MaxDelay
      BY <3>1, <3>2, Sizes
    <3> QED
      BY <1>1, <3>1, <3>2, <3>3 DEF Types
  <2> QED
    BY <2>1, <2>2
<1>6. ASSUME NEW w \in Work
      PROVE  /\ info'[w] \in [left : 0 .. MaxTicks * TickCycles,
                              chunk : Chunk \cup {None}, slot : 0 .. Entries - 1]
             /\ info'[w].chunk # None =>
                  info'[w].chunk = info[w].chunk /\ info'[w].slot = info[w].slot
             /\ info'[w].chunk # None /\ info'[w].left > 0 =>
                  info[w].left > 0 /\ info'[w].left = info[w].left - 1 /\ info[w].left \in Int
             /\ call.work = w => info'[w].chunk = info[w].chunk
  <2>1. PICK x : x = info[w]
    OBVIOUS
  <2>2. /\ x \in [left : 0 .. MaxTicks * TickCycles, chunk : Chunk \cup {None}, slot : 0 .. Entries - 1]
        /\ x.left \in 0 .. MaxTicks * TickCycles /\ x.left \in Nat /\ MaxTicks * TickCycles \in Nat
    BY <1>1, <2>1, Sizes DEF Types
  <2>3. CASE x.left > 1 \/ (call.work = w /\ x.left = 1)
    <3>1. info'[w] = [x EXCEPT !.left = x.left - 1]
      BY <1>4, <2>1, <2>3
    <3>2. x.left - 1 \in 0 .. MaxTicks * TickCycles
      BY <2>2, <2>3
    <3> QED
      BY <2>1, <2>2, <2>3, <3>1, <3>2
  <2>4. CASE ~(x.left > 1 \/ (call.work = w /\ x.left = 1)) /\ call.work = w
    <3>1. info'[w] = x
      BY <1>4, <2>1, <2>4
    <3>2. ~(x.left > 0)
      BY <2>2, <2>4
    <3> QED
      BY <2>1, <2>2, <3>1, <3>2
  <2>5. CASE ~(x.left > 1 \/ (call.work = w /\ x.left = 1)) /\ call.work # w
    <3>1. info'[w] = NoInfo
      BY <1>4, <2>1, <2>5
    <3> QED
      BY <2>5, <3>1, TypesParts DEF NoInfo
  <2> QED
    BY <2>3, <2>4, <2>5
<1>7. Types'
  <2>1. due' \in [Work -> 0 .. NumBuckets - 1 \cup {None}]
    <3>1. DOMAIN due' = Work /\ due' = [w \in Work |-> due'[w]]
      BY DEF Tick
    <3> QED
      BY <1>3, <3>1
  <2>2. info' \in [Work -> [left : 0 .. MaxTicks * TickCycles,
                            chunk : Chunk \cup {None}, slot : 0 .. Entries - 1]]
    <3>1. info' = [w \in Work |-> info'[w]]
      BY <1>4
    <3> QED
      BY <1>6, <3>1
  <2> QED
    BY <1>1, <1>2, <1>5, <2>1, <2>2 DEF Types
<1>8. \A w \in Work : Adding(w)' <=> Adding(w)
  BY <1>5 DEF Adding
<1>9. \A w \in Work : Usable(w)' => Usable(w)
  BY <1>5, <1>6 DEF Usable
<1>10. ASSUME NEW w \in Work PROVE TimedEntry(w)'
  <2>1. due[w] # None => Rest(w) \in Int
    BY <1>1, NowIs
  <2>2. TimedEntry(w)
    BY <1>1 DEF Timed
  <2>3. ASSUME Adding(w)'
        PROVE  /\ due'[w] # None /\ call'.bucket = Target(w)' /\ call'.ticks >= 2
               /\ Rest(w)' >= call'.ticks * TickCycles - call'.age - BucketLen + 1
    <3>1. Adding(w) /\ call.op # "none"
      BY <1>8, <2>3 DEF Adding
    <3>2. /\ due[w] # None /\ call.bucket = Target(w) /\ call.ticks >= 2
          /\ Rest(w) >= call.ticks * TickCycles - call.age - BucketLen + 1
      BY <2>2, <3>1 DEF TimedEntry
    <3>3. Rest(w)' = Rest(w) - 1 /\ call'.age = call.age + 1 /\ call.age \in Int
      BY <1>3, <1>5, <3>1, <3>2
    <3>4. call.ticks * TickCycles \in Int /\ call'.ticks = call.ticks
      BY <1>1, <1>5, Sizes DEF Types
    <3>5. Rest(w)' >= call'.ticks * TickCycles - call'.age - BucketLen + 1
      BY <2>1, <3>2, <3>3, <3>4, Sizes
    <3> QED
      BY <1>3, <1>5, <3>2, <3>5
  <2>4. ASSUME info'[w].chunk # None, info'[w].left > 0
        PROVE  due'[w] # None /\ Rest(w)' >= info'[w].left + 2 * TickCycles - BucketLen + 1
    <3>1. info[w].chunk # None /\ info[w].left > 0 /\ info'[w].left = info[w].left - 1
          /\ info[w].left \in Int
      BY <1>6, <2>4
    <3>2. due[w] # None /\ Rest(w) >= info[w].left + 2 * TickCycles - BucketLen + 1
      BY <2>2, <3>1 DEF TimedEntry
    <3>3. due'[w] # None /\ Rest(w)' = Rest(w) - 1
      BY <1>3, <3>2
    <3> QED
      BY <2>1, <3>1, <3>2, <3>3, Sizes
  <2>5. ASSUME call'.op = "delete", call'.work = w
        PROVE  /\ info'[w].chunk # None /\ due'[w] # None
               /\ Rest(w)' >= 2 * TickCycles - BucketLen + 2 - call'.age
    <3>1. call.op = "delete" /\ call.work = w /\ call'.age = call.age + 1 /\ call.age \in Int
      BY <1>5, <2>5
    <3>2. /\ info[w].chunk # None /\ due[w] # None
          /\ Rest(w) >= 2 * TickCycles - BucketLen + 2 - call.age
      BY <2>2, <3>1 DEF TimedEntry
    <3>3. due'[w] # None /\ Rest(w)' = Rest(w) - 1 /\ info'[w].chunk # None
      BY <1>3, <1>6, <3>1, <3>2
    <3> QED
      BY <2>1, <3>1, <3>2, <3>3, Sizes
  <2> QED
    BY <1>3, <2>3, <2>4, <2>5 DEF TimedEntry
<1>11. Timed'
  <2>1. call'.op = "none" => call' = NoCall
    BY <1>1, <1>4, <1>5 DEF Timed
  <2> QED
    BY <1>1, <1>5, <1>10, <2>1 DEF Timed
<1>12. PICK k, ch : Chains(k, ch) /\ Placed(k, ch)
  BY <1>2 DEF WheelInv
<1>13. Chains(k, ch)' /\ \A b, i, s, w : Holds(k, ch, b, i, s, w)' <=> Holds(k, ch, b, i, s, w)
  BY <1>2, <1>12, SameChains DEF wheel
<1>14. Placed(k, ch)'
  <2>1. \A w \in Work : Usable(w)' => /\ Usable(w) /\ info'[w].slot = info[w].slot
                                      /\ info'[w].chunk = info[w].chunk
    BY <1>6, <1>9 DEF Usable
  <2> QED
    BY <1>3, <1>8, <1>12, <1>13, <2>1, SamePlaces
<1> QED
  BY <1>2, <1>7, <1>11, <1>13, <1>14 DEF WheelInv

-----------------------------------------------------------------------------
(* Adding an entry to its bucket *)

\* the pending entry is the only one that gets a place
AddsPlace(k, ch, k1, ch1, v, B, I, S) ==
  /\ \A w \in Work : \A b, i, s :
       Holds(k1, ch1, b, i, s, w)' <=>
         Holds(k, ch, b, i, s, w) \/ (b = B /\ i = I /\ s = S /\ w = v)
  /\ \A b, i, s : Filled(k, b, i, s) => ch1[b][i] = ch[b][i]
  /\ B = Target(v) /\ ch1[B][I] = info'[v].chunk /\ S = info'[v].slot

LEMMA AddedPlaces ==
  ASSUME NEW k, NEW ch, NEW k1, NEW ch1, NEW v \in Work, NEW B, NEW I, NEW S,
         Placed(k, ch), AddsPlace(k, ch, k1, ch1, v, B, I, S),
         Timed, call.op = "add", call.work = v, call' = NoCall, UNCHANGED <<now, due>>,
         \A w \in Work : w # v => info'[w] = info[w]
  PROVE  Placed(k1, ch1)'
<1>1. \A w \in Work : (Adding(w) <=> w = v) /\ ~Adding(w)' /\ Target(w)' = Target(w)
  BY DEF Adding, NoCall, Target, Current
<1>2. \A w \in Work : w # v => (Usable(w)' => Usable(w))
  BY DEF Usable, NoCall
<1>3. due[v] # None
  BY <1>1 DEF Timed, TimedEntry
<1>4. \A b, i, s : ~Holds(k, ch, b, i, s, v)
  BY <1>1 DEF Placed
<1>5. \A w \in Work : \A b, i, s : Holds(k1, ch1, b, i, s, w)' =>
        due'[w] # None /\ b = Target(w)' /\ ~Adding(w)'
  BY <1>1, <1>3 DEF Placed, AddsPlace
<1>6. ASSUME NEW w \in Work, NEW a, NEW i, NEW s, NEW b, NEW j, NEW t,
             Holds(k1, ch1, a, i, s, w)', Holds(k1, ch1, b, j, t, w)'
      PROVE  a = b /\ i = j /\ s = t
  <2>1. CASE w = v
    BY <1>4, <1>6, <2>1 DEF AddsPlace
  <2>2. CASE w # v
    <3>1. Holds(k, ch, a, i, s, w) /\ Holds(k, ch, b, j, t, w)
      BY <1>6, <2>2 DEF AddsPlace
    <3> QED
      BY <3>1 DEF Placed
  <2> QED
    BY <2>1, <2>2
<1>7. ASSUME NEW w \in Work, due'[w] # None PROVE \E b, i, s : Holds(k1, ch1, b, i, s, w)'
  <2>1. CASE w = v
    BY <2>1 DEF AddsPlace
  <2>2. CASE w # v
    <3>1. PICK b, i, s : Holds(k, ch, b, i, s, w)
      BY <1>1, <1>7, <2>2 DEF Placed
    <3> QED
      BY <3>1 DEF AddsPlace
  <2> QED
    BY <2>1, <2>2
<1>8. ASSUME NEW w \in Work, Usable(w)'
      PROVE  (\E b, i : Holds(k1, ch1, b, i, info[w].slot, w) /\ ch1[b][i] = info[w].chunk)'
  <2>1. CASE w = v
    <3>1. Holds(k1, ch1, B, I, S, v)' /\ S = info'[v].slot /\ ch1[B][I] = info'[v].chunk
      BY DEF AddsPlace
    <3> QED
      BY <2>1, <3>1
  <2>2. CASE w # v
    <3>1. PICK b, i : Holds(k, ch, b, i, info[w].slot, w) /\ ch[b][i] = info[w].chunk
      BY <1>2, <1>8, <2>2 DEF Placed
    <3>2. PICK s : s = info[w].slot /\ s = info'[w].slot /\ Holds(k, ch, b, i, s, w)
      BY <2>2, <3>1
    <3>3. Holds(k1, ch1, b, i, s, w)' /\ ch1[b][i] = info'[w].chunk
      BY <2>2, <3>1, <3>2 DEF AddsPlace, Holds
    <3> QED
      BY <3>2, <3>3
  <2> QED
    BY <2>1, <2>2
<1> QED
  BY <1>5, <1>6, <1>7, <1>8 DEF Placed

\* the delete_info is right about the time
LEMMA Remembered ==
  ASSUME Types, Timed, call.op = "add", NEW c \in Chunk, NEW i \in 0 .. Entries - 1, Remember(c, i),
         call' = NoCall, UNCHANGED <<now, hw, due>>
  PROVE  /\ Timed'
         /\ info' \in [Work -> [left : 0 .. MaxTicks * TickCycles,
                                chunk : Chunk \cup {None}, slot : 0 .. Entries - 1]]
         /\ info'[call.work].chunk = c /\ info'[call.work].slot = i
         /\ \A w \in Work : w # call.work => info'[w] = info[w]
<1>1. PICK v \in Work : v = call.work
  BY DEF Timed
<1>2. PICK t \in 0 .. MaxTicks + 1, a \in 0 .. MaxDelay : t = call.ticks /\ a = call.age
  BY DEF Types
<1>3. /\ due[v] # None /\ t >= 2
      /\ Rest(v) >= t * TickCycles - a - BucketLen + 1
  BY <1>1, <1>2 DEF Timed, TimedEntry, Adding
<1>4. PICK x \in Int : x = (t - 2) * TickCycles - a
  BY <1>2, Sizes
<1>5. PICK y : y = IF x < 0 THEN 0 ELSE x
  OBVIOUS
<1>6. info' = [info EXCEPT ![v] = [left |-> y, chunk |-> c, slot |-> i]]
  <2>1. Commit(call.ticks) - call.age = x
    BY <1>2, <1>4 DEF Commit
  <2> QED
    BY <1>1, <1>5, <2>1 DEF Remember
<1>7. t * TickCycles = (t - 2) * TickCycles + 2 * TickCycles /\ (t - 2) * TickCycles \in Nat
      /\ t * TickCycles \in Nat
  BY <1>2, <1>3, Sizes
<1>8. (t - 2) * TickCycles <= MaxTicks * TickCycles /\ MaxTicks * TickCycles \in Nat
  <2>1. PICK u \in Nat : u = MaxTicks - (t - 2)
    BY <1>2, Sizes
  <2>2. u * TickCycles \in Nat
    BY Sizes
  <2>3. MaxTicks * TickCycles = (t - 2) * TickCycles + u * TickCycles
    BY <1>2, <2>1, Sizes
  <2> QED
    BY <1>7, <2>2, <2>3
<1>9. y \in 0 .. MaxTicks * TickCycles
  BY <1>2, <1>4, <1>5, <1>7, <1>8, Sizes
<1>10. info \in [Work -> [left : 0 .. MaxTicks * TickCycles,
                          chunk : Chunk \cup {None}, slot : 0 .. Entries - 1]]
  BY DEF Types
<1>11. info' \in [Work -> [left : 0 .. MaxTicks * TickCycles,
                           chunk : Chunk \cup {None}, slot : 0 .. Entries - 1]]
  BY <1>6, <1>9, <1>10
<1>12. /\ info'[v].left = y /\ info'[v].chunk = c /\ info'[v].slot = i
       /\ \A w \in Work : w # v => info'[w] = info[w]
  BY <1>6, <1>10
<1>13. \A w \in Work : ~Adding(w)' /\ Target(w)' = Target(w) /\ Rest(w)' = Rest(w)
  BY DEF Adding, NoCall, Target, Rest, Current
<1>14. Timed'
  <2>1. ASSUME NEW w \in Work, w # v PROVE TimedEntry(w)'
    BY <1>12, <1>13, <2>1 DEF Timed, TimedEntry, NoCall
  <2>2. TimedEntry(v)'
    <3>1. y > 0 => Rest(v) >= y + 2 * TickCycles - BucketLen + 1
      <4>1. Rest(v) \in Int
        BY <1>3, NowIs
      <4> QED
        BY <1>2, <1>3, <1>4, <1>5, <1>7, <4>1, Sizes
    <3>2. due[v] # None /\ hw = "done" => due[v] >= 1
      BY DEF Timed, TimedEntry
    <3> QED
      BY <1>3, <1>12, <1>13, <3>1, <3>2 DEF TimedEntry, NoCall
  <2> QED
    BY <2>1, <2>2 DEF Timed, NoCall
<1> QED
  BY <1>1, <1>11, <1>12, <1>14

\* y is the buckets with the two counters of B set, and what that leaves alone
SetsCounters(y, B, m, n) == y = [bucket EXCEPT ![B].rem = m, ![B].num = n]

Counters(y, B, m, n) ==
  /\ \A b \in Buckets : y[b].first = bucket[b].first /\ y[b].last = bucket[b].last
  /\ \A b \in Buckets : b # B => y[b] = bucket[b]
  /\ y[B].rem = m /\ y[B].num = n
  /\ y \in [Buckets -> [first : Chunk \cup {None}, num : Nat,
                        rem : 0 .. Entries - 1, last : Chunk \cup {None}]]

LEMMA Counted ==
  ASSUME Types, NEW B \in Buckets, NEW m \in 0 .. Entries - 1, NEW n \in Nat, NEW y,
         SetsCounters(y, B, m, n)
  PROVE  Counters(y, B, m, n)
<1>0. bucket \in [Buckets -> [first : Chunk \cup {None}, num : Nat,
                              rem : 0 .. Entries - 1, last : Chunk \cup {None}]]
  BY DEF Types
<1>1. \A b \in Buckets : y[b].first = bucket[b].first /\ y[b].last = bucket[b].last
  BY <1>0 DEF SetsCounters
<1>2. \A b \in Buckets : b # B => y[b] = bucket[b]
  BY <1>0 DEF SetsCounters
<1>3. y[B].rem = m /\ y[B].num = n
  BY <1>0 DEF SetsCounters
<1>4. y \in [Buckets -> [first : Chunk \cup {None}, num : Nat,
                         rem : 0 .. Entries - 1, last : Chunk \cup {None}]]
  BY <1>0 DEF SetsCounters
<1> QED
  BY <1>1, <1>2, <1>3, <1>4 DEF Counters

LEMMA AddToChunkWheel == ASSUME WheelInv, AddToChunk PROVE WheelInv'
<1>1. call.op = "add" /\ Types /\ Timed /\ running
  BY CallRuns DEF AddToChunk, WheelInv
<1>2. PICK v \in Work : v = call.work
  BY <1>1 DEF Timed
<1>3. PICK k, ch : Chains(k, ch) /\ Placed(k, ch)
  BY <1>1 DEF WheelInv
<1>4. PICK B \in Buckets : B = call.bucket
  BY <1>1 DEF Types
<1>a. PICK m \in Nat, n \in Nat : m = bucket[B].rem /\ n = bucket[B].num
  <2>1. bucket[B].rem \in 0 .. Entries - 1 /\ bucket[B].num \in Nat
    BY <1>1 DEF Types
  <2> QED
    BY <2>1, Sizes
<1>b. PICK c, S : c = bucket[B].last /\ S = Entries - m
  OBVIOUS
<1>5. m = bucket[B].rem /\ n = bucket[B].num /\ c = bucket[B].last /\ S = Entries - m
  BY <1>a, <1>b
<1>6. /\ m # 0
      /\ mem' = [mem EXCEPT ![c].entry[S] = v]
      /\ bucket' = [bucket EXCEPT ![B].rem = m - 1, ![B].num = n + 1]
      /\ Remember(c, S)
      /\ call' = NoCall
      /\ UNCHANGED <<now, hw, running, pool, due>>
  BY <1>2, <1>4, <1>5 DEF AddToChunk, Slot
<1>7. m \in 1 .. Entries - 1 /\ S \in 0 .. Entries - 1 /\ m - 1 \in 0 .. Entries - 1
  <2>1. m \in 0 .. Entries - 1
    BY <1>1, <1>5 DEF Types
  <2> QED
    BY <1>5, <1>6, <2>1, Sizes
<1>8. k[B] \in Nat /\ k[B] > 0
  <2>1. k[B] \in Nat /\ n + m = Entries * k[B]
    BY <1>3, <1>5 DEF Chains
  <2>2. k[B] = 0 => Entries * k[B] = 0
    BY Sizes
  <2> QED
    BY <1>7, <2>1, <2>2
<1>9. PICK I \in Nat : I = k[B] - 1
  BY <1>8
<1>10. I < k[B] /\ I + 1 = k[B]
  BY <1>8, <1>9
<1>11. c = ch[B][I] /\ c \in Chunk
  BY <1>3, <1>5, <1>8, <1>9, <1>10 DEF Chains
<1>12. mem \in [Chunk -> [entry : [0 .. Entries - 1 -> Work \cup {None}], next : Chunk \cup {None}]]
       /\ bucket \in [Buckets -> [first : Chunk \cup {None}, num : Nat,
                                  rem : 0 .. Entries - 1, last : Chunk \cup {None}]]
  BY <1>1 DEF Types
<1>13. /\ \A x \in Chunk : mem'[x].next = mem[x].next
       /\ \A x \in Chunk, s \in 0 .. Entries - 1 :
            mem'[x].entry[s] = IF x = c /\ s = S THEN v ELSE mem[x].entry[s]
       /\ mem' \in [Chunk -> [entry : [0 .. Entries - 1 -> Work \cup {None}],
                              next : Chunk \cup {None}]]
  BY <1>6, <1>7, <1>11, <1>12
<1>14. /\ \A b \in Buckets : bucket'[b].first = bucket[b].first /\ bucket'[b].last = bucket[b].last
       /\ \A b \in Buckets : b # B => bucket'[b] = bucket[b]
       /\ bucket'[B].rem = m - 1 /\ bucket'[B].num = n + 1
       /\ bucket' \in [Buckets -> [first : Chunk \cup {None}, num : Nat,
                                   rem : 0 .. Entries - 1, last : Chunk \cup {None}]]
  <2>1. PICK p \in 0 .. Entries - 1, q \in Nat : p = m - 1 /\ q = n + 1
    BY <1>7
  <2>2. PICK y : y = bucket'
    OBVIOUS
  <2>3. SetsCounters(y, B, p, q)
    BY <1>6, <2>1, <2>2 DEF SetsCounters
  <2>4. Counters(y, B, p, q)
    BY <1>1, <2>3, Counted
  <2> QED
    BY <2>1, <2>2, <2>4 DEF Counters
<1>15. Chains(k, ch)'
  <2>1. \A b \in Buckets : bucket'[b].num + bucket'[b].rem = Entries * k[b]
    <3>1. \A b \in Buckets : bucket[b].num + bucket[b].rem = Entries * k[b]
      BY <1>3 DEF Chains
    <3>2. (n + 1) + (m - 1) = n + m
      BY <1>7
    <3> QED
      BY <1>5, <1>14, <3>1, <3>2
  <2>2. \A b \in Buckets, i \in Nat : i + 1 < k[b] => mem'[ch[b][i]].next = ch[b][i + 1]
    <3>1. \A b \in Buckets, i \in Nat : i + 1 < k[b] => i < k[b]
      BY <1>3 DEF Chains
    <3>2. \A b \in Buckets, i \in Nat : i < k[b] => ch[b][i] \in Chunk
      BY <1>3 DEF Chains
    <3>3. \A b \in Buckets, i \in Nat : i + 1 < k[b] => mem[ch[b][i]].next = ch[b][i + 1]
      BY <1>3 DEF Chains
    <3> QED
      BY <1>13, <3>1, <3>2, <3>3
  <2> QED
    BY <1>3, <1>6, <1>14, <2>1, <2>2 DEF Chains
<1>16. /\ Timed'
       /\ info' \in [Work -> [left : 0 .. MaxTicks * TickCycles,
                              chunk : Chunk \cup {None}, slot : 0 .. Entries - 1]]
       /\ info'[v].chunk = c /\ info'[v].slot = S
       /\ \A w \in Work : w # v => info'[w] = info[w]
  BY <1>1, <1>2, <1>6, <1>7, <1>11, Remembered
<1>17. Types'
  BY <1>1, <1>6, <1>13, <1>14, <1>16, TypesParts DEF Types
<1>18. ASSUME NEW b, NEW i, NEW s
       PROVE  /\ Filled(k, b, i, s)' <=> Filled(k, b, i, s) \/ (b = B /\ i = I /\ s = S)
              /\ ~Filled(k, B, I, S)
              /\ Filled(k, b, i, s) => b \in Buckets /\ i \in Nat /\ i < k[b] /\ s \in 0 .. Entries - 1
  <2>1. ASSUME b \in Buckets, b # B PROVE Filled(k, b, i, s)' <=> Filled(k, b, i, s)
    BY <1>14, <2>1 DEF Filled
  <2>2. ASSUME b = B PROVE Filled(k, b, i, s)' <=> Filled(k, b, i, s) \/ (i = I /\ s = S)
    <3>1. Filled(k, b, i, s)' <=> /\ i \in Nat /\ s \in 0 .. Entries - 1
                                  /\ i + 1 < k[B] \/ (i + 1 = k[B] /\ s < Entries - (m - 1))
      BY <1>14, <2>2 DEF Filled
    <3>2. Filled(k, b, i, s) <=> /\ i \in Nat /\ s \in 0 .. Entries - 1
                                 /\ i + 1 < k[B] \/ (i + 1 = k[B] /\ s < Entries - m)
      BY <1>5, <2>2 DEF Filled
    <3> QED
      BY <1>5, <1>7, <1>8, <1>9, <3>1, <3>2, Sizes
  <2>3. ~Filled(k, B, I, S)
    BY <1>5, <1>7, <1>8, <1>9 DEF Filled
  <2>4. Filled(k, b, i, s) => b \in Buckets /\ i \in Nat /\ i < k[b] /\ s \in 0 .. Entries - 1
    <3>1. b \in Buckets => k[b] \in Nat
      BY <1>3 DEF Chains
    <3> QED
      BY <3>1 DEF Filled
  <2>5. b \notin Buckets => ~Filled(k, b, i, s)' /\ ~Filled(k, b, i, s) /\ b # B
    BY DEF Filled
  <2> QED
    BY <2>1, <2>2, <2>3, <2>4, <2>5
<1>19. AddsPlace(k, ch, k, ch, v, B, I, S)
  <2>1. ASSUME NEW b, NEW i, NEW s, Filled(k, b, i, s)
        PROVE  mem'[ch[b][i]].entry[s] = mem[ch[b][i]].entry[s]
    <3>1. b \in Buckets /\ i \in Nat /\ i < k[b] /\ s \in 0 .. Entries - 1
      BY <1>18, <2>1
    <3>2. ch[b][i] \in Chunk /\ (ch[b][i] = ch[B][I] => b = B /\ i = I)
      BY <1>3, <1>10, <3>1 DEF Chains
    <3>3. ~(ch[b][i] = c /\ s = S)
      BY <1>11, <1>18, <2>1, <3>2
    <3> QED
      BY <1>13, <3>1, <3>2, <3>3
  <2>2. mem'[ch[B][I]].entry[S] = v
    BY <1>7, <1>11, <1>13
  <2>3. ASSUME NEW w \in Work, NEW b, NEW i, NEW s
        PROVE  Holds(k, ch, b, i, s, w)' <=>
                 Holds(k, ch, b, i, s, w) \/ (b = B /\ i = I /\ s = S /\ w = v)
    <3>1. Holds(k, ch, b, i, s, w)' <=> Filled(k, b, i, s)' /\ mem'[ch[b][i]].entry[s] = w
      BY DEF Holds
    <3>2. CASE Filled(k, b, i, s)
      BY <1>18, <2>1, <3>1, <3>2 DEF Holds
    <3>3. CASE ~Filled(k, b, i, s)
      BY <1>18, <2>2, <3>1, <3>3 DEF Holds
    <3> QED
      BY <3>2, <3>3
  <2>4. B = Target(v)
    BY <1>1, <1>2, <1>4 DEF Timed, TimedEntry, Adding
  <2> QED
    BY <1>11, <1>16, <2>3, <2>4 DEF AddsPlace
<1>20. Placed(k, ch)'
  BY <1>1, <1>2, <1>3, <1>6, <1>16, <1>19, AddedPlaces
<1> QED
  BY <1>1, <1>6, <1>15, <1>16, <1>17, <1>20 DEF WheelInv

\* a list with one more chunk at its end
Longer(k, ch, B, c, k1, ch1) ==
  /\ k1 \in [Buckets -> Nat] /\ ch1 \in [Buckets -> [Nat -> Chunk \cup {None}]]
  /\ k1[B] = k[B] + 1 /\ \A b \in Buckets : b # B => k1[b] = k[b]
  /\ ch1[B][k[B]] = c
  /\ \A b \in Buckets, i \in Nat : ~(b = B /\ i = k[B]) => ch1[b][i] = ch[b][i]

LEMMA LongerExists ==
  ASSUME NEW k \in [Buckets -> Nat], NEW ch \in [Buckets -> [Nat -> Chunk \cup {None}]],
         NEW B \in Buckets, NEW c \in Chunk
  PROVE  \E k1, ch1 : Longer(k, ch, B, c, k1, ch1)
<1>1. PICK K \in Nat : K = k[B]
  OBVIOUS
<1>2. PICK f : f = [ch[B] EXCEPT ![K] = c]
  OBVIOUS
<1>3. f \in [Nat -> Chunk \cup {None}] /\ f[K] = c /\ \A i \in Nat : i # K => f[i] = ch[B][i]
  <2>1. ch[B] \in [Nat -> Chunk \cup {None}]
    OBVIOUS
  <2> QED
    BY <1>2, <2>1
<1>4. PICK k1, ch1 : k1 = [k EXCEPT ![B] = K + 1] /\ ch1 = [ch EXCEPT ![B] = f]
  OBVIOUS
<1>5. /\ ch1 \in [Buckets -> [Nat -> Chunk \cup {None}]]
      /\ ch1[B] = f /\ \A b \in Buckets : b # B => ch1[b] = ch[b]
  BY <1>3, <1>4
<1>6. k1 \in [Buckets -> Nat] /\ k1[B] = K + 1 /\ \A b \in Buckets : b # B => k1[b] = k[b]
  BY <1>4
<1>7. \A b \in Buckets, i \in Nat : ~(b = B /\ i = K) => ch1[b][i] = ch[b][i]
  BY <1>3, <1>5
<1> QED
  BY <1>1, <1>3, <1>5, <1>6, <1>7 DEF Longer

\* what taking chunk c from the pool writes, to it and to the last of the list
Links(y, c, v, B) ==
  /\ y \in [Chunk -> [entry : [0 .. Entries - 1 -> Work \cup {None}], next : Chunk \cup {None}]]
  /\ \A x \in Chunk, s \in 0 .. Entries - 1 :
       y[x].entry[s] = IF x = c /\ s = 0 THEN v ELSE mem[x].entry[s]
  /\ \A x \in Chunk :
       y[x].next = IF HasChunk(bucket[B]) /\ x = bucket[B].last THEN c ELSE mem[x].next

LEMMA Linked ==
  ASSUME Types, NEW c \in Chunk, NEW v \in Work, NEW B \in Buckets,
         HasChunk(bucket[B]) => bucket[B].last \in Chunk,
         mem' = LET m == [mem EXCEPT ![c].entry[0] = v]
                IN IF HasChunk(bucket[B]) THEN [m EXCEPT ![bucket[B].last].next = c] ELSE m
  PROVE  Links(mem', c, v, B)
<1>0. mem \in [Chunk -> [entry : [0 .. Entries - 1 -> Work \cup {None}], next : Chunk \cup {None}]]
      /\ 0 \in 0 .. Entries - 1
  <2>1. 0 \in 0 .. Entries - 1
    BY Sizes
  <2> QED
    BY <2>1 DEF Types
<1>1. PICK m : m = [mem EXCEPT ![c].entry[0] = v]
  OBVIOUS
<1>2. /\ m \in [Chunk -> [entry : [0 .. Entries - 1 -> Work \cup {None}], next : Chunk \cup {None}]]
      /\ \A x \in Chunk, s \in 0 .. Entries - 1 :
           m[x].entry[s] = IF x = c /\ s = 0 THEN v ELSE mem[x].entry[s]
      /\ \A x \in Chunk : m[x].next = mem[x].next
  BY <1>0, <1>1
<1>3. CASE ~HasChunk(bucket[B])
  <2>1. mem' = m
    BY <1>1, <1>3
  <2>2. Links(m, c, v, B)
    <3> HIDE <1>1
    <3>1. \A x \in Chunk :
            m[x].next = IF HasChunk(bucket[B]) /\ x = bucket[B].last THEN c ELSE mem[x].next
      BY <1>2, <1>3
    <3> QED
      BY ONLY <1>2, <3>1 DEF Links
  <2> QED
    BY ONLY <2>1, <2>2
<1>4. CASE HasChunk(bucket[B])
  <2>1. PICK l \in Chunk : l = bucket[B].last
    BY <1>4
  <2>2. PICK y : y = [m EXCEPT ![l].next = c]
    OBVIOUS
  <2>3. mem' = y
    BY <1>1, <1>4, <2>1, <2>2
  <2>4. /\ y \in [Chunk -> [entry : [0 .. Entries - 1 -> Work \cup {None}], next : Chunk \cup {None}]]
        /\ \A x \in Chunk : y[x].entry = m[x].entry
        /\ \A x \in Chunk : y[x].next = IF x = l THEN c ELSE m[x].next
    BY <1>2, <2>2
  <2>5. \A x \in Chunk, s \in 0 .. Entries - 1 :
          y[x].entry[s] = IF x = c /\ s = 0 THEN v ELSE mem[x].entry[s]
    BY <1>2, <2>4
  <2>6. \A x \in Chunk :
          y[x].next = IF HasChunk(bucket[B]) /\ x = bucket[B].last THEN c ELSE mem[x].next
    BY <1>2, <1>4, <2>1, <2>4
  <2>7. Links(y, c, v, B)
    BY <2>4, <2>5, <2>6 DEF Links
  <2> QED
    BY <2>3, <2>7
<1> QED
  BY <1>3, <1>4

LEMMA AddChunkWheel == ASSUME WheelInv, AddChunk PROVE WheelInv'
<1>1. call.op = "add" /\ Types /\ Timed /\ running
  BY CallRuns DEF AddChunk, WheelInv
<1>2. PICK v \in Work : v = call.work
  BY <1>1 DEF Timed
<1>3. PICK k, ch : Chains(k, ch) /\ Placed(k, ch)
  BY <1>1 DEF WheelInv
<1>4. PICK B \in Buckets : B = call.bucket
  BY <1>1 DEF Types
<1>5. PICK c \in pool :
        /\ pool' = pool \ {c}
        /\ mem' = LET m == [mem EXCEPT ![c].entry[0] = v]
                  IN IF HasChunk(bucket[B]) THEN [m EXCEPT ![bucket[B].last].next = c] ELSE m
        /\ bucket' = [bucket EXCEPT ![B] =
                        [first |-> IF HasChunk(bucket[B]) THEN bucket[B].first ELSE c,
                         num |-> bucket[B].num + 1, rem |-> Remainder, last |-> c]]
        /\ Remember(c, 0)
  BY <1>2, <1>4 DEF AddChunk
<1>6. /\ bucket[B].rem = 0 /\ call' = NoCall
      /\ UNCHANGED <<now, hw, running, due>>
  BY <1>4 DEF AddChunk
<1>7. PICK n \in Nat : n = bucket[B].num
  BY <1>1 DEF Types
<1>8. c \in Chunk /\ c # None
  BY <1>1, <1>5, Sizes DEF Types
<1>9. k \in [Buckets -> Nat] /\ ch \in [Buckets -> [Nat -> Chunk \cup {None}]]
  BY <1>3 DEF Chains
<1>10. PICK k1, ch1 : Longer(k, ch, B, c, k1, ch1)
  BY <1>8, <1>9, LongerExists
<1>11. PICK K \in Nat : K = k[B]
  BY <1>9
<1>12. n = Entries * K
  <2>1. bucket[B].num + bucket[B].rem = Entries * k[B]
    BY <1>3 DEF Chains
  <2> QED
    BY <1>6, <1>7, <1>11, <2>1
<1>13. HasChunk(bucket[B]) <=> K > 0
  <2>1. K = 0 => Entries * K = 0
    BY Sizes
  <2>2. K > 0 => Entries * K > 0
    BY Sizes
  <2> QED
    BY <1>7, <1>12, <2>1, <2>2 DEF HasChunk
<1>14. ASSUME K > 0
       PROVE  /\ K - 1 \in Nat /\ K - 1 < K /\ bucket[B].first = ch[B][0] /\ bucket[B].last = ch[B][K - 1]
              /\ bucket[B].last \in Chunk
  BY <1>3, <1>11, <1>14 DEF Chains
<1>15. Links(mem', c, v, B)
  BY <1>1, <1>5, <1>8, <1>13, <1>14, Linked
<1>16. /\ \A b \in Buckets : b # B => bucket'[b] = bucket[b]
       /\ bucket'[B].rem = Entries - 1 /\ bucket'[B].num = n + 1 /\ bucket'[B].last = c
       /\ bucket'[B].first = IF K > 0 THEN bucket[B].first ELSE c
       /\ bucket' \in [Buckets -> [first : Chunk \cup {None}, num : Nat,
                                   rem : 0 .. Entries - 1, last : Chunk \cup {None}]]
  <2>1. PICK y : y = [first |-> IF K > 0 THEN bucket[B].first ELSE c,
                      num |-> n + 1, rem |-> Entries - 1, last |-> c]
    OBVIOUS
  <2>2. bucket' = [bucket EXCEPT ![B] = y]
    BY <1>5, <1>7, <1>13, <2>1 DEF Remainder
  <2>3. bucket \in [Buckets -> [first : Chunk \cup {None}, num : Nat,
                                rem : 0 .. Entries - 1, last : Chunk \cup {None}]]
    BY <1>1 DEF Types
  <2>4. bucket[B].first \in Chunk \cup {None}
    BY <2>3
  <2>5. y \in [first : Chunk \cup {None}, num : Nat, rem : 0 .. Entries - 1, last : Chunk \cup {None}]
    BY <1>8, <2>1, <2>4, Sizes
  <2> QED
    BY <2>1, <2>2, <2>3, <2>5
<1>17. /\ Timed'
       /\ info' \in [Work -> [left : 0 .. MaxTicks * TickCycles,
                              chunk : Chunk \cup {None}, slot : 0 .. Entries - 1]]
       /\ info'[v].chunk = c /\ info'[v].slot = 0
       /\ \A w \in Work : w # v => info'[w] = info[w]
  <2>1. 0 \in 0 .. Entries - 1
    BY Sizes
  <2> QED
    BY <1>1, <1>2, <1>5, <1>6, <1>8, <2>1, Remembered
<1>18. Types'
  BY <1>1, <1>5, <1>6, <1>15, <1>16, <1>17, TypesParts DEF Types, Links
<1>19. /\ k1 \in [Buckets -> Nat] /\ ch1 \in [Buckets -> [Nat -> Chunk \cup {None}]]
       /\ k1[B] = K + 1 /\ \A b \in Buckets : b # B => k1[b] = k[b]
       /\ ch1[B][K] = c
       /\ \A b \in Buckets, i \in Nat : ~(b = B /\ i = K) => ch1[b][i] = ch[b][i]
  BY <1>10, <1>11 DEF Longer
<1>20. \A b \in Buckets, i \in Nat :
         /\ i < k1[b] <=> i < k[b] \/ (b = B /\ i = K)
         /\ i < k[b] => ~(b = B /\ i = K) /\ ch1[b][i] = ch[b][i] /\ ch[b][i] \in Chunk
                        /\ ch[b][i] \notin pool /\ ch[b][i] # c
  <2>1. ASSUME NEW b \in Buckets, NEW i \in Nat PROVE i < k1[b] <=> i < k[b] \/ (b = B /\ i = K)
    <3>1. k[b] \in Nat
      BY <1>9
    <3> QED
      BY <1>11, <1>19, <3>1
  <2>2. ASSUME NEW b \in Buckets, NEW i \in Nat, i < k[b]
        PROVE  ~(b = B /\ i = K) /\ ch[b][i] \in Chunk /\ ch[b][i] \notin pool
    BY <1>3, <1>11, <2>2 DEF Chains
  <2> QED
    BY <1>5, <1>19, <2>1, <2>2
<1>21. Chains(k1, ch1)'
  <2>1. \A b \in Buckets, i \in Nat : i < k1[b] => ch1[b][i] \in Chunk /\ ch1[b][i] \notin pool'
    BY <1>5, <1>8, <1>19, <1>20
  <2>2. ASSUME NEW a \in Buckets, NEW b \in Buckets, NEW i \in Nat, NEW j \in Nat,
               i < k1[a], j < k1[b], ch1[a][i] = ch1[b][j]
        PROVE  a = b /\ i = j
    <3>1. CASE i < k[a] /\ j < k[b]
      <4>1. ch[a][i] = ch[b][j]
        BY <1>20, <2>2, <3>1
      <4> QED
        BY <1>3, <3>1, <4>1 DEF Chains
    <3>2. CASE ~(i < k[a] /\ j < k[b])
      BY <1>19, <1>20, <2>2, <3>2
    <3> QED
      BY <3>1, <3>2
  <2>3. ASSUME NEW b \in Buckets, NEW i \in Nat, i + 1 < k1[b]
        PROVE  mem'[ch1[b][i]].next = ch1[b][i + 1]
    <3>1. k[b] \in Nat /\ i + 1 \in Nat
      BY <1>9
    <3>2. i < k[b] /\ ch1[b][i] = ch[b][i] /\ ch[b][i] \in Chunk
      BY <1>11, <1>19, <1>20, <2>3, <3>1
    <3>3. CASE b = B /\ i + 1 = K
      <4>1. K > 0 /\ i = K - 1
        BY <3>3
      <4>2. ch[b][i] = bucket[B].last
        BY <1>14, <3>3, <4>1
      <4> QED
        BY <1>13, <1>15, <1>19, <3>2, <3>3, <4>1, <4>2 DEF Links
    <3>4. CASE ~(b = B /\ i + 1 = K)
      <4>1. i + 1 < k[b]
        BY <1>11, <1>19, <2>3, <3>1, <3>4
      <4>2. mem[ch[b][i]].next = ch[b][i + 1] /\ ch1[b][i + 1] = ch[b][i + 1]
        BY <1>3, <1>20, <3>1, <4>1 DEF Chains
      <4>3. HasChunk(bucket[B]) => ch[b][i] # bucket[B].last
        <5>1. ASSUME K > 0, ch[b][i] = ch[B][K - 1] PROVE FALSE
          <6>1. b = B /\ i = K - 1
            BY <1>3, <1>11, <1>14, <3>2, <5>1 DEF Chains
          <6> QED
            BY <3>4, <6>1
        <5> QED
          BY <1>13, <1>14, <5>1
      <4> QED
        BY <1>15, <3>2, <4>2, <4>3 DEF Links
    <3> QED
      BY <3>3, <3>4
  <2>4. ASSUME NEW b \in Buckets, k1[b] > 0
        PROVE  bucket'[b].first = ch1[b][0] /\ bucket'[b].last = ch1[b][k1[b] - 1]
    <3>1. CASE b = B
      <4>1. bucket'[b].last = ch1[b][k1[b] - 1]
        <5>1. k1[b] - 1 = K
          BY <1>19, <3>1
        <5> QED
          BY <1>16, <1>19, <3>1, <5>1
      <4>2. K > 0 => bucket'[b].first = ch1[b][0]
        BY <1>14, <1>16, <1>19, <3>1
      <4>3. K = 0 => bucket'[b].first = ch1[b][0]
        BY <1>16, <1>19, <3>1
      <4> QED
        BY <4>1, <4>2, <4>3
    <3>2. CASE b # B
      <4>1. k1[b] = k[b] /\ k[b] - 1 \in Nat
        BY <1>9, <1>19, <2>4, <3>2
      <4>2. bucket[b].first = ch[b][0] /\ bucket[b].last = ch[b][k[b] - 1]
        BY <1>3, <2>4, <4>1 DEF Chains
      <4>3. ch1[b][0] = ch[b][0] /\ ch1[b][k[b] - 1] = ch[b][k[b] - 1]
        BY <1>19, <3>2, <4>1
      <4> QED
        BY <1>16, <3>2, <4>1, <4>2, <4>3
    <3> QED
      BY <3>1, <3>2
  <2>5. ASSUME NEW b \in Buckets PROVE bucket'[b].num + bucket'[b].rem = Entries * k1[b]
    <3>1. bucket[b].num + bucket[b].rem = Entries * k[b]
      BY <1>3 DEF Chains
    <3>2. Entries * (K + 1) = Entries * K + Entries /\ Entries * K \in Nat
      BY Sizes
    <3>3. (n + 1) + (Entries - 1) = Entries * (K + 1)
      BY <1>12, <3>2, Sizes
    <3> QED
      BY <1>16, <1>19, <3>1, <3>3
  <2>6. ASSUME NEW x \in Chunk PROVE x \in pool' \/ \E b \in Buckets, i \in Nat : i < k1[b] /\ x = ch1[b][i]
    <3>1. CASE x = c
      BY <1>19, <1>20, <3>1
    <3>2. CASE x # c /\ x \in pool
      BY <1>5, <3>2
    <3>3. CASE x \notin pool
      <4>1. PICK b \in Buckets, i \in Nat : i < k[b] /\ x = ch[b][i]
        BY <1>3, <3>3 DEF Chains
      <4>2. i < k1[b] /\ x = ch1[b][i]
        BY <1>20, <4>1
      <4> QED
        BY <4>2
    <3> QED
      BY <3>1, <3>2, <3>3
  <2> QED
    BY <1>19, <2>1, <2>2, <2>3, <2>4, <2>5, <2>6 DEF Chains
<1>22. ASSUME NEW b, NEW i, NEW s
       PROVE  /\ Filled(k1, b, i, s)' <=> Filled(k, b, i, s) \/ (b = B /\ i = K /\ s = 0)
              /\ Filled(k, b, i, s) => b \in Buckets /\ i \in Nat /\ i < k[b] /\ s \in 0 .. Entries - 1
  <2>1. ASSUME b \in Buckets, b # B PROVE Filled(k1, b, i, s)' <=> Filled(k, b, i, s)
    BY <1>16, <1>19, <2>1 DEF Filled
  <2>2. ASSUME b = B PROVE Filled(k1, b, i, s)' <=> Filled(k, b, i, s) \/ (i = K /\ s = 0)
    <3>1. Filled(k1, b, i, s)' <=> /\ i \in Nat /\ s \in 0 .. Entries - 1
                                   /\ i + 1 < K + 1 \/ (i + 1 = K + 1 /\ s < Entries - (Entries - 1))
      BY <1>16, <1>19, <2>2 DEF Filled
    <3>2. Filled(k, b, i, s) <=> /\ i \in Nat /\ s \in 0 .. Entries - 1
                                 /\ i + 1 < K \/ (i + 1 = K /\ s < Entries - 0)
      BY <1>6, <1>11, <2>2 DEF Filled
    <3> QED
      BY <3>1, <3>2, Sizes
  <2>3. Filled(k, b, i, s) => b \in Buckets /\ i \in Nat /\ i < k[b] /\ s \in 0 .. Entries - 1
    <3>1. b \in Buckets => k[b] \in Nat
      BY <1>9
    <3> QED
      BY <3>1 DEF Filled
  <2>4. b \notin Buckets => ~Filled(k1, b, i, s)' /\ ~Filled(k, b, i, s) /\ b # B
    BY DEF Filled
  <2> QED
    BY <2>1, <2>2, <2>3, <2>4
<1>23. AddsPlace(k, ch, k1, ch1, v, B, K, 0)
  <2>1. ASSUME NEW b, NEW i, NEW s, Filled(k, b, i, s)
        PROVE  /\ ch1[b][i] = ch[b][i] /\ ~(b = B /\ i = K)
               /\ mem'[ch1[b][i]].entry[s] = mem[ch[b][i]].entry[s]
    <3>1. b \in Buckets /\ i \in Nat /\ i < k[b] /\ s \in 0 .. Entries - 1
      BY <1>22, <2>1
    <3>2. ch1[b][i] = ch[b][i] /\ ~(b = B /\ i = K) /\ ch[b][i] \in Chunk /\ ch[b][i] # c
      BY <1>20, <3>1
    <3> QED
      BY <1>15, <3>1, <3>2 DEF Links
  <2>2. mem'[ch1[B][K]].entry[0] = v
    <3>1. 0 \in 0 .. Entries - 1
      BY Sizes
    <3> QED
      BY <1>8, <1>15, <1>19, <3>1 DEF Links
  <2>3. ASSUME NEW w \in Work, NEW b, NEW i, NEW s
        PROVE  Holds(k1, ch1, b, i, s, w)' <=>
                 Holds(k, ch, b, i, s, w) \/ (b = B /\ i = K /\ s = 0 /\ w = v)
    <3>1. Holds(k1, ch1, b, i, s, w)' <=> Filled(k1, b, i, s)' /\ mem'[ch1[b][i]].entry[s] = w
      BY DEF Holds
    <3>2. CASE Filled(k, b, i, s)
      BY <1>22, <2>1, <3>1, <3>2 DEF Holds
    <3>3. CASE ~Filled(k, b, i, s)
      BY <1>22, <2>2, <3>1, <3>3 DEF Holds
    <3> QED
      BY <3>2, <3>3
  <2>4. B = Target(v)
    BY <1>1, <1>2, <1>4 DEF Timed, TimedEntry, Adding
  <2> QED
    BY <1>17, <1>19, <2>1, <2>3, <2>4 DEF AddsPlace
<1>24. Placed(k1, ch1)'
  BY <1>1, <1>2, <1>3, <1>6, <1>17, <1>23, AddedPlaces
<1> QED
  BY <1>1, <1>6, <1>17, <1>18, <1>21, <1>24 DEF WheelInv

-----------------------------------------------------------------------------
(* Deleting an entry *)

\* the entry that a delete in progress will zero is where its delete_info says
LEMMA DeletedPlace ==
  ASSUME Timed, call.op = "delete", NEW k, NEW ch, Placed(k, ch)
  PROVE  \E b, i : /\ Holds(k, ch, b, i, info[call.work].slot, call.work)
                   /\ ch[b][i] = info[call.work].chunk
<1>1. PICK v \in Work : v = call.work
  BY DEF Timed
<1>2. TimedEntry(v)
  BY DEF Timed
<1>3. Usable(v)
  BY <1>1, <1>2 DEF TimedEntry, Usable
<1> QED
  BY <1>1, <1>3 DEF Placed

LEMMA ZeroEntryWheel == ASSUME WheelInv, ZeroEntry PROVE WheelInv'
<1>1. call.op = "delete" /\ Types /\ Timed /\ running
  BY CallRuns DEF ZeroEntry, WheelInv
<1>2. PICK v \in Work : v = call.work
  BY <1>1 DEF Timed
<1>3. PICK k, ch : Chains(k, ch) /\ Placed(k, ch)
  BY <1>1 DEF WheelInv
<1>4. PICK B, I : Holds(k, ch, B, I, info[v].slot, v) /\ ch[B][I] = info[v].chunk
  BY <1>1, <1>2, <1>3, DeletedPlace
<1>5. PICK c, S : c = info[v].chunk /\ S = info[v].slot
  OBVIOUS
<1>6. /\ mem' = [mem EXCEPT ![c].entry[S] = None]
      /\ info' = [info EXCEPT ![v] = NoInfo]
      /\ due' = [due EXCEPT ![v] = None]
      /\ call' = NoCall
      /\ UNCHANGED <<now, hw, running, bucket, pool>>
  BY <1>2, <1>5 DEF ZeroEntry
<1>7. \A b, i, s : Filled(k, b, i, s) => /\ b \in Buckets /\ i \in Nat /\ i < k[b] /\ s \in 0 .. Entries - 1
                                         /\ ch[b][i] \in Chunk
  <2>1. ASSUME NEW b, NEW i, NEW s, Filled(k, b, i, s)
        PROVE  /\ b \in Buckets /\ i \in Nat /\ i < k[b] /\ s \in 0 .. Entries - 1
               /\ ch[b][i] \in Chunk
    <3>1. b \in Buckets /\ i \in Nat /\ k[b] \in Nat
      BY <1>3, <2>1 DEF Filled, Chains
    <3>2. i < k[b] /\ s \in 0 .. Entries - 1
      BY <2>1, <3>1 DEF Filled
    <3> QED
      BY <1>3, <3>1, <3>2 DEF Chains
  <2> QED
    BY <2>1
<1>8. Filled(k, B, I, S) /\ mem[c].entry[S] = v /\ c \in Chunk /\ S \in 0 .. Entries - 1 /\ c = ch[B][I]
  BY <1>4, <1>5, <1>7 DEF Holds
<1>9. /\ \A x \in Chunk : mem'[x].next = mem[x].next
      /\ \A x \in Chunk, s \in 0 .. Entries - 1 :
           mem'[x].entry[s] = IF x = c /\ s = S THEN None ELSE mem[x].entry[s]
      /\ mem' \in [Chunk -> [entry : [0 .. Entries - 1 -> Work \cup {None}],
                             next : Chunk \cup {None}]]
  <2>1. mem \in [Chunk -> [entry : [0 .. Entries - 1 -> Work \cup {None}], next : Chunk \cup {None}]]
    BY <1>1 DEF Types
  <2> QED
    BY <1>6, <1>8, <2>1
<1>10. Chains(k, ch)'
  <2>1. \A b \in Buckets, i \in Nat : i + 1 < k[b] => mem'[ch[b][i]].next = ch[b][i + 1]
    <3>1. \A b \in Buckets, i \in Nat : i + 1 < k[b] => i < k[b]
      BY <1>3 DEF Chains
    <3>2. \A b \in Buckets, i \in Nat : i < k[b] => ch[b][i] \in Chunk
      BY <1>3 DEF Chains
    <3>3. \A b \in Buckets, i \in Nat : i + 1 < k[b] => mem[ch[b][i]].next = ch[b][i + 1]
      BY <1>3 DEF Chains
    <3> QED
      BY <1>9, <3>1, <3>2, <3>3
  <2> QED
    BY <1>3, <1>6, <2>1 DEF Chains
<1>11. ASSUME NEW w \in Work, NEW b, NEW i, NEW s
       PROVE  Holds(k, ch, b, i, s, w)' <=> Holds(k, ch, b, i, s, w) /\ w # v
  <2>1. Holds(k, ch, b, i, s, w)' <=> Filled(k, b, i, s) /\ mem'[ch[b][i]].entry[s] = w
    BY <1>6 DEF Holds, Filled
  <2>2. ASSUME Filled(k, b, i, s), ch[b][i] = c, s = S
        PROVE  mem'[ch[b][i]].entry[s] # w /\ mem[ch[b][i]].entry[s] = v
    BY <1>7, <1>8, <1>9, <2>2, Sizes
  <2>3. ASSUME Filled(k, b, i, s), ~(ch[b][i] = c /\ s = S)
        PROVE  mem'[ch[b][i]].entry[s] = mem[ch[b][i]].entry[s] /\ mem[ch[b][i]].entry[s] # v
    <3>1. mem'[ch[b][i]].entry[s] = mem[ch[b][i]].entry[s]
      BY <1>7, <1>9, <2>3
    <3>2. ASSUME mem[ch[b][i]].entry[s] = v PROVE FALSE
      <4>1. Holds(k, ch, b, i, s, v) /\ Holds(k, ch, B, I, S, v)
        BY <1>8, <2>3, <3>2 DEF Holds
      <4>2. b = B /\ i = I /\ s = S
        BY <1>3, <4>1 DEF Placed
      <4> QED
        BY <1>8, <2>3, <4>2
    <3> QED
      BY <3>1, <3>2
  <2> QED
    BY <2>1, <2>2, <2>3 DEF Holds
<1>12. /\ due'[v] = None /\ \A w \in Work : w # v => due'[w] = due[w]
       /\ due' \in [Work -> 0 .. NumBuckets - 1 \cup {None}]
  <2>1. due \in [Work -> 0 .. NumBuckets - 1 \cup {None}]
    BY <1>1 DEF Types
  <2> QED
    BY <1>6, <2>1
<1>13. /\ info'[v] = NoInfo /\ \A w \in Work : w # v => info'[w] = info[w]
       /\ info' \in [Work -> [left : 0 .. MaxTicks * TickCycles,
                              chunk : Chunk \cup {None}, slot : 0 .. Entries - 1]]
  <2>1. info \in [Work -> [left : 0 .. MaxTicks * TickCycles,
                           chunk : Chunk \cup {None}, slot : 0 .. Entries - 1]]
    BY <1>1 DEF Types
  <2> QED
    BY <1>6, <2>1, TypesParts
<1>14. Types'
  BY <1>1, <1>6, <1>9, <1>12, <1>13, TypesParts DEF Types
<1>15. \A w \in Work : ~Adding(w) /\ ~Adding(w)' /\ (w # v => Target(w)' = Target(w) /\ Rest(w)' = Rest(w))
  BY <1>1, <1>6, <1>12 DEF Adding, NoCall, Target, Rest, Current
<1>16. ~Usable(v)' /\ \A w \in Work : w # v => (Usable(w)' => Usable(w))
  BY <1>6, <1>13 DEF Usable, NoCall, NoInfo
<1>17. Timed'
  <2>1. ASSUME NEW w \in Work, w # v PROVE TimedEntry(w)'
    BY <1>1, <1>6, <1>12, <1>13, <1>15, <2>1 DEF Timed, TimedEntry, NoCall
  <2>2. TimedEntry(v)'
    BY <1>6, <1>12, <1>13, <1>15 DEF TimedEntry, NoCall, NoInfo
  <2> QED
    BY <1>6, <2>1, <2>2 DEF Timed, NoCall
<1>18. Placed(k, ch)'
  <2>1. \A w \in Work : \A b, i, s : Holds(k, ch, b, i, s, w)' =>
          due'[w] # None /\ b = Target(w)' /\ ~Adding(w)'
    BY <1>3, <1>11, <1>12, <1>15 DEF Placed
  <2>2. \A w \in Work : \A a, i, s, b, j, t :
          Holds(k, ch, a, i, s, w)' /\ Holds(k, ch, b, j, t, w)' => a = b /\ i = j /\ s = t
    BY <1>3, <1>11 DEF Placed
  <2>3. \A w \in Work : due'[w] # None /\ ~Adding(w)' => \E b, i, s : Holds(k, ch, b, i, s, w)'
    <3>1. ASSUME NEW w \in Work, due'[w] # None PROVE \E b, i, s : Holds(k, ch, b, i, s, w)'
      <4>1. w # v /\ due[w] # None
        BY <1>12, <3>1
      <4>2. PICK b, i, s : Holds(k, ch, b, i, s, w)
        BY <1>3, <1>15, <4>1 DEF Placed
      <4> QED
        BY <1>11, <4>1, <4>2
    <3> QED
      BY <3>1
  <2>4. ASSUME NEW w \in Work, Usable(w)'
        PROVE  (\E b, i : Holds(k, ch, b, i, info[w].slot, w) /\ ch[b][i] = info[w].chunk)'
    <3>1. w # v /\ Usable(w)
      BY <1>16, <2>4
    <3>2. PICK b, i : Holds(k, ch, b, i, info[w].slot, w) /\ ch[b][i] = info[w].chunk
      BY <1>3, <3>1 DEF Placed
    <3>3. PICK s : s = info[w].slot /\ s = info'[w].slot /\ Holds(k, ch, b, i, s, w)
      BY <1>13, <3>1, <3>2
    <3>4. Holds(k, ch, b, i, s, w)' /\ ch[b][i] = info'[w].chunk
      BY <1>11, <1>13, <3>1, <3>2, <3>3
    <3> QED
      BY <3>3, <3>4
  <2> QED
    BY <2>1, <2>2, <2>3, <2>4 DEF Placed
<1> QED
  BY <1>1, <1>6, <1>10, <1>14, <1>17, <1>18 DEF WheelInv

-----------------------------------------------------------------------------
(* The list of a bucket *)

\* a non-empty set of numbers has a least one
LEMMA LeastNat ==
  ASSUME NEW T \in SUBSET Nat, T # {}
  PROVE  \E x \in T : \A y \in T : x <= y
<1>1. \E R : IsWellFoundedOn(R, Nat) /\ \A x, y \in Nat : x < y => <<x, y>> \in R
  <2> DEFINE R == OpToRel(<, Nat)
  <2>1. IsWellFoundedOn(R, Nat)
    BY NatLessThanWellFounded, Zenon
  <2>2. \A x, y \in Nat : x < y => <<x, y>> \in R
    BY DEF OpToRel
  <2> QED
    BY <2>1, <2>2
<1>2. PICK R : IsWellFoundedOn(R, Nat) /\ \A x, y \in Nat : x < y => <<x, y>> \in R
  BY <1>1
<1>3. \E x \in T : \A y \in T : ~ (<<y, x>> \in R)
  <2>1. T \subseteq Nat /\ IsWellFoundedOn(R, Nat)
    BY <1>2
  <2> QED
    BY <2>1, WFMin, Zenon
<1>4. PICK x \in T : \A y \in T : ~ (<<y, x>> \in R)
  BY <1>3, Zenon
<1>5. ASSUME NEW y \in T PROVE x <= y
  <2>1. x \in Nat /\ y \in Nat
    OBVIOUS
  <2>2. ~(y < x)
    BY <2>1, <1>2, <1>4, Zenon
  <2> QED
    BY <2>1, <2>2
<1> QED
  BY <1>5

\* following the next words is following the chain
LEMMA HopIs ==
  ASSUME NEW k, NEW ch, Chains(k, ch), NEW b \in Buckets, NEW n \in Nat, n < k[b], NEW f,
         f = [i \in 0 .. n |-> IF i = 0 THEN bucket[b].first ELSE mem[f[i - 1]].next]
  PROVE  f[n] = ch[b][n]
<1> DEFINE T == {i \in 0 .. n : f[i] # ch[b][i]}
<1>0. k[b] \in Nat
  BY DEF Chains
<1>1. SUFFICES ASSUME T # {} PROVE FALSE
  OBVIOUS
<1>2. PICK x \in T : \A y \in T : x <= y
  <2>1. T \in SUBSET Nat
    OBVIOUS
  <2> HIDE DEF T
  <2> QED
    BY <1>1, <2>1, LeastNat
<1>3. x \in 0 .. n /\ f[x] # ch[b][x]
  OBVIOUS
<1>4. CASE x = 0
  <2>1. f[0] = bucket[b].first
    OBVIOUS
  <2>2. bucket[b].first = ch[b][0]
    BY <1>0 DEF Chains
  <2> QED
    BY <1>3, <1>4, <2>1, <2>2
<1>5. CASE x # 0
  <2>1. PICK y \in Nat : y = x - 1 /\ y + 1 = x /\ y \in 0 .. n /\ y + 1 < k[b]
    BY <1>0, <1>3, <1>5
  <2>2. f[y] = ch[b][y]
    BY <1>2, <2>1
  <2>3. f[x] = mem[f[y]].next
    BY <1>3, <1>5, <2>1
  <2>4. mem[ch[b][y]].next = ch[b][y + 1]
    BY <2>1 DEF Chains
  <2> QED
    BY <1>3, <2>1, <2>2, <2>3, <2>4
<1> QED
  BY <1>4, <1>5

LEMMA ChunkIs ==
  ASSUME NEW k, NEW ch, Chains(k, ch), NEW b \in Buckets, NEW n \in Nat, n < k[b]
  PROVE  ChunkAt(bucket[b], n) = ch[b][n]
<1> DEFINE Follows(f) ==
             f = [i \in 0 .. n |-> IF i = 0 THEN bucket[b].first ELSE mem[f[i - 1]].next]
           hop == CHOOSE f : Follows(f)
<1>1. ChunkAt(bucket[b], n) = hop[n]
  BY Zenon DEF ChunkAt
<1>2. \E f : Follows(f)
  <2> DEFINE g == [i \in 0 .. n |-> ch[b][i]]
  <2>0. k[b] \in Nat
    BY DEF Chains
  <2>1. ASSUME NEW i \in 0 .. n
        PROVE  g[i] = IF i = 0 THEN bucket[b].first ELSE mem[g[i - 1]].next
    <3>1. CASE i = 0
      <4>1. bucket[b].first = ch[b][0]
        BY <2>0 DEF Chains
      <4> QED
        BY <3>1, <4>1
    <3>2. CASE i # 0
      <4>1. PICK y \in Nat : y = i - 1 /\ y + 1 = i /\ y \in 0 .. n /\ y + 1 < k[b]
        BY <2>0, <3>2
      <4>2. mem[ch[b][y]].next = ch[b][y + 1]
        BY <4>1 DEF Chains
      <4> QED
        BY <3>2, <4>1, <4>2
    <3> QED
      BY <3>1, <3>2
  <2>2. g = [i \in 0 .. n |-> IF i = 0 THEN bucket[b].first ELSE mem[g[i - 1]].next]
    BY <2>1
  <2> HIDE DEF g
  <2> QED
    BY <2>2, Zenon
<1> HIDE DEF Follows
<1>3. Follows(hop)
  BY <1>2, Zenon
<1>4. hop = [i \in 0 .. n |-> IF i = 0 THEN bucket[b].first ELSE mem[hop[i - 1]].next]
  BY <1>3, Zenon DEF Follows
<1> HIDE DEF hop
<1>5. hop[n] = ch[b][n]
  BY <1>4, HopIs
<1> QED
  BY <1>1, <1>5

\* the j-th entry of bucket b is slot s of its i-th chunk
EntryAt(b, j, i, s) ==
  /\ j \in 0 .. bucket[b].num - 1
  /\ j \div Entries = i /\ j % Entries = s

LEMMA EntryFilled ==
  ASSUME Types, NEW k, NEW ch, Chains(k, ch), NEW b \in Buckets
  PROVE  /\ \A j \in 0 .. bucket[b].num - 1 : Filled(k, b, j \div Entries, j % Entries)
         /\ \A i, s : Filled(k, b, i, s) => \E j : EntryAt(b, j, i, s)
<1>1. PICK n \in Nat, m \in 0 .. Entries - 1 : n = bucket[b].num /\ m = bucket[b].rem
  BY DEF Types
<1>2. PICK K \in Nat : K = k[b]
  BY DEF Chains
<1>3. n + m = Entries * K
  BY <1>1, <1>2 DEF Chains
<1>4. ASSUME NEW j \in 0 .. n - 1 PROVE Filled(k, b, j \div Entries, j % Entries)
  <2>1. PICK i \in Int, s \in 0 .. Entries - 1 :
          i = j \div Entries /\ s = j % Entries /\ j = Entries * i + s
    BY DivMod, Sizes
  <2>2. i >= 0
    <3>1. Entries * (0 - 1) < Entries * i
      BY <2>1, Sizes
    <3> QED
      BY <3>1, ProductOrder, Sizes
  <2>3. i < K
    <3>1. Entries * i < Entries * K
      BY <1>1, <1>3, <2>1, Sizes
    <3> QED
      BY <3>1, ProductOrder, Sizes
  <2>4. i + 1 = K => s < Entries - m
    <3>1. i + 1 = K => Entries * K = Entries * i + Entries
      BY Sizes
    <3>2. Entries * i \in Int /\ Entries * K \in Int
      BY Sizes
    <3> QED
      BY <1>1, <1>3, <2>1, <3>1, <3>2, Sizes
  <2>5. Filled(k, b, i, s)
    BY <1>1, <1>2, <2>1, <2>2, <2>3, <2>4 DEF Filled
  <2> QED
    BY <2>1, <2>5
<1>5. ASSUME NEW i, NEW s, Filled(k, b, i, s) PROVE \E j : EntryAt(b, j, i, s)
  <2>1. /\ i \in Nat /\ s \in 0 .. Entries - 1
        /\ i + 1 < K \/ (i + 1 = K /\ s < Entries - m)
    BY <1>1, <1>2, <1>5 DEF Filled
  <2>2. PICK j \in Int : j = Entries * i + s
    BY <2>1, Sizes
  <2>3. Entries * i \in Nat /\ Entries * (i + 1) = Entries * i + Entries
    BY <2>1, Sizes
  <2>4. j < n
    <3>1. CASE i + 1 = K
      BY <1>1, <1>3, <2>1, <2>2, <2>3, <3>1, Sizes
    <3>2. CASE i + 1 < K
      <4>1. Entries * (i + 1) < Entries * K
        BY <2>1, <3>2, ProductOrder, Sizes
      <4>2. PICK e \in Nat : e = K - (i + 2)
        BY <2>1, <3>2
      <4>3. Entries * K = Entries * (i + 1) + Entries + Entries * e /\ Entries * e \in Nat
        BY <2>1, <4>2, Sizes
      <4> QED
        BY <1>1, <1>3, <2>1, <2>2, <2>3, <4>3, Sizes
    <3> QED
      BY <2>1, <3>1, <3>2
  <2>5. j \div Entries = i /\ j % Entries = s
    BY <2>1, <2>2, DivUnique, Sizes
  <2>6. j \in 0 .. n - 1
    BY <1>1, <2>1, <2>2, <2>3, <2>4
  <2> QED
    BY <1>1, <2>5, <2>6 DEF EntryAt
<1> QED
  BY <1>1, <1>4, <1>5

\* what software and hardware read of a bucket is its chain
IsList(k, ch, b) ==
  /\ \A x : x \in ChunksOf(bucket[b]) <=> \E i \in Nat : i < k[b] /\ x = ch[b][i]
  /\ \A x : x \in Freed(bucket[b]) <=> \E i \in Nat : i < k[b] /\ x = ch[b][i]
  /\ \A w : w \in EntriesOf(bucket[b]) <=> w # None /\ \E i, s : Holds(k, ch, b, i, s, w)

LEMMA ListIs ==
  ASSUME Types, NEW k, NEW ch, Chains(k, ch), NEW b \in Buckets
  PROVE  IsList(k, ch, b)
<1>1. PICK K \in Nat : K = k[b]
  BY DEF Chains
<1>2. ASSUME NEW i, NEW s, Filled(k, b, i, s)
      PROVE  i \in Nat /\ i < K /\ ChunkAt(bucket[b], i) = ch[b][i]
  <2>1. i \in Nat /\ i < K
    BY <1>1, <1>2 DEF Filled
  <2> QED
    BY <1>1, <2>1, ChunkIs
<1>3. ASSUME NEW i \in Nat, i < K PROVE Filled(k, b, i, 0)
  <2>1. bucket[b].rem \in 0 .. Entries - 1
    BY DEF Types
  <2> QED
    BY <1>1, <1>3, <2>1, Sizes DEF Filled
<1>4. ASSUME NEW x PROVE x \in ChunksOf(bucket[b]) <=> \E i \in Nat : i < k[b] /\ x = ch[b][i]
  <2>1. ASSUME x \in ChunksOf(bucket[b]) PROVE \E i \in Nat : i < k[b] /\ x = ch[b][i]
    <3>1. PICK j \in 0 .. bucket[b].num - 1 : x = ChunkAt(bucket[b], j \div Entries)
      BY <2>1 DEF ChunksOf
    <3>2. Filled(k, b, j \div Entries, j % Entries)
      BY EntryFilled
    <3> QED
      BY <1>1, <1>2, <3>1, <3>2
  <2>2. ASSUME NEW i \in Nat, i < k[b], x = ch[b][i] PROVE x \in ChunksOf(bucket[b])
    <3>1. Filled(k, b, i, 0)
      BY <1>1, <1>3, <2>2
    <3>2. PICK j : EntryAt(b, j, i, 0)
      BY <3>1, EntryFilled
    <3>3. ChunkAt(bucket[b], i) = x
      BY <1>2, <2>2, <3>1
    <3> QED
      BY <3>2, <3>3 DEF ChunksOf, EntryAt
  <2> QED
    BY <2>1, <2>2
<1>5. ASSUME NEW w PROVE w \in EntriesOf(bucket[b]) <=> w # None /\ \E i, s : Holds(k, ch, b, i, s, w)
  <2>1. ASSUME w \in EntriesOf(bucket[b]) PROVE w # None /\ \E i, s : Holds(k, ch, b, i, s, w)
    <3>1. PICK j \in 0 .. bucket[b].num - 1 :
            w = mem[ChunkAt(bucket[b], j \div Entries)].entry[j % Entries]
      BY <2>1 DEF EntriesOf
    <3>2. PICK i, s : i = j \div Entries /\ s = j % Entries
      OBVIOUS
    <3>3. Filled(k, b, i, s)
      BY <3>2, EntryFilled
    <3>4. Holds(k, ch, b, i, s, w)
      BY <1>2, <3>1, <3>2, <3>3 DEF Holds
    <3> QED
      BY <2>1, <3>4 DEF EntriesOf
  <2>2. ASSUME w # None, NEW i, NEW s, Holds(k, ch, b, i, s, w) PROVE w \in EntriesOf(bucket[b])
    <3>1. Filled(k, b, i, s) /\ w = mem[ch[b][i]].entry[s]
      BY <2>2 DEF Holds
    <3>2. PICK j : EntryAt(b, j, i, s)
      BY <3>1, EntryFilled
    <3>3. ChunkAt(bucket[b], i) = ch[b][i]
      BY <1>2, <3>1
    <3> QED
      BY <2>2, <3>1, <3>2, <3>3 DEF EntriesOf, EntryAt
  <2> QED
    BY <2>1, <2>2
<1>6. ASSUME NEW x PROVE x \in Freed(bucket[b]) <=> \E i \in Nat : i < k[b] /\ x = ch[b][i]
  <2>1. PICK n \in Nat, m \in 0 .. Entries - 1 : n = bucket[b].num /\ m = bucket[b].rem
    BY DEF Types
  <2>2. n + m = Entries * K
    BY <1>1, <2>1 DEF Chains
  <2>3. (n + Entries - 1) \div Entries = K
    <3>1. PICK y \in Int : y = n + Entries - 1
      BY Sizes
    <3>2. PICK r \in 0 .. Entries - 1 : r = Entries - 1 - m
      BY <2>1, Sizes
    <3>3. y = Entries * K + r
      BY <2>1, <2>2, <3>1, <3>2, Sizes
    <3> QED
      BY <3>1, <3>2, <3>3, DivUnique, Sizes
  <2>4. Freed(bucket[b]) = {ChunkAt(bucket[b], i) : i \in 0 .. K - 1}
    BY <2>1, <2>3 DEF Freed
  <2>5. \A i \in 0 .. K - 1 : ChunkAt(bucket[b], i) = ch[b][i]
    <3>1. ASSUME NEW i \in 0 .. K - 1 PROVE ChunkAt(bucket[b], i) = ch[b][i]
      <4>1. i \in Nat /\ i < k[b]
        BY <1>1
      <4> QED
        BY <4>1, ChunkIs
    <3> QED
      BY <3>1
  <2>6. \A i : i \in 0 .. K - 1 <=> i \in Nat /\ i < K
    OBVIOUS
  <2> QED
    BY <1>1, <2>4, <2>5, <2>6
<1> QED
  BY <1>4, <1>5, <1>6 DEF IsList

-----------------------------------------------------------------------------
(* The hardware empties a bucket *)

\* only what is due now has the current bucket
LEMMA DueNow ==
  ASSUME Types, NEW w \in Work, due[w] # None
  PROVE  Target(w) = Current <=> due[w] = 0
<1>1. PICK q \in 0 .. NumBuckets - 1, d \in 0 .. NumBuckets - 1 : q = Current /\ d = due[w]
  BY NowIs
<1>2. (q + d) % NumBuckets = IF q + d < NumBuckets THEN q + d ELSE q + d - NumBuckets
  BY Around
<1>3. (q + d) % NumBuckets = q <=> d = 0
  BY <1>2, Sizes
<1> QED
  BY <1>1, <1>3 DEF Target

\* what software is about to write to is ahead of the hardware
LEMMA CallAhead ==
  ASSUME Types, Timed, NEW w \in Work, Usable(w) \/ Adding(w)
  PROVE  due[w] # None /\ due[w] >= 1
<1>1. /\ BucketLen \in Nat \ {0} /\ TickCycles \in Nat \ {0} /\ BucketLen <= TickCycles
      /\ MaxDelay \in Nat /\ MaxDelay <= 2 * TickCycles - BucketLen
  BY Sizes, DelayAssumption
<1>2. TimedEntry(w)
  BY DEF Timed
<1>3. PICK a \in 0 .. MaxDelay, t \in 0 .. MaxTicks + 1 : a = call.age /\ t = call.ticks
  BY DEF Types
<1>4. PICK l \in Nat : l = info[w].left
  <2>1. MaxTicks * TickCycles \in Nat
    BY Sizes
  <2>2. info[w].left \in 0 .. MaxTicks * TickCycles
    BY DEF Types
  <2> QED
    BY <2>1, <2>2
<1>5. due[w] # None => Rest(w) \in Int
  BY NowIs
<1>6. due[w] # None /\ Rest(w) >= 1
  <2>1. CASE Adding(w)
    <3>1. /\ due[w] # None /\ t >= 2
          /\ Rest(w) >= t * TickCycles - a - BucketLen + 1
      BY <1>2, <1>3, <2>1 DEF TimedEntry
    <3>2. PICK u \in Nat : u = t - 2
      BY <1>3, <3>1
    <3>3. t * TickCycles = 2 * TickCycles + u * TickCycles /\ u * TickCycles \in Nat
      BY <1>1, <1>3, <3>2
    <3> QED
      BY <1>1, <1>3, <1>5, <3>1, <3>3
  <2>2. CASE info[w].chunk # None /\ info[w].left > 0
    <3>1. due[w] # None /\ Rest(w) >= l + 2 * TickCycles - BucketLen + 1
      BY <1>2, <1>4, <2>2 DEF TimedEntry
    <3> QED
      BY <1>1, <1>4, <1>5, <3>1
  <2>3. CASE call.op = "delete" /\ call.work = w
    <3>1. due[w] # None /\ Rest(w) >= 2 * TickCycles - BucketLen + 2 - a
      BY <1>2, <1>3, <2>3 DEF TimedEntry
    <3> QED
      BY <1>1, <1>3, <1>5, <3>1
  <2> QED
    BY <2>1, <2>2, <2>3 DEF Usable
<1>7. PICK d \in Nat, r \in Nat : d = due[w] /\ r = now % BucketLen
  BY <1>6, NowIs
<1> QED
  BY <1>6, <1>7, StillAhead DEF Rest

LEMMA HwEndWheel == ASSUME WheelInv, HwEnd PROVE WheelInv'
<1>1. Types /\ Timed /\ running /\ hw = "busy"
  BY DEF WheelInv, Off, HwEnd
<1>2. PICK k, ch : Chains(k, ch) /\ Placed(k, ch)
  BY <1>1 DEF WheelInv
<1>3. PICK C \in Buckets : C = Current
  BY <1>1, NowIs
<1>4. PICK G : G = ChunksOf(bucket[C])
  OBVIOUS
<1>5. PICK E : E = EntriesOf(bucket[C])
  OBVIOUS
<1>6. /\ hw' = "done" /\ pool' = pool \cup G
      /\ mem' = [c \in Chunk |-> IF c \in G THEN Blank ELSE mem[c]]
      /\ bucket' = [bucket EXCEPT ![C].num = 0, ![C].rem = 0]
      /\ due' = [w \in Work |-> IF w \in E THEN None ELSE due[w]]
      /\ UNCHANGED <<now, running, call, info>>
  BY <1>3, <1>4, <1>5 DEF HwEnd, Wiped
<1>7. IsList(k, ch, C)
  BY <1>1, <1>2, ListIs
<1>8. /\ \A x : x \in G <=> \E i \in Nat : i < k[C] /\ x = ch[C][i]
      /\ \A w \in Work : w \in E <=> \E i, s : Holds(k, ch, C, i, s, w)
  BY <1>4, <1>5, <1>7, Sizes DEF IsList
<1>9. k \in [Buckets -> Nat] /\ ch \in [Buckets -> [Nat -> Chunk \cup {None}]]
  BY <1>2 DEF Chains
<1>10. PICK k1 : k1 = [k EXCEPT ![C] = 0]
  OBVIOUS
<1>11. k1 \in [Buckets -> Nat] /\ k1[C] = 0 /\ \A b \in Buckets : b # C => k1[b] = k[b]
  BY <1>9, <1>10
<1>12. Counters(bucket', C, 0, 0)
  <2>1. PICK y : y = bucket'
    OBVIOUS
  <2>2. SetsCounters(y, C, 0, 0)
    <3>1. bucket \in [Buckets -> [first : Chunk \cup {None}, num : Nat,
                                  rem : 0 .. Entries - 1, last : Chunk \cup {None}]]
      BY <1>1 DEF Types
    <3> QED
      BY <1>6, <2>1, <3>1 DEF SetsCounters
  <2>3. 0 \in 0 .. Entries - 1 /\ 0 \in Nat
    BY Sizes
  <2> QED
    BY <1>1, <2>1, <2>2, <2>3, Counted
<1>13. \A b \in Buckets, i \in Nat :
         /\ i < k1[b] <=> b # C /\ i < k[b]
         /\ b # C /\ i < k[b] => ch[b][i] \in Chunk /\ ch[b][i] \notin pool /\ ch[b][i] \notin G
  <2>1. ASSUME NEW b \in Buckets, NEW i \in Nat PROVE i < k1[b] <=> b # C /\ i < k[b]
    BY <1>11
  <2>2. ASSUME NEW b \in Buckets, NEW i \in Nat, b # C, i < k[b]
        PROVE  ch[b][i] \in Chunk /\ ch[b][i] \notin pool /\ ch[b][i] \notin G
    <3>1. ch[b][i] \in Chunk /\ ch[b][i] \notin pool
      BY <1>2, <2>2 DEF Chains
    <3>2. \A j \in Nat : j < k[C] => ch[b][i] # ch[C][j]
      BY <1>2, <2>2 DEF Chains
    <3> QED
      BY <1>8, <3>1, <3>2
  <2> QED
    BY <2>1, <2>2
<1>14. \A x \in Chunk : x \notin G => mem'[x] = mem[x]
  BY <1>6
<1>15. Chains(k1, ch)'
  <2>1. \A b \in Buckets, i \in Nat : i < k1[b] => ch[b][i] \in Chunk /\ ch[b][i] \notin pool'
    BY <1>6, <1>13
  <2>2. \A a, b \in Buckets, i, j \in Nat :
          i < k1[a] /\ j < k1[b] /\ ch[a][i] = ch[b][j] => a = b /\ i = j
    <3>1. ASSUME NEW a \in Buckets, NEW b \in Buckets, NEW i \in Nat, NEW j \in Nat,
                 i < k1[a], j < k1[b], ch[a][i] = ch[b][j]
          PROVE  a = b /\ i = j
      <4>1. i < k[a] /\ j < k[b]
        BY <1>13, <3>1
      <4>2. \A x, y \in Buckets, m, n \in Nat :
              m < k[x] /\ n < k[y] /\ ch[x][m] = ch[y][n] => x = y /\ m = n
        BY <1>2 DEF Chains
      <4> QED
        BY <3>1, <4>1, <4>2
    <3> QED
      BY <3>1
  <2>3. ASSUME NEW b \in Buckets, NEW i \in Nat, i + 1 < k1[b]
        PROVE  mem'[ch[b][i]].next = ch[b][i + 1]
    <3>1. b # C /\ k1[b] = k[b] /\ k[b] \in Nat /\ i < k[b] /\ i + 1 < k[b]
      BY <1>9, <1>11, <2>3
    <3>2. mem[ch[b][i]].next = ch[b][i + 1]
      BY <1>2, <3>1 DEF Chains
    <3> QED
      BY <1>13, <1>14, <3>1, <3>2
  <2>4. ASSUME NEW b \in Buckets, k1[b] > 0
        PROVE  bucket'[b].first = ch[b][0] /\ bucket'[b].last = ch[b][k1[b] - 1]
    <3>1. b # C /\ k1[b] = k[b] /\ k[b] > 0
      BY <1>11, <2>4
    <3>2. bucket[b].first = ch[b][0] /\ bucket[b].last = ch[b][k[b] - 1]
      BY <1>2, <3>1 DEF Chains
    <3> QED
      BY <1>12, <3>1, <3>2 DEF Counters
  <2>5. ASSUME NEW b \in Buckets PROVE bucket'[b].num + bucket'[b].rem = Entries * k1[b]
    <3>1. CASE b = C
      <4>1. Entries * 0 = 0 + 0
        BY Sizes
      <4> QED
        BY <1>11, <1>12, <3>1, <4>1 DEF Counters
    <3>2. CASE b # C
      <4>1. bucket[b].num + bucket[b].rem = Entries * k[b]
        BY <1>2 DEF Chains
      <4> QED
        BY <1>11, <1>12, <3>2, <4>1 DEF Counters
    <3> QED
      BY <3>1, <3>2
  <2>6. ASSUME NEW x \in Chunk PROVE x \in pool' \/ \E b \in Buckets, i \in Nat : i < k1[b] /\ x = ch[b][i]
    <3>1. CASE x \in pool \/ x \in G
      BY <1>6, <3>1
    <3>2. CASE ~(x \in pool \/ x \in G)
      <4>1. PICK b \in Buckets, i \in Nat : i < k[b] /\ x = ch[b][i]
        BY <1>2, <3>2 DEF Chains
      <4>2. b # C
        BY <1>8, <3>2, <4>1
      <4>3. i < k1[b]
        BY <1>13, <4>1, <4>2
      <4> QED
        BY <4>1, <4>3
    <3> QED
      BY <3>1, <3>2
  <2> QED
    BY <1>9, <1>11, <2>1, <2>2, <2>3, <2>4, <2>5, <2>6 DEF Chains
<1>16. ASSUME NEW b, NEW i, NEW s, NEW w
       PROVE  Holds(k1, ch, b, i, s, w)' <=> Holds(k, ch, b, i, s, w) /\ b # C
  <2>1. Filled(k1, b, i, s)' <=> Filled(k, b, i, s) /\ b # C
    <3>1. CASE b \notin Buckets
      BY <3>1 DEF Filled
    <3>2. CASE b = C
      BY <1>11, <3>2 DEF Filled
    <3>3. CASE b \in Buckets /\ b # C
      <4>1. k1[b] = k[b] /\ bucket'[b] = bucket[b]
        BY <1>11, <1>12, <3>3 DEF Counters
      <4> QED
        BY <3>3, <4>1 DEF Filled
    <3> QED
      BY <3>1, <3>2, <3>3
  <2>2. ASSUME Filled(k, b, i, s), b # C PROVE mem'[ch[b][i]] = mem[ch[b][i]]
    <3>1. b \in Buckets /\ i \in Nat /\ k[b] \in Nat
      BY <1>9, <2>2 DEF Filled
    <3>2. i < k[b]
      BY <2>2, <3>1 DEF Filled
    <3> QED
      BY <1>13, <1>14, <2>2, <3>1, <3>2
  <2> QED
    BY <2>1, <2>2 DEF Holds
<1>17. \A w \in Work : due'[w] = IF w \in E THEN None ELSE due[w]
  BY <1>6
<1>18. ASSUME NEW w \in Work
       PROVE  /\ w \in E => due[w] = 0 /\ ~Adding(w) /\ ~Usable(w)
              /\ \A b, i, s : Holds(k, ch, b, i, s, w) /\ b # C => w \notin E
              /\ Adding(w)' <=> Adding(w)
              /\ Usable(w)' <=> Usable(w)
              /\ w \notin E => due'[w] = due[w] /\ Target(w)' = Target(w) /\ Rest(w)' = Rest(w)
  <2>1. ASSUME w \in E PROVE due[w] = 0 /\ ~Adding(w) /\ ~Usable(w)
    <3>1. PICK i, s : Holds(k, ch, C, i, s, w)
      BY <1>8, <2>1
    <3>2. due[w] # None /\ C = Target(w) /\ ~Adding(w)
      BY <1>2, <3>1 DEF Placed
    <3>3. due[w] = 0
      BY <1>1, <1>3, <3>2, DueNow
    <3>4. ASSUME Usable(w) PROVE FALSE
      <4>1. due[w] >= 1
        BY <1>1, <3>4, CallAhead
      <4> QED
        BY <3>3, <4>1
    <3> QED
      BY <3>2, <3>3, <3>4
  <2>2. ASSUME NEW b, NEW i, NEW s, Holds(k, ch, b, i, s, w), b # C PROVE w \notin E
    <3>1. SUFFICES ASSUME NEW j, NEW t, Holds(k, ch, C, j, t, w) PROVE FALSE
      BY <1>8
    <3> QED
      BY <1>2, <2>2, <3>1 DEF Placed
  <2>3. (Adding(w)' <=> Adding(w)) /\ (Usable(w)' <=> Usable(w))
    BY <1>6 DEF Adding, Usable
  <2>4. w \notin E => due'[w] = due[w] /\ Target(w)' = Target(w) /\ Rest(w)' = Rest(w)
    BY <1>6, <1>17 DEF Target, Rest, Current
  <2> QED
    BY <2>1, <2>2, <2>3, <2>4
<1>19. Types'
  <2>1. due' \in [Work -> 0 .. NumBuckets - 1 \cup {None}]
    <3>1. due \in [Work -> 0 .. NumBuckets - 1 \cup {None}]
      BY <1>1 DEF Types
    <3> QED
      BY <1>6, <3>1
  <2>2. mem' \in [Chunk -> [entry : [0 .. Entries - 1 -> Work \cup {None}], next : Chunk \cup {None}]]
    <3>1. mem \in [Chunk -> [entry : [0 .. Entries - 1 -> Work \cup {None}], next : Chunk \cup {None}]]
      BY <1>1 DEF Types
    <3>2. \A c \in Chunk : (IF c \in G THEN Blank ELSE mem[c]) \in
            [entry : [0 .. Entries - 1 -> Work \cup {None}], next : Chunk \cup {None}]
      BY <3>1, TypesParts
    <3> QED
      BY <1>6, <3>2
  <2>3. pool' \in SUBSET Chunk
    <3>1. G \subseteq Chunk
      BY <1>2, <1>8 DEF Chains
    <3> QED
      BY <1>1, <1>6, <3>1 DEF Types
  <2> QED
    BY <1>1, <1>6, <1>12, <2>1, <2>2, <2>3 DEF Types, Counters
<1>20. ASSUME NEW w \in Work PROVE TimedEntry(w)'
  <2>1. CASE w \in E
    <3>1. due'[w] = None /\ ~Adding(w)' /\ ~Usable(w)'
      BY <1>17, <1>18, <2>1
    <3> QED
      BY <1>1, <1>6, <2>1, <3>1, Sizes DEF TimedEntry, Usable, Timed
  <2>2. CASE w \notin E
    <3>1. due'[w] = due[w] /\ Target(w)' = Target(w) /\ Rest(w)' = Rest(w) /\ (Adding(w)' <=> Adding(w))
      BY <1>18, <2>2
    <3>2. due[w] # None => due[w] >= 1
      <4>1. ASSUME due[w] # None PROVE due[w] >= 1
        <5>1. CASE Adding(w)
          BY <1>1, <5>1, CallAhead
        <5>2. CASE ~Adding(w)
          <6>1. PICK b, i, s : Holds(k, ch, b, i, s, w)
            BY <1>2, <4>1, <5>2 DEF Placed
          <6>2. b = Target(w) /\ b # C
            BY <1>2, <1>8, <2>2, <6>1 DEF Placed
          <6>3. due[w] # 0
            BY <1>1, <1>3, <4>1, <6>2, DueNow
          <6>4. due[w] \in Nat
            BY <1>1, <4>1, NowIs
          <6> QED
            BY <6>3, <6>4
        <5> QED
          BY <5>1, <5>2
      <4> QED
        BY <4>1
    <3>3. TimedEntry(w)
      BY <1>1 DEF Timed
    <3> QED
      BY <1>6, <3>1, <3>2, <3>3 DEF TimedEntry
  <2> QED
    BY <2>1, <2>2
<1>21. Timed'
  BY <1>1, <1>6, <1>20 DEF Timed
<1>22. Placed(k1, ch)'
  <2>1. \A w \in Work : \A b, i, s : Holds(k1, ch, b, i, s, w)' =>
          due'[w] # None /\ b = Target(w)' /\ ~Adding(w)'
    <3>1. ASSUME NEW w \in Work, NEW b, NEW i, NEW s, Holds(k1, ch, b, i, s, w)'
          PROVE  due'[w] # None /\ b = Target(w)' /\ ~Adding(w)'
      <4>1. Holds(k, ch, b, i, s, w) /\ b # C
        BY <1>16, <3>1
      <4>2. w \notin E /\ due[w] # None /\ b = Target(w) /\ ~Adding(w)
        BY <1>2, <1>18, <4>1 DEF Placed
      <4> QED
        BY <1>18, <4>2
    <3> QED
      BY <3>1
  <2>2. \A w \in Work : \A a, i, s, b, j, t :
          Holds(k1, ch, a, i, s, w)' /\ Holds(k1, ch, b, j, t, w)' => a = b /\ i = j /\ s = t
    BY <1>2, <1>16 DEF Placed
  <2>3. ASSUME NEW w \in Work, due'[w] # None, ~Adding(w)'
        PROVE  \E b, i, s : Holds(k1, ch, b, i, s, w)'
    <3>1. w \notin E /\ due[w] # None /\ ~Adding(w)
      BY <1>17, <1>18, <2>3
    <3>2. PICK b, i, s : Holds(k, ch, b, i, s, w)
      BY <1>2, <3>1 DEF Placed
    <3>3. b # C
      BY <1>8, <3>1, <3>2
    <3> QED
      BY <1>16, <3>2, <3>3
  <2>4. ASSUME NEW w \in Work, Usable(w)'
        PROVE  (\E b, i : Holds(k1, ch, b, i, info[w].slot, w) /\ ch[b][i] = info[w].chunk)'
    <3>1. Usable(w) /\ w \notin E
      BY <1>18, <2>4
    <3>2. PICK b, i : Holds(k, ch, b, i, info[w].slot, w) /\ ch[b][i] = info[w].chunk
      BY <1>2, <3>1 DEF Placed
    <3>3. PICK s : s = info[w].slot /\ s = info'[w].slot /\ Holds(k, ch, b, i, s, w)
      BY <1>6, <3>2
    <3>4. b # C
      BY <1>8, <3>1, <3>3
    <3>5. Holds(k1, ch, b, i, s, w)' /\ ch[b][i] = info'[w].chunk
      BY <1>6, <1>16, <3>2, <3>3, <3>4
    <3> QED
      BY <3>3, <3>5
  <2> QED
    BY <2>1, <2>2, <2>3, <2>4 DEF Placed
<1> QED
  BY <1>1, <1>6, <1>15, <1>19, <1>21, <1>22 DEF WheelInv

-----------------------------------------------------------------------------
(* cvmx_tim_shutdown *)

LEMMA ShutdownWheel == ASSUME WheelInv, Shutdown PROVE WheelInv'
<1>1. Types /\ running /\ call = NoCall /\ hw # "busy"
  BY DEF WheelInv, Shutdown
<1>2. PICK k, ch : Chains(k, ch) /\ Placed(k, ch)
  BY <1>1 DEF WheelInv
<1>3. /\ running' = FALSE
      /\ pool' = pool \cup UNION {Freed(bucket[b]) : b \in Buckets}
      /\ mem' = [c \in Chunk |-> IF c \in pool' THEN Blank ELSE mem[c]]
      /\ bucket' = [b \in Buckets |-> [bucket[b] EXCEPT !.num = 0]]
      /\ info' = [w \in Work |-> NoInfo]
      /\ due' = [w \in Work |-> None]
      /\ UNCHANGED <<now, hw, call>>
  BY DEF Shutdown, Wiped
<1>4. \A b \in Buckets : \A x : x \in Freed(bucket[b]) <=> \E i \in Nat : i < k[b] /\ x = ch[b][i]
  BY <1>1, <1>2, ListIs DEF IsList
<1>5. pool' = Chunk
  <2>1. ASSUME NEW x \in pool' PROVE x \in Chunk
    <3>1. CASE x \in pool
      BY <1>1, <3>1 DEF Types
    <3>2. CASE x \notin pool
      <4>1. PICK b \in Buckets : x \in Freed(bucket[b])
        BY <1>3, <2>1, <3>2
      <4>2. PICK i \in Nat : i < k[b] /\ x = ch[b][i]
        BY <1>4, <4>1
      <4> QED
        BY <1>2, <4>2 DEF Chains
    <3> QED
      BY <3>1, <3>2
  <2>2. ASSUME NEW x \in Chunk PROVE x \in pool'
    <3>1. CASE x \in pool
      BY <1>3, <3>1
    <3>2. CASE x \notin pool
      <4>1. PICK b \in Buckets, i \in Nat : i < k[b] /\ x = ch[b][i]
        BY <1>2, <3>2 DEF Chains
      <4>2. x \in Freed(bucket[b])
        BY <1>4, <4>1
      <4> QED
        BY <1>3, <4>2
    <3> QED
      BY <3>1, <3>2
  <2> QED
    BY <2>1, <2>2
<1>6. Types'
  <2>1. mem' \in [Chunk -> [entry : [0 .. Entries - 1 -> Work \cup {None}], next : Chunk \cup {None}]]
    BY <1>3, <1>5, TypesParts
  <2>2. bucket' \in [Buckets -> [first : Chunk \cup {None}, num : Nat,
                                 rem : 0 .. Entries - 1, last : Chunk \cup {None}]]
    <3>1. bucket \in [Buckets -> [first : Chunk \cup {None}, num : Nat,
                                  rem : 0 .. Entries - 1, last : Chunk \cup {None}]]
      BY <1>1 DEF Types
    <3>2. \A b \in Buckets : [bucket[b] EXCEPT !.num = 0] \in
            [first : Chunk \cup {None}, num : Nat, rem : 0 .. Entries - 1, last : Chunk \cup {None}]
      BY <3>1
    <3> QED
      BY <1>3, <3>2
  <2>3. info' \in [Work -> [left : 0 .. MaxTicks * TickCycles,
                            chunk : Chunk \cup {None}, slot : 0 .. Entries - 1]]
    BY <1>3, TypesParts
  <2> QED
    BY <1>1, <1>3, <1>5, <2>1, <2>2, <2>3 DEF Types
<1>7. \A b \in Buckets : bucket'[b].num = 0
  <2>1. bucket \in [Buckets -> [first : Chunk \cup {None}, num : Nat,
                                rem : 0 .. Entries - 1, last : Chunk \cup {None}]]
    BY <1>1 DEF Types
  <2> QED
    BY <1>3, <2>1
<1>8. \A w \in Work : due'[w] = None /\ info'[w] = NoInfo
  BY <1>3
<1>9. Timed'
  <2>1. call'.op = "none" /\ \A w \in Work : ~Adding(w)' /\ info'[w].chunk = None
    BY <1>1, <1>3, <1>8 DEF NoCall, Adding, NoInfo
  <2> QED
    BY <1>1, <1>3, <1>8, <2>1 DEF Timed, TimedEntry
<1> QED
  BY <1>1, <1>3, <1>5, <1>6, <1>7, <1>8, <1>9 DEF WheelInv, Off

-----------------------------------------------------------------------------
(* Every step *)

LEMMA StepWheel == ASSUME WheelInv, [Next]_vars, ~wrapped' PROVE WheelInv'
<1>1. CASE \E w \in Work, ticks \in 0 .. MaxTicks + 1 : AddEntry(w, ticks)
  BY <1>1, AddEntryWheel
<1>2. CASE AddToChunk
  BY <1>2, AddToChunkWheel
<1>3. CASE AddChunk
  BY <1>3, AddChunkWheel
<1>4. CASE AddFails
  BY <1>4, AddFailsWheel
<1>5. CASE \E w \in Work : DeleteEntry(w)
  BY <1>5, DeleteEntryWheel
<1>6. CASE ZeroEntry
  BY <1>6, ZeroEntryWheel
<1>7. CASE Shutdown
  BY <1>7, ShutdownWheel
<1>8. CASE Setup
  BY <1>8, SetupWheel
<1>9. CASE HwBegin
  BY <1>9, HwBeginWheel
<1>10. CASE HwEnd
  BY <1>10, HwEndWheel
<1>11. CASE Tick
  BY <1>11, TickWheel
<1>12. CASE UNCHANGED vars
  <2>1. UNCHANGED <<now, hw, running, bucket, mem, pool, call, info, due>>
    BY <1>12 DEF vars
  <2>2. Types' /\ (~running' => Off')
    BY <2>1 DEF WheelInv, Types, Off
  <2>3. Timed'
    BY <2>1 DEF WheelInv, Timed, TimedEntry, Adding, Target, Rest, Current
  <2>4. ASSUME running' PROVE \E k, ch : Chains(k, ch)' /\ Placed(k, ch)'
    <3>1. PICK k, ch : Chains(k, ch) /\ Placed(k, ch)
      BY <2>1, <2>4 DEF WheelInv
    <3>2. Chains(k, ch)' /\ \A b, i, s, w : Holds(k, ch, b, i, s, w)' <=> Holds(k, ch, b, i, s, w)
      BY <2>1, <3>1, SameChains DEF wheel
    <3>3. \A w \in Work : (Adding(w)' <=> Adding(w)) /\ (Usable(w)' <=> Usable(w)) /\ Target(w)' = Target(w)
      BY <2>1 DEF Adding, Usable, Target, Current
    <3>4. Placed(k, ch)'
      BY <2>1, <3>1, <3>2, <3>3, SamePlaces
    <3> QED
      BY <3>2, <3>4
  <2> QED
    BY <2>2, <2>3, <2>4 DEF WheelInv
<1> QED
  BY <1>1, <1>2, <1>3, <1>4, <1>5, <1>6, <1>7, <1>8, <1>9, <1>10, <1>11, <1>12 DEF Next, Software

\* the inductive invariant of the wheel, up to the first time that wraps
WheelUp == wrapped \in BOOLEAN /\ (wrapped \/ WheelInv)

\* once a time has wrapped nothing undoes it
LEMMA WrapStays == ASSUME WheelUp, [Next]_vars PROVE wrapped' \in BOOLEAN /\ (wrapped => wrapped')
<1>1. wrapped \in BOOLEAN
  BY DEF WheelUp
<1>2. CASE UNCHANGED wrapped
  BY <1>1, <1>2
<1>3. CASE \E t : wrapped' = (wrapped \/ Wraps(t))
  <2>1. PICK t : wrapped' = (wrapped \/ Wraps(t))
    BY <1>3
  <2>2. Wraps(t) \in BOOLEAN
    BY DEF Wraps
  <2> QED
    BY <1>1, <2>1, <2>2, Zenon
<1>4. ASSUME NEW w, NEW ticks, AddEntry(w, ticks) PROVE \E t : wrapped' = (wrapped \/ Wraps(t))
  BY <1>4 DEF AddEntry
<1>5. UNCHANGED wrapped \/ \E w, ticks : AddEntry(w, ticks)
  BY DEF Next, Software, AddToChunk, AddChunk, AddFails, DeleteEntry, ZeroEntry, Shutdown, Setup,
         HwBegin, HwEnd, Tick, vars
<1> QED
  BY <1>2, <1>3, <1>4, <1>5

\* The inductive invariant of the wheel: the times of all entries, the chains of
\* chunks and the one place of each entry in them, until a time wraps.
THEOREM WheelAlways == Spec => []WheelUp
<1>1. Init => WheelUp
  BY InitWheel DEF WheelUp, Init
<1>2. ASSUME WheelUp, [Next]_vars PROVE WheelUp'
  <2>1. wrapped' \in BOOLEAN /\ (wrapped => wrapped')
    BY <1>2, WrapStays
  <2>2. ASSUME ~wrapped' PROVE WheelInv'
    BY <1>2, <2>1, <2>2, StepWheel DEF WheelUp
  <2> QED
    BY <2>1, <2>2 DEF WheelUp
<1>3. WheelUp /\ [Next]_vars => WheelUp'
  BY <1>2
<1> QED
  BY <1>1, <1>3, PTL DEF Spec

-----------------------------------------------------------------------------
(* What the invariant says of the wheel *)

\* no list is longer than there are chunks
LEMMA Counts ==
  ASSUME IsFiniteSet(Chunk), Types, NEW k, NEW ch, Chains(k, ch), NEW b \in Buckets
  PROVE  bucket[b].num \in 0 .. Entries * Cardinality(Chunk)
<1>1. PICK K \in Nat : K = k[b]
  BY DEF Chains
<1>2. PICK n \in Nat, m \in 0 .. Entries - 1 : n = bucket[b].num /\ m = bucket[b].rem
  BY DEF Types
<1>3. n + m = Entries * K
  BY <1>1, <1>2 DEF Chains
<1>4. PICK M \in Nat : M = Cardinality(Chunk)
  BY FS_CardinalityType
<1>5. K <= M
  <2>1. PICK f : f = [i \in 1 .. K |-> ch[b][i - 1]]
    OBVIOUS
  <2>2. \A i \in 1 .. K : i - 1 \in Nat /\ i - 1 < K
    OBVIOUS
  <2>3. \A i \in 1 .. K : f[i] \in Chunk
    BY <1>1, <2>1, <2>2 DEF Chains
  <2>4. ASSUME NEW i \in 1 .. K, NEW j \in 1 .. K, f[i] = f[j] PROVE i = j
    <3>1. ch[b][i - 1] = ch[b][j - 1]
      BY <2>1, <2>4
    <3>2. \A x, y \in Nat : x < k[b] /\ y < k[b] /\ ch[b][x] = ch[b][y] => x = y
      BY DEF Chains
    <3>3. i - 1 = j - 1
      BY <1>1, <2>2, <3>1, <3>2
    <3> QED
      BY <3>3
  <2>5. f \in [1 .. K -> Chunk]
    BY <2>1, <2>3
  <2>6. f \in Injection(1 .. K, Chunk)
    BY <2>4, <2>5 DEF Injection, IsInjective
  <2>7. Cardinality(1 .. K) <= Cardinality(Chunk)
    BY <2>6, FS_Injection
  <2>8. Cardinality(1 .. K) = K
    BY FS_Interval
  <2> QED
    BY <1>4, <2>7, <2>8
<1>6. Entries * K <= Entries * M /\ Entries * M \in Nat
  <2>1. PICK u \in Nat : u = M - K
    BY <1>5
  <2>2. Entries * M = Entries * K + Entries * u /\ Entries * u \in Nat /\ Entries * K \in Nat
    BY <2>1, Sizes
  <2> QED
    BY <2>2
<1> QED
  BY <1>2, <1>3, <1>4, <1>6

LEMMA InvTypeOK == ASSUME WheelInv, wrapped \in BOOLEAN PROVE TypeOK
<1>1. Types
  BY DEF WheelInv
<1>2. \A b \in Buckets : bucket[b].num \in 0 .. Entries * Cardinality(Chunk)
  <2>1. CASE running
    <3>1. PICK k, ch : Chains(k, ch)
      BY <2>1 DEF WheelInv
    <3> QED
      BY <1>1, <3>1, Counts, ChunkAssumption
  <2>2. CASE ~running
    <3>1. \A b \in Buckets : bucket[b].num = 0
      BY <2>2 DEF WheelInv, Off
    <3>2. Cardinality(Chunk) \in Nat
      BY FS_CardinalityType, ChunkAssumption
    <3>3. 0 \in 0 .. Entries * Cardinality(Chunk)
      BY <3>2, Sizes
    <3> QED
      BY <3>1, <3>3
  <2> QED
    BY <2>1, <2>2
<1>3. bucket \in [Buckets -> [first : Chunk \cup {None}, num : 0 .. Entries * Cardinality(Chunk),
                             rem : 0 .. Entries - 1, last : Chunk \cup {None}]]
  <2>1. bucket \in [Buckets -> [first : Chunk \cup {None}, num : Nat,
                                rem : 0 .. Entries - 1, last : Chunk \cup {None}]]
    BY <1>1 DEF Types
  <2>2. \A b \in Buckets : bucket[b] \in [first : Chunk \cup {None}, num : 0 .. Entries * Cardinality(Chunk),
                                          rem : 0 .. Entries - 1, last : Chunk \cup {None}]
    BY <1>2, <2>1
  <2> QED
    BY <2>1, <2>2
<1>4. due \in [Work -> 0 .. 2 * NumBuckets \cup {None}]
  <2>1. due \in [Work -> 0 .. NumBuckets - 1 \cup {None}]
    BY <1>1 DEF Types
  <2>2. 0 .. NumBuckets - 1 \subseteq 0 .. 2 * NumBuckets
    BY Sizes
  <2> QED
    BY <2>1, <2>2
<1> QED
  BY <1>1, <1>3, <1>4 DEF Types, TypeOK

LEMMA InvConserved == ASSUME WheelInv PROVE ChunksConserved
<1>1. SUFFICES ASSUME running
               PROVE  /\ \A b \in Buckets : ChunksOf(bucket[b]) \cap (pool \cup {None}) = {}
                      /\ \A a, b \in Buckets :
                           a # b => ChunksOf(bucket[a]) \cap ChunksOf(bucket[b]) = {}
                      /\ Cardinality(pool) + Cardinality(UNION {ChunksOf(bucket[b]) : b \in Buckets})
                           = Cardinality(Chunk)
  BY DEF ChunksConserved
<1>2. PICK k, ch : Chains(k, ch)
  BY <1>1 DEF WheelInv
<1>3. \A b \in Buckets : \A x : x \in ChunksOf(bucket[b]) <=> \E i \in Nat : i < k[b] /\ x = ch[b][i]
  BY <1>2, ListIs DEF WheelInv, IsList
<1>4. ASSUME NEW b \in Buckets, NEW x \in ChunksOf(bucket[b])
      PROVE  x \in Chunk /\ x \notin pool /\ x # None
  <2>1. PICK i \in Nat : i < k[b] /\ x = ch[b][i]
    BY <1>3
  <2> QED
    BY <1>2, <2>1, Sizes DEF Chains
<1>5. ASSUME NEW a \in Buckets, NEW b \in Buckets, NEW x, x \in ChunksOf(bucket[a]),
             x \in ChunksOf(bucket[b])
      PROVE  a = b
  <2>1. PICK i \in Nat : i < k[a] /\ x = ch[a][i]
    BY <1>3, <1>5
  <2>2. PICK j \in Nat : j < k[b] /\ x = ch[b][j]
    BY <1>3, <1>5
  <2> QED
    BY <1>2, <2>1, <2>2 DEF Chains
<1>6. PICK U : U = UNION {ChunksOf(bucket[b]) : b \in Buckets}
  OBVIOUS
<1>7. \A x : x \in U <=> \E b \in Buckets : x \in ChunksOf(bucket[b])
  BY <1>6
<1>8. U \in SUBSET Chunk /\ pool \in SUBSET Chunk /\ pool \cap U = {}
  <2>1. pool \in SUBSET Chunk
    BY DEF WheelInv, Types
  <2> QED
    BY <1>4, <1>7, <2>1
<1>9. pool \cup U = Chunk
  <2>1. ASSUME NEW x \in Chunk, x \notin pool PROVE x \in U
    <3>1. PICK b \in Buckets, i \in Nat : i < k[b] /\ x = ch[b][i]
      BY <1>2, <2>1 DEF Chains
    <3> QED
      BY <1>3, <1>7, <3>1
  <2> QED
    BY <1>8, <2>1
<1>10. Cardinality(pool) + Cardinality(U) = Cardinality(Chunk)
  <2>1. IsFiniteSet(pool) /\ IsFiniteSet(U)
    BY <1>8, FS_Subset, ChunkAssumption
  <2>2. Cardinality(pool \cup U) = Cardinality(pool) + Cardinality(U) - Cardinality(pool \cap U)
    BY <2>1, FS_Union
  <2>3. Cardinality(pool \cap U) = 0
    BY <1>8, FS_EmptySet
  <2>4. Cardinality(pool) \in Nat /\ Cardinality(U) \in Nat
    BY <2>1, FS_CardinalityType
  <2>5. Cardinality(pool \cup U) = Cardinality(Chunk)
    BY <1>9, Zenon
  <2>6. PICK p \in Nat, u \in Nat : p = Cardinality(pool) /\ u = Cardinality(U)
    BY <2>4
  <2>7. Cardinality(pool \cup U) = p + u - 0
    BY <2>2, <2>3, <2>6
  <2>8. p + u - 0 = p + u
    OBVIOUS
  <2> QED
    BY <2>5, <2>6, <2>7, <2>8
<1> QED
  BY <1>4, <1>5, <1>6, <1>10

LEMMA InvInBucket == ASSUME WheelInv PROVE InItsBucket
<1>1. SUFFICES ASSUME NEW w \in Work, due[w] # None, call.work # w, NEW b \in Buckets
               PROVE  w \in EntriesOf(bucket[b]) <=> b = (Current + due[w]) % NumBuckets
  BY DEF InItsBucket, Scheduled
<1>2. running
  BY <1>1 DEF WheelInv, Off
<1>3. PICK k, ch : Chains(k, ch) /\ Placed(k, ch)
  BY <1>2 DEF WheelInv
<1>4. w \in EntriesOf(bucket[b]) <=> \E i, s : Holds(k, ch, b, i, s, w)
  BY <1>3, ListIs, Sizes DEF WheelInv, IsList
<1>5. PICK a, i, s : Holds(k, ch, a, i, s, w)
  BY <1>1, <1>3 DEF Placed, Adding
<1>6. a = Target(w)
  BY <1>3, <1>5 DEF Placed
<1>7. \A j, t : Holds(k, ch, b, j, t, w) => b = Target(w)
  BY <1>3 DEF Placed
<1> QED
  BY <1>4, <1>5, <1>6, <1>7 DEF Target

LEMMA InvAtRest == ASSUME WheelInv PROVE BucketAtRest
<1>1. SUFFICES ASSUME call.op = "add" PROVE call.bucket # Current
  BY DEF BucketAtRest
<1>2. Types /\ Timed
  BY DEF WheelInv
<1>3. PICK v \in Work : v = call.work
  BY <1>1, CallRuns
<1>4. Adding(v) /\ call.bucket = Target(v)
  BY <1>1, <1>2, <1>3 DEF Timed, TimedEntry, Adding
<1>5. due[v] # None /\ due[v] >= 1
  BY <1>2, <1>4, CallAhead
<1>6. Target(v) # Current
  BY <1>2, <1>5, DueNow
<1> QED
  BY <1>4, <1>6

LEMMA InvSound == ASSUME WheelUp PROVE WheelSound
<1>1. SUFFICES ASSUME ~wrapped PROVE WheelSound
  BY DEF WheelSound
<1>2. WheelInv /\ wrapped \in BOOLEAN
  BY <1>1 DEF WheelUp
<1>3. ShutdownReturnsAll
  BY <1>2 DEF WheelInv, Off, ShutdownReturnsAll
<1> QED
  BY <1>2, <1>3, InvTypeOK, InvConserved, InvInBucket, InvAtRest DEF WheelSound

LEMMA InvDelete == ASSUME WheelInv PROVE DeleteHitsEntry
<1>1. SUFFICES ASSUME call.op = "delete", NEW d, d = info[call.work]
               PROVE  /\ d.chunk \notin pool /\ mem[d.chunk].entry[d.slot] = call.work
                      /\ d.chunk \notin ChunksOf(bucket[Current])
  BY DEF DeleteHitsEntry
<1>2. Types /\ Timed
  BY DEF WheelInv
<1>3. PICK v \in Work : v = call.work
  BY <1>1, CallRuns
<1>4. PICK k, ch : Chains(k, ch) /\ Placed(k, ch)
  BY <1>1, CallRuns
<1>5. PICK b, i : Holds(k, ch, b, i, d.slot, v) /\ ch[b][i] = d.chunk
  BY <1>1, <1>2, <1>3, <1>4, DeletedPlace
<1>6. b \in Buckets /\ i \in Nat /\ i < k[b]
  <2>1. b \in Buckets /\ i \in Nat
    BY <1>5 DEF Holds, Filled
  <2>2. k[b] \in Nat
    BY <1>4, <2>1 DEF Chains
  <2> QED
    BY <1>5, <2>1, <2>2 DEF Holds, Filled
<1>7. d.chunk \notin pool /\ mem[d.chunk].entry[d.slot] = v
  BY <1>4, <1>5, <1>6 DEF Chains, Holds
<1>8. b # Current
  <2>1. Usable(v)
    BY <1>1, <1>2, <1>3 DEF Timed, TimedEntry, Usable
  <2>2. due[v] # None /\ due[v] >= 1
    BY <1>2, <2>1, CallAhead
  <2>3. Target(v) # Current
    BY <1>2, <2>2, DueNow
  <2> QED
    BY <1>4, <1>5, <2>3 DEF Placed
<1>9. PICK C \in Buckets : C = Current
  BY <1>2, NowIs
<1>10. ASSUME d.chunk \in ChunksOf(bucket[C]) PROVE FALSE
  <2>1. PICK j \in Nat : j < k[C] /\ d.chunk = ch[C][j]
    BY <1>2, <1>4, <1>10, ListIs DEF IsList
  <2>2. b = C
    BY <1>4, <1>5, <1>6, <2>1 DEF Chains
  <2> QED
    BY <1>8, <1>9, <2>2
<1> QED
  BY <1>3, <1>7, <1>9, <1>10

LEMMA InvDue == ASSUME WheelInv, hw = "busy" PROVE \A w \in EntriesOf(bucket[Current]) : due[w] = 0
<1>1. Types /\ running
  BY DEF WheelInv, Off
<1>2. PICK k, ch : Chains(k, ch) /\ Placed(k, ch)
  BY <1>1 DEF WheelInv
<1>3. PICK C \in Buckets : C = Current
  BY <1>1, NowIs
<1>4. ASSUME NEW w \in EntriesOf(bucket[C]) PROVE due[w] = 0
  <2>1. w # None /\ \E i, s : Holds(k, ch, C, i, s, w)
    BY <1>1, <1>2, ListIs DEF IsList
  <2>2. PICK i, s : Holds(k, ch, C, i, s, w)
    BY <2>1
  <2>3. i \in Nat /\ s \in 0 .. Entries - 1 /\ k[C] \in Nat /\ w = mem[ch[C][i]].entry[s]
    BY <1>2, <2>2 DEF Holds, Filled, Chains
  <2>4. i < k[C]
    BY <2>2, <2>3 DEF Holds, Filled
  <2>5. ch[C][i] \in Chunk
    BY <1>2, <2>3, <2>4 DEF Chains
  <2>6. w \in Work
    <3>1. PICK x \in Chunk : x = ch[C][i]
      BY <2>5
    <3>2. mem[x] \in [entry : [0 .. Entries - 1 -> Work \cup {None}], next : Chunk \cup {None}]
      BY <1>1 DEF Types
    <3>3. mem[x].entry[s] \in Work \cup {None}
      BY <2>3, <3>2
    <3> QED
      BY <2>1, <2>3, <3>1, <3>3
  <2>7. due[w] # None /\ C = Target(w)
    BY <1>2, <2>2, <2>6 DEF Placed
  <2> QED
    BY <1>1, <1>3, <2>6, <2>7, DueNow
<1> QED
  BY <1>3, <1>4

-----------------------------------------------------------------------------
(* The theorems *)

\* Whatever cvmx_tim_add_entry, cvmx_tim_delete_entry, cvmx_tim_shutdown and the
\* timer hardware do in whatever order, the wheel is in order until a time that
\* wraps is accepted: every chunk is in the pool or in one bucket's list, every
\* entry in its own bucket.
THEOREM WheelAlwaysSound == Spec => []WheelSound
<1>1. WheelUp => WheelSound
  BY InvSound
<1> QED
  BY <1>1, WheelAlways, PTL

\* A delete that passed the commit time of cvmx_tim_delete_entry zeroes its own
\* entry, in a chunk that is neither free nor being traversed, until a time that
\* wraps is accepted.
THEOREM DeleteAlwaysHits == Spec => []DeleteHitsEntry
<1>1. ASSUME WheelUp PROVE DeleteHitsEntry
  <2>1. CASE wrapped
    BY <2>1 DEF DeleteHitsEntry
  <2>2. CASE ~wrapped
    BY <1>1, <2>2, InvDelete DEF WheelUp
  <2> QED
    BY <2>1, <2>2
<1>2. WheelUp => DeleteHitsEntry
  BY <1>1
<1> QED
  BY <1>2, WheelAlways, PTL

\* What the hardware finds in the bucket it visits is due in that very period,
\* until a time that wraps is accepted.
THEOREM EntriesFireWhenDue == Spec => FiresWhenDue
<1>1. WheelUp /\ [Next]_vars => [~wrapped /\ hw = "busy" /\ hw' = "done" =>
        \A w \in EntriesOf(bucket[Current]) : due[w] = 0]_vars
  BY InvDue DEF WheelUp
<1> QED
  BY <1>1, WheelAlways, PTL DEF Spec, FiresWhenDue
===============================================================================
