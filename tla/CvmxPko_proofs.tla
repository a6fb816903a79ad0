---------------------------- MODULE CvmxPko_proofs ----------------------------
(***************************************************************************)
(* Proofs about CvmxPko, for any cores, packets and buffers of any even    *)
(* size: the output queue is in order and first in, first out, through     *)
(* shutdowns of empty and of filled queues.                                *)
(***************************************************************************)
EXTENDS CvmxPko, FiniteSetTheorems, WellFoundedInduction, NaturalsInduction,
        TLAPS

\* the words of a buffer that hold commands; the next one leads on
Used == PoolWords - 2
Even(i) == i \in 0 .. Used - 2 /\ i % 2 = 0

Ahead == {scratch[c] : c \in Core} \ {None}

\* a chain of buffers, without repetition, each with the address of the next
Threads(M, m, ch) ==
  /\ m \in Nat
  /\ ch \in [0 .. m -> Buffer]
  /\ \A i, j \in 0 .. m : ch[i] = ch[j] => i = j
  /\ \A i \in 0 .. m - 1 : M[ch[i]][Used] = ch[i + 1]

\* commands from word h of the first buffer to word e of the last
Filled(M, m, ch, h, e) ==
  \A i \in 0 .. m : \A j \in 0 .. Used - 2 :
    Even(j) /\ (i = 0 => h <= j) /\ (i = m => j < e) =>
      \E p \in Packet : M[ch[i]][j] = Cmd(p) /\ M[ch[i]][j + 1] = Ptr(p)

\* the words reserved and not written, and those written and not rung
Reserved == IF \E c \in Core : pc[c] = "finish" THEN 2 ELSE 0
Unrung   == IF \E c \in Core : pc[c] = "bell" THEN 2 ELSE 0
Written  == fau.idx - Reserved

\* the buffers of the pool, those ahead and those of the chain
Parts(m, ch) ==
  /\ pool \cup Ahead \cup {ch[i] : i \in 0 .. m} \cup lost = Buffer
  /\ pool \cap Ahead = {} /\ lost \cap (pool \cup Ahead) = {}
  /\ \A i \in 0 .. m : ch[i] \notin pool /\ ch[i] \notin Ahead /\ ch[i] \notin lost

\* the command that is written and not rung is where the doorbell leads
Last(m, ch) ==
  \A c \in Core : pc[c] = "bell" =>
    \E i \in 0 .. m :
      /\ ch[i] = old[c].buf /\ Even(old[c].idx)
      /\ hw.idx + bell = i * Used + old[c].idx
      /\ mem[old[c].buf][old[c].idx] = Cmd(pkt[c])

Chained(m, ch) ==
  /\ Threads(mem, m, ch)
  /\ ch[0] = hw.buf /\ ch[m] = fau.buf
  /\ Even(hw.idx) /\ Even(Written)
  /\ hw.idx + (bell + Unrung) = m * Used + Written
  /\ Filled(mem, m, ch, hw.idx, Written)
  /\ Parts(m, ch)
  /\ Last(m, ch)

\* who is where
Turns ==
  /\ \A c \in Core : pc[c] \in {"finish", "bell", "sent", "nomem"} => tag = c
  /\ \A c \in Core : pc[c] # "idle" => pkt[c] \in Packet
  /\ \A c \in Core : pc[c] = "finish" => /\ old[c].buf = fau.buf
                                         /\ old[c].idx = fau.idx - 2
  /\ \A c, d \in Core : scratch[c] # None /\ scratch[c] = scratch[d] => c = d

Closed ==
  /\ \A c \in Core : pc[c] = "idle"
  /\ fau.buf \in pool /\ hw = Nowhere /\ bell = 0
  /\ pool \cup Ahead \cup lost = Buffer /\ pool \cap Ahead = {}
  /\ lost \cap (pool \cup Ahead) = {}

Types ==
  /\ fau \in Place
  /\ tag \in Core \cup {None}
  /\ mem \in [Buffer -> [0 .. PoolWords - 1 -> Words]]
  /\ pool \in SUBSET Buffer
  /\ scratch \in [Core -> Buffer \cup {None}]
  /\ pc \in [Core -> {"idle", "wait", "finish", "bell", "sent", "nomem"}]
  /\ pkt \in [Core -> Packet \cup {None}]
  /\ old \in [Core -> Place]
  /\ enabled \in BOOLEAN
  /\ hw \in Place
  /\ bell \in Nat
  /\ lost \in SUBSET Buffer
  /\ doubled \in BOOLEAN

Inv ==
  /\ Types /\ Turns
  /\ enabled => \E m \in Nat : \E ch \in [0 .. m -> Buffer] : Chained(m, ch)
  /\ ~enabled => Closed

-----------------------------------------------------------------------------
(* Numbers *)

LEMMA Sizes ==
  /\ PoolWords \in Nat /\ Used \in Nat /\ Used >= 4 /\ Used = PoolWords - 2
  /\ HwSize - 1 = Used
  /\ \E h \in Nat : Used = 2 * h
<1>1. PoolWords = 2 * (PoolWords \div 2) + (PoolWords % 2) /\ PoolWords \div 2 \in Int
  BY SizeAssumption
<1>2. Used = 2 * ((PoolWords \div 2) - 1) /\ (PoolWords \div 2) - 1 \in Nat
  BY <1>1, SizeAssumption DEF Used
<1>3. \E h \in Nat : Used = 2 * h
  BY <1>2
<1>4. /\ PoolWords \in Nat /\ Used \in Nat /\ Used >= 4 /\ Used = PoolWords - 2
      /\ HwSize - 1 = Used
  BY SizeAssumption DEF Used, HwSize
<1> QED
  BY <1>3, <1>4

\* evenness is kept by steps of two
LEMMA Parity ==
  ASSUME NEW a \in Int
  PROVE  /\ a % 2 = 0 <=> \E k \in Int : a = 2 * k
         /\ a % 2 = 0 <=> (a + 2) % 2 = 0
         /\ a % 2 = 0 <=> (a - 2) % 2 = 0
         /\ 0 % 2 = 0
  OBVIOUS

\* the even places below the last command and the last command itself
LEMMA EvenFacts ==
  /\ Even(0)
  /\ Even(Used - 2)
  /\ \A i : Even(i) => i \in Nat /\ i <= Used - 2
  /\ \A i : Even(i) /\ i # Used - 2 => Even(i + 2) /\ i + 4 <= Used
  /\ \A i : Even(i) /\ i # 0 => Even(i - 2) /\ i >= 2
<1>0. PICK h \in Nat : Used = 2 * h
  BY Sizes
<1>1. Used - 2 = 2 * (h - 1) /\ h - 1 \in Int /\ Used - 2 \in Int
  BY <1>0
<1>2. (Used - 2) % 2 = 0
  BY <1>1, Parity
<1>3. ASSUME NEW i, Even(i), i # Used - 2 PROVE Even(i + 2) /\ i + 4 <= Used
  <2>1. i \in 0 .. Used - 2 /\ i % 2 = 0 /\ i \in Int
    BY <1>3, Sizes DEF Even
  <2>2. PICK k \in Int : i = 2 * k
    BY <2>1, Parity
  <2>3. i + 2 <= Used - 2
    BY <1>0, <1>3, <2>1, <2>2
  <2>4. (i + 2) % 2 = 0
    BY <2>1, Parity
  <2> QED
    BY <2>1, <2>3, <2>4, Sizes DEF Even
<1>4. ASSUME NEW i, Even(i), i # 0 PROVE Even(i - 2) /\ i >= 2
  <2>1. i \in 0 .. Used - 2 /\ i % 2 = 0 /\ i \in Int
    BY <1>4, Sizes DEF Even
  <2>2. PICK k \in Int : i = 2 * k
    BY <2>1, Parity
  <2>3. i >= 2
    BY <1>4, <2>1, <2>2
  <2>4. (i - 2) % 2 = 0
    BY <2>1, Parity
  <2> QED
    BY <2>1, <2>3, <2>4, Sizes DEF Even
<1>5. Even(0) /\ Even(Used - 2)
  BY <1>2, Sizes, Parity DEF Even
<1>6. \A i : Even(i) => i \in Nat /\ i <= Used - 2
  BY Sizes DEF Even
<1> QED
  BY <1>3, <1>4, <1>5, <1>6

LEMMA DivMod ==
  ASSUME NEW a \in Nat \ {0}, NEW x \in Nat
  PROVE  /\ x \div a \in Nat /\ x % a \in 0 .. a - 1
         /\ x = (x \div a) * a + (x % a)
  OBVIOUS

LEMMA DivUnique ==
  ASSUME NEW a \in Nat \ {0}, NEW q \in Nat, NEW r \in 0 .. a - 1, NEW x \in Nat,
         x = q * a + r
  PROVE  x % a = r /\ x \div a = q
  OBVIOUS

\* lexicographic order of buffer and word
LEMMA Above ==
  ASSUME NEW a \in Nat, NEW i \in Nat, NEW m \in Nat, NEW j \in 0 .. a - 1, NEW e \in 0 .. a - 1
  PROVE  /\ i * a + j <= m * a + e => i < m \/ (i = m /\ j <= e)
         /\ i < m => i * a + a <= m * a
         /\ (i + 1) * a = i * a + a
         /\ i * a \in Nat
         /\ 0 * a = 0
<1>1. (i + 1) * a = i * a + a /\ i * a \in Nat /\ m * a \in Nat /\ 0 * a = 0
  OBVIOUS
<1>2. ASSUME i < m PROVE i * a + a <= m * a
  <2>1. PICK d \in Nat : m = i + 1 + d
    <3>1. m - i - 1 \in Nat /\ m = i + 1 + (m - i - 1)
      BY <1>2
    <3> QED
      BY <3>1
  <2>2. m * a = i * a + a + d * a /\ d * a >= 0
    BY <2>1
  <2> QED
    BY <2>2, <1>1
<1>3. ASSUME m < i PROVE m * a + a <= i * a
  <2>1. PICK d \in Nat : i = m + 1 + d
    <3>1. i - m - 1 \in Nat /\ i = m + 1 + (i - m - 1)
      BY <1>3
    <3> QED
      BY <3>1
  <2>2. i * a = m * a + a + d * a /\ d * a >= 0
    BY <2>1
  <2> QED
    BY <2>2, <1>1
<1>4. ASSUME i * a + j <= m * a + e PROVE i < m \/ (i = m /\ j <= e)
  <2>1. CASE m < i
    <3>1. m * a + a <= i * a
      BY <1>3, <2>1
    <3>2. i * a \in Nat /\ m * a \in Nat
      BY <1>1
    <3> QED
      BY <1>4, <3>1, <3>2
  <2>2. CASE m = i
    BY <1>1, <1>4, <2>2
  <2> QED
    BY <2>1, <2>2
<1> QED
  BY <1>1, <1>2, <1>4

-----------------------------------------------------------------------------
(* The chain of buffers *)

\* a non-empty set of numbers has a least one
LEMMA LeastNat ==
  ASSUME NEW T \in SUBSET Nat, T # {}
  PROVE  \E x \in T : \A y \in T : x <= y
<1>1. \E R : IsWellFoundedOn(R, Nat) /\ \A x, y \in Nat : x < y => <<x, y>> \in R
  <2> DEFINE R == OpToRel(<, Nat)
  <2>1. IsWellFoundedOn(R, Nat)
    BY NatLessThanWellFounded, Zenon
  <2>2. \A x, y \in Nat : x < y => <<x, y>> \in R
    BY DEF OpToRel
  <2> QED
    BY <2>1, <2>2
<1>2. PICK R : IsWellFoundedOn(R, Nat) /\ \A x, y \in Nat : x < y => <<x, y>> \in R
  BY <1>1
<1>3. \E x \in T : \A y \in T : ~ (<<y, x>> \in R)
  <2>1. T \subseteq Nat /\ IsWellFoundedOn(R, Nat)
    BY <1>2
  <2> QED
    BY <2>1, WFMin, Zenon
<1>4. PICK x \in T : \A y \in T : ~ (<<y, x>> \in R)
  BY <1>3, Zenon
<1>5. ASSUME NEW y \in T PROVE x <= y
  <2>1. x \in Nat /\ y \in Nat
    OBVIOUS
  <2>2. ~(y < x)
    BY <2>1, <1>2, <1>4, Zenon
  <2> QED
    BY <2>1, <2>2
<1> QED
  BY <1>5

\* PlaceAt as a function of what it reads
PlaceOf(M, B, I, n) ==
  LET used == HwSize - 1
      at   == I + n
      hop[i \in 0 .. at \div used] ==
        IF i = 0 THEN B
        ELSE LET b == hop[i - 1] IN IF b \in Buffer THEN M[b][used] ELSE None
  IN [buf |-> hop[at \div used], idx |-> at % used]

\* following the links is following the chain
LEMMA HopIs ==
  ASSUME NEW M, NEW m, NEW ch, Threads(M, m, ch), NEW k \in 0 .. m, NEW f,
         f = [i \in 0 .. k |->
                IF i = 0 THEN ch[0] ELSE IF f[i - 1] \in Buffer THEN M[f[i - 1]][Used] ELSE None]
  PROVE  \A i \in 0 .. k : f[i] = ch[i]
<1> DEFINE T == {i \in 0 .. k : f[i] # ch[i]}
<1>0. m \in Nat /\ k \in Nat
  BY DEF Threads
<1>1. SUFFICES ASSUME T # {} PROVE FALSE
  OBVIOUS
<1>2. PICK x \in T : \A y \in T : x <= y
  <2>1. T \in SUBSET Nat
    BY <1>0
  <2> HIDE DEF T
  <2> QED
    BY <1>1, <2>1, LeastNat
<1>3. x \in 0 .. k /\ f[x] # ch[x]
  OBVIOUS
<1>4. CASE x = 0
  BY <1>3, <1>4
<1>5. CASE x # 0
  <2>1. x - 1 \in 0 .. k /\ x - 1 \in 0 .. m - 1 /\ x - 1 + 1 = x /\ x - 1 \in 0 .. m
    BY <1>0, <1>3, <1>5
  <2>2. f[x - 1] = ch[x - 1]
    BY <1>2, <2>1
  <2>3. ch[x - 1] \in Buffer
    BY <2>1 DEF Threads
  <2>4. f[x] = M[ch[x - 1]][Used]
    BY <1>3, <1>5, <2>2, <2>3
  <2>5. M[ch[x - 1]][Used] = ch[x]
    BY <2>1 DEF Threads
  <2> QED
    BY <1>3, <2>4, <2>5
<1> QED
  BY <1>4, <1>5

\* the n-th word from word I of the first buffer is word j of the i-th after it
Falls(I, n, i, j) == j \in 0 .. Used - 1 /\ I + n = i * Used + j

LEMMA PlaceIs ==
  ASSUME NEW M, NEW m, NEW ch, Threads(M, m, ch), NEW I \in Nat, NEW n \in Nat,
         NEW i \in 0 .. m, NEW j, Falls(I, n, i, j)
  PROVE  PlaceOf(M, ch[0], I, n) = [buf |-> ch[i], idx |-> j]
<1>0. j \in 0 .. Used - 1 /\ I + n = i * Used + j
  BY DEF Falls
<1> DEFINE Follows(f) ==
             f = [x \in 0 .. ((I + n) \div (HwSize - 1)) |->
                    IF x = 0 THEN ch[0]
                    ELSE LET b == f[x - 1] IN IF b \in Buffer THEN M[b][HwSize - 1] ELSE None]
           hop == CHOOSE f : Follows(f)
<1>1. PlaceOf(M, ch[0], I, n) =
        [buf |-> hop[(I + n) \div (HwSize - 1)], idx |-> (I + n) % (HwSize - 1)]
  BY Zenon DEF PlaceOf
<1>2. (I + n) \div (HwSize - 1) = i /\ (I + n) % (HwSize - 1) = j
  <2>1. m \in Nat /\ i \in Nat /\ I + n \in Nat /\ Used \in Nat \ {0} /\ HwSize - 1 = Used
    BY Sizes DEF Threads
  <2>2. PICK x \in Nat : x = I + n
    BY <2>1
  <2>4. x = i * Used + j
    BY <1>0, <2>2
  <2>3. x % Used = j /\ x \div Used = i
    BY <1>0, <2>1, <2>4, DivUnique
  <2> QED
    BY <2>1, <2>2, <2>3
<1>3. HwSize - 1 = Used /\ m \in Nat /\ i \in Nat
  BY Sizes DEF Threads
<1>4. \A f : Follows(f) <=>
        f = [x \in 0 .. i |->
               IF x = 0 THEN ch[0] ELSE IF f[x - 1] \in Buffer THEN M[f[x - 1]][Used] ELSE None]
  BY <1>2, <1>3
<1>5. \E f : Follows(f)
  <2> DEFINE g == [x \in 0 .. i |-> ch[x]]
  <2>1. ASSUME NEW x \in 0 .. i
        PROVE  g[x] = IF x = 0 THEN ch[0]
                      ELSE IF g[x - 1] \in Buffer THEN M[g[x - 1]][Used] ELSE None
    <3>1. CASE x = 0
      BY <3>1
    <3>2. CASE x # 0
      <4>1. x - 1 \in 0 .. i /\ x - 1 \in 0 .. m - 1 /\ x - 1 + 1 = x /\ x - 1 \in 0 .. m
        BY <1>3, <3>2
      <4>2. g[x - 1] = ch[x - 1] /\ ch[x - 1] \in Buffer /\ M[ch[x - 1]][Used] = ch[x]
        BY <4>1 DEF Threads
      <4> QED
        BY <3>2, <4>2
    <3> QED
      BY <3>1, <3>2
  <2>2. g = [x \in 0 .. i |->
               IF x = 0 THEN ch[0] ELSE IF g[x - 1] \in Buffer THEN M[g[x - 1]][Used] ELSE None]
    BY <2>1
  <2> HIDE DEF g, Follows
  <2> QED
    BY <1>4, <2>2, Zenon
<1> HIDE DEF Follows
<1>6. Follows(hop)
  BY <1>5, Zenon
<1>7. hop = [x \in 0 .. i |->
               IF x = 0 THEN ch[0] ELSE IF hop[x - 1] \in Buffer THEN M[hop[x - 1]][Used] ELSE None]
  BY <1>4, <1>6, Zenon
<1> HIDE DEF hop
<1>8. hop[i] = ch[i]
  <2>1. i \in 0 .. i
    BY <1>3
  <2> QED
    BY <1>7, <2>1, HopIs
<1> QED
  BY <1>1, <1>2, <1>8

LEMMA PlaceSame ==
  /\ \A n : PlaceAt(n) = PlaceOf(mem, hw.buf, hw.idx, n)
  /\ \A n : PlaceAt(n)' = PlaceOf(mem', hw'.buf, hw'.idx, n)
  BY Zenon DEF PlaceAt, PlaceOf

-----------------------------------------------------------------------------
(* The invariant holds at the start *)

\* the chain of a queue with one buffer and no command
LEMMA OneBuffer ==
  ASSUME NEW M, NEW b \in Buffer, NEW ch, ch = [i \in 0 .. 0 |-> b]
  PROVE  Threads(M, 0, ch) /\ Filled(M, 0, ch, 0, 0) /\ ch[0] = b
<1>1. 0 .. 0 = {0} /\ 0 .. (0 - 1) = {}
  OBVIOUS
<1>2. Filled(M, 0, ch, 0, 0)
  BY EvenFacts DEF Filled
<1> QED
  BY <1>1, <1>2 DEF Threads

LEMMA InitInv == ASSUME Init PROVE Inv
<1>1. PICK b \in Buffer, s \in [Core -> Buffer \cup {None}] :
        /\ \A c, d \in Core : s[c] # None => s[c] # b /\ (s[c] = s[d] => c = d)
        /\ fau = [buf |-> b, idx |-> 0]
        /\ hw = fau
        /\ scratch = s
        /\ pool = Buffer \ ({b} \cup {s[c] : c \in Core})
        /\ (\E c \in Core : s[c] = None) => pool = {}
        /\ tag = None
        /\ mem = [x \in Buffer |-> Blank]
        /\ pc = [c \in Core |-> "idle"]
        /\ pkt = [c \in Core |-> None]
        /\ old = [c \in Core |-> Nowhere]
        /\ enabled = TRUE
        /\ bell = 0
        /\ lost = {} /\ doubled = FALSE
  BY Zenon DEF Init
<1>2. Types
  <2>1. fau \in Place /\ hw \in Place /\ Nowhere \in Place
    BY <1>1, Sizes DEF Place, Nowhere
  <2>2. mem \in [Buffer -> [0 .. PoolWords - 1 -> Words]]
    BY <1>1 DEF Blank, Words
  <2>3. enabled \in BOOLEAN /\ doubled \in BOOLEAN
    BY <1>1, Zenon
  <2> QED
    BY <1>1, <2>1, <2>2, <2>3 DEF Types
<1>3. Turns
  BY <1>1 DEF Turns
<1>4. Reserved = 0 /\ Unrung = 0 /\ Written = 0
  BY <1>1 DEF Reserved, Unrung, Written
<1>5. PICK ch : ch = [i \in 0 .. 0 |-> b]
  OBVIOUS
<1>6. Threads(mem, 0, ch) /\ Filled(mem, 0, ch, 0, 0) /\ ch[0] = b
  BY <1>5, OneBuffer
<1>7. Parts(0, ch)
  <2>1. 0 .. 0 = {0} /\ {ch[i] : i \in 0 .. 0} = {b}
    BY <1>6
  <2>2. Ahead = {s[c] : c \in Core} \ {None}
    BY <1>1 DEF Ahead
  <2>3. b \notin Ahead /\ pool \cap Ahead = {} /\ b \notin pool
    BY <1>1, <2>2
  <2>4. Ahead \subseteq Buffer
    BY <2>2
  <2>5. \A x \in Buffer : x \in pool \/ x \in Ahead \/ x = b
    BY <1>1, <2>2, NoneAssumption
  <2> QED
    BY <1>1, <1>6, <2>1, <2>3, <2>4, <2>5 DEF Parts
<1>8. Last(0, ch)
  BY <1>1 DEF Last
<1>9. Chained(0, ch)
  <2>1. hw.idx = 0 /\ hw.buf = b /\ fau.buf = b /\ bell = 0
    BY <1>1
  <2>2. hw.idx + (bell + Unrung) = 0 * Used + Written
    BY <1>4, <2>1, Sizes
  <2> QED
    BY <1>4, <1>6, <1>7, <1>8, <2>1, <2>2, EvenFacts DEF Chained
<1>10. ch \in [0 .. 0 -> Buffer] /\ 0 \in Nat
  BY <1>5
<1> QED
  BY <1>1, <1>2, <1>3, <1>9, <1>10 DEF Inv

-----------------------------------------------------------------------------
(* The invariant is kept: the senders *)

\* whoever has the tag is alone between the fetch-and-add and the doorbell
LEMMA Alone ==
  ASSUME Types, Turns, NEW c \in Core
  PROVE  /\ tag = None => Reserved = 0 /\ Unrung = 0
         /\ pc[c] = "finish" => Reserved = 2 /\ Unrung = 0
         /\ pc[c] = "bell" => Reserved = 0 /\ Unrung = 2
         /\ pc[c] \in {"sent", "nomem"} => Reserved = 0 /\ Unrung = 0
  BY NoneAssumption DEF Types, Turns, Reserved, Unrung

\* what a step of one core makes of the words reserved and unrung
LEMMA AloneNext ==
  ASSUME Types, Turns, NEW c \in Core, tag = c \/ tag = None, NEW l, Goto(c, l)
  PROVE  /\ l = "finish" => Reserved' = 2 /\ Unrung' = 0
         /\ l = "bell" => Reserved' = 0 /\ Unrung' = 2
         /\ l \in {"sent", "nomem", "idle"} => Reserved' = 0 /\ Unrung' = 0
<1>1. \A d \in Core : d # c => pc[d] \in {"idle", "wait"} /\ pc'[d] = pc[d]
  BY NoneAssumption DEF Types, Turns, Goto
<1>2. pc'[c] = l
  BY DEF Types, Goto
<1> QED
  BY <1>1, <1>2 DEF Reserved, Unrung

\* a step that leaves the words alone
LEMMA SameChain ==
  ASSUME NEW m, NEW ch, Chained(m, ch), UNCHANGED <<fau, mem, pool, scratch, hw, bell, lost>>,
         Reserved' = Reserved, Unrung' = Unrung,
         \A d \in Core : pc'[d] = "bell" => pc[d] = "bell" /\ old'[d] = old[d] /\ pkt'[d] = pkt[d]
  PROVE  Chained(m, ch)'
<1>1. Written' = Written /\ Ahead' = Ahead
  BY DEF Written, Ahead
<1>2. Threads(mem, m, ch)' /\ Filled(mem, m, ch, hw.idx, Written)'
  BY <1>1 DEF Chained, Threads, Filled
<1>3. Parts(m, ch)'
  BY <1>1 DEF Chained, Parts
<1>4. Last(m, ch)'
  BY DEF Chained, Last
<1> QED
  BY <1>1, <1>2, <1>3, <1>4 DEF Chained

LEMMA PrepareInv == ASSUME Inv, NEW c \in Core, NEW p \in Packet, Prepare(c, p) PROVE Inv'
<1>1. Types'
  BY DEF Inv, Types, Prepare, Goto, queue, spoilt
<1>2. Turns'
  BY DEF Inv, Types, Turns, Prepare, Goto, queue
<1>3. Reserved' = Reserved /\ Unrung' = Unrung
  <2>1. \A d \in Core : /\ pc'[d] = "finish" <=> pc[d] = "finish"
                        /\ pc'[d] = "bell" <=> pc[d] = "bell"
    BY DEF Inv, Types, Prepare, Goto
  <2> QED
    BY <2>1 DEF Reserved, Unrung
<1>4. enabled /\ enabled'
  BY DEF Prepare
<1>5. PICK m \in Nat : \E ch \in [0 .. m -> Buffer] : Chained(m, ch)
  BY <1>4 DEF Inv
<1>6. PICK ch \in [0 .. m -> Buffer] : Chained(m, ch)
  BY <1>5
<1>7. Chained(m, ch)'
  <2>1. \A d \in Core : pc'[d] = "bell" => pc[d] = "bell" /\ old'[d] = old[d] /\ pkt'[d] = pkt[d]
    BY DEF Inv, Types, Prepare, Goto, queue
  <2>2. UNCHANGED <<fau, mem, pool, scratch, hw, bell, lost>>
    BY DEF Prepare, queue, spoilt
  <2> QED
    BY <1>3, <1>6, <2>1, <2>2, SameChain
<1> QED
  BY <1>1, <1>2, <1>4, <1>7 DEF Inv

\* a core that is not idle finds the queue open
LEMMA Open ==
  ASSUME Inv, NEW c \in Core, pc[c] # "idle"
  PROVE  enabled /\ \E m \in Nat : \E ch \in [0 .. m -> Buffer] : Chained(m, ch)
  BY DEF Inv, Closed

LEMMA ReserveInv == ASSUME Inv, NEW c \in Core, Reserve(c) PROVE Inv'
<1>1. PICK m \in Nat : \E ch \in [0 .. m -> Buffer] : Chained(m, ch)
  BY Open DEF Reserve
<1>2. PICK ch \in [0 .. m -> Buffer] : Chained(m, ch)
  BY <1>1
<1>3. enabled /\ enabled'
  BY Open DEF Reserve
<1>4. Reserved = 0 /\ Unrung = 0 /\ Reserved' = 2 /\ Unrung' = 0
  BY Alone, AloneNext DEF Inv, Reserve
<1>5. fau \in Place /\ fau'.buf = fau.buf /\ fau'.idx = fau.idx + 2 /\ fau' = [buf |-> fau.buf, idx |-> fau.idx + 2]
  BY DEF Inv, Types, Reserve, Place
<1>6. Written = fau.idx /\ Written' = Written
  <2>1. fau.idx \in Int
    BY <1>5, Sizes DEF Place
  <2> QED
    BY <1>4, <1>5, <2>1 DEF Written
<1>7. fau.idx \in Nat /\ fau.idx + 2 <= PoolWords
  BY <1>2, <1>6, EvenFacts, Sizes DEF Chained
<1>8. Types'
  <2>1. fau' \in Place
    BY <1>5, <1>7, Sizes DEF Place
  <2> QED
    BY <2>1 DEF Inv, Types, Reserve, Goto, spoilt
<1>9. Turns'
  <2>1. \A d \in Core : pc[d] \notin {"finish", "bell", "sent", "nomem"}
    BY NoneAssumption DEF Inv, Turns, Reserve
  <2>2. old'[c] = fau /\ fau.idx = fau'.idx - 2
    BY <1>5, <1>7 DEF Inv, Types, Reserve
  <2> QED
    BY <1>5, <2>1, <2>2 DEF Inv, Types, Turns, Reserve, Goto
<1>10. Chained(m, ch)'
  <2>1. Threads(mem, m, ch)' /\ Filled(mem, m, ch, hw.idx, Written)'
    BY <1>2, <1>6 DEF Chained, Threads, Filled, Reserve
  <2>2. Parts(m, ch)'
    <3>1. Ahead' = Ahead
      BY DEF Reserve, Ahead
    <3> QED
      BY <1>2, <3>1 DEF Chained, Parts, Reserve, spoilt
  <2>3. Last(m, ch)'
    <3>1. \A d \in Core : pc'[d] # "bell"
      BY NoneAssumption DEF Inv, Types, Turns, Reserve, Goto
    <3> QED
      BY <3>1 DEF Last
  <2> QED
    BY <1>2, <1>4, <1>5, <1>6, <2>1, <2>2, <2>3 DEF Chained, Reserve
<1> QED
  BY <1>3, <1>8, <1>9, <1>10 DEF Inv

\* one more command, in buffer b
Appends(M, N, b, i, p) ==
  /\ \A x \in Buffer : x # b => N[x] = M[x]
  /\ \A k \in 0 .. Used - 1 : k # i /\ k # i + 1 => N[b][k] = M[b][k]
  /\ N[b][i] = Cmd(p) /\ N[b][i + 1] = Ptr(p)

LEMMA OneMore ==
  ASSUME NEW M, NEW N, NEW m, NEW ch, Threads(M, m, ch), NEW h, NEW i, Even(i),
         Filled(M, m, ch, h, i), NEW p \in Packet, Appends(M, N, ch[m], i, p)
  PROVE  Filled(N, m, ch, h, i + 2) /\ Threads(N, m, ch)
<1> USE DEF Appends
<1>0. m \in Nat /\ m \in 0 .. m /\ i \in Nat /\ i <= Used - 2 /\ Used \in Nat
  BY EvenFacts, Sizes DEF Threads
<1>1. \A x \in 0 .. m : x # m => ch[x] \in Buffer /\ ch[x] # ch[m]
  BY <1>0 DEF Threads
<1>2. Threads(N, m, ch)
  <2>1. \A x \in 0 .. m - 1 : x \in 0 .. m /\ x # m
    BY <1>0
  <2> QED
    BY <1>1, <2>1 DEF Threads
<1>3. ASSUME NEW x \in 0 .. m, NEW j \in 0 .. Used - 2, Even(j), x = 0 => h <= j, x = m => j < i + 2
      PROVE  \E q \in Packet : N[ch[x]][j] = Cmd(q) /\ N[ch[x]][j + 1] = Ptr(q)
  <2>1. CASE x # m
    BY <1>1, <1>3, <2>1 DEF Filled
  <2>2. CASE x = m /\ j = i
    BY <2>2
  <2>3. CASE x = m /\ j # i
    <3>1. j \in Nat /\ j < i
      <4>1. j \in Nat /\ i % 2 = 0 /\ j % 2 = 0
        BY <1>3, EvenFacts DEF Even
      <4>2. PICK a \in Int, b \in Int : i = 2 * a /\ j = 2 * b
        BY <1>0, <4>1, Parity
      <4> QED
        BY <1>0, <1>3, <2>3, <4>1, <4>2
    <3>2. j + 1 < i
      <4>1. i % 2 = 0 /\ j % 2 = 0
        BY <1>3 DEF Even
      <4>2. PICK a \in Int, b \in Int : i = 2 * a /\ j = 2 * b
        BY <1>0, <3>1, <4>1, Parity
      <4> QED
        BY <1>0, <3>1, <4>2
    <3>3. j \in 0 .. Used - 1 /\ j + 1 \in 0 .. Used - 1 /\ j # i /\ j # i + 1 /\ j + 1 # i /\ j + 1 # i + 1
      BY <1>0, <3>1, <3>2
    <3>4. N[ch[m]][j] = M[ch[m]][j] /\ N[ch[m]][j + 1] = M[ch[m]][j + 1]
      BY <3>3
    <3>5. \E q \in Packet : M[ch[m]][j] = Cmd(q) /\ M[ch[m]][j + 1] = Ptr(q)
      BY <1>0, <1>3, <2>3, <3>1 DEF Filled
    <3> QED
      BY <2>3, <3>4, <3>5
  <2> QED
    BY <2>1, <2>2, <2>3
<1> QED
  BY <1>2, <1>3 DEF Filled

LEMMA CommandWords == \A p \in Packet : Cmd(p) \in Words /\ Ptr(p) \in Words
  BY DEF Cmd, Ptr, Words

StoresTwo(M, N, b, i, v, w) == N = [M EXCEPT ![b][i] = v, ![b][i + 1] = w]

LEMMA TwoWords ==
  ASSUME NEW M \in [Buffer -> [0 .. PoolWords - 1 -> Words]], NEW b \in Buffer,
         NEW i \in 0 .. PoolWords - 1, i + 1 \in 0 .. PoolWords - 1,
         NEW v \in Words, NEW w \in Words, NEW N, StoresTwo(M, N, b, i, v, w)
  PROVE  /\ N \in [Buffer -> [0 .. PoolWords - 1 -> Words]]
         /\ \A x \in Buffer : x # b => N[x] = M[x]
         /\ \A k \in 0 .. PoolWords - 1 : k # i /\ k # i + 1 => N[b][k] = M[b][k]
         /\ N[b][i] = v /\ N[b][i + 1] = w
<1>0. i \in Int /\ i # i + 1
  BY Sizes
<1>1. PICK F : F = [M[b] EXCEPT ![i] = v]
  OBVIOUS
<1>2. PICK G : G = [F EXCEPT ![i + 1] = w]
  OBVIOUS
<1>3. N = [M EXCEPT ![b] = G]
  BY <1>1, <1>2 DEF StoresTwo
<1>4. /\ G \in [0 .. PoolWords - 1 -> Words] /\ G[i] = v /\ G[i + 1] = w
      /\ \A k \in 0 .. PoolWords - 1 : k # i /\ k # i + 1 => G[k] = M[b][k]
  BY <1>0, <1>1, <1>2
<1> QED
  BY <1>3, <1>4

LEMMA WriteCommandInv == ASSUME Inv, NEW c \in Core, WriteCommand(c) PROVE Inv'
<1>1. PICK m \in Nat : \E ch \in [0 .. m -> Buffer] : Chained(m, ch)
  BY Open DEF WriteCommand
<1>2. PICK ch \in [0 .. m -> Buffer] : Chained(m, ch)
  BY <1>1
<1>3. enabled /\ enabled' /\ tag = c /\ pc[c] = "finish" /\ pkt[c] \in Packet
  BY Open DEF WriteCommand, Inv, Turns
<1>4. Reserved = 2 /\ Unrung = 0 /\ Reserved' = 0 /\ Unrung' = 2
  BY <1>3, Alone, AloneNext DEF Inv, WriteCommand
<1> DEFINE b == old[c].buf
           i == old[c].idx
<1>5. b = fau.buf /\ i = fau.idx - 2 /\ fau.idx \in Int
  BY <1>3, Sizes DEF Inv, Types, Turns, Place
<1>6. Written = i /\ Written' = i + 2 /\ fau' = fau
  BY <1>4, <1>5 DEF Written, WriteCommand
<1>7. Even(i) /\ Even(i + 2) /\ i \in Nat /\ i + 4 <= Used
  <2>1. Even(i)
    BY <1>2, <1>6 DEF Chained
  <2>2. i # Used - 2
    BY Sizes, EvenFacts, <2>1 DEF WriteCommand, Room, CVMX_PKO_COMMAND_BUFFER_SIZE_ADJUST
  <2> QED
    BY <2>1, <2>2, EvenFacts
<1>8. b \in Buffer /\ ch[m] = b /\ m \in 0 .. m
  BY <1>2, <1>5 DEF Chained
<1>9. mem \in [Buffer -> [0 .. PoolWords - 1 -> Words]] /\ i \in 0 .. PoolWords - 1 /\ i + 1 \in 0 .. PoolWords - 1
  BY <1>7, Sizes DEF Inv, Types
<1>10. StoresTwo(mem, mem', b, i, Cmd(pkt[c]), Ptr(pkt[c]))
  BY DEF WriteCommand, StoresTwo
<1> HIDE DEF b, i
<1>11. /\ mem' \in [Buffer -> [0 .. PoolWords - 1 -> Words]]
       /\ \A x \in Buffer : x # b => mem'[x] = mem[x]
       /\ \A k \in 0 .. PoolWords - 1 : k # i /\ k # i + 1 => mem'[b][k] = mem[b][k]
       /\ mem'[b][i] = Cmd(pkt[c]) /\ mem'[b][i + 1] = Ptr(pkt[c])
  <2>1. Cmd(pkt[c]) \in Words /\ Ptr(pkt[c]) \in Words
    BY <1>3, CommandWords
  <2> QED
    BY <1>8, <1>9, <1>10, <2>1, TwoWords
<1>12. Types'
  BY <1>11 DEF Inv, Types, WriteCommand, Goto, spoilt
<1>13. Turns'
  BY <1>3, NoneAssumption DEF Inv, Types, Turns, WriteCommand, Goto
<1>14. Threads(mem, m, ch)' /\ Filled(mem, m, ch, hw.idx, Written)'
  <2>1. Appends(mem, mem', ch[m], i, pkt[c])
    BY <1>8, <1>11, Sizes, SMTT(30) DEF Appends
  <2>2. Filled(mem', m, ch, hw.idx, i + 2) /\ Threads(mem', m, ch)
    BY <1>2, <1>3, <1>6, <1>7, <2>1, OneMore DEF Chained
  <2>3. hw' = hw /\ Threads(mem, m, ch)' = Threads(mem', m, ch)
    BY DEF WriteCommand, Threads
  <2> QED
    BY <1>6, <2>2, <2>3 DEF Filled, Threads
<1>15. Parts(m, ch)'
  <2>1. Ahead' = Ahead
    BY DEF WriteCommand, Ahead
  <2> QED
    BY <1>2, <2>1 DEF Chained, Parts, WriteCommand, spoilt
<1>16. Last(m, ch)'
  <2>1. hw.idx + bell = m * Used + i
    BY <1>2, <1>4, <1>6 DEF Chained, Inv, Types
  <2>2. \A d \in Core : pc'[d] = "bell" => d = c
    BY <1>3 DEF Inv, Types, Turns, WriteCommand, Goto
  <2>3. UNCHANGED <<hw, bell, old, pkt>>
    BY DEF WriteCommand
  <2> QED
    BY <1>7, <1>8, <1>11, <2>1, <2>2, <2>3 DEF Last, b, i
<1>17. hw.idx + (bell + 2) = m * Used + (i + 2)
  <2>1. hw.idx \in Nat /\ bell \in Nat /\ m * Used \in Nat
    BY <1>2, EvenFacts, Sizes DEF Chained, Inv, Types
  <2>2. hw.idx + (bell + 0) = m * Used + i
    BY <1>2, <1>4, <1>6 DEF Chained
  <2> QED
    BY <1>7, <2>1, <2>2, SMTT(30)
<1>18. Chained(m, ch)'
  BY <1>2, <1>4, <1>5, <1>6, <1>7, <1>14, <1>15, <1>16, <1>17 DEF Chained, WriteCommand
<1> QED
  BY <1>3, <1>12, <1>13, <1>18 DEF Inv

\* a core's buffer ahead is used up, and replaced by one of the pool's if there
\* is one
LEMMA AllocTakes ==
  ASSUME Types, pool \cap Ahead = {}, NEW c \in Core, AllocAhead(c),
         \A d, e \in Core : scratch[d] # None /\ scratch[d] = scratch[e] => d = e
  PROVE  /\ pool' \in SUBSET Buffer /\ scratch' \in [Core -> Buffer \cup {None}]
         /\ \A d, e \in Core : scratch'[d] # None /\ scratch'[d] = scratch'[e] => d = e
         /\ \E S \in SUBSET pool : pool' = pool \ S /\ Ahead' = (Ahead \ {scratch[c]}) \cup S
<1> USE NoneAssumption DEF Types
<1>1. CASE pool = {}
  <2>1. scratch' = [scratch EXCEPT ![c] = None] /\ pool' = pool
    BY <1>1 DEF AllocAhead
  <2>2. Ahead' = (Ahead \ {scratch[c]}) \cup {}
    BY <2>1 DEF Ahead
  <2>3. pool' = pool \ {} /\ {} \in SUBSET pool
    BY <2>1
  <2>4. \A d, e \in Core : scratch'[d] # None /\ scratch'[d] = scratch'[e] => d = e
    BY <2>1
  <2>5. pool' \in SUBSET Buffer /\ scratch' \in [Core -> Buffer \cup {None}]
    BY <2>1
  <2> QED
    BY <2>2, <2>3, <2>4, <2>5
<1>2. CASE pool # {}
  <2>1. PICK b \in pool : scratch' = [scratch EXCEPT ![c] = b] /\ pool' = pool \ {b}
    BY <1>2 DEF AllocAhead
  <2>2. b \in Buffer /\ b # None /\ \A d \in Core : scratch[d] # b
    BY DEF Ahead
  <2>3. Ahead' = (Ahead \ {scratch[c]}) \cup {b}
    BY <2>1, <2>2 DEF Ahead
  <2>4. {b} \in SUBSET pool
    OBVIOUS
  <2>5. \A d, e \in Core : scratch'[d] # None /\ scratch'[d] = scratch'[e] => d = e
    BY <2>1, <2>2
  <2>6. pool' \in SUBSET Buffer /\ scratch' \in [Core -> Buffer \cup {None}]
    BY <2>1, <2>2
  <2> QED
    BY <2>1, <2>3, <2>4, <2>5, <2>6
<1> QED
  BY <1>1, <1>2

LEMMA NoBufferInv == ASSUME Inv, NEW c \in Core, NoBuffer(c) PROVE Inv'
<1>1. PICK m \in Nat : \E ch \in [0 .. m -> Buffer] : Chained(m, ch)
  BY Open DEF NoBuffer
<1>2. PICK ch \in [0 .. m -> Buffer] : Chained(m, ch)
  BY <1>1
<1>3. enabled /\ enabled' /\ tag = c /\ pc[c] = "finish" /\ pkt[c] \in Packet
  BY Open DEF NoBuffer, Inv, Turns
<1>4. Reserved = 2 /\ Unrung = 0 /\ Reserved' = 0 /\ Unrung' = 0
  BY <1>3, Alone, AloneNext DEF Inv, NoBuffer
<1>5. fau \in Place /\ fau' = [buf |-> fau.buf, idx |-> fau.idx - 2] /\ fau.idx \in Int
  <2>1. fau \in Place /\ fau' = [fau EXCEPT !.idx = @ - 2]
    BY DEF Inv, Types, NoBuffer
  <2> QED
    BY <2>1, Sizes DEF Place
<1>6. Written = fau.idx - 2 /\ Written' = Written /\ fau'.buf = fau.buf
  BY <1>4, <1>5 DEF Written
<1>7. fau' \in Place
  BY <1>2, <1>5, <1>6, EvenFacts, Sizes DEF Chained, Place
<1>8. /\ pool' \in SUBSET Buffer /\ scratch' \in [Core -> Buffer \cup {None}]
      /\ \A d, e \in Core : scratch'[d] # None /\ scratch'[d] = scratch'[e] => d = e
      /\ \E S \in SUBSET pool : pool' = pool \ S /\ Ahead' = (Ahead \ {scratch[c]}) \cup S
  BY <1>2, AllocTakes DEF Inv, Turns, Chained, Parts, NoBuffer
<1>9. Types'
  BY <1>7, <1>8 DEF Inv, Types, NoBuffer, Goto, spoilt
<1>10. Turns'
  BY <1>3, <1>8, NoneAssumption DEF Inv, Types, Turns, NoBuffer, Goto
<1>11. Threads(mem, m, ch)' /\ Filled(mem, m, ch, hw.idx, Written)'
  BY <1>2, <1>6 DEF Chained, Threads, Filled, NoBuffer
<1>12. Parts(m, ch)'
  <2>1. PICK S \in SUBSET pool : pool' = pool \ S /\ Ahead' = (Ahead \ {scratch[c]}) \cup S
    BY <1>8
  <2>2. Ahead \ {scratch[c]} = Ahead
    BY DEF NoBuffer, Ahead
  <2> QED
    BY <1>2, <2>1, <2>2 DEF Chained, Parts, NoBuffer, spoilt
<1>13. Last(m, ch)'
  <2>1. \A d \in Core : pc'[d] # "bell"
    BY <1>3, NoneAssumption DEF Inv, Types, Turns, NoBuffer, Goto
  <2> QED
    BY <2>1 DEF Last
<1>14. Chained(m, ch)'
  BY <1>2, <1>4, <1>6, <1>11, <1>12, <1>13 DEF Chained, NoBuffer
<1> QED
  BY <1>3, <1>9, <1>10, <1>14 DEF Inv

StoresThree(M, N, b, i, v, w, n) ==
  N = [M EXCEPT ![b][i] = v, ![b][i + 1] = w, ![b][i + 2] = n]

LEMMA ThreeWords ==
  ASSUME NEW M \in [Buffer -> [0 .. PoolWords - 1 -> Words]], NEW b \in Buffer,
         NEW i \in 0 .. PoolWords - 1, i + 1 \in 0 .. PoolWords - 1, i + 2 \in 0 .. PoolWords - 1,
         NEW v \in Words, NEW w \in Words, NEW n \in Words, NEW N,
         StoresThree(M, N, b, i, v, w, n)
  PROVE  /\ N \in [Buffer -> [0 .. PoolWords - 1 -> Words]]
         /\ \A x \in Buffer : x # b => N[x] = M[x]
         /\ \A k \in 0 .. PoolWords - 1 : k # i /\ k # i + 1 /\ k # i + 2 => N[b][k] = M[b][k]
         /\ N[b][i] = v /\ N[b][i + 1] = w /\ N[b][i + 2] = n
<1>0. i \in Int /\ i # i + 1 /\ i # i + 2 /\ i + 1 # i + 2
  BY Sizes
<1>1. PICK F : F = [M[b] EXCEPT ![i] = v]
  OBVIOUS
<1>2. PICK G : G = [F EXCEPT ![i + 1] = w]
  OBVIOUS
<1>3. PICK H : H = [G EXCEPT ![i + 2] = n]
  OBVIOUS
<1>4. N = [M EXCEPT ![b] = H]
  BY <1>1, <1>2, <1>3 DEF StoresThree
<1>5. /\ G \in [0 .. PoolWords - 1 -> Words] /\ G[i] = v /\ G[i + 1] = w
      /\ \A k \in 0 .. PoolWords - 1 : k # i /\ k # i + 1 => G[k] = M[b][k]
  BY <1>0, <1>1, <1>2
<1>6. /\ H \in [0 .. PoolWords - 1 -> Words] /\ H[i] = v /\ H[i + 1] = w /\ H[i + 2] = n
      /\ \A k \in 0 .. PoolWords - 1 : k # i /\ k # i + 1 /\ k # i + 2 => H[k] = M[b][k]
  BY <1>0, <1>3, <1>5
<1> QED
  BY <1>4, <1>6

\* a chain whose last buffer is full leads on to a new one
Longer(m, ch, n, dh) == dh = [x \in 0 .. m + 1 |-> IF x = m + 1 THEN n ELSE ch[x]]

LEMMA Grown ==
  ASSUME NEW M, NEW m, NEW ch, Threads(M, m, ch), NEW h, Filled(M, m, ch, h, Used),
         NEW n \in Buffer, \A i \in 0 .. m : ch[i] # n, M[ch[m]][Used] = n,
         NEW dh, Longer(m, ch, n, dh)
  PROVE  /\ Threads(M, m + 1, dh) /\ Filled(M, m + 1, dh, h, 0)
         /\ dh[m + 1] = n /\ \A i \in 0 .. m : dh[i] = ch[i]
<1>0. m \in Nat
  BY DEF Threads
<1>1. dh[m + 1] = n /\ \A i \in 0 .. m : dh[i] = ch[i] /\ i \in 0 .. m + 1 /\ i # m + 1
  BY <1>0 DEF Longer
<1>2. \A i \in 0 .. m + 1 : i = m + 1 \/ i \in 0 .. m
  BY <1>0
<1>3. dh \in [0 .. m + 1 -> Buffer]
  BY <1>1, <1>2 DEF Threads, Longer
<1>4. \A i, j \in 0 .. m + 1 : dh[i] = dh[j] => i = j
  BY <1>1, <1>2 DEF Threads
<1>5. ASSUME NEW i \in 0 .. (m + 1) - 1 PROVE M[dh[i]][Used] = dh[i + 1]
  <2>1. CASE i = m
    BY <1>0, <1>1, <2>1
  <2>2. CASE i # m
    <3>1. i \in 0 .. m - 1 /\ i \in 0 .. m /\ i + 1 \in 0 .. m
      BY <1>0, <2>2
    <3> QED
      BY <1>1, <3>1 DEF Threads
  <2> QED
    BY <2>1, <2>2
<1>6. Threads(M, m + 1, dh)
  BY <1>0, <1>3, <1>4, <1>5 DEF Threads
<1>7. ASSUME NEW i \in 0 .. m + 1, NEW j \in 0 .. Used - 2, Even(j), i = 0 => h <= j, i = m + 1 => j < 0
      PROVE  \E p \in Packet : M[dh[i]][j] = Cmd(p) /\ M[dh[i]][j + 1] = Ptr(p)
  <2>1. i # m + 1
    BY <1>0, <1>7, EvenFacts
  <2>2. i \in 0 .. m /\ j < Used
    BY <1>2, <1>7, <2>1, EvenFacts, Sizes
  <2> QED
    BY <1>1, <1>7, <2>2 DEF Filled
<1>8. Filled(M, m + 1, dh, h, 0)
  BY <1>7 DEF Filled
<1> QED
  BY <1>1, <1>6, <1>8

LEMMA NewBufferInv == ASSUME Inv, NEW c \in Core, NewBuffer(c) PROVE Inv'
<1>1. PICK m \in Nat : \E ch \in [0 .. m -> Buffer] : Chained(m, ch)
  BY Open DEF NewBuffer
<1>2. PICK ch \in [0 .. m -> Buffer] : Chained(m, ch)
  BY <1>1
<1>3. enabled /\ enabled' /\ tag = c /\ pc[c] = "finish" /\ pkt[c] \in Packet
  BY Open DEF NewBuffer, Inv, Turns
<1>4. Reserved = 2 /\ Unrung = 0 /\ Reserved' = 0 /\ Unrung' = 2
  BY <1>3, Alone, AloneNext DEF Inv, NewBuffer
<1> DEFINE b == old[c].buf
           i == old[c].idx
           n == scratch[c]
<1>5. b = fau.buf /\ i = fau.idx - 2 /\ fau.idx \in Int
  BY <1>3, Sizes DEF Inv, Types, Turns, Place
<1>6. Written = i
  BY <1>4, <1>5 DEF Written
<1>7. Even(i) /\ i \in Nat /\ i = Used - 2
  <2>1. Even(i)
    BY <1>2, <1>6 DEF Chained
  <2>2. ~(i < PoolWords - 3 - 1)
    BY DEF NewBuffer, Room, CVMX_PKO_COMMAND_BUFFER_SIZE_ADJUST
  <2> QED
    BY <2>1, <2>2, EvenFacts, Sizes
<1>8. n \in Buffer /\ n \in Ahead /\ fau' = [buf |-> n, idx |-> 0]
  <2>1. n \in Buffer
    BY DEF NewBuffer, Inv, Types
  <2>2. ~(i >= PoolWords - 3)
    BY <1>7, Sizes
  <2> QED
    BY <2>1, <2>2, NoneAssumption DEF NewBuffer, Ahead
<1>9. b \in Buffer /\ ch[m] = b /\ m \in 0 .. m
  BY <1>2, <1>5 DEF Chained
<1>10. /\ mem \in [Buffer -> [0 .. PoolWords - 1 -> Words]]
       /\ i \in 0 .. PoolWords - 1 /\ i + 1 \in 0 .. PoolWords - 1 /\ i + 2 \in 0 .. PoolWords - 1
  BY <1>7, Sizes DEF Inv, Types
<1>11. StoresThree(mem, mem', b, i, Cmd(pkt[c]), Ptr(pkt[c]), n)
  <2>1. ~(i >= PoolWords - 3)
    BY <1>7, Sizes
  <2> QED
    BY <2>1, Zenon DEF NewBuffer, StoresThree
<1>12. AllocAhead(c) /\ UNCHANGED <<tag, pkt, old, enabled, hw, bell, lost, doubled>> /\ Goto(c, "bell")
  BY DEF NewBuffer, spoilt
<1> HIDE DEF b, i, n
<1>13. /\ mem' \in [Buffer -> [0 .. PoolWords - 1 -> Words]]
       /\ \A x \in Buffer : x # b => mem'[x] = mem[x]
       /\ \A k \in 0 .. PoolWords - 1 : k # i /\ k # i + 1 /\ k # i + 2 => mem'[b][k] = mem[b][k]
       /\ mem'[b][i] = Cmd(pkt[c]) /\ mem'[b][i + 1] = Ptr(pkt[c]) /\ mem'[b][i + 2] = n
  <2>1. Cmd(pkt[c]) \in Words /\ Ptr(pkt[c]) \in Words /\ n \in Words
    BY <1>3, <1>8, CommandWords DEF Words
  <2> QED
    BY <1>9, <1>10, <1>11, <2>1, ThreeWords
<1>14. /\ pool' \in SUBSET Buffer /\ scratch' \in [Core -> Buffer \cup {None}]
       /\ \A d, e \in Core : scratch'[d] # None /\ scratch'[d] = scratch'[e] => d = e
       /\ \E S \in SUBSET pool : pool' = pool \ S /\ Ahead' = (Ahead \ {scratch[c]}) \cup S
  BY <1>2, <1>12, AllocTakes DEF Inv, Turns, Chained, Parts
<1>15. fau' \in Place
  BY <1>8, Sizes DEF Place
<1>16. Types'
  BY <1>12, <1>13, <1>14, <1>15 DEF Inv, Types, Goto
<1>17. Turns'
  BY <1>3, <1>12, <1>14, NoneAssumption DEF Inv, Types, Turns, Goto
<1>18. Filled(mem', m, ch, hw.idx, Used) /\ Threads(mem', m, ch)
  <2>1. Appends(mem, mem', ch[m], i, pkt[c])
    BY <1>7, <1>9, <1>13, Sizes DEF Appends
  <2>2. Filled(mem', m, ch, hw.idx, i + 2) /\ Threads(mem', m, ch)
    BY <1>2, <1>3, <1>6, <1>7, <2>1, OneMore DEF Chained
  <2>3. i + 2 = Used
    BY <1>7, Sizes
  <2> QED
    BY <2>2, <2>3
<1>19. PICK dh : Longer(m, ch, n, dh)
  BY DEF Longer
<1>20. /\ Threads(mem', m + 1, dh) /\ Filled(mem', m + 1, dh, hw.idx, 0)
       /\ dh[m + 1] = n /\ \A x \in 0 .. m : dh[x] = ch[x]
  <2>1. \A x \in 0 .. m : ch[x] # n
    BY <1>2, <1>8 DEF Chained, Parts
  <2>2. mem'[ch[m]][Used] = n
    BY <1>7, <1>9, <1>13, Sizes
  <2> QED
    BY <1>8, <1>18, <1>19, <2>1, <2>2, Grown
<1>21. Written' = 0
  BY <1>4, <1>8 DEF Written
<1>22. Parts(m + 1, dh)'
  <2>1. PICK S \in SUBSET pool : pool' = pool \ S /\ Ahead' = (Ahead \ {n}) \cup S
    BY <1>14 DEF n
  <2>2. {dh[x] : x \in 0 .. m + 1} = {ch[x] : x \in 0 .. m} \cup {n}
    <3>1. \A x \in 0 .. m + 1 : x = m + 1 \/ x \in 0 .. m
      OBVIOUS
    <3>2. m + 1 \in 0 .. m + 1 /\ \A x \in 0 .. m : x \in 0 .. m + 1
      OBVIOUS
    <3> QED
      BY <1>20, <3>1, <3>2
  <2>3. \A x \in 0 .. m + 1 : dh[x] \in {ch[y] : y \in 0 .. m} \/ dh[x] = n
    BY <2>2
  <2>4. Parts(m, ch)
    BY <1>2 DEF Chained
  <2>5. \A x \in 0 .. m + 1 : dh[x] \notin pool' /\ dh[x] \notin Ahead'
    BY <1>8, <2>1, <2>3, <2>4 DEF Parts
  <2>6. pool' \cap Ahead' = {}
    BY <2>1, <2>4 DEF Parts
  <2>7. pool' \cup Ahead' \cup {dh[x] : x \in 0 .. m + 1} \cup lost = Buffer
    BY <1>8, <2>1, <2>2, <2>4 DEF Parts
  <2>8. lost' = lost /\ lost \cap (pool' \cup Ahead') = {} /\ \A x \in 0 .. m + 1 : dh[x] \notin lost
    BY <1>8, <1>12, <2>1, <2>3, <2>4 DEF Parts
  <2> QED
    BY <2>5, <2>6, <2>7, <2>8 DEF Parts
<1>23. hw.idx + bell = m * Used + i
  BY <1>2, <1>4, <1>6 DEF Chained, Inv, Types
<1>24. Last(m + 1, dh)'
  <2>1. \A d \in Core : pc'[d] = "bell" => d = c
    BY <1>3, <1>12 DEF Inv, Types, Turns, Goto
  <2>2. m \in 0 .. m + 1 /\ dh[m] = b
    BY <1>9, <1>20
  <2> QED
    BY <1>7, <1>12, <1>13, <1>23, <2>1, <2>2 DEF Last, b, i
<1>25. hw.idx + (bell + 2) = (m + 1) * Used + 0
  <2>1. hw.idx \in Nat /\ bell \in Nat
    BY <1>2, EvenFacts DEF Chained, Inv, Types
  <2>2. (m + 1) * Used = m * Used + Used /\ m * Used \in Nat
    BY Sizes
  <2> QED
    BY <1>7, <1>23, <2>1, <2>2, Sizes
<1>26. Chained(m + 1, dh)'
  <2>1. dh[0] = hw'.buf /\ dh[m + 1] = fau'.buf
    <3>1. 0 \in 0 .. m
      OBVIOUS
    <3> QED
      BY <1>2, <1>8, <1>12, <1>20, <3>1 DEF Chained
  <2>2. Threads(mem, m + 1, dh)' /\ Filled(mem, m + 1, dh, hw.idx, Written)'
    BY <1>12, <1>20, <1>21 DEF Threads, Filled
  <2>3. Even(hw.idx)' /\ Even(Written)' /\ bell' = bell /\ hw' = hw
    BY <1>2, <1>12, <1>21, EvenFacts DEF Chained
  <2> QED
    BY <1>4, <1>21, <1>22, <1>24, <1>25, <2>1, <2>2, <2>3 DEF Chained
<1>27. m + 1 \in Nat /\ dh \in [0 .. m + 1 -> Buffer]
  BY <1>20 DEF Threads
<1> QED
  BY <1>3, <1>16, <1>17, <1>26, <1>27 DEF Inv

LEMMA DoorbellInv == ASSUME Inv, NEW c \in Core, Doorbell(c) PROVE Inv'
<1>1. PICK m \in Nat : \E ch \in [0 .. m -> Buffer] : Chained(m, ch)
  BY Open DEF Doorbell
<1>2. PICK ch \in [0 .. m -> Buffer] : Chained(m, ch)
  BY <1>1
<1>3. enabled /\ enabled' /\ tag = c /\ pc[c] = "bell" /\ pkt[c] \in Packet
  BY Open DEF Doorbell, Inv, Turns
<1>4. Reserved = 0 /\ Unrung = 2 /\ Reserved' = 0 /\ Unrung' = 0
  BY <1>3, Alone, AloneNext DEF Inv, Doorbell
<1>5. /\ UNCHANGED <<fau, mem, pool, scratch, tag, pkt, old, enabled, hw, lost, doubled>>
      /\ bell' = bell + 2 /\ bell \in Nat
  BY DEF Doorbell, queue, spoilt, Inv, Types
<1>6. Types'
  BY <1>5 DEF Inv, Types, Doorbell, Goto
<1>7. Turns'
  BY <1>3, <1>5, NoneAssumption DEF Inv, Types, Turns, Doorbell, Goto
<1>8. Written' = Written /\ Ahead' = Ahead
  BY <1>4, <1>5 DEF Written, Ahead
<1>9. Threads(mem, m, ch)' /\ Filled(mem, m, ch, hw.idx, Written)'
  BY <1>2, <1>5, <1>8 DEF Chained, Threads, Filled
<1>10. Parts(m, ch)'
  BY <1>2, <1>5, <1>8 DEF Chained, Parts
<1>11. Last(m, ch)'
  <2>1. \A d \in Core : pc'[d] # "bell"
    BY <1>3, NoneAssumption DEF Inv, Types, Turns, Doorbell, Goto
  <2> QED
    BY <2>1 DEF Last
<1>12. hw.idx + ((bell + 2) + 0) = m * Used + Written
  <2>1. hw.idx + (bell + 2) = m * Used + Written /\ (bell + 2) + 0 = bell + 2
    BY <1>2, <1>4, <1>5 DEF Chained
  <2> QED
    BY <2>1
<1>13. Chained(m, ch)'
  BY <1>2, <1>4, <1>5, <1>8, <1>9, <1>10, <1>11, <1>12 DEF Chained
<1> QED
  BY <1>3, <1>6, <1>7, <1>13 DEF Inv

LEMMA LeaveInv == ASSUME Inv, NEW c \in Core, Leave(c) PROVE Inv'
<1>1. PICK m \in Nat : \E ch \in [0 .. m -> Buffer] : Chained(m, ch)
  BY Open DEF Leave
<1>2. PICK ch \in [0 .. m -> Buffer] : Chained(m, ch)
  BY <1>1
<1>3. enabled /\ enabled' /\ tag = c
  BY Open DEF Leave, queue, Inv, Turns
<1>4. Reserved = 0 /\ Unrung = 0 /\ Reserved' = 0 /\ Unrung' = 0
  BY <1>3, Alone, AloneNext DEF Inv, Leave
<1>5. UNCHANGED <<fau, mem, pool, scratch, hw, bell, enabled, lost, doubled>> /\ Nowhere \in Place
  BY Sizes DEF Leave, queue, spoilt, Nowhere, Place
<1>6. Types'
  BY <1>5 DEF Inv, Types, Leave, Goto
<1>7. Turns'
  BY <1>3, <1>5, NoneAssumption DEF Inv, Types, Turns, Leave, Goto
<1>8. \A d \in Core : pc'[d] # "bell"
  BY <1>3, NoneAssumption DEF Inv, Types, Turns, Leave, Goto
<1>9. Chained(m, ch)'
  BY <1>2, <1>4, <1>5, <1>8, SameChain
<1> QED
  BY <1>3, <1>6, <1>7, <1>9 DEF Inv

-----------------------------------------------------------------------------
(* The invariant is kept: the hardware, shutdown and configuration *)

LEMMA OneLess ==
  ASSUME NEW a \in Nat, NEW i \in Nat, i - 1 \in Nat
  PROVE  i * a = (i - 1) * a + a /\ (i - 1) * a \in Nat
<1>1. PICK k \in Nat : i = k + 1 /\ k = i - 1
  OBVIOUS
<1>2. (k + 1) * a = k * a + a /\ k * a \in Nat
  OBVIOUS
<1> QED
  BY <1>1, <1>2

\* where the hardware is after the next command: in the same buffer or at the
\* start of the next
LEMMA NextPlace ==
  ASSUME Types, NEW m \in Nat, NEW ch \in [0 .. m -> Buffer], Chained(m, ch), bell >= 2
  PROVE  /\ hw.idx # Used - 2 => PlaceAt(2) = [buf |-> ch[0], idx |-> hw.idx + 2]
         /\ hw.idx = Used - 2 => m >= 1 /\ PlaceAt(2) = [buf |-> ch[1], idx |-> 0]
<1>0. /\ hw.idx \in Nat /\ Written \in Nat /\ Written <= Used - 2 /\ Used \in Nat /\ Used >= 4
      /\ bell \in Nat /\ Unrung \in Nat
  BY EvenFacts, Sizes DEF Chained, Types, Unrung
<1>1. PlaceAt(2) = PlaceOf(mem, ch[0], hw.idx, 2) /\ Threads(mem, m, ch)
  BY PlaceSame DEF Chained
<1>4. hw.idx \in Nat /\ Threads(mem, m, ch)
  BY <1>0, <1>1
<1>2. ASSUME hw.idx # Used - 2 PROVE PlaceAt(2) = [buf |-> ch[0], idx |-> hw.idx + 2]
  <2>1. hw.idx + 4 <= Used
    BY <1>2, EvenFacts DEF Chained
  <2>2. 0 \in 0 .. m /\ Falls(hw.idx, 2, 0, hw.idx + 2) /\ 2 \in Nat
    BY <1>0, <2>1 DEF Falls
  <2>3. PlaceOf(mem, ch[0], hw.idx, 2) = [buf |-> ch[0], idx |-> hw.idx + 2]
    BY <1>4, <2>2, PlaceIs
  <2> QED
    BY <1>1, <2>3
<1>3. ASSUME hw.idx = Used - 2 PROVE m >= 1 /\ PlaceAt(2) = [buf |-> ch[1], idx |-> 0]
  <2>1. m # 0
    <3>1. hw.idx + (bell + Unrung) = m * Used + Written
      BY DEF Chained
    <3>2. 0 * Used = 0
      BY <1>0
    <3> QED
      BY <1>0, <1>3, <3>1, <3>2
  <2>2. 1 \in 0 .. m /\ Falls(hw.idx, 2, 1, 0) /\ 2 \in Nat
    BY <1>0, <1>3, <2>1 DEF Falls
  <2>4. PlaceOf(mem, ch[0], hw.idx, 2) = [buf |-> ch[1], idx |-> 0]
    BY <1>4, <2>2, PlaceIs
  <2>3. PlaceAt(2) = [buf |-> ch[1], idx |-> 0]
    BY <1>1, <2>4
  <2> QED
    BY <2>1, <2>3
<1> QED
  BY <1>2, <1>3

\* nothing but buffer b may have changed
Elsewhere(M, N, b) == \A x \in Buffer : x # b => N[x] = M[x]

\* the chain without its first buffer
Shorter(m, ch, dh) == dh = [x \in 0 .. m - 1 |-> ch[x + 1]]

LEMMA Shrunk ==
  ASSUME NEW M, NEW N, NEW m, NEW ch, Threads(M, m, ch), m >= 1, NEW h, NEW e,
         Filled(M, m, ch, h, e), Elsewhere(M, N, ch[0]),
         NEW dh, Shorter(m, ch, dh)
  PROVE  /\ Threads(N, m - 1, dh) /\ Filled(N, m - 1, dh, 0, e)
         /\ \A x \in 0 .. m - 1 : dh[x] = ch[x + 1] /\ x + 1 \in 0 .. m
<1>0. m \in Nat /\ m - 1 \in Nat
  BY DEF Threads
<1>1. \A x \in 0 .. m - 1 : dh[x] = ch[x + 1] /\ x + 1 \in 0 .. m /\ x + 1 # 0
  BY <1>0 DEF Shorter
<1>2. \A x \in 0 .. m - 1 : dh[x] \in Buffer /\ dh[x] # ch[0]
  <2>1. 0 \in 0 .. m
    BY <1>0
  <2> QED
    BY <1>1, <2>1 DEF Threads
<1>3. dh \in [0 .. m - 1 -> Buffer]
  BY <1>2 DEF Shorter
<1>4. \A x, y \in 0 .. m - 1 : dh[x] = dh[y] => x = y
  <2>1. \A x, y \in 0 .. m - 1 : x + 1 = y + 1 => x = y
    BY <1>0
  <2> QED
    BY <1>1, <2>1 DEF Threads
<1>5. ASSUME NEW x \in 0 .. (m - 1) - 1 PROVE N[dh[x]][Used] = dh[x + 1]
  <2>1. x \in 0 .. m - 1 /\ x + 1 \in 0 .. m - 1
    BY <1>0
  <2>2. N[dh[x]] = M[ch[x + 1]] /\ dh[x + 1] = ch[(x + 1) + 1]
    BY <1>1, <1>2, <2>1 DEF Elsewhere
  <2> QED
    BY <2>1, <2>2 DEF Threads
<1>6. Threads(N, m - 1, dh)
  BY <1>0, <1>3, <1>4, <1>5 DEF Threads
<1>7. ASSUME NEW x \in 0 .. m - 1, NEW j \in 0 .. Used - 2, Even(j), x = m - 1 => j < e
      PROVE  \E p \in Packet : N[dh[x]][j] = Cmd(p) /\ N[dh[x]][j + 1] = Ptr(p)
  <2>1. x + 1 \in 0 .. m /\ x + 1 # 0 /\ (x + 1 = m => x = m - 1)
    BY <1>0
  <2>2. \E p \in Packet : M[ch[x + 1]][j] = Cmd(p) /\ M[ch[x + 1]][j + 1] = Ptr(p)
    BY <1>7, <2>1 DEF Filled
  <2> QED
    BY <1>1, <1>2, <2>2 DEF Elsewhere
<1>8. Filled(N, m - 1, dh, 0, e)
  BY <1>7 DEF Filled
<1> QED
  BY <1>1, <1>6, <1>8

\* a command is read and the hardware stays in its buffer
LEMMA TransmitStays ==
  ASSUME Inv, Transmit, NEW m \in Nat, NEW ch \in [0 .. m -> Buffer], Chained(m, ch),
         hw.idx # Used - 2
  PROVE  Types' /\ Chained(m, ch)'
<1>0. bell >= 2 /\ bell \in Nat /\ Types /\ mem \in [Buffer -> [0 .. PoolWords - 1 -> Words]]
  BY DEF Transmit, Inv, Types
<1>1. PlaceAt(2) = [buf |-> ch[0], idx |-> hw.idx + 2]
  BY <1>0, NextPlace
<1>2. hw.buf = ch[0] /\ Even(hw.idx) /\ Even(hw.idx + 2) /\ hw.idx \in Nat /\ 0 \in 0 .. m
  BY EvenFacts DEF Chained
<1>3. hw' = [buf |-> ch[0], idx |-> hw.idx + 2] /\ bell' = bell - 2
  BY <1>1, Zenon DEF Transmit
<1>4. {hw.buf} \ {PlaceAt(2).buf} = {}
  BY <1>1, <1>2
<1>5. pool' = pool /\ mem' = mem
  <2>1. pool' = pool \cup {} /\ mem' = [b \in Buffer |-> IF b \in {} THEN Blank ELSE mem[b]]
    BY <1>4 DEF Transmit
  <2> QED
    BY <1>0, <2>1
<1>6. UNCHANGED <<fau, tag, scratch, pc, pkt, old, enabled, lost, doubled>>
  BY DEF Transmit, spoilt
<1>7. hw' \in Place /\ bell' \in Nat
  <2>1. hw.idx + 2 \in 0 .. PoolWords /\ ch[0] \in Buffer
    BY <1>2, EvenFacts, Sizes
  <2> QED
    BY <1>0, <1>3, <2>1 DEF Place
<1>8. Types'
  BY <1>0, <1>5, <1>6, <1>7 DEF Types
<1>9. Reserved' = Reserved /\ Unrung' = Unrung /\ Written' = Written /\ Ahead' = Ahead
  BY <1>6 DEF Reserved, Unrung, Written, Ahead
<1>10. hw'.idx = hw.idx + 2 /\ hw'.buf = ch[0]
  BY <1>3
<1>11. Threads(mem, m, ch)' /\ Filled(mem, m, ch, hw.idx, Written)'
  <2>1. \A j : Even(j) /\ hw.idx + 2 <= j => hw.idx <= j
    BY <1>2, EvenFacts
  <2> QED
    BY <1>5, <1>9, <1>10, <2>1 DEF Chained, Threads, Filled
<1>12. Parts(m, ch)'
  BY <1>5, <1>6, <1>9 DEF Chained, Parts
<1>13. hw'.idx + bell' = hw.idx + bell
  BY <1>0, <1>2, <1>3, <1>10
<1>14. Last(m, ch)'
  BY <1>5, <1>6, <1>13 DEF Chained, Last
<1>15. hw'.idx + (bell' + Unrung) = hw.idx + (bell + Unrung)
  BY <1>0, <1>2, <1>3, <1>10 DEF Unrung
<1>16. Chained(m, ch)'
  BY <1>2, <1>6, <1>9, <1>10, <1>11, <1>12, <1>14, <1>15 DEF Chained
<1> QED
  BY <1>8, <1>16

\* a command is read and was the last of its buffer, which goes to the pool
LEMMA TransmitMoves ==
  ASSUME Inv, Transmit, NEW m \in Nat, NEW ch \in [0 .. m -> Buffer], Chained(m, ch),
         hw.idx = Used - 2, NEW dh, Shorter(m, ch, dh)
  PROVE  Types' /\ m - 1 \in Nat /\ dh \in [0 .. m - 1 -> Buffer] /\ Chained(m - 1, dh)'
<1>0. bell >= 2 /\ bell \in Nat /\ Types /\ mem \in [Buffer -> [0 .. PoolWords - 1 -> Words]]
  BY DEF Transmit, Inv, Types
<1>1. m >= 1 /\ PlaceAt(2) = [buf |-> ch[1], idx |-> 0] /\ m - 1 \in Nat
  BY <1>0, NextPlace
<1>2. hw.buf = ch[0] /\ 0 \in 0 .. m /\ 1 \in 0 .. m /\ ch[1] \in Buffer /\ ch[0] \in Buffer /\ ch[1] # ch[0]
  BY <1>1 DEF Chained, Threads
<1>3. hw' = [buf |-> ch[1], idx |-> 0] /\ bell' = bell - 2
  BY <1>1, Zenon DEF Transmit
<1>4. {hw.buf} \ {PlaceAt(2).buf} = {ch[0]}
  BY <1>1, <1>2
<1>5. pool' = pool \cup {ch[0]} /\ mem' = [b \in Buffer |-> IF b \in {ch[0]} THEN Blank ELSE mem[b]]
  BY <1>4 DEF Transmit
<1>6. UNCHANGED <<fau, tag, scratch, pc, pkt, old, enabled, lost, doubled>>
  BY DEF Transmit, spoilt
<1>7. hw' \in Place /\ bell' \in Nat
  BY <1>0, <1>2, <1>3, Sizes DEF Place
<1>8. mem' \in [Buffer -> [0 .. PoolWords - 1 -> Words]] /\ \A x \in Buffer : x # ch[0] => mem'[x] = mem[x]
  <2>1. Blank \in [0 .. PoolWords - 1 -> Words]
    BY DEF Blank, Words
  <2> QED
    BY <1>0, <1>5, <2>1
<1>9. Types'
  BY <1>0, <1>2, <1>5, <1>6, <1>7, <1>8 DEF Types
<1>10. Reserved' = Reserved /\ Unrung' = Unrung /\ Written' = Written /\ Ahead' = Ahead
  BY <1>6 DEF Reserved, Unrung, Written, Ahead
<1>11. /\ Threads(mem', m - 1, dh) /\ Filled(mem', m - 1, dh, 0, Written)
       /\ \A x \in 0 .. m - 1 : dh[x] = ch[x + 1] /\ x + 1 \in 0 .. m
  <2>1. Threads(mem, m, ch) /\ Filled(mem, m, ch, hw.idx, Written) /\ Elsewhere(mem, mem', ch[0])
    BY <1>8 DEF Chained, Elsewhere
  <2>2. m >= 1
    BY <1>1
  <2> QED
    BY <2>1, <2>2, Shrunk
<1>12. hw'.idx = 0 /\ hw'.buf = ch[1]
  BY <1>3
<1>13. Threads(mem, m - 1, dh)' /\ Filled(mem, m - 1, dh, hw.idx, Written)'
  <2>1. Threads(mem, m - 1, dh)'
    BY <1>11, Zenon DEF Threads
  <2>2. Filled(mem', m - 1, dh, hw'.idx, Written')
    BY <1>10, <1>11, <1>12
  <2>3. Filled(mem, m - 1, dh, hw.idx, Written)'
    BY <2>2, Zenon DEF Filled
  <2> QED
    BY <2>1, <2>3
<1>14. Parts(m - 1, dh)'
  <2>1. {ch[x] : x \in 0 .. m} = {ch[0]} \cup {dh[x] : x \in 0 .. m - 1}
    <3>1. \A x \in 0 .. m : x = 0 \/ (x - 1 \in 0 .. m - 1 /\ (x - 1) + 1 = x)
      BY <1>1
    <3>2. ASSUME NEW x \in 0 .. m PROVE ch[x] \in {ch[0]} \cup {dh[y] : y \in 0 .. m - 1}
      <4>1. CASE x = 0
        BY <4>1
      <4>2. CASE x # 0
        <5>1. x - 1 \in 0 .. m - 1 /\ dh[x - 1] = ch[x]
          BY <1>11, <3>1, <4>2
        <5> QED
          BY <5>1
      <4> QED
        BY <4>1, <4>2
    <3>3. \A y \in 0 .. m - 1 : dh[y] \in {ch[x] : x \in 0 .. m}
      BY <1>11
    <3>4. ch[0] \in {ch[x] : x \in 0 .. m}
      BY <1>2
    <3> QED
      BY <3>2, <3>3, <3>4
  <2>2. Parts(m, ch)
    BY DEF Chained
  <2>3. \A x \in 0 .. m - 1 : dh[x] # ch[0]
    BY <1>2, <1>11 DEF Chained, Threads
  <2> QED
    BY <1>2, <1>5, <1>6, <1>10, <1>11, <2>1, <2>2, <2>3 DEF Parts
<1>15. Last(m - 1, dh)'
  <2>1. SUFFICES ASSUME NEW c \in Core, pc[c] = "bell"
                 PROVE  \E i \in 0 .. m - 1 :
                          /\ dh[i] = old[c].buf /\ Even(old[c].idx)
                          /\ hw'.idx + bell' = i * Used + old[c].idx
                          /\ mem'[old[c].buf][old[c].idx] = Cmd(pkt[c])
    BY <1>6 DEF Last
  <2>2. PICK i \in 0 .. m : /\ ch[i] = old[c].buf /\ Even(old[c].idx)
                            /\ hw.idx + bell = i * Used + old[c].idx
                            /\ mem[old[c].buf][old[c].idx] = Cmd(pkt[c])
    BY <2>1 DEF Chained, Last
  <2>3. old[c].idx \in Nat /\ old[c].idx <= Used - 2 /\ Used \in Nat /\ Used >= 4
    BY <2>2, EvenFacts, Sizes
  <2>4. i # 0
    <3>1. 0 * Used = 0
      BY <2>3
    <3> QED
      BY <1>0, <2>2, <2>3, <3>1
  <2>5. i - 1 \in 0 .. m - 1 /\ (i - 1) + 1 = i
    BY <2>4
  <2>6. i * Used = (i - 1) * Used + Used /\ (i - 1) * Used \in Nat
    BY <2>3, <2>5, OneLess
  <2>7. hw'.idx + bell' = (i - 1) * Used + old[c].idx
    BY <1>0, <1>3, <1>12, <2>2, <2>3, <2>6
  <2>8. dh[i - 1] = old[c].buf
    BY <1>11, <2>2, <2>5
  <2>9. mem'[old[c].buf] = mem[old[c].buf]
    BY <1>2, <1>8, <2>2, <2>4 DEF Chained, Threads
  <2> QED
    BY <2>2, <2>5, <2>7, <2>8, <2>9
<1>16. hw'.idx + (bell' + Unrung) = (m - 1) * Used + Written
  <2>1. hw.idx + (bell + Unrung) = m * Used + Written /\ Written \in Nat /\ Unrung \in Nat
    BY EvenFacts DEF Chained, Unrung
  <2>2. m * Used = (m - 1) * Used + Used /\ (m - 1) * Used \in Nat /\ Used \in Nat /\ Used >= 4
    BY <1>1, Sizes, OneLess
  <2> QED
    BY <1>0, <1>3, <1>12, <2>1, <2>2
<1>17. dh[0] = hw'.buf /\ dh[m - 1] = fau'.buf
  <2>1. 0 \in 0 .. m - 1 /\ m - 1 \in 0 .. m - 1 /\ 0 + 1 = 1 /\ (m - 1) + 1 = m
    BY <1>1
  <2> QED
    BY <1>6, <1>11, <1>12, <2>1 DEF Chained
<1>18. Chained(m - 1, dh)'
  BY <1>10, <1>12, <1>13, <1>14, <1>15, <1>16, <1>17, EvenFacts DEF Chained
<1>19. dh \in [0 .. m - 1 -> Buffer]
  BY <1>11 DEF Threads
<1> QED
  BY <1>1, <1>9, <1>18, <1>19

LEMMA TransmitInv == ASSUME Inv, Transmit PROVE Inv'
<1>0. enabled /\ enabled' /\ UNCHANGED <<fau, tag, scratch, pc, pkt, old>>
  BY DEF Transmit
<1>1. PICK m \in Nat : \E ch \in [0 .. m -> Buffer] : Chained(m, ch)
  BY <1>0 DEF Inv
<1>2. PICK ch \in [0 .. m -> Buffer] : Chained(m, ch)
  BY <1>1
<1>3. PICK dh : Shorter(m, ch, dh)
  BY DEF Shorter
<1>4. Turns'
  BY <1>0 DEF Inv, Turns
<1>5. CASE hw.idx # Used - 2
  BY <1>0, <1>2, <1>4, <1>5, TransmitStays DEF Inv
<1>6. CASE hw.idx = Used - 2
  BY <1>0, <1>2, <1>3, <1>4, <1>6, TransmitMoves DEF Inv
<1> QED
  BY <1>5, <1>6

-----------------------------------------------------------------------------
(* What the invariant says of the queue *)

\* no more words than the buffers hold
LEMMA BellBound ==
  ASSUME Inv PROVE bell \in 0 .. 2 * PoolWords * Cardinality(Buffer)
<1>0. Cardinality(Buffer) \in Nat /\ IsFiniteSet(Buffer) /\ PoolWords \in Nat /\ bell \in Nat
  BY FS_CardinalityType, BufferAssumption, Sizes DEF Inv, Types
<1>1. PICK k \in Nat : k = Cardinality(Buffer)
  BY <1>0
<1>2. CASE ~enabled
  <2>1. bell = 0
    BY <1>2 DEF Inv, Closed
  <2>2. 2 * PoolWords * k \in Nat
    BY <1>0
  <2> QED
    BY <1>1, <2>1, <2>2
<1>3. CASE enabled
  <2>1. PICK m \in Nat : \E ch \in [0 .. m -> Buffer] : Chained(m, ch)
    BY <1>3 DEF Inv
  <2>2. PICK ch \in [0 .. m -> Buffer] : Chained(m, ch)
    BY <2>1
  <2>3. m + 1 <= k
    <3>1. ch \in Injection(0 .. m, Buffer)
      BY <2>2 DEF Chained, Threads, Injection, IsInjective
    <3>2. Cardinality(0 .. m) = m + 1
      BY FS_Interval
    <3>3. Cardinality(0 .. m) <= Cardinality(Buffer)
      BY <1>0, <3>1, FS_Injection
    <3> QED
      BY <1>1, <3>2, <3>3
  <2>4. hw.idx \in Nat /\ Written \in Nat /\ Written <= Used - 2 /\ Unrung \in Nat /\ Used \in Nat
    BY <2>2, EvenFacts, Sizes DEF Chained, Unrung
  <2>5. hw.idx + (bell + Unrung) = m * Used + Written
    BY <2>2 DEF Chained
  <2>6. bell <= m * Used + Used /\ m * Used \in Nat
    BY <1>0, <2>4, <2>5
  <2>7. PICK d \in Nat : k = m + 1 + d
    <3>1. k - m - 1 \in Nat /\ k = m + 1 + (k - m - 1)
      BY <2>3
    <3> QED
      BY <3>1
  <2>8. k * Used = m * Used + Used + d * Used /\ d * Used \in Nat
    BY <2>4, <2>7
  <2>9. 2 * PoolWords * k = k * Used + k * Used + 4 * k /\ k * Used \in Nat
    <3>1. PoolWords = Used + 2
      BY Sizes
    <3> QED
      BY <2>4, <3>1
  <2>10. PICK t \in Nat : t = k * Used
    BY <2>9
  <2>11. bell <= t
    <3>1. PICK u \in Nat, v \in Nat : u = m * Used /\ v = d * Used
      BY <2>6, <2>8
    <3>2. bell <= u + Used /\ t = u + Used + v
      BY <2>6, <2>8, <2>10, <3>1
    <3> QED
      BY <1>0, <2>4, <3>1, <3>2
  <2>12. PICK w \in Nat : w = 2 * PoolWords * k
    BY <1>0
  <2>13. w = t + t + 4 * k
    BY <2>9, <2>10, <2>12
  <2>14. bell <= w
    BY <1>0, <2>11, <2>13
  <2>15. w = 2 * PoolWords * Cardinality(Buffer)
    BY <1>1, <2>12
  <2> QED
    BY <1>0, <2>14, <2>15
<1> QED
  BY <1>2, <1>3

\* the n-th command is in the chain, both its words in one buffer
LEMMA CommandPlace ==
  ASSUME Types, NEW m \in Nat, NEW ch \in [0 .. m -> Buffer], Chained(m, ch),
         NEW n \in Nat, 2 * n + 2 <= bell + Unrung
  PROVE  \E i \in 0 .. m : \E j \in 0 .. Used - 2 :
           /\ Even(j) /\ Falls(hw.idx, 2 * n, i, j) /\ Falls(hw.idx, 2 * n + 1, i, j + 1)
           /\ i = 0 => hw.idx <= j
           /\ i = m => j < Written
<1>0. /\ hw.idx \in Nat /\ hw.idx <= Used - 2 /\ Written \in Nat /\ Written <= Used - 2 /\ Used \in Nat /\ Used >= 4
      /\ Unrung \in Nat /\ bell \in Nat
  BY EvenFacts, Sizes DEF Chained, Unrung, Types
<1>1. PICK x \in Nat : x = hw.idx + 2 * n
  BY <1>0
<1>2. PICK i \in Nat, j \in 0 .. Used - 1 : x = i * Used + j
  <2>1. Used \in Nat \ {0}
    BY <1>0
  <2> QED
    BY <2>1, DivMod
<1>3. j % 2 = 0
  <2>1. PICK h \in Nat : Used = 2 * h
    BY Sizes
  <2>2. hw.idx % 2 = 0
    BY DEF Chained, Even
  <2>3. PICK a \in Int : hw.idx = 2 * a
    BY <1>0, <2>2, Parity
  <2>4. PICK k \in Int : k = a + n - i * h
    OBVIOUS
  <2>5. i * Used = 2 * (i * h)
    BY <2>1
  <2>6. j = 2 * k
    BY <1>1, <1>2, <2>3, <2>4, <2>5
  <2> QED
    BY <2>6, Parity
<1>4. j \in 0 .. Used - 2 /\ Even(j)
  <2>1. j # Used - 1
    <3>1. PICK h \in Nat : Used = 2 * h
      BY Sizes
    <3>2. PICK k \in Int : j = 2 * k
      BY <1>3, Parity
    <3> QED
      BY <3>1, <3>2
  <2>2. j \in 0 .. Used - 2
    BY <1>0, <2>1
  <2> QED
    BY <1>3, <2>2 DEF Even
<1>5. i < m \/ (i = m /\ j <= Written)
  <2>1. hw.idx + (bell + Unrung) = m * Used + Written /\ m * Used \in Nat
    BY <1>0 DEF Chained
  <2>2. i * Used + j <= m * Used + Written
    BY <1>0, <1>1, <1>2, <2>1
  <2>3. j \in 0 .. Used - 1 /\ Written \in 0 .. Used - 1
    BY <1>0
  <2> QED
    BY <1>0, <2>2, <2>3, Above
<1>6. i = m => j < Written
  <2>1. hw.idx + (bell + Unrung) = m * Used + Written /\ m * Used \in Nat
    BY <1>0 DEF Chained
  <2> QED
    BY <1>0, <1>1, <1>2, <2>1
<1>7. i = 0 => hw.idx <= j
  <2>1. 0 * Used = 0
    BY <1>0
  <2> QED
    BY <1>0, <1>1, <1>2, <2>1
<1>8. i \in 0 .. m
  BY <1>5
<1>9. Falls(hw.idx, 2 * n, i, j) /\ Falls(hw.idx, 2 * n + 1, i, j + 1)
  <2>1. i * Used \in Nat
    BY <1>0
  <2> QED
    BY <1>0, <1>1, <1>2, <1>4, <2>1 DEF Falls
<1> QED
  BY <1>4, <1>6, <1>7, <1>8, <1>9

LEMMA PlaceFalls ==
  ASSUME Types, NEW m \in Nat, NEW ch \in [0 .. m -> Buffer], Chained(m, ch),
         NEW n \in Nat, NEW i \in 0 .. m, NEW j, Falls(hw.idx, n, i, j)
  PROVE  PlaceAt(n) = [buf |-> ch[i], idx |-> j]
<1>1. hw.idx \in Nat /\ Threads(mem, m, ch) /\ hw.buf = ch[0]
  BY EvenFacts DEF Chained
<1>2. PlaceOf(mem, ch[0], hw.idx, n) = [buf |-> ch[i], idx |-> j]
  BY <1>1, PlaceIs
<1> QED
  BY <1>1, <1>2, PlaceSame

LEMMA WholeCommands == ASSUME Inv, enabled PROVE CommandsWhole
<1>1. PICK m \in Nat : \E ch \in [0 .. m -> Buffer] : Chained(m, ch)
  BY DEF Inv
<1>2. PICK ch \in [0 .. m -> Buffer] : Chained(m, ch)
  BY <1>1
<1>3. SUFFICES ASSUME NEW n \in 0 .. (bell \div 2) - 1
               PROVE  \E p \in Packet : WordAt(2 * n) = Cmd(p) /\ WordAt(2 * n + 1) = Ptr(p)
  BY DEF CommandsWhole
<1>4. n \in Nat /\ 2 * n + 2 <= bell + Unrung /\ Types
  <2>1. bell \in Nat /\ Unrung \in Nat
    BY DEF Inv, Types, Unrung
  <2>2. bell \div 2 \in Nat /\ 2 * (bell \div 2) <= bell
    BY <2>1
  <2> QED
    BY <2>1, <2>2 DEF Inv
<1>5. PICK i \in 0 .. m, j \in 0 .. Used - 2 :
        /\ Even(j) /\ Falls(hw.idx, 2 * n, i, j) /\ Falls(hw.idx, 2 * n + 1, i, j + 1)
        /\ i = 0 => hw.idx <= j
        /\ i = m => j < Written
  BY <1>2, <1>4, CommandPlace
<1>6. PICK p \in Packet : mem[ch[i]][j] = Cmd(p) /\ mem[ch[i]][j + 1] = Ptr(p)
  BY <1>2, <1>5 DEF Chained, Filled
<1>7. 2 * n \in Nat /\ 2 * n + 1 \in Nat
  BY <1>4
<1>8. PlaceAt(2 * n) = [buf |-> ch[i], idx |-> j]
  BY <1>2, <1>4, <1>5, <1>7, PlaceFalls
<1>9. PlaceAt(2 * n + 1) = [buf |-> ch[i], idx |-> j + 1]
  BY <1>2, <1>4, <1>5, <1>7, PlaceFalls
<1> QED
  BY <1>6, <1>8, <1>9 DEF WordAt

LEMMA AgreedEnd == ASSUME Inv PROVE EndsAgree
<1> SUFFICES ASSUME enabled, tag = None PROVE PlaceAt(bell) = fau
  BY DEF EndsAgree
<1>1. PICK m \in Nat : \E ch \in [0 .. m -> Buffer] : Chained(m, ch)
  BY DEF Inv
<1>2. PICK ch \in [0 .. m -> Buffer] : Chained(m, ch)
  BY <1>1
<1>3. Reserved = 0 /\ Unrung = 0
  BY NoneAssumption DEF Inv, Types, Turns, Reserved, Unrung
<1>4. fau \in Place /\ fau.idx \in Nat /\ bell \in Nat /\ Types
  BY Sizes DEF Inv, Types, Place
<1>5. Written = fau.idx
  BY <1>3, <1>4 DEF Written
<1>6. Falls(hw.idx, bell, m, fau.idx) /\ m \in 0 .. m
  <2>1. hw.idx + (bell + 0) = m * Used + fau.idx /\ hw.idx \in Nat /\ fau.idx <= Used - 2
    BY <1>2, <1>3, <1>5, EvenFacts DEF Chained
  <2> QED
    BY <1>4, <2>1, Sizes DEF Falls
<1>7. PlaceAt(bell) = [buf |-> ch[m], idx |-> fau.idx]
  BY <1>2, <1>4, <1>6, PlaceFalls
<1>8. ch[m] = fau.buf
  BY <1>2 DEF Chained
<1> QED
  BY <1>4, <1>7, <1>8 DEF Place

\* the buffers from the hardware to the register are those of the chain
LEMMA ChainIs ==
  ASSUME Types, NEW m \in Nat, NEW ch \in [0 .. m -> Buffer], Chained(m, ch), enabled
  PROVE  Chain \cup ({fau.buf} \ {None}) = {ch[i] : i \in 0 .. m}
<1>0. /\ hw.idx \in Nat /\ hw.idx <= Used - 2 /\ Written \in Nat /\ Written <= Used - 2 /\ Used \in Nat /\ Used >= 4
      /\ Unrung \in {0, 2} /\ bell \in Nat /\ m * Used \in Nat
      /\ hw.idx + (bell + Unrung) = m * Used + Written
  BY EvenFacts, Sizes DEF Chained, Unrung, Types
<1>1. Chain = {PlaceAt(n).buf : n \in 0 .. bell}
  BY DEF Chain
<1>2. ASSUME NEW n \in 0 .. bell PROVE PlaceAt(n).buf \in {ch[i] : i \in 0 .. m}
  <2>1. PICK x \in Nat : x = hw.idx + n
    BY <1>0
  <2>2. PICK i \in Nat, j \in 0 .. Used - 1 : x = i * Used + j
    <3>1. Used \in Nat \ {0}
      BY <1>0
    <3> QED
      BY <3>1, DivMod
  <2>3. i * Used + j <= m * Used + Written /\ Written \in 0 .. Used - 1
    BY <1>0, <2>1, <2>2
  <2>4. i \in 0 .. m
    BY <1>0, <2>3, Above
  <2>5. Falls(hw.idx, n, i, j) /\ n \in Nat
    BY <1>0, <2>1, <2>2 DEF Falls
  <2>6. PlaceAt(n) = [buf |-> ch[i], idx |-> j]
    BY <2>4, <2>5, PlaceFalls
  <2> QED
    BY <2>4, <2>6
<1>3. ASSUME NEW i \in 0 .. m, i # m PROVE ch[i] \in {PlaceAt(n).buf : n \in 0 .. bell}
  <2>0. i \in Nat /\ i < m
    BY <1>3
  <2>1. CASE i = 0
    <3>1. Falls(hw.idx, 0, 0, hw.idx) /\ 0 \in Nat /\ 0 \in 0 .. m /\ 0 \in 0 .. bell
      BY <1>0 DEF Falls
    <3>2. PlaceAt(0) = [buf |-> ch[0], idx |-> hw.idx]
      BY <3>1, PlaceFalls
    <3>3. PlaceAt(0).buf = ch[i]
      BY <2>1, <3>2
    <3> QED
      BY <3>1, <3>3
  <2>2. CASE i # 0
    <3>1. i - 1 \in Nat
      BY <2>0, <2>2
    <3>2. i * Used = (i - 1) * Used + Used /\ (i - 1) * Used \in Nat
      BY <1>0, <2>0, <3>1, OneLess
    <3>3. i * Used + Used <= m * Used
      <4>1. 0 \in 0 .. Used - 1
        BY <1>0
      <4> QED
        BY <1>0, <2>0, <4>1, Above
    <3>4. PICK n \in Int : n = i * Used - hw.idx
      BY <1>0, <3>2
    <3>5. n \in 0 .. bell /\ n \in Nat
      BY <1>0, <3>2, <3>3, <3>4, SMTT(30)
    <3>6. Falls(hw.idx, n, i, 0)
      BY <1>0, <3>2, <3>4 DEF Falls
    <3>7. PlaceAt(n) = [buf |-> ch[i], idx |-> 0]
      BY <3>5, <3>6, PlaceFalls
    <3>8. PlaceAt(n).buf = ch[i]
      BY <3>7
    <3> QED
      BY <3>5, <3>8
  <2> QED
    BY <2>1, <2>2
<1>4. ch[m] = fau.buf /\ m \in 0 .. m /\ fau.buf # None
  BY NoneAssumption DEF Chained
<1> QED
  BY <1>1, <1>2, <1>3, <1>4

-----------------------------------------------------------------------------
(* Shutdown and configuration *)

LEMMA ShutdownInv == ASSUME Inv, Shutdown PROVE Inv'
<1>0. /\ Types /\ \A c \in Core : pc[c] = "idle"
      /\ UNCHANGED <<fau, tag, scratch, pc, pkt, old>>
  BY DEF Shutdown, Inv
<1>1. /\ pool' = pool \cup {fau.buf} /\ lost' = lost \cup (Chain \ {fau.buf})
      /\ hw' = Nowhere /\ bell' = 0
      /\ mem' = [b \in Buffer |-> IF b \in Chain \cup {fau.buf} THEN Blank ELSE mem[b]]
  BY DEF Shutdown
<1>2. enabled' \in BOOLEAN /\ ~enabled' /\ doubled' \in BOOLEAN
  BY Zenon DEF Shutdown
<1>3. Ahead' = Ahead
  BY <1>0 DEF Ahead
<1>4. /\ fau.buf \in Buffer /\ Chain \subseteq Buffer
      /\ pool' \cup Ahead \cup lost' = Buffer /\ pool' \cap Ahead = {}
      /\ lost' \cap (pool' \cup Ahead) = {}
  <2>1. CASE enabled
    <3>1. PICK m \in Nat : \E ch \in [0 .. m -> Buffer] : Chained(m, ch)
      BY <2>1 DEF Inv
    <3>2. PICK ch \in [0 .. m -> Buffer] : Chained(m, ch)
      BY <3>1
    <3>3. Chain \cup ({fau.buf} \ {None}) = {ch[i] : i \in 0 .. m}
      BY <1>0, <2>1, <3>2, ChainIs
    <3>4. fau.buf = ch[m] /\ m \in 0 .. m /\ fau.buf # None
      BY <3>2, NoneAssumption DEF Chained
    <3>5. PICK L : L = {ch[i] : i \in 0 .. m}
      OBVIOUS
    <3>6. /\ pool \cup Ahead \cup L \cup lost = Buffer /\ pool \cap Ahead = {}
          /\ lost \cap (pool \cup Ahead) = {}
          /\ L \cap pool = {} /\ L \cap Ahead = {} /\ L \cap lost = {}
      BY <3>2, <3>5 DEF Chained, Parts
    <3>7. Chain \cup {fau.buf} = L
      BY <3>3, <3>4, <3>5
    <3> QED
      BY <1>1, <3>6, <3>7
  <2>2. CASE ~enabled
    <3>1. Chain = {}
      BY <2>2 DEF Chain
    <3> QED
      BY <1>0, <1>1, <2>2, <3>1 DEF Inv, Closed, Types
  <2> QED
    BY <2>1, <2>2
<1>5. Types'
  <2>1. Blank \in [0 .. PoolWords - 1 -> Words] /\ Nowhere \in Place
    BY Sizes DEF Blank, Words, Nowhere, Place
  <2>2. mem' \in [Buffer -> [0 .. PoolWords - 1 -> Words]]
    BY <1>0, <1>1, <2>1 DEF Types
  <2>3. hw' \in Place /\ bell' \in Nat /\ pool' \in SUBSET Buffer /\ lost' \in SUBSET Buffer
    BY <1>0, <1>1, <1>4, <2>1 DEF Types
  <2> QED
    BY <1>0, <1>2, <2>2, <2>3 DEF Types
<1>6. Turns'
  BY <1>0 DEF Inv, Turns
<1>7. Closed'
  BY <1>0, <1>1, <1>3, <1>4 DEF Closed
<1> QED
  BY <1>2, <1>5, <1>6, <1>7 DEF Inv

LEMMA ConfigureInv == ASSUME Inv, Configure PROVE Inv'
<1>0. ~enabled /\ Closed /\ Types
  BY DEF Configure, Inv
<1>1. PICK b \in pool : /\ pool' = pool \ {b}
                        /\ fau' = [buf |-> b, idx |-> 0]
                        /\ hw' = [buf |-> b, idx |-> 0]
  BY DEF Configure
<1>2. b \in Buffer /\ b \notin Ahead
  BY <1>0 DEF Types, Closed
<1>3. enabled' \in BOOLEAN /\ enabled' /\ UNCHANGED <<tag, mem, scratch, pc, pkt, old, bell, lost, doubled>>
  BY Zenon DEF Configure, spoilt
<1>4. Types'
  <2>1. fau' \in Place /\ hw' \in Place /\ pool' \in SUBSET Buffer
    BY <1>0, <1>1, <1>2, Sizes DEF Types, Place
  <2> QED
    BY <1>0, <1>3, <2>1 DEF Types
<1>5. Turns'
  BY <1>0, <1>3 DEF Inv, Turns, Closed
<1>6. PICK ch : ch = [i \in 0 .. 0 |-> b]
  OBVIOUS
<1>7. Threads(mem', 0, ch) /\ Filled(mem', 0, ch, 0, 0) /\ ch[0] = b
  BY <1>2, <1>6, OneBuffer
<1>8. Reserved' = 0 /\ Unrung' = 0 /\ Written' = 0 /\ Ahead' = Ahead
  BY <1>0, <1>1, <1>3 DEF Closed, Reserved, Unrung, Written, Ahead
<1>9. Parts(0, ch)'
  <2>1. 0 .. 0 = {0} /\ {ch[i] : i \in 0 .. 0} = {b}
    BY <1>7
  <2> QED
    BY <1>0, <1>1, <1>2, <1>3, <1>7, <1>8, <2>1 DEF Parts, Closed
<1>10. Last(0, ch)'
  BY <1>0, <1>3 DEF Last, Closed
<1>11. Chained(0, ch)'
  <2>1. hw'.idx = 0 /\ hw'.buf = b /\ fau'.buf = b /\ bell' = 0
    BY <1>0, <1>1, <1>3 DEF Closed
  <2>2. hw'.idx + (bell' + Unrung') = 0 * Used + Written'
    BY <1>8, <2>1, Sizes
  <2>3. Threads(mem, 0, ch)' /\ Filled(mem, 0, ch, hw.idx, Written)'
    BY <1>7, <1>8, <2>1 DEF Threads, Filled
  <2> QED
    BY <1>7, <1>8, <1>9, <1>10, <2>1, <2>2, <2>3, EvenFacts DEF Chained
<1>12. ch \in [0 .. 0 -> Buffer] /\ 0 \in Nat
  BY <1>2, <1>6
<1> QED
  BY <1>3, <1>4, <1>5, <1>11, <1>12 DEF Inv

LEMMA StutterInv == ASSUME Inv, UNCHANGED vars PROVE Inv'
<1>1. Types' /\ Turns'
  BY DEF vars, Inv, Types, Turns
<1>2. Reserved' = Reserved /\ Unrung' = Unrung /\ Ahead' = Ahead
  BY DEF vars, Reserved, Unrung, Ahead
<1>3. ASSUME enabled PROVE \E m \in Nat : \E ch \in [0 .. m -> Buffer] : Chained(m, ch)'
  <2>1. PICK m \in Nat : \E ch \in [0 .. m -> Buffer] : Chained(m, ch)
    BY <1>3 DEF Inv
  <2>2. PICK ch \in [0 .. m -> Buffer] : Chained(m, ch)
    BY <2>1
  <2> QED
    BY <1>2, <2>2, SameChain DEF vars
<1>4. ~enabled => Closed'
  BY <1>2 DEF vars, Inv, Closed
<1>5. enabled' <=> enabled
  BY Zenon DEF vars
<1> QED
  BY <1>1, <1>3, <1>4, <1>5 DEF Inv

LEMMA NextInv == ASSUME Inv, [Next]_vars PROVE Inv'
<1>1. ASSUME NEW c \in Core, Send(c) PROVE Inv'
  BY <1>1, ReserveInv, WriteCommandInv, NoBufferInv, NewBufferInv, DoorbellInv, LeaveInv
  DEF Send
<1> QED
  BY <1>1, PrepareInv, TransmitInv, ShutdownInv, ConfigureInv, StutterInv DEF Next

LEMMA Invariance == Spec => []Inv
<1>1. Init => Inv
  BY InitInv
<1>2. Inv /\ [Next]_vars => Inv'
  BY NextInv
<1> QED
  BY <1>1, <1>2, PTL DEF Spec

-----------------------------------------------------------------------------
LEMMA Conserved == ASSUME Inv PROVE BuffersConserved
<1>1. \A c, d \in Core : scratch[c] # None /\ scratch[c] = scratch[d] => c = d
  BY DEF Inv, Turns
<1>2. CASE enabled
  <2>1. PICK m \in Nat : \E ch \in [0 .. m -> Buffer] : Chained(m, ch)
    BY <1>2 DEF Inv
  <2>2. PICK ch \in [0 .. m -> Buffer] : Chained(m, ch)
    BY <2>1
  <2>3. Chain \cup {fau.buf} = {ch[i] : i \in 0 .. m}
    <3>1. fau.buf # None
      BY <2>2, NoneAssumption DEF Chained
    <3> QED
      BY <1>2, <2>2, <3>1, ChainIs DEF Inv
  <2>4. PICK L : L = {ch[i] : i \in 0 .. m}
    OBVIOUS
  <2>5. /\ pool \cup Ahead \cup L \cup lost = Buffer /\ pool \cap Ahead = {}
        /\ pool \cap L = {} /\ Ahead \cap L = {} /\ lost \cap (pool \cup Ahead \cup L) = {}
    BY <2>2, <2>4 DEF Chained, Parts
  <2> QED
    BY <1>1, <1>2, <2>3, <2>4, <2>5 DEF BuffersConserved, Ahead
<1>3. CASE ~enabled
  <2>2. pool \cup Ahead \cup lost = Buffer /\ pool \cap Ahead = {} /\ lost \cap (pool \cup Ahead) = {}
    BY <1>3 DEF Inv, Closed
  <2> QED
    BY <1>1, <1>3, <2>2 DEF BuffersConserved, Ahead
<1> QED
  BY <1>2, <1>3

LEMMA ThreeLeft == ASSUME Inv PROVE EndsWithThree
<1> SUFFICES ASSUME NEW c \in Core, pc[c] = "finish", ~Room(old[c].idx)
             PROVE  old[c].idx + 3 = HwSize
  BY DEF EndsWithThree
<1>1. PICK m \in Nat : \E ch \in [0 .. m -> Buffer] : Chained(m, ch)
  BY Open
<1>2. Even(Written)
  BY <1>1 DEF Chained
<1>3. Reserved = 2 /\ old[c].idx = fau.idx - 2
  BY Alone DEF Inv, Turns
<1>4. old[c].idx = Written
  BY <1>3 DEF Written
<1> QED
  BY <1>2, <1>4, EvenFacts, Sizes DEF Room, CVMX_PKO_COMMAND_BUFFER_SIZE_ADJUST, HwSize

LEMMA Sound == ASSUME Inv PROVE QueueSound
<1>1. TypeOK
  BY BellBound DEF Inv, Types, TypeOK
<1>2. CommandsWhole
  <2>1. CASE ~enabled
    <3>1. bell = 0 /\ 0 .. (0 \div 2) - 1 = {}
      BY <2>1 DEF Inv, Closed
    <3> QED
      BY <3>1 DEF CommandsWhole
  <2> QED
    BY <2>1, WholeCommands
<1> QED
  BY <1>1, <1>2, AgreedEnd, Conserved, ThreeLeft DEF QueueSound

\* The queue is in order between any two steps of the cores and the hardware:
\* every word the doorbell announced is there, whole commands in pairs; software
\* and hardware agree on the end while nobody sends; and each buffer is in the
\* pool, ahead in one core's scratch memory, in the chain or among those that a
\* shutdown cut off with commands in them, through full pools, refused sends and
\* shutdowns, until one is repeated.  This holds for any number of cores and
\* packets and for buffers of any even size.
THEOREM QueueAlwaysSound == Spec => []QueueSound
<1>1. Inv => QueueSound
  BY Sound
<1> QED
  BY <1>1, Invariance, PTL

-----------------------------------------------------------------------------
(* The queue is first in, first out *)

LEMMA Half ==
  ASSUME NEW b \in Nat
  PROVE  /\ b \div 2 \in Nat /\ 2 * (b \div 2) <= b
         /\ (b + 2) \div 2 = (b \div 2) + 1
         /\ b >= 2 => (b - 2) \div 2 = (b \div 2) - 1 /\ b \div 2 >= 1
  OBVIOUS

LEMMA PacketOfCommand == ASSUME NEW p \in Packet PROVE PacketOf(Cmd(p)) = p
  BY DEF PacketOf, Cmd

\* nothing the queue is read from has changed
LEMMA SameQueued == ASSUME UNCHANGED <<mem, hw, bell>> PROVE Queued' = Queued
<1>1. \A n : PlaceAt(n)' = PlaceAt(n)
  BY PlaceSame
<1>2. \A n : WordAt(n)' = WordAt(n)
  BY <1>1 DEF WordAt
<1> QED
  BY <1>2 DEF Queued

\* the words of a command that is being written, which belong to no command
\* of the queue
Fresh(c, m, ch) ==
  /\ Threads(mem', m, ch)
  /\ ch[m] = old[c].buf /\ Even(old[c].idx) /\ Written = old[c].idx
  /\ Appends(mem, mem', ch[m], old[c].idx, pkt[c])
  /\ UNCHANGED <<hw, bell>>

MayStore(M, N, b, i, v, w, n) ==
  /\ M \in [Buffer -> [0 .. PoolWords - 1 -> Words]] /\ b \in Buffer
  /\ i \in 0 .. PoolWords - 1 /\ i + 1 \in 0 .. PoolWords - 1 /\ i + 2 \in 0 .. PoolWords - 1
  /\ v \in Words /\ w \in Words /\ n \in Words
  /\ StoresThree(M, N, b, i, v, w, n)

Stored(M, N, b, i, v, w, n) ==
  /\ N \in [Buffer -> [0 .. PoolWords - 1 -> Words]]
  /\ \A x \in Buffer : x # b => N[x] = M[x]
  /\ \A k \in 0 .. PoolWords - 1 : k # i /\ k # i + 1 /\ k # i + 2 => N[b][k] = M[b][k]
  /\ N[b][i] = v /\ N[b][i + 1] = w /\ N[b][i + 2] = n

LEMMA ThreeStored ==
  \A M, N, b, i, v, w, n : MayStore(M, N, b, i, v, w, n) => Stored(M, N, b, i, v, w, n)
  BY ThreeWords DEF MayStore, Stored

LEMMA WritesFresh ==
  ASSUME Inv, NEW c \in Core, WriteCommand(c) \/ NewBuffer(c),
         NEW m \in Nat, NEW ch \in [0 .. m -> Buffer], Chained(m, ch)
  PROVE  Fresh(c, m, ch)
<1> DEFINE b == old[c].buf
           i == old[c].idx
<1>1. pc[c] = "finish" /\ pkt[c] \in Packet /\ UNCHANGED <<hw, bell>>
  BY DEF WriteCommand, NewBuffer, Inv, Turns
<1>2. b = fau.buf /\ i = fau.idx - 2 /\ fau.idx \in Int /\ Reserved = 2
  BY <1>1, Sizes, Alone DEF Inv, Types, Turns, Place
<1>3. Written = i
  BY <1>2 DEF Written
<1>4. Even(i) /\ i \in Nat /\ i <= Used - 2
  BY <1>3, EvenFacts DEF Chained
<1>5. b \in Buffer /\ ch[m] = b /\ m \in 0 .. m
  BY <1>2 DEF Chained
<1>6. /\ mem \in [Buffer -> [0 .. PoolWords - 1 -> Words]]
      /\ i \in 0 .. PoolWords - 1 /\ i + 1 \in 0 .. PoolWords - 1 /\ i + 2 \in 0 .. PoolWords - 1
  BY <1>4, Sizes DEF Inv, Types
<1>7. Cmd(pkt[c]) \in Words /\ Ptr(pkt[c]) \in Words
  BY <1>1, CommandWords
<1>8. ASSUME WriteCommand(c) PROVE Appends(mem, mem', ch[m], i, pkt[c])
  <2>1. StoresTwo(mem, mem', b, i, Cmd(pkt[c]), Ptr(pkt[c]))
    BY <1>8 DEF WriteCommand, StoresTwo
  <2> HIDE DEF b, i
  <2>2. /\ \A x \in Buffer : x # b => mem'[x] = mem[x]
        /\ \A k \in 0 .. PoolWords - 1 : k # i /\ k # i + 1 => mem'[b][k] = mem[b][k]
        /\ mem'[b][i] = Cmd(pkt[c]) /\ mem'[b][i + 1] = Ptr(pkt[c])
    BY <1>5, <1>6, <1>7, <2>1, TwoWords
  <2> QED
    BY <1>5, <2>2, Sizes DEF Appends
<1>9. ASSUME NewBuffer(c) PROVE Appends(mem, mem', ch[m], i, pkt[c])
  <2>1. ~(i >= PoolWords - 3)
    BY <1>4, Sizes
  <2>2. StoresThree(mem, mem', b, i, Cmd(pkt[c]), Ptr(pkt[c]), scratch[c])
    BY <1>9, <2>1, Zenon DEF NewBuffer, StoresThree
  <2>3. scratch[c] \in Words
    BY <1>9 DEF NewBuffer, Inv, Types, Words
  <2>4. i = Used - 2
    BY <1>4, <1>9, Sizes, SMTT(30) DEF NewBuffer, Room, CVMX_PKO_COMMAND_BUFFER_SIZE_ADJUST
  <2> HIDE DEF b, i
  <2>5. /\ mem' \in [Buffer -> [0 .. PoolWords - 1 -> Words]]
        /\ \A x \in Buffer : x # b => mem'[x] = mem[x]
        /\ \A k \in 0 .. PoolWords - 1 : k # i /\ k # i + 1 /\ k # i + 2 => mem'[b][k] = mem[b][k]
        /\ mem'[b][i] = Cmd(pkt[c]) /\ mem'[b][i + 1] = Ptr(pkt[c]) /\ mem'[b][i + 2] = scratch[c]
    <3>1. MayStore(mem, mem', b, i, Cmd(pkt[c]), Ptr(pkt[c]), scratch[c])
      BY <1>5, <1>6, <1>7, <2>2, <2>3 DEF MayStore
    <3>2. Stored(mem, mem', b, i, Cmd(pkt[c]), Ptr(pkt[c]), scratch[c])
      BY <3>1, ThreeStored, Zenon
    <3> QED
      BY <3>2, Zenon DEF Stored
  <2>6. \A k \in 0 .. Used - 1 : k \in 0 .. PoolWords - 1 /\ k # i + 2
    BY <2>4, Sizes
  <2> QED
    BY <1>5, <2>5, <2>6 DEF Appends
<1>10. Appends(mem, mem', ch[m], i, pkt[c])
  BY <1>8, <1>9
<1>11. Threads(mem', m, ch)
  BY <1>1, <1>3, <1>4, <1>10, OneMore DEF Chained
<1> QED
  BY <1>1, <1>3, <1>4, <1>5, <1>10, <1>11 DEF Fresh

\* a command that is being written changes no command of the queue
LEMMA FreshQueued ==
  ASSUME Inv, NEW c \in Core, NEW m \in Nat, NEW ch \in [0 .. m -> Buffer], Chained(m, ch),
         Fresh(c, m, ch)
  PROVE  Queued' = Queued
<1>0. bell \in Nat /\ Unrung \in Nat /\ bell \div 2 \in Nat /\ 2 * (bell \div 2) <= bell /\ Types
  BY Half DEF Inv, Types, Unrung
<1>1. ASSUME NEW n \in 1 .. bell \div 2 PROVE WordAt(2 * n - 2)' = WordAt(2 * n - 2)
  <2>1. PICK k \in Nat : k = n - 1 /\ 2 * k = 2 * n - 2 /\ 2 * k + 2 <= bell + Unrung /\ 2 * k \in Nat
    BY <1>0
  <2>2. PICK i \in 0 .. m, j \in 0 .. Used - 2 :
          /\ Even(j) /\ Falls(hw.idx, 2 * k, i, j) /\ Falls(hw.idx, 2 * k + 1, i, j + 1)
          /\ i = 0 => hw.idx <= j
          /\ i = m => j < Written
    BY <1>0, <2>1, CommandPlace
  <2>3. PlaceAt(2 * k) = [buf |-> ch[i], idx |-> j]
    BY <1>0, <2>1, <2>2, PlaceFalls
  <2>4. PlaceOf(mem', ch[0], hw.idx, 2 * k) = [buf |-> ch[i], idx |-> j]
    <3>1. hw.idx \in Nat /\ Threads(mem', m, ch)
      BY EvenFacts DEF Chained, Fresh
    <3> QED
      BY <2>1, <2>2, <3>1, PlaceIs
  <2>5. PlaceAt(2 * k)' = [buf |-> ch[i], idx |-> j]
    BY <2>4, PlaceSame DEF Chained, Fresh
  <2>6. mem'[ch[i]][j] = mem[ch[i]][j]
    <3>1. CASE i # m
      <4>1. ch[i] \in Buffer /\ ch[i] # ch[m]
        BY <3>1 DEF Chained, Threads
      <4> QED
        BY <4>1 DEF Fresh, Appends
    <3>2. CASE i = m
      <4>1. j < old[c].idx /\ j \in Nat /\ old[c].idx \in Nat /\ j \in 0 .. Used - 1
        BY <2>2, <3>2, EvenFacts, Sizes DEF Fresh
      <4> QED
        BY <3>2, <4>1 DEF Fresh, Appends
    <3> QED
      BY <3>1, <3>2
  <2> QED
    BY <2>1, <2>3, <2>5, <2>6 DEF WordAt
<1>2. bell' = bell
  BY DEF Fresh
<1> QED
  BY <1>1, <1>2 DEF Queued

LEMMA QueuedSeq ==
  ASSUME Inv
  PROVE  /\ bell \div 2 \in Nat /\ DOMAIN Queued = 1 .. bell \div 2
         /\ Queued \in Seq(Packet \cup {None}) /\ Len(Queued) = bell \div 2
         /\ \A n \in 1 .. bell \div 2 : Queued[n] = PacketOf(WordAt(2 * n - 2))
<1>0. bell \div 2 \in Nat
  BY Half DEF Inv, Types
<1>1. \A w : PacketOf(w) \in Packet \cup {None}
  BY DEF PacketOf, Cmd
<1>2. Queued \in [1 .. bell \div 2 -> Packet \cup {None}]
  BY <1>1 DEF Queued
<1>3. PICK N \in Nat : N = bell \div 2
  BY <1>0
<1>4. Queued \in Seq(Packet \cup {None})
  <2>1. PICK q : q = Queued
    OBVIOUS
  <2>2. q \in [1 .. N -> Packet \cup {None}]
    BY <1>2, <1>3, <2>1
  <2>3. q \in Seq(Packet \cup {None})
    BY <2>2
  <2> QED
    BY <2>1, <2>3
<1>5. DOMAIN Queued = 1 .. N
  BY <1>3 DEF Queued
<1>6. Len(Queued) = N
  BY <1>4, <1>5
<1>7. \A n \in 1 .. bell \div 2 : Queued[n] = PacketOf(WordAt(2 * n - 2))
  BY DEF Queued
<1> QED
  BY <1>0, <1>3, <1>4, <1>5, <1>6, <1>7

\* the doorbell hands over the command that was just written
LEMMA DoorbellHands ==
  ASSUME Inv, NEW c \in Core, Doorbell(c)
  PROVE  pkt[c] \in Packet /\ Queued' = Append(Queued, pkt[c])
<1>1. PICK m \in Nat : \E ch \in [0 .. m -> Buffer] : Chained(m, ch)
  BY Open DEF Doorbell
<1>2. PICK ch \in [0 .. m -> Buffer] : Chained(m, ch)
  BY <1>1
<1>3. /\ pc[c] = "bell" /\ pkt[c] \in Packet /\ UNCHANGED <<mem, hw>>
      /\ bell' = bell + 2 /\ bell \in Nat /\ Types
  BY DEF Doorbell, queue, Inv, Types, Turns
<1>4. PICK i \in 0 .. m : /\ ch[i] = old[c].buf /\ Even(old[c].idx)
                          /\ hw.idx + bell = i * Used + old[c].idx
                          /\ mem[old[c].buf][old[c].idx] = Cmd(pkt[c])
  BY <1>2, <1>3 DEF Chained, Last
<1>5. old[c].idx \in Nat /\ old[c].idx <= Used - 2 /\ hw.idx \in Nat /\ Used \in Nat
  BY <1>2, <1>4, EvenFacts, Sizes DEF Chained
<1>6. 2 * (bell \div 2) = bell
  <2>1. PICK h \in Nat : Used = 2 * h
    BY Sizes
  <2>2. hw.idx % 2 = 0 /\ old[c].idx % 2 = 0
    BY <1>2, <1>4 DEF Chained, Even
  <2>8. hw.idx \in Int /\ hw.idx % 2 = 0
    BY <1>5, <2>2
  <2>3. PICK a \in Int : hw.idx = 2 * a
    BY <2>8, Parity
  <2>7. PICK d \in Int : old[c].idx = 2 * d
    BY <1>5, <2>2, Parity
  <2>4. PICK k \in Int : k = i * h + d - a
    OBVIOUS
  <2>5. i * Used = 2 * (i * h)
    BY <2>1
  <2>6. bell = 2 * k
    BY <1>3, <1>4, <2>3, <2>4, <2>5, <2>7
  <2> QED
    BY <1>3, <2>6
<1>7. WordAt(bell) = Cmd(pkt[c])
  <2>1. Falls(hw.idx, bell, i, old[c].idx)
    BY <1>4, <1>5 DEF Falls
  <2>2. PlaceAt(bell) = [buf |-> ch[i], idx |-> old[c].idx]
    BY <1>2, <1>3, <2>1, PlaceFalls
  <2> QED
    BY <1>4, <2>2 DEF WordAt
<1>8. PacketOf(WordAt(bell)) = pkt[c]
  BY <1>3, <1>7, PacketOfCommand
<1>9. \A n : WordAt(n)' = WordAt(n)
  <2>1. \A n : PlaceAt(n)' = PlaceAt(n)
    BY <1>3, PlaceSame
  <2> QED
    BY <1>3, <2>1 DEF WordAt
<1>10. PICK N \in Nat : N = bell \div 2
  BY <1>3, Half
<1>11. Queued' = [n \in 1 .. N + 1 |-> PacketOf(WordAt(2 * n - 2))]
  <2>1. bell' \div 2 = N + 1
    BY <1>3, <1>10, Half
  <2> QED
    BY <1>9, <2>1 DEF Queued
<1>12. /\ Queued \in Seq(Packet \cup {None}) /\ Len(Queued) = N
       /\ \A n \in 1 .. N : Queued[n] = PacketOf(WordAt(2 * n - 2))
  BY <1>10, QueuedSeq
<1>13. PacketOf(WordAt(2 * (N + 1) - 2)) = pkt[c]
  <2>1. 2 * (N + 1) - 2 = bell
    BY <1>6, <1>10
  <2> QED
    BY <1>8, <2>1
<1>14. \A n \in 1 .. N + 1 : n = N + 1 \/ n \in 1 .. N
  OBVIOUS
<1>15. /\ Append(Queued, pkt[c]) \in Seq(Packet \cup {None})
       /\ Len(Append(Queued, pkt[c])) = N + 1
       /\ \A n \in 1 .. N : Append(Queued, pkt[c])[n] = Queued[n]
       /\ Append(Queued, pkt[c])[N + 1] = pkt[c]
  BY <1>3, <1>12
<1>16. \A n \in 1 .. N + 1 : Append(Queued, pkt[c])[n] = PacketOf(WordAt(2 * n - 2))
  BY <1>12, <1>13, <1>14, <1>15
<1>17. Append(Queued, pkt[c]) = [n \in 1 .. N + 1 |-> Append(Queued, pkt[c])[n]]
  BY <1>15
<1> QED
  BY <1>3, <1>11, <1>16, <1>17

\* the command after the one the hardware reads is the first then
LEMMA TransmitWords ==
  ASSUME Inv, Transmit, NEW n \in Nat, 2 * n + 4 <= bell
  PROVE  WordAt(2 * n)' = WordAt(2 * (n + 1))
<1>0. enabled /\ Types /\ bell \in Nat /\ Unrung \in Nat /\ bell >= 2
  BY DEF Transmit, Inv, Types, Unrung
<1>1. PICK m \in Nat : \E ch \in [0 .. m -> Buffer] : Chained(m, ch)
  BY <1>0 DEF Inv
<1>2. PICK ch \in [0 .. m -> Buffer] : Chained(m, ch)
  BY <1>1
<1>3. PICK i \in 0 .. m, j \in 0 .. Used - 2 :
        /\ Even(j) /\ Falls(hw.idx, 2 * (n + 1), i, j)
        /\ i = 0 => hw.idx <= j
        /\ i = m => j < Written
  <2>1. n + 1 \in Nat /\ 2 * (n + 1) + 2 <= bell + Unrung
    BY <1>0
  <2> QED
    BY <1>0, <1>2, <2>1, CommandPlace
<1>4. PlaceAt(2 * (n + 1)) = [buf |-> ch[i], idx |-> j]
  <2>1. 2 * (n + 1) \in Nat
    OBVIOUS
  <2> QED
    BY <1>0, <1>2, <1>3, <2>1, PlaceFalls
<1>5. /\ hw.idx \in Nat /\ Used \in Nat /\ Used >= 4 /\ 2 * n \in Nat
      /\ j \in 0 .. Used - 1 /\ hw.idx + 2 * (n + 1) = i * Used + j /\ ch[0] = hw.buf
  BY <1>2, <1>3, EvenFacts, Sizes DEF Chained, Falls
<1>6. CASE hw.idx # Used - 2
  <2>1. PlaceAt(2) = [buf |-> ch[0], idx |-> hw.idx + 2]
    BY <1>0, <1>2, <1>6, NextPlace
  <2>2. hw' = [buf |-> ch[0], idx |-> hw.idx + 2]
    BY <2>1, Zenon DEF Transmit
  <2>3. mem' = mem
    <3>1. {hw.buf} \ {PlaceAt(2).buf} = {}
      BY <1>5, <2>1
    <3>2. mem' = [b \in Buffer |-> IF b \in {} THEN Blank ELSE mem[b]]
      BY <3>1 DEF Transmit
    <3> QED
      BY <1>0, <3>2 DEF Types
  <2>4. Falls(hw.idx + 2, 2 * n, i, j) /\ hw.idx + 2 \in Nat
    BY <1>5 DEF Falls
  <2>5. PlaceOf(mem, ch[0], hw.idx + 2, 2 * n) = [buf |-> ch[i], idx |-> j]
    <3>1. Threads(mem, m, ch)
      BY <1>2 DEF Chained
    <3>2. PICK I \in Nat : I = hw.idx + 2
      BY <2>4
    <3>3. PICK k \in Nat : k = 2 * n
      BY <1>5
    <3>4. Falls(I, k, i, j)
      BY <2>4, <3>2, <3>3
    <3>5. PICK dh : dh = ch
      OBVIOUS
    <3>6. Threads(mem, m, dh)
      BY <3>1, <3>5
    <3>7. PlaceOf(mem, dh[0], I, k) = [buf |-> dh[i], idx |-> j]
      BY <3>4, <3>6, PlaceIs
    <3> QED
      BY <3>2, <3>3, <3>5, <3>7
  <2>6. PlaceAt(2 * n)' = [buf |-> ch[i], idx |-> j]
    BY <2>2, <2>3, <2>5, PlaceSame
  <2> QED
    BY <1>4, <2>3, <2>6 DEF WordAt
<1>7. CASE hw.idx = Used - 2
  <2>1. m >= 1 /\ PlaceAt(2) = [buf |-> ch[1], idx |-> 0]
    BY <1>0, <1>2, <1>7, NextPlace
  <2>2. hw' = [buf |-> ch[1], idx |-> 0]
    BY <2>1, Zenon DEF Transmit
  <2>3. 0 \in 0 .. m /\ 1 \in 0 .. m /\ ch[1] # ch[0] /\ ch[1] \in Buffer
    BY <1>2, <2>1 DEF Chained, Threads
  <2>4. mem' = [b \in Buffer |-> IF b \in {ch[0]} THEN Blank ELSE mem[b]]
    <3>1. {hw.buf} \ {PlaceAt(2).buf} = {ch[0]}
      BY <1>5, <2>1, <2>3
    <3> QED
      BY <3>1 DEF Transmit
  <2>5. PICK dh : Shorter(m, ch, dh)
    BY DEF Shorter
  <2>6. /\ Threads(mem', m - 1, dh)
        /\ \A x \in 0 .. m - 1 : dh[x] = ch[x + 1] /\ x + 1 \in 0 .. m
    <3>1. /\ Threads(mem, m, ch) /\ Filled(mem, m, ch, hw.idx, Written)
          /\ Elsewhere(mem, mem', ch[0])
      BY <1>2, <2>4 DEF Chained, Elsewhere
    <3>2. m >= 1
      BY <2>1
    <3> QED
      BY <2>5, <3>1, <3>2, Shrunk
  <2>7. i # 0
    <3>1. 0 * Used = 0
      BY <1>5
    <3> QED
      BY <1>5, <1>7, <3>1
  <2>8. i - 1 \in 0 .. m - 1 /\ (i - 1) + 1 = i /\ i - 1 \in Nat /\ i \in Nat
    BY <2>7
  <2>9. Falls(0, 2 * n, i - 1, j)
    <3>1. i * Used = (i - 1) * Used + Used /\ (i - 1) * Used \in Nat
      BY <1>5, <2>8, OneLess
    <3> QED
      BY <1>5, <1>7, <3>1 DEF Falls
  <2>10. dh[0] = ch[1] /\ dh[i - 1] = ch[i]
    <3>1. 0 \in 0 .. m - 1 /\ 0 + 1 = 1
      BY <2>1
    <3> QED
      BY <2>6, <2>8, <3>1
  <2>11. PlaceOf(mem', dh[0], 0, 2 * n) = [buf |-> dh[i - 1], idx |-> j]
    <3>1. Threads(mem', m - 1, dh) /\ 0 \in Nat
      BY <2>6
    <3> QED
      BY <1>5, <2>8, <2>9, <3>1, PlaceIs
  <2>12. PlaceAt(2 * n)' = [buf |-> ch[i], idx |-> j]
    BY <2>2, <2>10, <2>11, PlaceSame
  <2>13. mem'[ch[i]] = mem[ch[i]]
    BY <1>2, <2>3, <2>4, <2>7 DEF Chained, Threads
  <2> QED
    BY <1>4, <2>12, <2>13 DEF WordAt
<1> QED
  BY <1>6, <1>7

\* the hardware sends the first packet of the queue
LEMMA TransmitLeaves ==
  ASSUME Inv, Transmit PROVE Queued # << >> /\ Queued' = Tail(Queued)
<1>1. bell \in Nat /\ bell >= 2 /\ bell' = bell - 2
  BY Zenon DEF Transmit, Inv, Types
<1>2. PICK N \in Nat : N = bell \div 2
  BY <1>1, Half
<1>3. N >= 1 /\ bell' \div 2 = N - 1 /\ 2 * N <= bell
  BY <1>1, <1>2, Half
<1>4. /\ Queued \in Seq(Packet \cup {None}) /\ Len(Queued) = N
      /\ \A n \in 1 .. N : Queued[n] = PacketOf(WordAt(2 * n - 2))
  BY <1>2, QueuedSeq
<1>5. Queued # << >>
  BY <1>3, <1>4
<1>6. /\ Tail(Queued) \in Seq(Packet \cup {None}) /\ Len(Tail(Queued)) = N - 1
      /\ \A n \in 1 .. N - 1 : Tail(Queued)[n] = Queued[n + 1]
  BY <1>4, <1>5
<1>7. ASSUME NEW n \in 1 .. N - 1 PROVE PacketOf(WordAt(2 * n - 2))' = Tail(Queued)[n]
  <2>1. PICK k \in Nat : k = n - 1
    OBVIOUS
  <2>2. 2 * k = 2 * n - 2 /\ 2 * (k + 1) = 2 * (n + 1) - 2 /\ 2 * k + 4 <= bell /\ n + 1 \in 1 .. N
    BY <1>1, <1>3, <2>1
  <2>3. WordAt(2 * k)' = WordAt(2 * (k + 1))
    BY <2>2, TransmitWords
  <2>4. Tail(Queued)[n] = PacketOf(WordAt(2 * (n + 1) - 2))
    BY <1>4, <1>6, <2>2
  <2> QED
    BY <2>2, <2>3, <2>4 DEF PacketOf
<1>8. Queued' = [n \in 1 .. N - 1 |-> PacketOf(WordAt(2 * n - 2))']
  BY <1>3 DEF Queued
<1>9. Queued' = [n \in 1 .. N - 1 |-> Tail(Queued)[n]]
  BY <1>7, <1>8
<1>10. Tail(Queued) = [n \in 1 .. N - 1 |-> Tail(Queued)[n]]
  <2>1. PICK t : t = Tail(Queued)
    OBVIOUS
  <2>2. t \in Seq(Packet \cup {None}) /\ Len(t) = N - 1
    BY <1>6, <2>1
  <2>3. t = [n \in 1 .. N - 1 |-> t[n]]
    BY <2>2
  <2> QED
    BY <2>1, <2>3
<1> QED
  BY <1>5, <1>9, <1>10

LEMMA EmptyQueued == ASSUME bell = 0 PROVE Queued = << >>
<1>1. 1 .. bell \div 2 = {}
  <2>1. bell \div 2 = 0
    OBVIOUS
  <2> QED
    BY <2>1
<1> QED
  BY <1>1 DEF Queued

\* what each step does to the queue that is seen from outside
LEMMA NextQueued ==
  ASSUME Inv, [Next]_vars
  PROVE  \/ Queued' = Queued
         \/ \E p \in Packet : Queued' = Append(Queued, p)
         \/ Queued # << >> /\ Queued' = Tail(Queued)
         \/ Queued' = << >>
<1>1. ASSUME NEW c \in Core, NEW p \in Packet, Prepare(c, p) PROVE Queued' = Queued
  BY <1>1, SameQueued DEF Prepare, queue
<1>2. ASSUME NEW c \in Core, Reserve(c) \/ NoBuffer(c) \/ Leave(c) PROVE Queued' = Queued
  BY <1>2, SameQueued DEF Reserve, NoBuffer, Leave, queue
<1>3. ASSUME NEW c \in Core, WriteCommand(c) \/ NewBuffer(c) PROVE Queued' = Queued
  <2>1. pc[c] = "finish"
    BY <1>3 DEF WriteCommand, NewBuffer
  <2>2. PICK m \in Nat : \E ch \in [0 .. m -> Buffer] : Chained(m, ch)
    BY <2>1, Open
  <2>3. PICK ch \in [0 .. m -> Buffer] : Chained(m, ch)
    BY <2>2
  <2> QED
    BY <1>3, <2>3, WritesFresh, FreshQueued
<1>4. ASSUME Shutdown PROVE Queued' = << >>
  <2>1. bell' = 0
    BY <1>4 DEF Shutdown
  <2>2. 1 .. bell' \div 2 = {}
    BY <2>1
  <2> QED
    BY <2>2 DEF Queued
<1>5. ASSUME Configure PROVE Queued' = Queued
  <2>1. bell = 0 /\ bell' = 0
    BY <1>5 DEF Configure, Inv, Closed
  <2>2. Queued = << >>
    BY <2>1, EmptyQueued
  <2>3. 1 .. bell' \div 2 = {}
    BY <2>1
  <2>4. Queued' = << >>
    BY <2>3 DEF Queued
  <2> QED
    BY <2>2, <2>4
<1>6. ASSUME UNCHANGED vars PROVE Queued' = Queued
  BY <1>6, SameQueued DEF vars
<1>7. ASSUME NEW c \in Core, Doorbell(c)
      PROVE  \E p \in Packet : Queued' = Append(Queued, p)
  BY <1>7, DoorbellHands
<1>8. ASSUME Transmit PROVE Queued # << >> /\ Queued' = Tail(Queued)
  BY <1>8, TransmitLeaves
<1> QED
  BY <1>1, <1>2, <1>3, <1>4, <1>5, <1>6, <1>7, <1>8 DEF Next, Send

\* The packets that were rung and not yet sent are a first in, first out queue:
\* each doorbell of cvmx_pko_send_packet_finish appends the sender's packet,
\* the hardware takes the first, a shutdown drops them all, and no other step, a
\* failed send or a change of buffers, adds, drops or reorders one.
THEOREM QueueIsFifo == Spec => Fifo!Spec
<1>1. Init => Fifo!Init
  BY EmptyQueued DEF Init, Fifo!Init
<1>2. Inv /\ [Next]_vars => [Fifo!Next]_Queued
  BY NextQueued DEF Fifo!Next, Fifo!Hand, Fifo!Leave, Fifo!Drop
<1> QED
  BY <1>1, <1>2, Invariance, PTL DEF Spec, Fifo!Spec
=============================================================================
