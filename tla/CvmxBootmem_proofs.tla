-------------------------- MODULE CvmxBootmem_proofs --------------------------
(***************************************************************************)
(* Proofs about the executive's allocators: about CvmxBootmem, for any     *)
(* memory, requests and cores, the free list and the answers of the boot   *)
(* memory allocator and the pool it implements; and, at the end, about the *)
(* zone allocator.                                                         *)
(***************************************************************************)
EXTENDS CvmxBootmem, Sequences, FiniteSetTheorems, TLAPS

\* n is the address that follows a in the list of the addresses E, 0 at its end
Succ(E, a, n) ==
  \/ n = 0 /\ \A b \in E : b <= a
  \/ n \in E /\ n > a /\ \A b \in E : b > a => n <= b

Threaded == Succ(ents, 0, head) /\ \A a \in ents : Succ(ents, a, next[a])

\* two blocks have no cell in common
Apart(a, s, b, t) == a + s <= b \/ b + t <= a
Inside(a, s) == /\ s > 0 /\ Cells(a, s) \subseteq Arena
                /\ a % AlignSize = 0 /\ s % AlignSize = 0

Blocks ==
  /\ \A a \in ents : Inside(a, size[a])
  /\ \A o \in owned : Inside(o[1], o[2])
  /\ \A a, b \in ents : a < b => a + size[a] <= b
  /\ \A a \in ents, o \in owned : Apart(a, size[a], o[1], o[2])
  /\ \A o, q \in owned : o = q \/ Apart(o[1], o[2], q[1], q[2])
  /\ \A x \in Arena : \/ \E a \in ents : a <= x /\ x < a + size[a]
                      \/ \E o \in owned : o[1] <= x /\ x < o[1] + o[2]

\* the core stands between two neighbours of the list
Walking(c) == prev[c] \in ents \cup {0} /\ Succ(ents, prev[c], ent[c])

\* the descriptors in use
Live == {i \in 1 .. NumNamed : named[i].size # 0}

\* the core has a free descriptor for a new name
Describes(c) ==
  req[c].op = "named" => /\ desc[c] # 0 /\ named[desc[c]].size = 0
                         /\ \A i \in Live : named[i].name # req[c].name

Kept(c) ==
  /\ pc[c] \in {"check", "visit", "record"} => req[c].op \in AllocOps /\ Describes(c)
  /\ pc[c] = "record" => req[c].op = "named" /\ res[c] # 0
  /\ pc[c] = "visit" => ~Rejected(req[c]) /\ Walking(c)
  /\ pc[c] = "place" => Walking(c) /\ prev[c] < PhyAddr(c)
  /\ pc[c] \in {"free", "place", "clear"} => desc[c] # 0 /\ named[desc[c]].size # 0
  /\ pc[c] \notin {"record", "unlock"} => res[c] = 0
  /\ pc[c] \notin {"visit", "place", "record", "clear", "unlock"} => prev[c] = 0

\* every descriptor in use is of a block handed out, but for the one whose block
\* was just put back
NamedKept ==
  /\ \A i \in Live : \/ <<named[i].base, named[i].size>> \in owned
                     \/ \E c \in Core : pc[c] = "clear" /\ desc[c] = i
  /\ \A i, j \in Live : i # j => /\ named[i].name # named[j].name
                                 /\ named[i].base # named[j].base
  /\ \A c \in Core : pc[c] = "record" => \A i \in Live : named[i].base # res[c]

\* free blocks touch only where the call in progress has just cut one in two
\* and is about to take the second
Taking(c, a, b) ==
  /\ pc[c] = "visit" /\ prev[c] = a /\ ent[c] = b
  /\ CanSatisfy(req[c], b) /\ UsableBase(req[c], b) = b
Touching ==
  \A a, b \in ents : a + size[a] = b => b \in cuts \/ \E c \in Core : Taking(c, a, b)

ListInv ==
  /\ TypeOK /\ Exclusion /\ Threaded /\ Blocks
  /\ (\A c \in Core : Kept(c)) /\ NamedKept

\* what the search has passed does not fit; only a call that frees gets to free
Searched ==
  \A c \in Core :
    /\ pc[c] = "visit" => \A a \in ents : a <= prev[c] => ~CanSatisfy(req[c], a)
    /\ pc[c] = "unlock" /\ req[c].op = "range" /\ res[c] = 0 =>
         Rejected(req[c]) \/ \A a \in ents : ~CanSatisfy(req[c], a)
    /\ pc[c] \in {"free", "place", "clear"} => req[c].op = "free"

\* what a walk nobody disturbed has added up
Counted(c) == {a \in ents : (ent[c] = 0 \/ a < ent[c]) /\ size[a] >= req[c].size}
Summed ==
  \A c \in Core :
    /\ pc[c] \notin {"sum", "lost"} => total[c] = 0
    /\ pc[c] = "sum" /\ calm[c] =>
         /\ ent[c] \in ents \cup {0}
         /\ ent[c] # 0 => total[c] <= ent[c]
         /\ total[c] = SumFunctionOnSet(size, Counted(c))

-----------------------------------------------------------------------------
(* Arithmetic: multiples and rounding *)

LEMMA DivMod ==
  ASSUME NEW a \in Nat \ {0}, NEW x \in Int
  PROVE  /\ x \div a \in Int /\ x % a \in 0 .. a - 1
         /\ x = a * (x \div a) + (x % a)
  OBVIOUS

LEMMA DivUnique ==
  ASSUME NEW a \in Nat \ {0}, NEW q \in Int, NEW m \in 0 .. a - 1, NEW x \in Int, x = a * q + m
  PROVE  x % a = m /\ x \div a = q
  OBVIOUS

LEMMA Multiple ==
  ASSUME NEW a \in Nat \ {0}, NEW x \in Int
  PROVE  x % a = 0 <=> \E k \in Int : x = a * k
<1>1. ASSUME x % a = 0 PROVE \E k \in Int : x = a * k
  <2>1. x \div a \in Int /\ x = a * (x \div a) + 0
    BY <1>1, DivMod
  <2>2. x = a * (x \div a)
    BY <2>1
  <2> QED
    BY <2>1, <2>2
<1>2. ASSUME NEW k \in Int, x = a * k PROVE x % a = 0
  <2>1. x = a * k + 0 /\ 0 \in 0 .. a - 1
    BY <1>2
  <2> QED
    BY <2>1, DivUnique
<1> QED
  BY <1>1, <1>2

LEMMA ModSum ==
  ASSUME NEW a \in Nat \ {0}, NEW x \in Int, NEW y \in Int, x % a = 0, y % a = 0
  PROVE  (x + y) % a = 0 /\ (x - y) % a = 0
<1>1. PICK k \in Int : x = a * k
  BY Multiple
<1>2. PICK l \in Int : y = a * l
  BY Multiple
<1>3. x + y = a * (k + l) /\ k + l \in Int /\ x + y \in Int
  BY <1>1, <1>2
<1>4. x - y = a * (k - l) /\ k - l \in Int /\ x - y \in Int
  BY <1>1, <1>2
<1>5. (x + y) % a = 0
  BY <1>3, Multiple
<1>6. (x - y) % a = 0
  BY <1>4, Multiple
<1> QED
  BY <1>5, <1>6

LEMMA ModTrans ==
  ASSUME NEW a \in Nat \ {0}, NEW b \in Nat \ {0}, NEW x \in Int, a % b = 0, x % a = 0
  PROVE  x % b = 0
<1>1. PICK k \in Int : x = a * k
  BY Multiple
<1>2. PICK l \in Int : a = b * l
  <2>1. a \in Int
    OBVIOUS
  <2> QED
    BY <2>1, Multiple
<1>3. x = b * (l * k) /\ l * k \in Int
  BY <1>1, <1>2
<1> QED
  BY <1>3, Multiple

LEMMA ModNear ==
  ASSUME NEW a \in Nat \ {0}, NEW x \in Int, NEW y \in Int, x % a = 0, y % a = 0, x < y + a
  PROVE  x <= y
<1>1. (x - y) % a = 0
  BY ModSum
<1>2. PICK d \in Int : d = x - y
  OBVIOUS
<1>3. PICK k \in Int : d = a * k
  BY <1>1, <1>2, Multiple
<1>4. d < a
  BY <1>2
<1>5. k <= 0
  BY <1>3, <1>4
<1>6. d <= 0
  BY <1>3, <1>5
<1> QED
  BY <1>2, <1>6

LEMMA RoundDown ==
  ASSUME NEW a \in Nat \ {0}, NEW y \in Nat
  PROVE  /\ y - (y % a) \in Nat /\ y - (y % a) <= y /\ y < y - (y % a) + a
         /\ (y - (y % a)) % a = 0
<1>1. y % a \in 0 .. a - 1 /\ y \div a \in Int /\ y = a * (y \div a) + (y % a)
  BY DivMod
<1>2. PICK q \in Int, m \in 0 .. a - 1 : q = y \div a /\ m = y % a
  BY <1>1
<1>3. y - m = a * q /\ y - m \in Int
  BY <1>1, <1>2
<1>4. (y - m) % a = 0
  BY <1>3, Multiple
<1>5. y - m \in Nat
  <2>1. q >= 0
    BY <1>1, <1>2
  <2> QED
    BY <2>1, <1>3
<1> QED
  BY <1>2, <1>4, <1>5

LEMMA Rounding ==
  ASSUME NEW a \in Nat \ {0}, NEW x \in Nat, x + a <= Word
  PROVE  /\ RoundUp(x, a) \in Nat /\ x <= RoundUp(x, a) /\ RoundUp(x, a) < x + a
         /\ RoundUp(x, a) % a = 0
         /\ x % a = 0 => RoundUp(x, a) = x
<1>1. PICK y \in Nat : y = x + a - 1
  OBVIOUS
<1>2. Word \in Nat \ {0} /\ y < Word
  BY <1>1, WordAssumption
<1>3. y % Word = y
  BY <1>2
<1>4. RoundUp(x, a) = y - (y % a)
  BY <1>1, <1>3 DEF RoundUp
<1>5. PICK z \in Nat : z = y - (y % a)
  BY RoundDown
<1>6. z <= y /\ y < z + a /\ z % a = 0
  BY <1>5, RoundDown
<1>7. ASSUME x % a = 0 PROVE z = x
  <2>1. z < x + a /\ z \in Int /\ x \in Int
    BY <1>1, <1>6
  <2>2. z <= x
    BY <2>1, <1>6, <1>7, ModNear, Zenon
  <2> QED
    BY <2>2, <1>1, <1>6
<1> QED
  BY <1>1, <1>4, <1>5, <1>6, <1>7

LEMMA Widths ==
  /\ Word \in Nat \ {0} /\ AlignSize \in Nat \ {0} /\ AlignSize < Word
  /\ \A x \in Addr : x \in Nat /\ x < Word
  /\ \A x \in Nat : x < Word => x \in Addr
  BY WordAssumption DEF Addr

LEMMA Wraps == ASSUME NEW x \in Int PROVE x % Word \in Addr
<1>1. x % Word \in 0 .. Word - 1
  BY Widths, DivMod
<1> QED
  BY <1>1 DEF Addr

LEMMA NoWrap == ASSUME NEW x \in Nat, x < Word PROVE x % Word = x
  BY Widths

LEMMA Fields ==
  ASSUME NEW r \in Request
  PROVE  /\ r.size \in Addr /\ r.min \in Addr /\ r.max \in Addr /\ r.align \in Addr
         /\ r.name \in Names /\ r.op \in LockedOps \cup {"avail"}
  BY RequestAssumption DEF Call

LEMMA Alignments ==
  ASSUME NEW r \in Request
  PROVE  /\ Alignment(r) \in Nat \ {0} /\ Alignment(r) % AlignSize = 0
         /\ r.align <= Alignment(r)
         /\ r.align # 0 => r.align \in Nat \ {0} /\ Alignment(r) % r.align = 0
<1>1. r.align \in Nat
  BY Fields, Widths
<1>2. \A a \in Nat \ {0} : a % a = 0
  OBVIOUS
<1>3. ASSUME r.align # 0, r.align < AlignSize PROVE AlignSize % r.align = 0
  <2>1. CASE AlignSize % r.align = 0
    BY <2>1
  <2>2. CASE r.align % AlignSize = 0
    BY <1>1, <1>3, <2>2, Widths
  <2> QED
    BY <2>1, <2>2, <1>3, AlignAssumption
<1>4. ASSUME r.align > AlignSize PROVE r.align % AlignSize = 0
  <2>1. CASE AlignSize % r.align = 0
    BY <1>1, <1>4, <2>1, Widths
  <2>2. CASE r.align % AlignSize = 0
    BY <2>2
  <2> QED
    BY <2>1, <2>2, <1>4, <1>1, Widths, AlignAssumption
<1> QED
  BY <1>1, <1>2, <1>3, <1>4, Widths DEF Alignment, Larger

LEMMA ArenaBounds ==
  ASSUME NEW x \in Arena
  PROVE  x \in Nat /\ x > 0 /\ x + 1 < Word
<1>1. PICK a \in DOMAIN InitFree : x \in Cells(a, InitFree[a])
  BY DEF Arena
<1>2. a \in Nat /\ a > 0 /\ InitFree[a] \in Nat /\ a + InitFree[a] < Word
  BY InitFreeAssumption, Widths
<1> QED
  BY <1>1, <1>2, Widths DEF Cells

LEMMA Bounds ==
  ASSUME NEW a \in Nat, NEW s \in Nat, Inside(a, s)
  PROVE  /\ a > 0 /\ s > 0 /\ a + s < Word /\ a \in Arena
         /\ \A x \in Nat : a <= x /\ x < a + s => x \in Arena
<1>1. \A x \in Nat : a <= x /\ x < a + s => x \in Arena
  BY DEF Inside, Cells
<1>2. s > 0
  BY DEF Inside
<1>3. a \in Arena /\ a + s - 1 \in Arena
  BY <1>1, <1>2
<1> QED
  BY <1>1, <1>2, <1>3, ArenaBounds

LEMMA Sizes ==
  ASSUME NEW r \in Request
  PROVE  /\ ReqSize(r) \in Nat /\ ReqSize(r) < Word /\ ReqSize(r) % AlignSize = 0
         /\ r.size <= ReqSize(r)
<1>1. r.size \in Nat /\ r.size + AlignSize <= Word
  BY Fields, Widths, RequestAssumption
<1> QED
  BY <1>1, Rounding, Widths DEF ReqSize

LEMMA Minimum ==
  ASSUME NEW r \in Request
  PROVE  /\ AddrMin(r) \in Nat /\ AddrMin(r) < Word /\ r.min <= AddrMin(r)
         /\ AddrMin(r) + Alignment(r) <= Word
         /\ r.min % AlignSize = 0 =>
              \A a \in Nat : a % Alignment(r) = 0 /\ r.min <= a => AddrMin(r) <= a
<1>1. r.min \in Nat /\ r.align \in Nat /\ r.min + Alignment(r) <= Word
  BY Fields, Widths, AddressAssumption
<1>2. AddrMin(r) + Alignment(r) <= Word
  BY AddressAssumption
<1>a. Alignment(r) \in Nat \ {0} /\ r.align <= Alignment(r) /\ Word \in Nat
  BY Alignments, Widths
<1>3. CASE r.align = 0
  <2>1. AddrMin(r) = r.min
    BY <1>3 DEF AddrMin
  <2> QED
    BY <1>1, <1>2, <1>a, <2>1
<1>4. CASE r.align # 0
  <2>1. AddrMin(r) = RoundUp(r.min, r.align)
    BY <1>4 DEF AddrMin
  <2>2. r.align \in Nat \ {0} /\ r.min + r.align <= Word
    BY <1>1, <1>4, <1>a
  <2>3. /\ AddrMin(r) \in Nat /\ r.min <= AddrMin(r) /\ AddrMin(r) < r.min + r.align
        /\ AddrMin(r) % r.align = 0
    BY <1>1, <2>1, <2>2, Rounding
  <2>4. ASSUME NEW a \in Nat, a % Alignment(r) = 0, r.min <= a PROVE AddrMin(r) <= a
    <3>1. a % r.align = 0
      BY <2>2, <2>4, Alignments, ModTrans
    <3>2. AddrMin(r) < a + r.align
      BY <2>3, <2>4, <1>1
    <3> QED
      BY <3>1, <3>2, <2>2, <2>3, <2>4, ModNear
  <2> QED
    BY <1>2, <1>a, <2>2, <2>3, <2>4
<1> QED
  BY <1>3, <1>4

LEMMA Usable ==
  ASSUME NEW r \in Request, NEW e \in Arena
  PROVE  /\ UsableBase(r, e) \in Nat /\ e <= UsableBase(r, e)
         /\ AddrMin(r) <= UsableBase(r, e)
         /\ UsableBase(r, e) % Alignment(r) = 0 /\ UsableBase(r, e) % AlignSize = 0
         /\ AddrMin(r) <= e /\ e % Alignment(r) = 0 => UsableBase(r, e) = e
         /\ \A a \in Nat : a % Alignment(r) = 0 /\ AddrMin(r) <= a /\ e <= a
                             => UsableBase(r, e) <= a
<1>1. e \in Nat /\ e + Alignment(r) <= Word
  BY ArenaBounds, AddressAssumption
<1>2. Alignment(r) \in Nat \ {0} /\ Alignment(r) % AlignSize = 0
  BY Alignments
<1>3. AddrMin(r) \in Nat /\ AddrMin(r) + Alignment(r) <= Word
  BY Minimum
<1>4. PICK x \in Nat : x = Larger(AddrMin(r), e)
  BY <1>1, <1>3 DEF Larger
<1>5. x + Alignment(r) <= Word /\ AddrMin(r) <= x /\ e <= x /\ (AddrMin(r) <= e => x = e)
      /\ (x = AddrMin(r) \/ x = e)
  BY <1>1, <1>3, <1>4 DEF Larger
<1>6. UsableBase(r, e) = RoundUp(x, Alignment(r))
  BY <1>4 DEF UsableBase
<1>7. PICK b \in Nat : b = UsableBase(r, e)
  BY <1>2, <1>5, <1>6, Rounding
<1>8. /\ x <= b /\ b < x + Alignment(r) /\ b % Alignment(r) = 0
      /\ x % Alignment(r) = 0 => b = x
  BY <1>2, <1>5, <1>6, <1>7, Rounding
<1>9. b % AlignSize = 0
  BY <1>2, <1>8, Widths, ModTrans
<1>10. ASSUME NEW a \in Nat, a % Alignment(r) = 0, AddrMin(r) <= a, e <= a PROVE b <= a
  <2>1. b < a + Alignment(r)
    BY <1>2, <1>5, <1>8, <1>10, <1>3, <1>1
  <2> QED
    BY <2>1, <1>2, <1>8, <1>10, ModNear
<1> QED
  BY <1>1, <1>3, <1>5, <1>7, <1>8, <1>9, <1>10

-----------------------------------------------------------------------------
(* The order of the list *)

\* Every non-empty set of naturals has a least element.
LEMMA LeastNat ==
  ASSUME NEW T \in SUBSET Nat, T # {}
  PROVE  \E x \in T : \A y \in T : x <= y
<1>1. \E R : IsWellFoundedOn(R, Nat) /\ \A x, y \in Nat : x < y => <<x, y>> \in R
  <2> DEFINE R == OpToRel(<, Nat)
  <2>1. IsWellFoundedOn(R, Nat)
    BY NatLessThanWellFounded, Zenon
  <2>2. \A x, y \in Nat : x < y => <<x, y>> \in R
    BY DEF OpToRel
  <2> QED
    BY <2>1, <2>2
<1>2. PICK R : IsWellFoundedOn(R, Nat) /\ \A x, y \in Nat : x < y => <<x, y>> \in R
  BY <1>1
<1>3. \E x \in T : \A y \in T : ~ (<<y, x>> \in R)
  <2>1. T \subseteq Nat /\ IsWellFoundedOn(R, Nat)
    BY <1>2
  <2> QED
    BY <2>1, WFMin, Zenon
<1>4. PICK x \in T : \A y \in T : ~ (<<y, x>> \in R)
  BY <1>3, Zenon
<1>5. ASSUME NEW y \in T PROVE x <= y
  <2>1. x \in Nat /\ y \in Nat
    OBVIOUS
  <2>2. ~(y < x)
    BY <2>1, <1>2, <1>4, Zenon
  <2> QED
    BY <2>1, <2>2
<1> QED
  BY <1>5

LEMMA FirstIs ==
  ASSUME NEW S \in SUBSET Nat
  PROVE  /\ S = {} => First(S) = 0
         /\ S # {} => First(S) \in S /\ \A b \in S : First(S) <= b
<1>1. ASSUME S # {} PROVE First(S) \in S /\ \A b \in S : First(S) <= b
  <2>1. \E a \in S : \A b \in S : a <= b
    BY <1>1, LeastNat
  <2> QED
    BY <1>1, <2>1 DEF First
<1> QED
  BY <1>1 DEF First

LEMMA SuccIsFirst ==
  ASSUME NEW E \in SUBSET (Nat \ {0}), NEW a \in Nat, NEW n \in Nat
  PROVE  Succ(E, a, n) <=> n = First({b \in E : b > a})
<1> DEFINE S == {b \in E : b > a}
<1>1. S \in SUBSET Nat
  OBVIOUS
<1>2. PICK f : f = First(S)
  OBVIOUS
<1>3. (S = {} => f = 0) /\ (S # {} => f \in S /\ \A b \in S : f <= b)
  BY <1>1, <1>2, FirstIs
<1>4. CASE S = {}
  BY <1>2, <1>3, <1>4 DEF Succ
<1>5. CASE S # {}
  <2>1. f \in E /\ f > a /\ \A b \in E : b > a => f <= b
    BY <1>3, <1>5
  <2>2. ASSUME Succ(E, a, n) PROVE n = f
    <3>1. f \in Nat /\ ~(\A b \in E : b <= a)
      BY <2>1
    <3> QED
      BY <2>1, <2>2, <3>1 DEF Succ
  <2>3. ASSUME n = f PROVE Succ(E, a, n)
    BY <2>1, <2>3 DEF Succ
  <2> QED
    BY <1>2, <2>2, <2>3
<1> QED
  BY <1>4, <1>5

\* ListThreaded says the same of the addresses as Threaded.
LEMMA ThreadedIs == ASSUME TypeOK PROVE ListThreaded <=> Threaded
<1>1. ents \in SUBSET (Nat \ {0}) /\ head \in Nat /\ \A a \in ents : a \in Nat /\ next[a] \in Nat
  BY Widths DEF TypeOK
<1>2. {b \in ents : b > 0} = ents
  <2>1. \A b \in ents : b > 0
    BY <1>1
  <2> QED
    BY <2>1
<1>3. Succ(ents, 0, head) <=> head = First(ents)
  BY <1>1, <1>2, SuccIsFirst
<1>4. \A a \in ents : Succ(ents, a, next[a]) <=> next[a] = First({b \in ents : b > a})
  BY <1>1, SuccIsFirst
<1> QED
  BY <1>3, <1>4 DEF ListThreaded, Threaded

\* Two successors of the same address are the same.
LEMMA SuccUnique ==
  ASSUME NEW E \in SUBSET (Nat \ {0}), NEW a \in Nat, NEW m \in Nat, NEW n \in Nat,
         Succ(E, a, m), Succ(E, a, n)
  PROVE  m = n
<1>1. m = First({b \in E : b > a}) /\ n = First({b \in E : b > a})
  BY SuccIsFirst
<1> QED
  BY <1>1

-----------------------------------------------------------------------------
(* The lock *)

LEMMA OwnerStays ==
  ASSUME TypeOK, Exclusion, NEW c \in Core, pc[c] \in Locked, NEW l \in Locked, Goto(c, l),
         UNCHANGED lock
  PROVE  Exclusion'
<1>1. Owner' = Owner
  BY DEF Owner, Goto, TypeOK
<1> QED
  BY <1>1 DEF Exclusion

LEMMA OwnerEnters ==
  ASSUME TypeOK, Exclusion, NEW c \in Core, ~lock, lock' = TRUE, NEW l \in Locked, Goto(c, l)
  PROVE  Exclusion'
<1>1. Owner = {}
  BY DEF Exclusion
<1>2. Owner' = {c}
  <2>1. \A d \in Core : pc[d] \notin Locked
    BY <1>1 DEF Owner
  <2>2. \A d \in Core : pc'[d] = IF d = c THEN l ELSE pc[d]
    BY DEF Goto, TypeOK
  <2> QED
    BY <2>1, <2>2 DEF Owner
<1> QED
  BY <1>2 DEF Exclusion

LEMMA OwnerLeaves ==
  ASSUME TypeOK, Exclusion, NEW c \in Core, pc[c] \in Locked, lock' = FALSE, Goto(c, "idle")
  PROVE  Exclusion'
<1>1. Owner' = {}
  <2>1. \A d \in Core : pc[d] \in Locked => d = c
    BY DEF Exclusion, Owner
  <2>2. \A d \in Core : pc'[d] = IF d = c THEN "idle" ELSE pc[d]
    BY DEF Goto, TypeOK
  <2> QED
    BY <2>1, <2>2 DEF Owner, Locked
<1> QED
  BY <1>1 DEF Exclusion

LEMMA OtherMoves ==
  ASSUME TypeOK, Exclusion, NEW c \in Core, pc[c] \notin Locked, NEW l, l \notin Locked,
         Goto(c, l), UNCHANGED lock
  PROVE  Exclusion'
<1>1. Owner' = Owner
  BY DEF Owner, Goto, TypeOK
<1> QED
  BY <1>1 DEF Exclusion

-----------------------------------------------------------------------------
(* What a step leaves alone *)

SameCore(d) ==
  /\ pc'[d] = pc[d] /\ req'[d] = req[d] /\ ent'[d] = ent[d] /\ prev'[d] = prev[d]
  /\ desc'[d] = desc[d] /\ res'[d] = res[d]

LEMMA OthersKept ==
  ASSUME ListInv, NEW c \in Core, NEW d \in Core, d # c, SameCore(d),
         pc[c] \in Locked \/ UNCHANGED <<memory, named>>
  PROVE  Kept(d)'
<1>1. Kept(d)
  BY DEF ListInv
<1>2. CASE pc[c] \in Locked
  <2>1. pc[d] \notin Locked
    BY <1>2 DEF ListInv, Exclusion, Owner
  <2>2. pc[d] \notin {"check", "visit", "record", "place", "free", "clear", "unlock"}
    BY <2>1 DEF Locked
  <2> QED
    BY <1>1, <2>2 DEF Kept, SameCore
<1>3. CASE UNCHANGED <<memory, named>>
  <2>1. Live' = Live
    BY <1>3 DEF Live
  <2> QED
    BY <1>1, <1>3, <2>1 DEF Kept, SameCore, memory, Walking, Describes, PhyAddr
<1> QED
  BY <1>2, <1>3

LEMMA MemorySame ==
  ASSUME ListInv, UNCHANGED <<head, next, size, ents, owned>>
  PROVE  Threaded' /\ Blocks'
<1>1. Threaded'
  BY DEF ListInv, Threaded
<1>2. Blocks'
  BY DEF ListInv, Blocks
<1> QED
  BY <1>1, <1>2

LEMMA NamesSame ==
  ASSUME ListInv, UNCHANGED <<owned, named>>,
         \A d \in Core : /\ pc[d] \in {"clear", "record"} => SameCore(d)
                         /\ pc'[d] = "record" => pc[d] = "record"
  PROVE  NamedKept'
<1>1. Live' = Live
  BY DEF Live
<1> QED
  BY <1>1 DEF ListInv, NamedKept, SameCore

LEMMA OneGoes ==
  ASSUME TypeOK, NEW c \in Core, NEW l, Goto(c, l)
  PROVE  pc'[c] = l /\ \A d \in Core : d # c => pc'[d] = pc[d]
  BY DEF Goto, TypeOK

\* A step of one core that changes neither the memory nor the descriptors.
LEMMA Quiet ==
  ASSUME ListInv, NEW c \in Core, TypeOK', Exclusion', UNCHANGED <<memory, named>>,
         Kept(c)', \A d \in Core : d # c => SameCore(d),
         pc[c] \notin {"clear", "record"}, pc'[c] # "record"
  PROVE  ListInv'
<1>1. UNCHANGED <<head, next, size, ents, owned, named>>
  BY DEF memory
<1>2. Threaded' /\ Blocks'
  BY <1>1, MemorySame
<1>3. NamedKept'
  BY <1>1, NamesSame DEF SameCore
<1>4. \A d \in Core : Kept(d)'
  BY OthersKept
<1> QED
  BY <1>2, <1>3, <1>4 DEF ListInv

LEMMA FindIs ==
  ASSUME TypeOK, NEW n
  PROVE  /\ Find(n) = 0 => \A i \in Live : named[i].name # n
         /\ Find(n) # 0 => Find(n) \in Live /\ named[Find(n)].name = n
         /\ FindUnused # 0 => FindUnused \in 1 .. NumNamed /\ named[FindUnused].size = 0
         /\ Find(n) \in 0 .. NumNamed /\ FindUnused \in 0 .. NumNamed
<1>1. DOMAIN named = 1 .. NumNamed
  BY DEF TypeOK
<1>2. PICK S \in SUBSET (1 .. NumNamed) :
        S = {i \in DOMAIN named : named[i].size # 0 /\ named[i].name = n}
  BY <1>1
<1>3. PICK U \in SUBSET (1 .. NumNamed) : U = {i \in DOMAIN named : named[i].size = 0}
  BY <1>1
<1>4. S \in SUBSET Nat /\ U \in SUBSET Nat /\ 0 \notin S /\ 0 \notin U
  BY NamedAssumption
<1>5. Find(n) = First(S) /\ FindUnused = First(U)
  BY <1>2, <1>3 DEF Find, FindUnused
<1>6. (S = {} => First(S) = 0) /\ (S # {} => First(S) \in S)
  BY <1>4, FirstIs
<1>7. (U = {} => First(U) = 0) /\ (U # {} => First(U) \in U)
  BY <1>4, FirstIs
<1>8. Find(n) = 0 => S = {}
  BY <1>4, <1>5, <1>6
<1>9. Find(n) # 0 => Find(n) \in S
  BY <1>5, <1>6
<1>10. FindUnused # 0 => FindUnused \in U
  BY <1>5, <1>7
<1>11. Find(n) \in 0 .. NumNamed /\ FindUnused \in 0 .. NumNamed
  <2>1. \A i \in S \cup U \cup {0} : i \in 0 .. NumNamed
    BY NamedAssumption
  <2>2. Find(n) \in S \cup {0} /\ FindUnused \in U \cup {0}
    BY <1>5, <1>6, <1>7
  <2> QED
    BY <2>1, <2>2
<1> QED
  BY <1>1, <1>2, <1>3, <1>8, <1>9, <1>10, <1>11 DEF Live

LEMMA EnterList ==
  ASSUME ListInv, NEW c \in Core, NEW r \in Request, Enter(c, r) PROVE ListInv'
<1>1. FirstStep(r) \in {"check", "lookup"} /\ FirstStep(r) \in Locked
  BY DEF FirstStep, Locked
<1>2. TypeOK'
  BY <1>1 DEF ListInv, Enter, TypeOK, Goto, memory, PcValues, Locked
<1>3. Exclusion'
  BY <1>1, OwnerEnters DEF ListInv, Enter
<1>4. pc'[c] = FirstStep(r) /\ \A d \in Core : d # c => SameCore(d)
  BY <1>1 DEF ListInv, Enter, TypeOK, Goto, SameCore
<1>5. Kept(c)'
  BY <1>1, <1>4 DEF ListInv, Enter, TypeOK, Kept, FirstStep, Describes, AllocOps
<1> QED
  BY <1>1, <1>2, <1>3, <1>4, <1>5, Quiet DEF Enter

LEMMA LookupList ==
  ASSUME ListInv, NEW c \in Core, LookupAlloc(c) \/ LookupFree(c) \/ LookupFind(c)
  PROVE  ListInv'
<1> USE DEF LookupAlloc, LookupFree, LookupFind
<1>1. PICK l \in {"unlock", "check", "free"} : Goto(c, l)
  <2>1. CASE LookupAlloc(c)
    BY <2>1
  <2>2. CASE LookupFree(c)
    BY <2>2
  <2>3. CASE LookupFind(c)
    BY <2>3
  <2> QED
    BY <2>1, <2>2, <2>3
<1>2. pc[c] = "lookup" /\ pc[c] \in Locked /\ l \in Locked /\ UNCHANGED lock
  BY DEF Locked
<1>3. Exclusion'
  BY <1>1, <1>2, OwnerStays DEF ListInv
<1>4. /\ pc'[c] = l /\ (\A d \in Core : d # c => pc'[d] = pc[d])
  BY <1>1, OneGoes DEF ListInv
<1>5. /\ UNCHANGED <<lock, memory, named, req, ent, prev, res, total, split, calm>>
      /\ \E i \in 0 .. NumNamed : desc' = [desc EXCEPT ![c] = i]
  BY FindIs DEF ListInv
<1>6. TypeOK'
  <2>1. desc' \in [Core -> 0 .. NumNamed]
    BY <1>5 DEF ListInv, TypeOK
  <2>2. pc' \in [Core -> PcValues]
    BY <1>1 DEF ListInv, TypeOK, Goto, PcValues, Locked
  <2> QED
    BY <1>5, <2>1, <2>2 DEF ListInv, TypeOK, memory
<1>7. \A d \in Core : d # c => SameCore(d)
  BY <1>4, <1>5 DEF ListInv, TypeOK, SameCore
<1>8. Live' = Live
  BY <1>5 DEF Live
<1>9. Kept(c)'
  <2>1. req'[c] = req[c] /\ res'[c] = res[c] /\ prev'[c] = prev[c] /\ res[c] = 0 /\ prev[c] = 0
    BY <1>2, <1>5 DEF ListInv, Kept
  <2>2. CASE LookupAlloc(c)
    <3>1. desc'[c] = FindUnused
      BY <2>2 DEF ListInv, TypeOK
    <3>2. CASE Find(req[c].name) # 0 \/ FindUnused = 0
      <4>1. pc'[c] = "unlock"
        BY <2>2, <3>2 DEF ListInv, TypeOK, Goto
      <4> QED
        BY <4>1, <2>1 DEF Kept
    <3>3. CASE ~(Find(req[c].name) # 0 \/ FindUnused = 0)
      <4>1. pc'[c] = "check" /\ req[c].op = "named"
        BY <2>2, <3>3 DEF ListInv, TypeOK, Goto
      <4>2. Describes(c)'
        BY <3>1, <3>3, <1>5, <1>8, <2>1, FindIs DEF Describes, ListInv
      <4> QED
        BY <4>1, <4>2, <2>1 DEF Kept, AllocOps
    <3> QED
      BY <3>2, <3>3
  <2>3. CASE LookupFree(c)
    <3>1. desc'[c] = Find(req[c].name)
      BY <2>3 DEF ListInv, TypeOK
    <3>2. CASE Find(req[c].name) = 0
      <4>1. pc'[c] = "unlock"
        BY <2>3, <3>2 DEF ListInv, TypeOK, Goto
      <4> QED
        BY <4>1, <2>1 DEF Kept
    <3>3. CASE Find(req[c].name) # 0
      <4>1. pc'[c] = "free"
        BY <2>3, <3>3 DEF ListInv, TypeOK, Goto
      <4>2. desc'[c] # 0 /\ named'[desc'[c]].size # 0
        BY <3>1, <3>3, <1>5, FindIs DEF ListInv, Live
      <4> QED
        BY <4>1, <4>2, <2>1 DEF Kept
    <3> QED
      BY <3>2, <3>3
  <2>4. CASE LookupFind(c)
    <3>1. pc'[c] = "unlock"
      BY <2>4 DEF ListInv, TypeOK, Goto
    <3> QED
      BY <3>1, <2>1 DEF Kept
  <2> QED
    BY <2>2, <2>3, <2>4
<1> QED
  BY <1>2, <1>3, <1>4, <1>5, <1>6, <1>7, <1>9, Quiet

LEMMA CheckList == ASSUME ListInv, NEW c \in Core, Check(c) PROVE ListInv'
<1>1. PICK l \in {"unlock", "visit"} : Goto(c, l)
  BY DEF Check
<1>2. pc[c] = "check" /\ pc[c] \in Locked /\ l \in Locked /\ UNCHANGED lock
  BY DEF Check, Locked
<1>3. Exclusion'
  BY <1>1, <1>2, OwnerStays DEF ListInv
<1>4. pc'[c] = l /\ \A d \in Core : d # c => pc'[d] = pc[d]
  BY <1>1, OneGoes DEF ListInv
<1>5. TypeOK'
  <2>1. pc' \in [Core -> PcValues]
    BY <1>1 DEF ListInv, TypeOK, Goto, PcValues, Locked
  <2>2. ent' \in [Core -> Addr]
    BY DEF Check, ListInv, TypeOK
  <2> QED
    BY <2>1, <2>2 DEF Check, ListInv, TypeOK, memory
<1>6. \A d \in Core : d # c => SameCore(d)
  BY <1>4 DEF Check, ListInv, TypeOK, SameCore
<1>7. Kept(c)'
  <2>1. /\ req'[c] = req[c] /\ res'[c] = 0 /\ prev'[c] = 0 /\ req[c].op \in AllocOps
        /\ Describes(c) /\ UNCHANGED <<desc, named, ents>>
    BY <1>2 DEF Check, ListInv, Kept, memory
  <2>2. Describes(c)'
    <3>1. Live' = Live
      BY <2>1 DEF Live
    <3> QED
      BY <2>1, <3>1 DEF Describes
  <2>3. CASE Rejected(req[c])
    <3>1. pc'[c] = "unlock"
      BY <2>3 DEF Check, ListInv, TypeOK, Goto
    <3> QED
      BY <3>1, <2>1 DEF Kept
  <2>4. CASE ~Rejected(req[c])
    <3>1. pc'[c] = "visit" /\ ent'[c] = head
      BY <2>4 DEF Check, ListInv, TypeOK, Goto
    <3>2. Walking(c)'
      BY <2>1, <3>1 DEF Walking, ListInv, Threaded
    <3> QED
      BY <3>1, <3>2, <2>1, <2>2, <2>4 DEF Kept
  <2> QED
    BY <2>3, <2>4
<1> QED
  BY <1>2, <1>3, <1>4, <1>5, <1>6, <1>7, Quiet DEF Check

\* A step to the next entry of the list.
LEMMA WalkOn ==
  ASSUME ListInv, NEW c \in Core, Walking(c), ent[c] # 0,
         prev' = [prev EXCEPT ![c] = ent[c]], ent' = [ent EXCEPT ![c] = next[ent[c]]],
         UNCHANGED <<ents>>
  PROVE  Walking(c)' /\ prev'[c] = ent[c] /\ ent[c] \in ents
<1>1. ent[c] \in ents
  BY DEF Walking, Succ
<1>2. Succ(ents, ent[c], next[ent[c]])
  BY <1>1 DEF ListInv, Threaded
<1>3. prev'[c] = ent[c] /\ ent'[c] = next[ent[c]]
  BY DEF ListInv, TypeOK
<1> QED
  BY <1>1, <1>2, <1>3 DEF Walking

LEMMA SkipList == ASSUME ListInv, NEW c \in Core, Skip(c) PROVE ListInv'
<1>1. pc[c] = "visit" /\ ent[c] # 0 /\ UNCHANGED <<lock, pc, memory, named, req, desc, res>>
  BY DEF Skip, ListEnds
<1>2. Exclusion'
  <2>1. Owner' = Owner
    BY <1>1 DEF Owner
  <2> QED
    BY <2>1, <1>1 DEF ListInv, Exclusion
<1>3. TypeOK'
  BY DEF Skip, ListInv, TypeOK, memory
<1>4. \A d \in Core : d # c => SameCore(d)
  BY DEF Skip, ListInv, TypeOK, SameCore
<1>5. Kept(c)'
  <2>1. Kept(c) /\ Walking(c) /\ Live' = Live
    BY <1>1 DEF ListInv, Kept, Live
  <2>2. Walking(c)'
    BY <1>1, <2>1, WalkOn DEF Skip, memory
  <2> QED
    BY <1>1, <2>1, <2>2 DEF Kept, Describes
<1> QED
  BY <1>1, <1>2, <1>3, <1>4, <1>5, Quiet

LEMMA NothingFitsList == ASSUME ListInv, NEW c \in Core, NothingFits(c) PROVE ListInv'
<1>1. pc[c] = "visit" /\ pc[c] \in Locked /\ "unlock" \in Locked /\ UNCHANGED lock
  BY DEF NothingFits, Locked
<1>2. Exclusion'
  BY <1>1, OwnerStays DEF ListInv, NothingFits
<1>3. TypeOK'
  BY DEF NothingFits, ListInv, TypeOK, memory, Goto, PcValues, Locked
<1>4. pc'[c] = "unlock" /\ \A d \in Core : d # c => SameCore(d)
  BY DEF NothingFits, ListInv, TypeOK, SameCore, Goto
<1>5. Kept(c)'
  BY <1>4 DEF Kept
<1> QED
  BY <1>1, <1>2, <1>3, <1>4, <1>5, Quiet DEF NothingFits

LEMMA FreeSearchList == ASSUME ListInv, NEW c \in Core, FreeSearch(c) PROVE ListInv'
<1>1. pc[c] = "free" /\ pc[c] \in Locked /\ "place" \in Locked /\ UNCHANGED lock
  BY DEF FreeSearch, Locked
<1>2. Exclusion'
  BY <1>1, OwnerStays DEF ListInv, FreeSearch
<1>3. TypeOK'
  BY DEF FreeSearch, ListInv, TypeOK, memory, Goto, PcValues, Locked
<1>4. pc'[c] = "place" /\ \A d \in Core : d # c => SameCore(d)
  BY DEF FreeSearch, ListInv, TypeOK, SameCore, Goto
<1>5. Kept(c)'
  <2>1. /\ prev'[c] = 0 /\ ent'[c] = head /\ res'[c] = 0 /\ UNCHANGED <<desc, named, ents>>
        /\ desc[c] # 0 /\ named[desc[c]].size # 0
    BY <1>1 DEF FreeSearch, ListInv, Kept, TypeOK, memory
  <2>2. Walking(c)'
    BY <2>1 DEF Walking, ListInv, Threaded
  <2>3. PhyAddr(c)' > 0
    <3>1. desc[c] \in 1 .. NumNamed
      BY <2>1, NamedAssumption DEF ListInv, TypeOK
    <3>2. PhyAddr(c) \in Nat /\ head \in Nat
      BY <3>1, Widths DEF ListInv, TypeOK, PhyAddr
    <3>3. head # 0 /\ ~(PhyAddr(c) < head)
      BY DEF FreeSearch, BeforeHead
    <3>4. PhyAddr(c) > 0
      BY <3>2, <3>3
    <3> QED
      BY <3>4, <2>1 DEF PhyAddr
  <2> QED
    BY <1>4, <2>1, <2>2, <2>3 DEF Kept
<1> QED
  BY <1>1, <1>2, <1>3, <1>4, <1>5, Quiet DEF FreeSearch

LEMMA PlaceList == ASSUME ListInv, NEW c \in Core, Place(c) PROVE ListInv'
<1>1. /\ pc[c] = "place" /\ ent[c] # 0 /\ PhyAddr(c) > ent[c]
      /\ UNCHANGED <<lock, pc, memory, named, req, desc, res>>
  BY DEF Place
<1>2. Exclusion'
  <2>1. Owner' = Owner
    BY <1>1 DEF Owner
  <2> QED
    BY <2>1, <1>1 DEF ListInv, Exclusion
<1>3. TypeOK'
  BY DEF Place, ListInv, TypeOK, memory
<1>4. \A d \in Core : d # c => SameCore(d)
  BY DEF Place, ListInv, TypeOK, SameCore
<1>5. Kept(c)'
  <2>1. Kept(c) /\ Walking(c) /\ PhyAddr(c)' = PhyAddr(c)
    BY <1>1 DEF ListInv, Kept, PhyAddr
  <2>2. Walking(c)' /\ prev'[c] = ent[c]
    BY <1>1, <2>1, WalkOn DEF Place, memory
  <2>3. prev'[c] < PhyAddr(c)
    BY <1>1, <2>2
  <2> QED
    BY <1>1, <2>1, <2>2, <2>3 DEF Kept
<1> QED
  BY <1>1, <1>2, <1>3, <1>4, <1>5, Quiet

LEMMA SumList ==
  ASSUME ListInv, NEW c \in Core,
         \/ \E r \in Request : Available(c, r)
         \/ Sum(c) \/ SumLost(c) \/ SumDone(c)
  PROVE  ListInv'
<1>1. /\ pc[c] \in {"idle", "sum"} /\ pc[c] \notin Locked
      /\ UNCHANGED <<lock, memory, named, prev, desc, res, split>>
  BY DEF Available, Sum, SumLost, SumDone, Locked
<1>2. PICK l \in {"idle", "sum", "lost"} : Goto(c, l)
  <2>1. CASE \E r \in Request : Available(c, r)
    BY <2>1 DEF Available
  <2>2. CASE Sum(c)
    <3>1. pc' = [pc EXCEPT ![c] = "sum"]
      BY <2>2 DEF Sum, ListInv, TypeOK
    <3> QED
      BY <3>1 DEF Goto
  <2>3. CASE SumLost(c)
    BY <2>3 DEF SumLost
  <2>4. CASE SumDone(c)
    BY <2>4 DEF SumDone
  <2> QED
    BY <2>1, <2>2, <2>3, <2>4
<1>3. l \notin Locked
  BY DEF Locked
<1>4. Exclusion'
  BY <1>1, <1>2, <1>3, OtherMoves DEF ListInv
<1>5. pc'[c] = l /\ \A d \in Core : d # c => pc'[d] = pc[d]
  BY <1>2, OneGoes DEF ListInv
<1>6. TypeOK'
  <2>1. pc' \in [Core -> PcValues]
    BY <1>2 DEF ListInv, TypeOK, Goto, PcValues, Locked
  <2>2. ent' \in [Core -> Addr] /\ req' \in [Core -> Request]
    <3>1. \A r \in Request : Available(c, r) => ent' \in [Core -> Addr] /\ req' \in [Core -> Request]
      BY DEF Available, ListInv, TypeOK
    <3>2. NoReq \in Request
      BY RequestAssumption DEF NoReq
    <3>3. Sum(c) => ent' \in [Core -> Addr] /\ req' \in [Core -> Request]
      BY DEF Sum, ListInv, TypeOK
    <3>4. SumLost(c) \/ SumDone(c) => ent' \in [Core -> Addr] /\ req' \in [Core -> Request]
      <4>1. ent \in [Core -> Addr] /\ req \in [Core -> Request]
        BY DEF ListInv, TypeOK
      <4>2. SumLost(c) => ent' \in [Core -> Addr] /\ req' \in [Core -> Request]
        BY <3>2, <4>1 DEF SumLost
      <4>3. SumDone(c) => ent' \in [Core -> Addr] /\ req' \in [Core -> Request]
        BY <3>2, <4>1 DEF SumDone
      <4> QED BY <4>2, <4>3
    <3> QED
      BY <3>1, <3>3, <3>4
  <2>3. total' \in [Core -> Addr]
    <3>1. CASE Sum(c)
      <4>1. size[ent[c]] \in Int /\ total[c] \in Int
        BY Widths DEF ListInv, TypeOK
      <4>2. (total[c] + size[ent[c]]) % Word \in Addr
        BY <4>1, Wraps
      <4> QED
        BY <4>1, <4>2, <3>1 DEF Sum, ListInv, TypeOK
    <3>2. 0 \in Addr
      BY Widths
    <3> QED
      BY <3>1, <3>2 DEF Available, SumLost, SumDone, ListInv, TypeOK
  <2>4. calm' \in [Core -> BOOLEAN]
    BY DEF Available, Sum, SumLost, SumDone, ListInv, TypeOK
  <2> QED
    BY <1>1, <2>1, <2>2, <2>3, <2>4 DEF ListInv, TypeOK, memory
<1>7. \A d \in Core : d # c => SameCore(d)
  <2>1. \A d \in Core : d # c => req'[d] = req[d] /\ ent'[d] = ent[d]
    BY DEF Available, Sum, SumLost, SumDone, ListInv, TypeOK
  <2> QED
    BY <1>1, <1>5, <2>1 DEF SameCore
<1>8. Kept(c)'
  <2>1. res'[c] = 0 /\ prev'[c] = 0
    BY <1>1 DEF ListInv, Kept
  <2> QED
    BY <1>5, <2>1 DEF Kept
<1> QED
  BY <1>1, <1>4, <1>5, <1>6, <1>7, <1>8, Quiet

-----------------------------------------------------------------------------
(* Changes of the list *)

LEMMA SuccRemove ==
  ASSUME NEW E \in SUBSET (Nat \ {0}), NEW e \in E, NEW m \in Nat, Succ(E, e, m),
         NEW a \in Nat, NEW n \in Nat, Succ(E, a, n), a # e
  PROVE  Succ(E \ {e}, a, IF n = e THEN m ELSE n)
<1>1. CASE n = e
  <2>1. a < e /\ \A b \in E : b > a => e <= b
    BY <1>1 DEF Succ
  <2> QED
    BY <1>1, <2>1 DEF Succ
<1>2. CASE n # e
  BY <1>2 DEF Succ
<1> QED
  BY <1>1, <1>2

LEMMA SuccInsert ==
  ASSUME NEW E \in SUBSET (Nat \ {0}), NEW p \in E \cup {0}, NEW q \in Nat, Succ(E, p, q),
         NEW x \in Nat, p < x, q = 0 \/ x < q
  PROVE  /\ Succ(E \cup {x}, x, q)
         /\ \A a \in E \cup {0}, n \in Nat :
              Succ(E, a, n) => Succ(E \cup {x}, a, IF a = p THEN x ELSE n)
<1>1. \A b \in E : b <= p \/ x < b
  BY DEF Succ
<1>2. Succ(E \cup {x}, x, q)
  BY <1>1 DEF Succ
<1>3. ASSUME NEW a \in E \cup {0}, NEW n \in Nat, Succ(E, a, n)
      PROVE  Succ(E \cup {x}, a, IF a = p THEN x ELSE n)
  <2>1. CASE a = p
    BY <1>1, <2>1 DEF Succ
  <2>2. CASE a < p
    <3>1. p \in E /\ n \in E /\ n > a /\ n <= p
      BY <1>3, <2>2 DEF Succ
    <3> QED
      BY <1>3, <2>2, <3>1 DEF Succ
  <2>3. CASE a > p
    <3>1. a > x
      BY <1>1, <2>3
    <3> QED
      BY <1>3, <2>3, <3>1 DEF Succ
  <2> QED
    BY <2>1, <2>2, <2>3
<1> QED
  BY <1>2, <1>3

LEMMA Maximum == ASSUME NEW r \in Request PROVE AddrMax(r) \in Addr
<1>1. r.max \in Addr /\ r.min \in Int /\ ReqSize(r) \in Int /\ Word - 1 \in Addr
  BY Fields, Widths, Sizes
<1>2. (r.min + ReqSize(r)) % Word \in Addr
  BY <1>1, Wraps
<1> QED
  BY <1>1, <1>2 DEF AddrMax

\* What the comparison of a request with an entry amounts to.
LEMMA FitsIs ==
  ASSUME ListInv, NEW r \in Request, NEW e \in ents
  PROVE  /\ e \in Arena /\ e \in Nat /\ size[e] \in Nat /\ e + size[e] < Word
         /\ CanSatisfy(r, e) <=>
              /\ UsableBase(r, e) < e + size[e] /\ e < AddrMax(r)
              /\ ReqSize(r) <= (Smaller(AddrMax(r), e + size[e]) - UsableBase(r, e)) % Word
         /\ UsableBase(r, e) <= AddrMax(r) /\ UsableBase(r, e) < e + size[e] =>
              (Smaller(AddrMax(r), e + size[e]) - UsableBase(r, e)) % Word
                = Smaller(AddrMax(r), e + size[e]) - UsableBase(r, e)
<1>1. e \in Nat /\ size[e] \in Nat /\ Inside(e, size[e])
  BY Widths DEF ListInv, TypeOK, Blocks
<1>2. e \in Arena /\ e + size[e] < Word
  BY <1>1, Bounds
<1>3. (e + size[e]) % Word = e + size[e]
  BY <1>1, <1>2, NoWrap
<1>4. CanSatisfy(r, e) <=>
              /\ UsableBase(r, e) < e + size[e] /\ e < AddrMax(r)
              /\ ReqSize(r) <= (Smaller(AddrMax(r), e + size[e]) - UsableBase(r, e)) % Word
  <2>1. UsableBase(r, e) \in Nat
    BY <1>2, Usable
  <2> QED
    BY <1>1, <1>3, <2>1 DEF CanSatisfy
<1>5. ASSUME UsableBase(r, e) <= AddrMax(r), UsableBase(r, e) < e + size[e]
      PROVE  (Smaller(AddrMax(r), e + size[e]) - UsableBase(r, e)) % Word
                = Smaller(AddrMax(r), e + size[e]) - UsableBase(r, e)
  <2>1. PICK b \in Nat : b = UsableBase(r, e)
    BY <1>2, Usable
  <2>2. PICK m \in Nat : m = Smaller(AddrMax(r), e + size[e])
    BY <1>1, Maximum, Widths DEF Smaller
  <2>3. b <= m /\ m < Word
    BY <1>1, <1>2, <1>5, <2>1, <2>2, Maximum, Widths DEF Smaller
  <2>4. m - b \in Nat /\ m - b < Word
    BY <2>3, Widths
  <2>5. (m - b) % Word = m - b
    BY <2>4, NoWrap
  <2> QED
    BY <2>1, <2>2, <2>5
<1> QED
  BY <1>1, <1>2, <1>4, <1>5

\* An entry whose usable part starts where it does holds the block.
LEMMA TakeFits ==
  ASSUME ListInv, NEW r \in Request, NEW e \in ents, ~Rejected(r),
         CanSatisfy(r, e), UsableBase(r, e) = e
  PROVE  /\ ReqSize(r) > 0 /\ ReqSize(r) <= size[e] /\ e + ReqSize(r) <= AddrMax(r)
         /\ AddrMin(r) <= e /\ e % Alignment(r) = 0
<1>1. ReqSize(r) \in Nat /\ r.size \in Nat /\ r.size <= ReqSize(r) /\ r.size # 0
  BY Sizes, Fields, Widths DEF Rejected
<1>2. AddrMax(r) \in Nat
  BY Maximum, Widths
<1>3. e \in Arena /\ e \in Nat /\ size[e] \in Nat /\ e < e + size[e] /\ e < AddrMax(r)
  BY FitsIs
<1>4. e <= AddrMax(r)
  BY <1>2, <1>3
<1>5. ReqSize(r) <= Smaller(AddrMax(r), e + size[e]) - e
  BY <1>3, <1>4, FitsIs
<1>6. ReqSize(r) <= AddrMax(r) - e /\ ReqSize(r) <= size[e]
  BY <1>1, <1>2, <1>3, <1>5 DEF Smaller
<1>7. AddrMin(r) <= e /\ e % Alignment(r) = 0
  BY <1>3, Usable
<1> QED
  BY <1>1, <1>2, <1>3, <1>6, <1>7

LEMMA VisitsEntry ==
  ASSUME ListInv, NEW c \in Core, pc[c] = "visit", ~ListEnds(ent[c])
  PROVE  /\ ent[c] \in ents /\ prev[c] \in ents \cup {0} /\ Succ(ents, prev[c], ent[c])
         /\ ~Rejected(req[c]) /\ req[c] \in Request /\ ents \in SUBSET (Nat \ {0})
         /\ prev[c] < ent[c] /\ ent[c] \in Addr \ {0} /\ prev[c] \in Nat
         /\ Succ(ents, ent[c], next[ent[c]]) /\ next[ent[c]] \in Nat
<1>1. Walking(c) /\ ~Rejected(req[c]) /\ req[c] \in Request /\ ents \in SUBSET (Nat \ {0})
  BY Widths DEF ListInv, Kept, TypeOK
<1>2. ent[c] # 0
  BY DEF ListEnds
<1>3. ent[c] \in ents /\ prev[c] < ent[c] /\ prev[c] \in ents \cup {0}
  BY <1>1, <1>2 DEF Walking, Succ
<1>4. ent[c] \in Addr \ {0} /\ prev[c] \in Nat
  BY <1>3, Widths DEF ListInv, TypeOK
<1>5. Succ(ents, ent[c], next[ent[c]]) /\ next[ent[c]] \in Nat
  BY <1>3, <1>4, Widths DEF ListInv, Threaded, TypeOK
<1> QED
  BY <1>1, <1>3, <1>4, <1>5 DEF Walking

\* The links nx from h on visit the addresses E in ascending order.
Links(E, h, nx) == Succ(E, 0, h) /\ \A a \in E : Succ(E, a, nx[a])

LEMMA SuccBack ==
  ASSUME NEW E \in SUBSET (Nat \ {0}), NEW a \in E \cup {0}, NEW b \in E \cup {0}, NEW n \in E,
         Succ(E, a, n), Succ(E, b, n)
  PROVE  a = b
  BY DEF Succ

\* The links n1 from h1 are those of nx from h without the entry e after p.
Unlinked(E, h, nx, p, e, h1, n1) ==
  /\ E \in SUBSET (Nat \ {0}) /\ h \in Nat /\ \A a \in E : nx[a] \in Nat
  /\ Links(E, h, nx) /\ e \in E /\ p \in E \cup {0} /\ Succ(E, p, e)
  /\ h1 = IF p = 0 THEN nx[e] ELSE h
  /\ \A a \in E \ {e} : n1[a] = IF a = p THEN nx[e] ELSE nx[a]

\* The links n1 from h1 are those of nx from h with the entry x between p and q.
Linked(E, h, nx, p, x, q, h1, n1) ==
  /\ E \in SUBSET (Nat \ {0}) /\ h \in Nat /\ \A a \in E : nx[a] \in Nat
  /\ Links(E, h, nx) /\ p \in E \cup {0} /\ q \in Nat /\ Succ(E, p, q)
  /\ x \in Nat /\ p < x /\ (q = 0 \/ x < q)
  /\ h1 = IF p = 0 THEN x ELSE h
  /\ n1[x] = q
  /\ \A a \in E : n1[a] = IF a = p THEN x ELSE nx[a]

LEMMA Unlink ==
  ASSUME NEW E, NEW h, NEW nx, NEW p, NEW e, NEW h1, NEW n1, Unlinked(E, h, nx, p, e, h1, n1)
  PROVE  Links(E \ {e}, h1, n1) /\ Succ(E \ {e}, p, nx[e])
<1> USE DEF Unlinked
<1>1. p < e /\ Succ(E, e, nx[e]) /\ nx[e] \in Nat /\ p \in Nat /\ e \in Nat /\ p # e
  BY DEF Succ, Links
<1>2. Succ(E \ {e}, p, nx[e])
  BY <1>1, SuccRemove
<1>3. ASSUME NEW a \in E \cup {0}, a # e, a # p, NEW n \in Nat, Succ(E, a, n)
      PROVE  Succ(E \ {e}, a, n)
  <2>1. n # e
    BY <1>3, SuccBack
  <2>2. a \in Nat
    OBVIOUS
  <2>3. Succ(E \ {e}, a, IF n = e THEN nx[e] ELSE n)
    BY <1>1, <1>3, <2>2, SuccRemove
  <2> QED
    BY <2>1, <2>3
<1>4. Succ(E \ {e}, 0, h1)
  <2>1. CASE p = 0
    BY <1>2, <2>1
  <2>2. CASE p # 0
    BY <1>1, <1>3, <2>2 DEF Links
  <2> QED
    BY <2>1, <2>2
<1>5. ASSUME NEW a \in E \ {e} PROVE Succ(E \ {e}, a, n1[a])
  <2>1. CASE p = a
    BY <1>2, <2>1
  <2>2. CASE p # a
    <3>1. n1[a] = nx[a] /\ nx[a] \in Nat /\ Succ(E, a, nx[a])
      BY <2>2 DEF Links
    <3> QED
      BY <1>3, <2>2, <3>1
  <2> QED
    BY <2>1, <2>2
<1> QED
  BY <1>2, <1>4, <1>5 DEF Links

LEMMA Link ==
  ASSUME NEW E, NEW h, NEW nx, NEW p, NEW x, NEW q, NEW h1, NEW n1,
         Linked(E, h, nx, p, x, q, h1, n1)
  PROVE  Links(E \cup {x}, h1, n1)
<1> USE DEF Linked
<1>1. Succ(E \cup {x}, x, q)
  BY SuccInsert
<1>2. \A a \in E \cup {0}, n \in Nat :
        Succ(E, a, n) => Succ(E \cup {x}, a, IF a = p THEN x ELSE n)
  BY SuccInsert
<1>3. Succ(E \cup {x}, 0, h1)
  BY <1>2 DEF Links
<1>4. \A a \in E : Succ(E \cup {x}, a, n1[a])
  BY <1>2 DEF Links
<1> QED
  BY <1>1, <1>3, <1>4 DEF Links

LEMMA ThreadedLinks == Threaded <=> Links(ents, head, next)
  BY DEF Threaded, Links

-----------------------------------------------------------------------------
(* Taking a block from the list *)

\* What TakeFront changes, with the numbers it computes.
Takes(c, e, s) ==
  /\ e = ent[c] /\ s = ReqSize(req[c])
  /\ s \in Nat /\ 0 < s /\ s <= size[e] /\ s % AlignSize = 0
  /\ e \in ents /\ e \in Nat /\ size[e] \in Nat /\ Inside(e, size[e]) /\ e + size[e] < Word
  /\ prev[c] \in ents \cup {0} /\ prev[c] < e /\ Succ(ents, prev[c], e) /\ next[e] \in Nat
  /\ ents \in SUBSET (Nat \ {0}) /\ \A a \in ents : size[a] \in Nat /\ Inside(a, size[a])
  /\ ents' = (ents \ {e}) \cup (IF s < size[e] THEN {e + s} ELSE {})
  /\ owned' = owned \cup {<<e, s>>}
  /\ s < size[e] => size'[e + s] = size[e] - s
  /\ \A a \in ents \ {e} : size'[a] = size[a]
  /\ e + s \notin ents \ {e} \/ s = size[e]
  /\ s < size[e] => next'[e + s] = next[e]
  /\ head' = IF prev[c] = 0 THEN (IF s < size[e] THEN e + s ELSE next[e]) ELSE head
  /\ \A a \in ents \ {e} : next'[a] = IF a = prev[c] THEN (IF s < size[e] THEN e + s ELSE next[e])
                                                     ELSE next[a]

LEMMA EntriesApart ==
  ASSUME ListInv, NEW a \in ents, NEW b \in ents, a # b
  PROVE  Apart(a, size[a], b, size[b])
<1>1. a \in Nat /\ b \in Nat
  BY Widths DEF ListInv, TypeOK
<1>2. a < b \/ b < a
  BY <1>1
<1> QED
  BY <1>2 DEF ListInv, Blocks, Apart

LEMMA TakesIs ==
  ASSUME ListInv, NEW c \in Core, TakeFront(c)
  PROVE  Takes(c, ent[c], ReqSize(req[c]))
<1>1. PICK e \in Nat, s \in Nat : e = ent[c] /\ s = ReqSize(req[c])
  BY VisitsEntry, Sizes, Widths DEF TakeFront
<1>2. pc[c] = "visit" /\ ~ListEnds(ent[c]) /\ CanSatisfy(req[c], e) /\ UsableBase(req[c], e) = e
  BY <1>1 DEF TakeFront
<1>3. /\ e \in ents /\ prev[c] \in ents \cup {0} /\ Succ(ents, prev[c], e)
      /\ ~Rejected(req[c]) /\ req[c] \in Request /\ ents \in SUBSET (Nat \ {0})
      /\ prev[c] < e /\ e \in Addr \ {0} /\ prev[c] \in Nat
      /\ Succ(ents, e, next[e]) /\ next[e] \in Nat
  BY <1>1, <1>2, VisitsEntry
<1>4. 0 < s /\ s <= size[e] /\ s % AlignSize = 0
  BY <1>1, <1>2, <1>3, TakeFits, Sizes
<1>5. \A a \in ents : size[a] \in Nat /\ Inside(a, size[a])
  BY Widths DEF ListInv, TypeOK, Blocks
<1>6. size[e] \in Nat /\ e + size[e] < Word
  BY <1>3, <1>5, Bounds
<1>7. (e + s) % Word = e + s /\ e + s \in Addr
  BY <1>4, <1>6, NoWrap, Widths
<1>8. s < size[e] => e + s \notin ents
  <2>1. SUFFICES ASSUME s < size[e], e + s \in ents PROVE FALSE
    OBVIOUS
  <2>2. Apart(e, size[e], e + s, size[e + s]) /\ size[e + s] \in Nat /\ size[e + s] > 0
    BY <1>3, <1>4, <1>5, <2>1, EntriesApart DEF Inside
  <2> QED
    BY <2>1, <2>2, <1>4, <1>6 DEF Apart
<1>9. next \in [Addr -> Addr] /\ size \in [Addr -> Addr] /\ ents \subseteq Addr
  BY DEF ListInv, TypeOK
<1>10. CASE s < size[e]
  <2> DEFINE nxt == [next EXCEPT ![e + s] = next[e], ![e] = e + s]
  <2>a. (ent[c] + ReqSize(req[c])) % Word = e + s /\ ReqSize(req[c]) < size[ent[c]]
    BY <1>1, <1>7, <1>10
  <2>b. size' = [size EXCEPT ![e + s] = size[e] - s]
    BY <1>1, <2>a DEF TakeFront
  <2>c. ASSUME prev[c] = 0 PROVE head' = nxt[e] /\ next' = nxt
    BY <1>1, <2>a, <2>c DEF TakeFront
  <2>d. ASSUME prev[c] # 0 PROVE head' = head /\ next' = [nxt EXCEPT ![prev[c]] = nxt[e]]
    BY <1>1, <2>a, <2>d DEF TakeFront
  <2>e. ents' = (ents \ {e}) \cup {e + s} /\ owned' = owned \cup {<<e, s>>}
    BY <1>1, <2>a DEF TakeFront
  <2>1. /\ size' = [size EXCEPT ![e + s] = size[e] - s]
        /\ head' = IF prev[c] = 0 THEN nxt[e] ELSE head
        /\ next' = IF prev[c] = 0 THEN nxt ELSE [nxt EXCEPT ![prev[c]] = nxt[e]]
        /\ ents' = (ents \ {e}) \cup {e + s} /\ owned' = owned \cup {<<e, s>>}
    BY <2>b, <2>c, <2>d, <2>e
  <2>2. nxt[e] = e + s /\ nxt[e + s] = next[e]
        /\ \A a \in ents \ {e} : nxt[a] = next[a]
    BY <1>7, <1>8, <1>9, <1>10, <1>3, <1>4
  <2>3. /\ next'[e + s] = next[e]
        /\ \A a \in ents \ {e} : next'[a] = IF a = prev[c] THEN e + s ELSE next[a]
    BY <2>1, <2>2, <1>3, <1>4, <1>7, <1>9
  <2>4. size'[e + s] = size[e] - s /\ \A a \in ents \ {e} : size'[a] = size[a]
    BY <2>1, <1>7, <1>8, <1>9, <1>10
  <2> HIDE DEF nxt
  <2> QED
    BY <1>1, <1>3, <1>4, <1>5, <1>6, <1>8, <1>10, <2>1, <2>2, <2>3, <2>4 DEF Takes
<1>11. CASE s = size[e]
  <2>1. ~(s < size[e])
    BY <1>11
  <2>2. /\ size' = size
        /\ head' = IF prev[c] = 0 THEN next[e] ELSE head
        /\ next' = IF prev[c] = 0 THEN next ELSE [next EXCEPT ![prev[c]] = next[e]]
        /\ ents' = (ents \ {e}) \cup {} /\ owned' = owned \cup {<<e, s>>}
    BY <1>1, <2>1 DEF TakeFront
  <2>3. \A a \in ents \ {e} : next'[a] = IF a = prev[c] THEN next[e] ELSE next[a]
    BY <2>2, <1>3, <1>9
  <2> QED
    BY <1>1, <1>3, <1>4, <1>5, <1>6, <1>11, <2>1, <2>2, <2>3 DEF Takes
<1> QED
  BY <1>4, <1>6, <1>10, <1>11

LEMMA TakesThreaded ==
  ASSUME ListInv, NEW c \in Core, NEW e, NEW s, Takes(c, e, s)
  PROVE  Threaded'
<1>1. Links(ents, head, next) /\ head \in Nat /\ \A a \in ents : next[a] \in Nat
  BY ThreadedLinks, Widths DEF ListInv, TypeOK
<1>2. PICK h1, n1 : /\ h1 = IF prev[c] = 0 THEN next[e] ELSE head
                    /\ n1 = [a \in ents |-> IF a = prev[c] THEN next[e] ELSE next[a]]
  OBVIOUS
<1>3. Unlinked(ents, head, next, prev[c], e, h1, n1)
  BY <1>1, <1>2 DEF Takes, Unlinked
<1>4. Links(ents \ {e}, h1, n1) /\ Succ(ents \ {e}, prev[c], next[e])
  BY <1>3, Unlink
<1>5. CASE s = size[e]
  <2>1. ents' = ents \ {e} /\ head' = h1 /\ \A a \in ents' : next'[a] = n1[a]
    BY <1>2, <1>5 DEF Takes
  <2> QED
    BY <1>4, <2>1 DEF Threaded, Links
<1>6. CASE s < size[e]
  <2>1. PICK x \in Nat : x = e + s
    BY DEF Takes
  <2>2. /\ ents' = (ents \ {e}) \cup {x} /\ head' = IF prev[c] = 0 THEN x ELSE h1
        /\ next'[x] = next[e]
        /\ \A a \in ents \ {e} : next'[a] = IF a = prev[c] THEN x ELSE n1[a]
    BY <1>2, <1>6, <2>1 DEF Takes
  <2>3. next[e] = 0 \/ x < next[e]
    <3>1. next[e] = 0 \/ (next[e] \in ents /\ e < next[e])
      BY <1>1 DEF Links, Succ, Takes
    <3>2. next[e] \in ents /\ e < next[e] => e + size[e] <= next[e]
      BY DEF ListInv, Blocks, Takes
    <3> QED
      BY <1>6, <2>1, <3>1, <3>2 DEF Takes
  <2>4. prev[c] \in (ents \ {e}) \cup {0} /\ prev[c] < x /\ ents \ {e} \in SUBSET (Nat \ {0})
    <3>1. /\ prev[c] < e /\ e \in Nat /\ s \in Nat /\ prev[c] \in ents \cup {0}
          /\ ents \in SUBSET (Nat \ {0})
      BY DEF Takes
    <3>2. prev[c] \in Nat
      BY Widths DEF ListInv, TypeOK
    <3> QED
      BY <2>1, <3>1, <3>2
  <2>5. next[e] \in Nat /\ h1 \in Nat /\ \A a \in ents \ {e} : n1[a] \in Nat
    <3>1. next[e] \in Nat
      BY <1>1 DEF Takes
    <3> QED
      BY <1>1, <1>2, <3>1
  <2>6. Linked(ents \ {e}, h1, n1, prev[c], x, next[e], head', next')
    BY <1>4, <2>2, <2>3, <2>4, <2>5 DEF Linked
  <2>7. Links((ents \ {e}) \cup {x}, head', next')
    BY <2>6, Link
  <2> QED
    BY <2>2, <2>7 DEF Threaded, Links
<1> QED
  BY <1>5, <1>6 DEF Takes

LEMMA InsideParts ==
  ASSUME NEW a \in Nat, NEW s \in Nat, NEW t \in Nat, Inside(a, s), 0 < t, t % AlignSize = 0
  PROVE  /\ t <= s => Inside(a, t)
         /\ t < s => Inside(a + t, s - t)
<1>1. \A x \in Nat : a <= x /\ x < a + s => x \in Arena
  BY Bounds
<1>2. a % AlignSize = 0 /\ s % AlignSize = 0 /\ AlignSize \in Nat \ {0}
  BY Widths DEF Inside
<1>3. (a + t) % AlignSize = 0 /\ (s - t) % AlignSize = 0
  <2>1. a \in Int /\ s \in Int /\ t \in Int
    OBVIOUS
  <2>2. (a + t) % AlignSize = 0
    BY <1>2, <2>1, ModSum
  <2>3. (s - t) % AlignSize = 0
    BY <1>2, <2>1, ModSum
  <2> QED
    BY <2>2, <2>3
<1>4. ASSUME t <= s PROVE Inside(a, t)
  BY <1>1, <1>2, <1>4 DEF Inside, Cells
<1>5. ASSUME t < s PROVE Inside(a + t, s - t)
  <2>1. Cells(a + t, s - t) \subseteq Arena
    BY <1>1, <1>5 DEF Cells
  <2> QED
    BY <1>3, <1>5, <2>1 DEF Inside
<1> QED
  BY <1>4, <1>5

\* The blocks handed out, as numbers.
LEMMA OwnedAre ==
  ASSUME TypeOK, NEW o \in owned
  PROVE  o[1] \in Nat /\ o[2] \in Nat /\ o[1] > 0 /\ o[2] > 0 /\ o = <<o[1], o[2]>>
         /\ o[1] \in Addr \ {0} /\ o[2] \in Addr \ {0}
  BY Widths DEF TypeOK

LEMMA TakesBlocks ==
  ASSUME ListInv, NEW c \in Core, NEW e, NEW s, Takes(c, e, s)
  PROVE  Blocks'
<1>1. /\ e \in ents /\ e \in Nat /\ s \in Nat /\ size[e] \in Nat /\ 0 < s /\ s <= size[e]
      /\ Inside(e, size[e]) /\ s % AlignSize = 0
      /\ owned' = owned \cup {<<e, s>>}
  BY DEF Takes
<1>2. Inside(e, s) /\ (s < size[e] => Inside(e + s, size[e] - s))
  BY <1>1, InsideParts
<1>3. \A a \in ents' : \/ a \in ents /\ a # e /\ size'[a] = size[a]
                       \/ a = e + s /\ s < size[e] /\ size'[a] = size[e] - s
  BY DEF Takes
<1>4. \A o \in owned' : o \in owned \/ (o = <<e, s>> /\ o[1] = e /\ o[2] = s)
  BY <1>1
<1>5. /\ \A a \in ents : a \in Nat /\ size[a] \in Nat /\ size[a] > 0
      /\ \A o \in owned : o[1] \in Nat /\ o[2] \in Nat /\ o[2] > 0
  BY Widths DEF ListInv, TypeOK, Blocks, Inside
<1>6. Blocks
  BY DEF ListInv
<1>7. \A a \in ents' : Inside(a, size'[a])
  BY <1>2, <1>3, <1>6 DEF Blocks
<1>8. \A o \in owned' : Inside(o[1], o[2])
  BY <1>2, <1>4, <1>6 DEF Blocks
<1>9. \A a, b \in ents' : a < b => a + size'[a] <= b
  <2>1. \A a \in ents : a < e => a + size[a] <= e
    BY <1>1, <1>6 DEF Blocks
  <2>2. \A a \in ents : e < a => e + size[e] <= a
    BY <1>1, <1>6 DEF Blocks
  <2>3. SUFFICES ASSUME NEW a \in ents', NEW b \in ents', a < b PROVE a + size'[a] <= b
    OBVIOUS
  <2>4. CASE a = e + s /\ s < size[e] /\ size'[a] = size[e] - s
    <3>1. b \in ents /\ b # e
      BY <1>1, <1>3, <2>3, <2>4
    <3> QED
      BY <1>1, <1>5, <2>2, <2>3, <2>4, <3>1
  <2>5. CASE a \in ents /\ a # e /\ size'[a] = size[a]
    <3>1. CASE b \in ents
      BY <1>6, <2>3, <2>5, <3>1 DEF Blocks
    <3>2. CASE b = e + s /\ s < size[e]
      <4>1. a < e \/ e < a
        BY <1>1, <1>5, <2>5
      <4> QED
        BY <1>1, <1>5, <2>1, <2>2, <2>3, <2>5, <3>2, <4>1
    <3> QED
      BY <1>3, <3>1, <3>2
  <2> QED
    BY <1>3, <2>4, <2>5
<1>10. \A a \in ents', o \in owned' : Apart(a, size'[a], o[1], o[2])
  <2>1. SUFFICES ASSUME NEW a \in ents', NEW o \in owned' PROVE Apart(a, size'[a], o[1], o[2])
    OBVIOUS
  <2>2. CASE a = e + s /\ s < size[e] /\ size'[a] = size[e] - s
    <3>1. CASE o \in owned
      <4>1. Apart(e, size[e], o[1], o[2])
        BY <1>1, <1>6, <3>1 DEF Blocks
      <4> QED
        BY <1>1, <1>5, <2>2, <3>1, <4>1 DEF Apart
    <3>2. CASE o[1] = e /\ o[2] = s
      BY <1>1, <2>2, <3>2 DEF Apart
    <3> QED
      BY <1>4, <3>1, <3>2
  <2>3. CASE a \in ents /\ a # e /\ size'[a] = size[a]
    <3>1. CASE o \in owned
      BY <1>6, <2>3, <3>1 DEF Blocks
    <3>2. CASE o[1] = e /\ o[2] = s
      <4>1. Apart(a, size[a], e, size[e])
        BY <1>1, <2>3, EntriesApart
      <4> QED
        BY <1>1, <1>5, <2>3, <3>2, <4>1 DEF Apart
    <3> QED
      BY <1>4, <3>1, <3>2
  <2> QED
    BY <1>3, <2>2, <2>3
<1>11. \A o, q \in owned' : o = q \/ Apart(o[1], o[2], q[1], q[2])
  <2>1. \A o \in owned : Apart(o[1], o[2], e, s) /\ Apart(e, s, o[1], o[2])
    <3>1. SUFFICES ASSUME NEW o \in owned
                   PROVE  Apart(o[1], o[2], e, s) /\ Apart(e, s, o[1], o[2])
      OBVIOUS
    <3>2. Apart(e, size[e], o[1], o[2])
      BY <1>1, <1>6 DEF Blocks
    <3> QED
      BY <1>1, <1>5, <3>2 DEF Apart
  <2> QED
    BY <1>4, <1>6, <2>1 DEF Blocks
<1>12. ASSUME NEW x \in Arena
       PROVE  \/ \E a \in ents' : a <= x /\ x < a + size'[a]
              \/ \E o \in owned' : o[1] <= x /\ x < o[1] + o[2]
  <2>1. x \in Nat
    BY ArenaBounds
  <2>2. CASE \E o \in owned : o[1] <= x /\ x < o[1] + o[2]
    BY <1>1, <2>2
  <2>3. CASE e <= x /\ x < e + size[e]
    <3>1. CASE x < e + s
      <4>1. <<e, s>> \in owned' /\ <<e, s>>[1] = e /\ <<e, s>>[2] = s
        BY <1>1
      <4> QED
        BY <4>1, <2>3, <3>1
    <3>2. CASE ~(x < e + s)
      <4>1. s < size[e] /\ e + s <= x /\ x < (e + s) + (size[e] - s)
        BY <1>1, <2>1, <2>3, <3>2
      <4>2. e + s \in ents' /\ size'[e + s] = size[e] - s
        BY <4>1 DEF Takes
      <4> QED
        BY <4>1, <4>2
    <3> QED
      BY <3>1, <3>2
  <2>4. CASE \E a \in ents \ {e} : a <= x /\ x < a + size[a]
    <3>1. \A a \in ents \ {e} : a \in ents' /\ size'[a] = size[a]
      BY DEF Takes
    <3> QED
      BY <2>4, <3>1
  <2> QED
    BY <1>6, <2>2, <2>3, <2>4 DEF Blocks
<1> QED
  BY <1>7, <1>8, <1>9, <1>10, <1>11, <1>12 DEF Blocks

\* The base of a live descriptor is not inside the free entry e.
LEMMA NamedElsewhere ==
  ASSUME ListInv, NEW e \in ents, NEW i \in Live, \A d \in Core : pc[d] # "clear"
  PROVE  named[i].base # e
<1>1. <<named[i].base, named[i].size>> \in owned
  BY DEF ListInv, NamedKept
<1>2. PICK b, z : b = named[i].base /\ z = named[i].size
  OBVIOUS
<1>3. PICK o \in owned : o = <<b, z>>
  BY <1>1, <1>2
<1>4. o[1] \in Nat /\ o[2] \in Nat /\ o[2] > 0 /\ o[1] = b
  BY <1>3, OwnedAre DEF ListInv
<1>5. Apart(e, size[e], o[1], o[2])
  BY DEF ListInv, Blocks
<1>6. size[e] \in Nat /\ size[e] > 0 /\ e \in Nat
  BY Widths DEF ListInv, TypeOK, Blocks, Inside
<1> QED
  BY <1>2, <1>4, <1>5, <1>6 DEF Apart

\* Only the owner of the lock is anywhere in a locked call.
LEMMA OnlyOwner ==
  ASSUME ListInv, NEW c \in Core, pc[c] \in Locked, NEW d \in Core, pc[d] \in Locked
  PROVE  d = c
  BY DEF ListInv, Exclusion, Owner

LEMMA DisturbType == ASSUME TypeOK, Disturb PROVE calm' \in [Core -> BOOLEAN]
  BY DEF Disturb, TypeOK

LEMMA TakeFrontList == ASSUME ListInv, NEW c \in Core, TakeFront(c) PROVE ListInv'
<1>1. PICK e, s : e = ent[c] /\ s = ReqSize(req[c]) /\ Takes(c, e, s)
  BY TakesIs
<1>2. PICK l \in {"record", "unlock"} :
        Goto(c, l) /\ l = IF req[c].op = "named" THEN "record" ELSE "unlock"
  BY DEF TakeFront
<1>3. /\ pc[c] = "visit" /\ pc[c] \in Locked /\ l \in Locked /\ res' = [res EXCEPT ![c] = e]
      /\ UNCHANGED <<lock, named, req, ent, prev, desc, total, split>> /\ Disturb
  BY <1>1 DEF TakeFront, Locked
<1>4. Exclusion'
  BY <1>2, <1>3, OwnerStays DEF ListInv
<1>5. pc'[c] = l /\ \A d \in Core : d # c => pc'[d] = pc[d]
  BY <1>2, OneGoes DEF ListInv
<1>6. res'[c] = e /\ e # 0 /\ e \in Addr /\ \A d \in Core : d # c => SameCore(d)
  BY <1>1, <1>3, <1>5, VisitsEntry DEF ListInv, TypeOK, SameCore, TakeFront
<1>7. Threaded' /\ Blocks'
  BY <1>1, TakesThreaded, TakesBlocks
<1>8. TypeOK'
  <2>1. pc' \in [Core -> PcValues]
    BY <1>2 DEF ListInv, TypeOK, Goto, PcValues, Locked
  <2>2. res' \in [Core -> Addr]
    BY <1>3, <1>6 DEF ListInv, TypeOK
  <2>3. calm' \in [Core -> BOOLEAN]
    BY <1>3, DisturbType DEF ListInv
  <2>4. /\ e + s \in Nat /\ e + s <= e + size[e] /\ e + size[e] < Word /\ e + s > 0
        /\ next[e] \in Nat /\ e \in Nat /\ s \in Nat /\ s > 0 /\ s < Word /\ size[e] \in Nat
    <3>1. /\ next[e] \in Nat /\ e \in Nat /\ s \in Nat /\ s > 0 /\ size[e] \in Nat
          /\ s <= size[e] /\ e + size[e] < Word
      BY <1>1 DEF Takes
    <3> QED
      BY <3>1, Widths
  <2>5. e + s \in Addr \ {0} /\ s \in Addr \ {0} /\ size[e] - s \in Addr
    BY <2>4, Widths
  <2>6. ents' \in SUBSET (Addr \ {0}) /\ owned' \in SUBSET ((Addr \ {0}) \X (Addr \ {0}))
    <3>1. /\ ents' = (ents \ {e}) \cup (IF s < size[e] THEN {e + s} ELSE {})
          /\ owned' = owned \cup {<<e, s>>}
      BY <1>1 DEF Takes
    <3>2. ents' \subseteq ents \cup {e + s}
      BY <3>1
    <3>3. <<e, s>> \in (Addr \ {0}) \X (Addr \ {0})
      BY <1>6, <2>5
    <3> QED
      BY <3>1, <3>2, <3>3, <2>5 DEF ListInv, TypeOK
  <2>7. (e + s) % Word = e + s
    <3>1. e + s < Word
      BY <2>4, Widths
    <3> QED
      BY <2>4, <3>1, NoWrap
  <2>8. size' \in [Addr -> Addr]
    BY <1>1, <2>5, <2>7 DEF TakeFront, ListInv, TypeOK
  <2>9. next[e] \in Addr /\ prev[c] \in Addr /\ head \in Addr
    BY <1>6 DEF ListInv, TypeOK
  <2>10. next' \in [Addr -> Addr] /\ head' \in Addr
    <3>1. PICK nxt \in [Addr -> Addr] :
            nxt = IF s < size[e] THEN [next EXCEPT ![(e + s) % Word] = next[e], ![e] = (e + s) % Word]
                                 ELSE next
      <4>1. next \in [Addr -> Addr]
        BY DEF ListInv, TypeOK
      <4>2. [next EXCEPT ![(e + s) % Word] = next[e], ![e] = (e + s) % Word] \in [Addr -> Addr]
        BY <4>1, <2>5, <2>7, <2>9
      <4> QED
        BY <4>1, <4>2
    <3>2. CASE prev[c] = 0
      <4>1. next' = nxt /\ head' = nxt[e]
        BY <1>1, <3>1, <3>2 DEF TakeFront
      <4> QED
        BY <4>1, <1>6
    <3>3. CASE prev[c] # 0
      <4>1. next' = [nxt EXCEPT ![prev[c]] = nxt[e]] /\ head' = head
        BY <1>1, <3>1, <3>3 DEF TakeFront
      <4> QED
        BY <4>1, <1>6, <2>9
    <3> QED
      BY <3>2, <3>3
  <2> QED
    <3>1. cuts' \subseteq ents'
      BY DEF TakeFront
    <3> QED
      BY <1>3, <2>1, <2>2, <2>3, <2>6, <2>8, <2>10, <3>1 DEF ListInv, TypeOK
<1>9. \A d \in Core : Kept(d)'
  <2>1. Kept(c)'
    <3>1. Describes(c)' /\ req'[c].op \in AllocOps
      <4>1. Live' = Live
        BY <1>3 DEF Live
      <4> QED
        BY <1>3, <4>1 DEF ListInv, Kept, Describes
    <3> QED
      BY <1>2, <1>3, <1>5, <1>6, <3>1 DEF Kept
  <2> QED
    BY <2>1, <1>3, <1>6, OthersKept
<1>10. NamedKept'
  <2>1. \A d \in Core : pc[d] \notin {"clear", "record"} /\ pc'[d] # "clear"
        /\ (pc'[d] = "record" => d = c)
    <3>1. \A d \in Core : d # c => pc[d] \notin Locked
      BY <1>3, OnlyOwner
    <3> QED
      BY <1>3, <1>5, <3>1 DEF Locked
  <2>2. Live' = Live /\ named' = named
    BY <1>3 DEF Live
  <2>3. \A i \in Live : <<named[i].base, named[i].size>> \in owned
    BY <2>1 DEF ListInv, NamedKept
  <2>4. \A i \in Live : <<named[i].base, named[i].size>> \in owned'
    BY <1>1, <2>3 DEF Takes
  <2>5. \A i \in Live : named[i].base # e
    BY <1>1, <2>1, NamedElsewhere DEF Takes
  <2>6. \A i, j \in Live : i # j => named[i].name # named[j].name /\ named[i].base # named[j].base
    BY DEF ListInv, NamedKept
  <2> QED
    BY <1>6, <2>1, <2>2, <2>4, <2>5, <2>6 DEF NamedKept
<1> QED
  BY <1>4, <1>7, <1>8, <1>9, <1>10 DEF ListInv

-----------------------------------------------------------------------------
(* Cutting an entry in two *)

\* What SplitFront changes, with the numbers it computes.
Splits(c, e, t) ==
  /\ e = ent[c] /\ e + t = UsableBase(req[c], e)
  /\ t \in Nat /\ 0 < t /\ t < size[e] /\ t % AlignSize = 0
  /\ e \in ents /\ e \in Nat /\ size[e] \in Nat /\ Inside(e, size[e]) /\ e + size[e] < Word
  /\ next[e] \in Nat /\ ents \in SUBSET (Nat \ {0}) /\ e + t \notin ents /\ e + t \in Addr
  /\ ents' = ents \cup {e + t} /\ owned' = owned /\ head' = head
  /\ size'[e + t] = size[e] - t /\ size'[e] = t
  /\ \A a \in ents \ {e} : size'[a] = size[a]
  /\ next'[e + t] = next[e] /\ next'[e] = e + t
  /\ \A a \in ents \ {e} : next'[a] = next[a]

LEMMA SplitsIs ==
  ASSUME ListInv, NEW c \in Core, SplitFront(c)
  PROVE  \E t \in Nat : Splits(c, ent[c], t)
<1>1. pc[c] = "visit" /\ ~ListEnds(ent[c])
  BY DEF SplitFront
<1>2. PICK e \in ents : e = ent[c]
  BY <1>1, VisitsEntry
<1>3. /\ req[c] \in Request /\ ents \in SUBSET (Nat \ {0}) /\ next[e] \in Nat /\ e \in Addr
  BY <1>1, <1>2, VisitsEntry
<1>4. CanSatisfy(req[c], e) /\ UsableBase(req[c], e) # e
  BY <1>2 DEF SplitFront
<1>5. /\ e \in Arena /\ e \in Nat /\ size[e] \in Nat /\ e + size[e] < Word
      /\ UsableBase(req[c], e) < e + size[e]
  BY <1>3, <1>4, FitsIs
<1>6. PICK b \in Nat : b = UsableBase(req[c], e)
  BY <1>3, <1>5, Usable
<1>7. e < b /\ b < e + size[e] /\ b % AlignSize = 0
  BY <1>3, <1>4, <1>5, <1>6, Usable
<1>8. PICK t \in Nat : t = b - e /\ b = e + t
  BY <1>5, <1>7
<1>9. Inside(e, size[e])
  BY DEF ListInv, Blocks
<1>10. t % AlignSize = 0
  <2>1. b \in Int /\ e \in Int /\ e % AlignSize = 0 /\ AlignSize \in Nat \ {0}
    BY <1>5, <1>9, Widths DEF Inside
  <2> QED
    BY <1>7, <1>8, <2>1, ModSum
<1>11. 0 < t /\ t < size[e] /\ b \in Addr
  BY <1>5, <1>7, <1>8, Widths
<1>12. b \notin ents
  <2>1. SUFFICES ASSUME b \in ents PROVE FALSE
    OBVIOUS
  <2>2. e + size[e] <= b
    BY <1>7, <2>1 DEF ListInv, Blocks
  <2> QED
    BY <1>5, <1>7, <2>2
<1>13. next \in [Addr -> Addr] /\ size \in [Addr -> Addr] /\ ents \subseteq Addr
  BY DEF ListInv, TypeOK
<1>14. /\ next' = [next EXCEPT ![b] = next[e], ![e] = b]
       /\ size' = [size EXCEPT ![b] = size[e] - (b - e), ![e] = b - e]
       /\ ents' = ents \cup {b} /\ owned' = owned /\ head' = head
  BY <1>2, <1>6 DEF SplitFront
<1>15. size[e] - (b - e) = size[e] - t
  BY <1>8
<1>16. size'[b] = size[e] - t /\ size'[e] = t /\ \A a \in ents \ {e} : size'[a] = size[a]
  BY <1>3, <1>7, <1>8, <1>11, <1>12, <1>13, <1>14, <1>15
<1>17. next'[b] = next[e] /\ next'[e] = b /\ \A a \in ents \ {e} : next'[a] = next[a]
  BY <1>3, <1>7, <1>11, <1>12, <1>13, <1>14
<1>18. Splits(c, e, t)
  BY <1>2, <1>3, <1>5, <1>6, <1>8, <1>9, <1>10, <1>11, <1>12, <1>14, <1>16, <1>17 DEF Splits
<1> QED
  BY <1>2, <1>18

LEMMA SplitsThreaded ==
  ASSUME ListInv, NEW c \in Core, NEW e, NEW t, Splits(c, e, t)
  PROVE  Threaded' /\ Succ(ents', e, e + t)
<1>1. Links(ents, head, next) /\ head \in Nat /\ \A a \in ents : next[a] \in Nat
  BY ThreadedLinks, Widths DEF ListInv, TypeOK
<1>2. PICK x \in Nat : x = e + t
  BY DEF Splits
<1>3. next[e] = 0 \/ x < next[e]
  <2>1. next[e] = 0 \/ (next[e] \in ents /\ e < next[e])
    BY <1>1 DEF Links, Succ, Splits
  <2>2. next[e] \in ents /\ e < next[e] => e + size[e] <= next[e]
    BY DEF ListInv, Blocks, Splits
  <2> QED
    BY <1>2, <2>1, <2>2 DEF Splits
<1>4. /\ ents' = ents \cup {x} /\ head' = head /\ e \in ents /\ e # 0 /\ e < x
      /\ next'[x] = next[e] /\ \A a \in ents : next'[a] = IF a = e THEN x ELSE next[a]
  <2>1. /\ ents' = ents \cup {x} /\ head' = head /\ e \in ents /\ ents \in SUBSET (Nat \ {0})
        /\ next'[x] = next[e] /\ next'[e] = x /\ t > 0 /\ e \in Nat /\ t \in Nat
    BY <1>2 DEF Splits
  <2>2. \A a \in ents \ {e} : next'[a] = next[a]
    BY DEF Splits
  <2> QED
    BY <1>2, <2>1, <2>2
<1>5. Linked(ents, head, next, e, x, next[e], head', next')
  BY <1>1, <1>3, <1>4 DEF Linked, Splits, Links
<1>6. Links(ents \cup {x}, head', next')
  BY <1>5, Link
<1> QED
  BY <1>2, <1>4, <1>6 DEF Threaded, Links

LEMMA SplitsBlocks ==
  ASSUME ListInv, NEW c \in Core, NEW e, NEW t, Splits(c, e, t)
  PROVE  Blocks'
<1>1. /\ e \in ents /\ e \in Nat /\ t \in Nat /\ size[e] \in Nat /\ 0 < t /\ t < size[e]
      /\ Inside(e, size[e]) /\ t % AlignSize = 0 /\ owned' = owned
  BY DEF Splits
<1>2. Inside(e, t) /\ Inside(e + t, size[e] - t)
  <2>1. t <= size[e]
    BY <1>1
  <2> QED
    BY <1>1, <2>1, InsideParts
<1>3. \A a \in ents' : \/ a \in ents /\ a # e /\ size'[a] = size[a]
                       \/ a = e /\ size'[a] = t
                       \/ a = e + t /\ size'[a] = size[e] - t
  BY DEF Splits
<1>4. /\ \A a \in ents : a \in Nat /\ size[a] \in Nat /\ size[a] > 0
      /\ \A o \in owned : o[1] \in Nat /\ o[2] \in Nat /\ o[2] > 0
  BY Widths DEF ListInv, TypeOK, Blocks, Inside
<1>5. Blocks
  BY DEF ListInv
<1>6. \A a \in ents' : Inside(a, size'[a])
  BY <1>2, <1>3, <1>5 DEF Blocks
<1>7. \A o \in owned' : Inside(o[1], o[2])
  BY <1>1, <1>5 DEF Blocks
<1>8. \A a, b \in ents' : a < b => a + size'[a] <= b
  <2>1. \A a \in ents : a < e => a + size[a] <= e
    BY <1>1, <1>5 DEF Blocks
  <2>2. \A a \in ents : e < a => e + size[e] <= a
    BY <1>1, <1>5 DEF Blocks
  <2>3. SUFFICES ASSUME NEW a \in ents', NEW b \in ents', a < b PROVE a + size'[a] <= b
    OBVIOUS
  <2>4. CASE a = e + t /\ size'[a] = size[e] - t
    <3>1. b \in ents /\ e < b
      BY <1>1, <1>3, <1>4, <2>3, <2>4
    <3> QED
      BY <1>1, <1>4, <2>2, <2>4, <3>1
  <2>5. CASE a = e /\ size'[a] = t
    <3>1. b \in ents \/ b = e + t
      BY <1>1, <1>3
    <3> QED
      BY <1>1, <1>4, <2>2, <2>3, <2>5, <3>1
  <2>6. CASE a \in ents /\ a # e /\ size'[a] = size[a]
    <3>1. CASE b \in ents
      BY <1>5, <2>3, <2>6, <3>1 DEF Blocks
    <3>2. CASE b = e + t
      <4>1. a < e \/ e < a
        BY <1>1, <1>4, <2>6
      <4> QED
        BY <1>1, <1>4, <2>1, <2>2, <2>3, <2>6, <3>2, <4>1
    <3> QED
      BY <1>1, <1>3, <3>1, <3>2
  <2> QED
    BY <1>3, <2>4, <2>5, <2>6
<1>9. \A a \in ents', o \in owned' : Apart(a, size'[a], o[1], o[2])
  <2>1. SUFFICES ASSUME NEW a \in ents', NEW o \in owned PROVE Apart(a, size'[a], o[1], o[2])
    BY <1>1
  <2>2. Apart(e, size[e], o[1], o[2])
    BY <1>1, <1>5 DEF Blocks
  <2>3. CASE a = e + t /\ size'[a] = size[e] - t
    BY <1>1, <1>4, <2>2, <2>3 DEF Apart
  <2>4. CASE a = e /\ size'[a] = t
    BY <1>1, <1>4, <2>2, <2>4 DEF Apart
  <2>5. CASE a \in ents /\ a # e /\ size'[a] = size[a]
    BY <1>5, <2>5 DEF Blocks
  <2> QED
    BY <1>3, <2>3, <2>4, <2>5
<1>10. \A o, q \in owned' : o = q \/ Apart(o[1], o[2], q[1], q[2])
  BY <1>1, <1>5 DEF Blocks
<1>11. ASSUME NEW x \in Arena
       PROVE  \/ \E a \in ents' : a <= x /\ x < a + size'[a]
              \/ \E o \in owned' : o[1] <= x /\ x < o[1] + o[2]
  <2>1. x \in Nat
    BY ArenaBounds
  <2>2. CASE \E o \in owned : o[1] <= x /\ x < o[1] + o[2]
    BY <1>1, <2>2
  <2>3. CASE e <= x /\ x < e + size[e]
    <3>1. e \in ents' /\ size'[e] = t /\ e + t \in ents' /\ size'[e + t] = size[e] - t
      BY DEF Splits
    <3>2. CASE x < e + t
      BY <2>3, <3>1, <3>2
    <3>3. CASE ~(x < e + t)
      <4>1. e + t <= x /\ x < (e + t) + (size[e] - t)
        BY <1>1, <2>1, <2>3, <3>3
      <4> QED
        BY <3>1, <4>1
    <3> QED
      BY <3>2, <3>3
  <2>4. CASE \E a \in ents \ {e} : a <= x /\ x < a + size[a]
    <3>1. \A a \in ents \ {e} : a \in ents' /\ size'[a] = size[a]
      BY DEF Splits
    <3> QED
      BY <2>4, <3>1
  <2> QED
    BY <1>5, <2>2, <2>3, <2>4 DEF Blocks
<1> QED
  BY <1>6, <1>7, <1>8, <1>9, <1>10, <1>11 DEF Blocks

LEMMA SplitFrontList == ASSUME ListInv, NEW c \in Core, SplitFront(c) PROVE ListInv'
<1>a. PICK t \in Nat : Splits(c, ent[c], t)
  BY SplitsIs
<1>1. PICK e : e = ent[c] /\ Splits(c, e, t)
  BY <1>a
<1>2. /\ pc[c] = "visit" /\ UNCHANGED <<lock, head, owned, named, pc, req, desc, res, total>>
      /\ Disturb
  BY DEF SplitFront
<1>3. PICK x \in Addr : x = e + t /\ e \in ents /\ e \in Addr /\ e # 0 /\ x # 0
  BY <1>1, Widths DEF Splits
<1>4. prev' = [prev EXCEPT ![c] = e] /\ ent' = [ent EXCEPT ![c] = x]
  <2>1. x = UsableBase(req[c], ent[c])
    BY <1>1, <1>3 DEF Splits
  <2> QED
    BY <1>1, <2>1 DEF SplitFront
<1>5. Exclusion'
  <2>1. Owner' = Owner
    BY <1>2 DEF Owner
  <2> QED
    BY <2>1, <1>2 DEF ListInv, Exclusion
<1>6. \A d \in Core : d # c => SameCore(d)
  BY <1>2, <1>4 DEF ListInv, TypeOK, SameCore
<1>7. Threaded' /\ Blocks' /\ Succ(ents', e, x)
  BY <1>1, <1>3, SplitsThreaded, SplitsBlocks
<1>8. TypeOK'
  <2>1. calm' \in [Core -> BOOLEAN] /\ split' \in [Core -> BOOLEAN]
    BY <1>2, DisturbType DEF ListInv, TypeOK, SplitFront
  <2>2. prev' \in [Core -> Addr] /\ ent' \in [Core -> Addr]
    BY <1>3, <1>4 DEF ListInv, TypeOK
  <2>3. ents' \in SUBSET (Addr \ {0})
    BY <1>1, <1>3 DEF ListInv, TypeOK, Splits
  <2>4. x = UsableBase(req[c], ent[c]) /\ size[e] - t \in Addr /\ t \in Addr /\ x - e = t
        /\ size[e] - (x - e) \in Addr
    <3>1. x = UsableBase(req[c], ent[c]) /\ e \in Nat /\ t < size[e] /\ size[e] \in Addr
      BY <1>1, <1>3 DEF Splits, ListInv, TypeOK
    <3>2. x - e = t /\ t \in Nat /\ size[e] \in Nat /\ size[e] < Word
      <4>1. x - e = t
        BY <1>3, <3>1
      <4>2. size[e] \in Nat /\ size[e] < Word
        BY <3>1, Widths
      <4> QED
        BY <4>1, <4>2
    <3>3. size[e] - t \in Nat /\ size[e] - t < Word /\ t < Word
      BY <3>1, <3>2, Widths
    <3>4. size[e] - t \in Addr /\ t \in Addr
      BY <3>2, <3>3, Widths
    <3> QED
      BY <3>1, <3>2, <3>4
  <2>5. size' = [size EXCEPT ![x] = size[e] - (x - e), ![e] = x - e]
        /\ next' = [next EXCEPT ![x] = next[e], ![e] = x]
    BY <1>1, <2>4 DEF SplitFront
  <2>6. size' \in [Addr -> Addr]
    BY <2>4, <2>5 DEF ListInv, TypeOK
  <2>7. next' \in [Addr -> Addr]
    BY <1>3, <2>5 DEF ListInv, TypeOK
  <2> QED
    <3>1. cuts' \subseteq ents'
      BY DEF SplitFront, ListInv, TypeOK
    <3> QED
      BY <1>2, <2>1, <2>2, <2>3, <2>6, <2>7, <3>1 DEF ListInv, TypeOK
<1>9. \A d \in Core : Kept(d)'
  <2>1. Kept(c)'
    <3>1. Walking(c)'
      <4>1. prev'[c] = e /\ ent'[c] = x /\ e \in ents'
        BY <1>1, <1>3, <1>4 DEF ListInv, TypeOK, Splits
      <4> QED
        BY <4>1, <1>7 DEF Walking
    <3>2. Live' = Live /\ Kept(c)
      BY <1>2 DEF Live, ListInv
    <3> QED
      BY <1>2, <3>1, <3>2 DEF Kept, Describes
  <2>2. pc[c] \in Locked
    BY <1>2 DEF Locked
  <2> QED
    BY <2>1, <2>2, <1>6, OthersKept
<1>10. NamedKept'
  BY <1>2, <1>6, NamesSame DEF SameCore
<1> QED
  BY <1>5, <1>7, <1>8, <1>9, <1>10 DEF ListInv

-----------------------------------------------------------------------------
(* Descriptors, and the return to the caller *)

LEMMA NoReqIs == NoReq \in Request /\ NoReq.name \in Names
<1>1. NoReq \in Request
  BY RequestAssumption DEF NoReq
<1> QED
  BY <1>1, Fields

LEMMA RecordList ==
  ASSUME ListInv, MeetsRequest, NEW c \in Core, Record(c) PROVE ListInv'
<1>1. /\ pc[c] = "record" /\ pc[c] \in Locked /\ "unlock" \in Locked /\ Goto(c, "unlock")
      /\ UNCHANGED <<lock, head, next, size, ents, owned, cuts, req, ent, prev, desc, res>>
      /\ UNCHANGED <<total, split, calm>>
  BY DEF Record, Locked, memory
<1>2. Exclusion'
  BY <1>1, OwnerStays DEF ListInv
<1>3. pc'[c] = "unlock" /\ \A d \in Core : d # c => SameCore(d)
  BY <1>1 DEF ListInv, TypeOK, SameCore, Goto
<1>4. PICK i, b, s, n : i = desc[c] /\ b = res[c] /\ s = ReqSize(req[c]) /\ n = req[c].name
  OBVIOUS
<1>5. /\ i # 0 /\ i \in 1 .. NumNamed /\ named[i].size = 0 /\ b # 0 /\ req[c].op = "named"
      /\ \A j \in Live : named[j].name # n /\ named[j].base # b
  <2>1. req[c].op = "named" /\ res[c] # 0 /\ Describes(c)
    BY <1>1 DEF ListInv, Kept
  <2>2. i # 0 /\ named[i].size = 0 /\ b # 0 /\ \A j \in Live : named[j].name # n
    BY <1>4, <2>1 DEF Describes
  <2>3. i \in 1 .. NumNamed
    BY <1>4, <2>2, NamedAssumption DEF ListInv, TypeOK
  <2>4. \A j \in Live : named[j].base # b
    BY <1>1, <1>4 DEF ListInv, NamedKept
  <2> QED
    BY <2>1, <2>2, <2>3, <2>4
<1>6. <<b, s>> \in owned
  BY <1>4, <1>5 DEF MeetsRequest
<1>7. b \in Addr \ {0} /\ s \in Addr \ {0} /\ n \in Names
  <2>1. req[c] \in Request
    BY DEF ListInv, TypeOK
  <2> QED
    BY <1>4, <1>6, <2>1, Fields DEF ListInv, TypeOK
<1>8. named' = [named EXCEPT ![i] = [base |-> b, size |-> s, name |-> n]]
  BY <1>4 DEF Record
<1>9. named'[i].base = b /\ named'[i].size = s /\ named'[i].name = n
      /\ \A j \in 1 .. NumNamed : j # i => named'[j] = named[j]
  BY <1>5, <1>8 DEF ListInv, TypeOK
<1>10. TypeOK'
  <2>1. named' \in [1 .. NumNamed -> [base : Addr, size : Addr, name : Names]]
    BY <1>7, <1>8 DEF ListInv, TypeOK
  <2>2. pc' \in [Core -> PcValues]
    BY <1>1 DEF ListInv, TypeOK, Goto, PcValues, Locked
  <2> QED
    BY <1>1, <2>1, <2>2 DEF ListInv, TypeOK
<1>11. Threaded' /\ Blocks'
  BY <1>1, MemorySame
<1>12. \A d \in Core : Kept(d)'
  <2>1. Kept(c)'
    BY <1>3 DEF Kept
  <2> QED
    BY <2>1, <1>1, <1>3, OthersKept
<1>13. NamedKept'
  <2>1. \A d \in Core : d # c => pc[d] \notin Locked
    BY <1>1, OnlyOwner
  <2>2. \A d \in Core : pc[d] # "clear" /\ pc'[d] \notin {"clear", "record"}
    BY <1>1, <1>3, <2>1 DEF SameCore, Locked
  <2>3. \A j \in Live' : j = i \/ (j \in Live /\ named'[j] = named[j])
    BY <1>9 DEF Live
  <2>4. \A j \in Live : <<named[j].base, named[j].size>> \in owned
    BY <2>2 DEF ListInv, NamedKept
  <2>5. \A j \in Live' : <<named'[j].base, named'[j].size>> \in owned'
    BY <1>1, <1>6, <1>9, <2>3, <2>4
  <2>6. ASSUME NEW j \in Live', NEW k \in Live', j # k
        PROVE  named'[j].name # named'[k].name /\ named'[j].base # named'[k].base
    <3>1. \A m \in Live : named[m].name # n /\ named[m].base # b
      BY <1>5
    <3>2. CASE j \in Live /\ k \in Live /\ named'[j] = named[j] /\ named'[k] = named[k]
      BY <2>6, <3>2 DEF ListInv, NamedKept
    <3>3. CASE j = i
      BY <1>9, <2>3, <2>6, <3>1, <3>3
    <3>4. CASE k = i
      BY <1>9, <2>3, <2>6, <3>1, <3>4
    <3> QED
      BY <2>3, <3>2, <3>3, <3>4
  <2> QED
    BY <2>2, <2>5, <2>6 DEF NamedKept
<1> QED
  BY <1>2, <1>10, <1>11, <1>12, <1>13 DEF ListInv

LEMMA ClearList == ASSUME ListInv, NEW c \in Core, Clear(c) PROVE ListInv'
<1>1. /\ pc[c] = "clear" /\ pc[c] \in Locked /\ "unlock" \in Locked /\ Goto(c, "unlock")
      /\ UNCHANGED <<lock, head, next, size, ents, owned, cuts, req, ent, prev, desc, res>>
      /\ UNCHANGED <<total, split, calm>>
  BY DEF Clear, Locked, memory
<1>2. Exclusion'
  BY <1>1, OwnerStays DEF ListInv
<1>3. pc'[c] = "unlock" /\ \A d \in Core : d # c => SameCore(d)
  BY <1>1 DEF ListInv, TypeOK, SameCore, Goto
<1>4. PICK i : i = desc[c]
  OBVIOUS
<1>5. i \in 1 .. NumNamed
  BY <1>1, <1>4, NamedAssumption DEF ListInv, TypeOK, Kept
<1>6. named' = [named EXCEPT ![i] = Unused]
  BY <1>4 DEF Clear
<1>7. Unused \in [base : Addr, size : Addr, name : Names] /\ Unused.size = 0
  BY NoReqIs, Widths DEF Unused
<1>8. named'[i] = Unused /\ \A j \in 1 .. NumNamed : j # i => named'[j] = named[j]
  BY <1>5, <1>6 DEF ListInv, TypeOK
<1>9. TypeOK'
  <2>1. named' \in [1 .. NumNamed -> [base : Addr, size : Addr, name : Names]]
    BY <1>6, <1>7 DEF ListInv, TypeOK
  <2>2. pc' \in [Core -> PcValues]
    BY <1>1 DEF ListInv, TypeOK, Goto, PcValues, Locked
  <2> QED
    BY <1>1, <2>1, <2>2 DEF ListInv, TypeOK
<1>10. Threaded' /\ Blocks'
  BY <1>1, MemorySame
<1>11. \A d \in Core : Kept(d)'
  <2>1. Kept(c)'
    BY <1>3 DEF Kept
  <2> QED
    BY <2>1, <1>1, <1>3, OthersKept
<1>12. NamedKept'
  <2>1. \A d \in Core : d # c => pc[d] \notin Locked
    BY <1>1, OnlyOwner
  <2>2. \A d \in Core : (pc[d] = "clear" => d = c) /\ pc'[d] # "record"
    BY <1>1, <1>3, <2>1 DEF SameCore, Locked
  <2>3. \A j \in Live' : j # i /\ j \in Live /\ named'[j] = named[j]
    BY <1>7, <1>8 DEF Live
  <2>4. \A j \in Live' : <<named[j].base, named[j].size>> \in owned
    BY <1>4, <2>2, <2>3 DEF ListInv, NamedKept
  <2>5. \A j, k \in Live' : j # k => /\ named'[j].name # named'[k].name
                                     /\ named'[j].base # named'[k].base
    BY <2>3 DEF ListInv, NamedKept
  <2> QED
    BY <1>1, <2>2, <2>3, <2>4, <2>5 DEF NamedKept
<1> QED
  BY <1>2, <1>9, <1>10, <1>11, <1>12 DEF ListInv

\* What the caller writes to the block he got is no header of the list.
LEMMA UnlockWrites ==
  ASSUME ListInv, MeetsRequest, NEW c \in Core, Unlock(c)
  PROVE  \A a \in ents : next'[a] = next[a] /\ size'[a] = size[a]
<1>1. PICK mine : mine = IF res[c] = 0 THEN {} ELSE Cells(res[c], ReqSize(req[c]))
  OBVIOUS
<1>2. /\ next' = [a \in Addr |-> IF a \in mine THEN Junk ELSE next[a]]
      /\ size' = [a \in Addr |-> IF a \in mine THEN Junk ELSE size[a]]
  BY <1>1 DEF Unlock
<1>3. \A a \in ents : a \notin mine /\ a \in Addr
  <2>1. SUFFICES ASSUME NEW a \in ents, a \in mine, a \in Addr PROVE FALSE
    BY DEF ListInv, TypeOK
  <2>2. PICK b, s : b = res[c] /\ s = ReqSize(req[c])
    OBVIOUS
  <2>3. b # 0 /\ a \in Cells(b, s) /\ <<b, s>> \in owned
    BY <1>1, <2>1, <2>2 DEF MeetsRequest
  <2>4. PICK o \in owned : o = <<b, s>>
    BY <2>3
  <2>5. b \in Nat /\ s \in Nat /\ o[1] = b /\ o[2] = s
    BY <2>4, OwnedAre DEF ListInv
  <2>6. Apart(a, size[a], b, s)
    BY <2>4, <2>5 DEF ListInv, Blocks
  <2>7. a \in Nat /\ size[a] \in Nat /\ size[a] > 0
    BY Widths DEF ListInv, TypeOK, Blocks, Inside
  <2>8. b <= a /\ a < b + s
    BY <2>3, <2>5, <2>7 DEF Cells
  <2> QED
    BY <2>5, <2>6, <2>7, <2>8 DEF Apart
<1> QED
  BY <1>2, <1>3

LEMMA UnlockList ==
  ASSUME ListInv, MeetsRequest, NEW c \in Core, Unlock(c) PROVE ListInv'
<1>1. /\ pc[c] = "unlock" /\ pc[c] \in Locked /\ lock' = FALSE /\ Goto(c, "idle")
      /\ UNCHANGED <<head, ents, owned, cuts, named, total, calm>>
  BY DEF Unlock, Locked
<1>2. Exclusion'
  BY <1>1, OwnerLeaves DEF ListInv
<1>3. pc'[c] = "idle" /\ \A d \in Core : d # c => SameCore(d)
  BY <1>1 DEF ListInv, TypeOK, SameCore, Goto, Unlock
<1>4. \A a \in ents : next'[a] = next[a] /\ size'[a] = size[a]
  BY UnlockWrites
<1>5. TypeOK'
  <2>1. Junk \in Addr /\ 0 \in Addr /\ 0 \in 0 .. NumNamed
    BY Widths, NamedAssumption DEF Junk
  <2>2. next' \in [Addr -> Addr]
    BY <2>1 DEF ListInv, TypeOK, Unlock
  <2>3. size' \in [Addr -> Addr]
    BY <2>1 DEF ListInv, TypeOK, Unlock
  <2>4. pc' \in [Core -> PcValues]
    BY <1>1 DEF ListInv, TypeOK, Goto, PcValues, Locked
  <2>5. /\ req' \in [Core -> Request] /\ ent' \in [Core -> Addr] /\ prev' \in [Core -> Addr]
        /\ desc' \in [Core -> 0 .. NumNamed] /\ res' \in [Core -> Addr]
        /\ split' \in [Core -> BOOLEAN]
    BY <2>1, NoReqIs DEF ListInv, TypeOK, Unlock
  <2> QED
    BY <1>1, <2>2, <2>3, <2>4, <2>5 DEF ListInv, TypeOK
<1>6. Threaded'
  BY <1>1, <1>4 DEF ListInv, Threaded
<1>7. Blocks'
  BY <1>1, <1>4 DEF ListInv, Blocks
<1>8. \A d \in Core : Kept(d)'
  <2>1. res'[c] = 0 /\ prev'[c] = 0
    BY DEF ListInv, TypeOK, Unlock
  <2>2. Kept(c)'
    BY <1>3, <2>1 DEF Kept
  <2> QED
    BY <2>2, <1>1, <1>3, OthersKept
<1>9. NamedKept'
  BY <1>1, <1>3, NamesSame DEF SameCore
<1> QED
  BY <1>2, <1>5, <1>6, <1>7, <1>8, <1>9 DEF ListInv

-----------------------------------------------------------------------------
(* Giving a block back *)

JoinPrev(b, p)   == p # 0 /\ p + size[p] = b
JoinCur(b, z, q) == q # 0 /\ b + z = q

\* The block b of size z belongs between the entries p and q.
Between(b, z, p, q) ==
  /\ b \in Nat /\ z \in Nat /\ b > 0 /\ z > 0 /\ <<b, z>> \in owned /\ Inside(b, z)
  /\ p \in ents \cup {0} /\ q \in ents \cup {0} /\ p \in Nat /\ q \in Nat /\ Succ(ents, p, q)
  /\ p < b /\ b + z < Word
  /\ p # 0 => size[p] \in Nat /\ p + size[p] <= b
  /\ q # 0 => size[q] \in Nat /\ b + z <= q /\ q + size[q] < Word

\* What Insert changes, with the numbers it computes.
Frees(b, z, p, q, at, n) ==
  /\ Between(b, z, p, q)
  /\ at = (IF JoinPrev(b, p) THEN p ELSE b)
  /\ n = z + (IF JoinPrev(b, p) THEN size[p] ELSE 0) + (IF JoinCur(b, z, q) THEN size[q] ELSE 0)
  /\ ents' = (ents \ (IF JoinCur(b, z, q) THEN {q} ELSE {})) \cup {at}
  /\ owned' = owned \ {<<b, z>>}
  /\ size'[at] = n /\ \A a \in ents \ {at} : size'[a] = size[a]
  /\ head' = (IF p = 0 THEN b ELSE head)
  /\ next'[at] = (IF JoinCur(b, z, q) THEN next[q] ELSE q)
  /\ \A a \in ents \ {at} : next'[a] = IF a = p THEN b ELSE next[a]
  /\ size' \in [Addr -> Addr] /\ next' \in [Addr -> Addr] /\ head' \in Addr
  /\ at \in Addr \ {0} /\ cuts' = cuts \cap ents'

LEMMA OwnedPlace ==
  ASSUME ListInv, NEW b, NEW z, <<b, z>> \in owned,
         NEW p \in ents \cup {0}, NEW q \in ents \cup {0}, Succ(ents, p, q), p < b, q = 0 \/ b <= q
  PROVE  Between(b, z, p, q)
<1>1. PICK o \in owned : o = <<b, z>>
  OBVIOUS
<1>2. b \in Nat /\ z \in Nat /\ b > 0 /\ z > 0 /\ o[1] = b /\ o[2] = z
  BY <1>1, OwnedAre DEF ListInv
<1>3. Inside(b, z) /\ \A a \in ents : Apart(a, size[a], b, z)
  BY <1>1, <1>2 DEF ListInv, Blocks
<1>4. b + z < Word
  BY <1>2, <1>3, Bounds
<1>5. \A a \in ents : a \in Nat /\ size[a] \in Nat /\ size[a] > 0 /\ a + size[a] < Word
  <2>1. \A a \in ents : a \in Nat /\ size[a] \in Nat /\ Inside(a, size[a])
    BY Widths DEF ListInv, TypeOK, Blocks
  <2> QED
    BY <2>1, Bounds
<1>6. p \in Nat /\ q \in Nat
  BY <1>5
<1>7. ASSUME p # 0 PROVE size[p] \in Nat /\ p + size[p] <= b
  <2>1. p \in ents /\ Apart(p, size[p], b, z) /\ size[p] \in Nat
    BY <1>3, <1>5, <1>7
  <2> QED
    BY <1>2, <1>6, <2>1 DEF Apart
<1>8. ASSUME q # 0 PROVE size[q] \in Nat /\ b + z <= q /\ q + size[q] < Word
  <2>1. q \in ents /\ Apart(q, size[q], b, z) /\ size[q] \in Nat /\ size[q] > 0 /\ b <= q
    BY <1>3, <1>5, <1>8
  <2> QED
    BY <1>2, <1>5, <1>6, <2>1 DEF Apart
<1> QED
  BY <1>2, <1>3, <1>4, <1>6, <1>7, <1>8 DEF Between

LEMMA FreesIs ==
  ASSUME ListInv, NEW c \in Core, NEW b, NEW z, b = PhyAddr(c), z = BlockSize(c),
         NEW p, NEW q, Between(b, z, p, q), Insert(c, p, q)
  PROVE  \E at, n \in Nat : Frees(b, z, p, q, at, n)
<1>1. /\ b \in Nat /\ z \in Nat /\ b > 0 /\ z > 0
      /\ p \in ents \cup {0} /\ q \in ents \cup {0} /\ p \in Nat /\ q \in Nat
      /\ p < b /\ b + z < Word
  BY DEF Between
<1>2. ASSUME p # 0 PROVE size[p] \in Nat /\ p + size[p] <= b /\ (p + size[p]) % Word = p + size[p]
  <2>1. size[p] \in Nat /\ p + size[p] <= b
    BY <1>2 DEF Between
  <2>2. p + size[p] \in Nat /\ p + size[p] < Word
    BY <1>1, <2>1, Widths
  <2> QED
    BY <2>1, <2>2, NoWrap
<1>3. ASSUME q # 0 PROVE size[q] \in Nat /\ b + z <= q /\ q + size[q] < Word
  BY <1>3 DEF Between
<1>4. (b + z) % Word = b + z
  BY <1>1, NoWrap
<1>5. PICK jp \in BOOLEAN, jc \in BOOLEAN : jp = JoinPrev(b, p) /\ jc = JoinCur(b, z, q)
  BY DEF JoinPrev, JoinCur
<1>6. jp <=> (p # 0 /\ (p + size[p]) % Word = b)
  BY <1>2, <1>5 DEF JoinPrev
<1>7. jc <=> (q # 0 /\ (b + z) % Word = q)
  BY <1>4, <1>5 DEF JoinCur
<1>8. PICK sp \in Nat : sp = IF jp THEN size[p] ELSE 0
  BY <1>2, <1>6
<1>9. PICK sq \in Nat : sq = IF jc THEN size[q] ELSE 0
  BY <1>3, <1>7
<1>10. PICK n \in Nat : n = z + sp + sq
  BY <1>1
<1>11. PICK at \in Nat : at = IF jp THEN p ELSE b
  BY <1>1
<1>12. at + n < Word /\ at > 0
  <2>a. jp => p # 0 /\ p + size[p] = b
    BY <1>5, Zenon DEF JoinPrev
  <2>b. jc => q # 0 /\ b + z = q
    BY <1>5, Zenon DEF JoinCur
  <2>1. at + sp = b /\ at > 0
    <3>1. CASE jp
      <4>1. at = p /\ sp = size[p] /\ p # 0 /\ p + size[p] = b
        BY <1>8, <1>11, <2>a, <3>1
      <4> QED
        BY <1>1, <4>1
    <3>2. CASE ~jp
      <4>1. at = b /\ sp = 0
        BY <1>8, <1>11, <3>2
      <4> QED
        BY <1>1, <4>1
    <3> QED
      BY <3>1, <3>2
  <2>2. b + z + sq < Word
    <3>1. CASE jc
      <4>1. sq = size[q] /\ q # 0 /\ b + z = q
        BY <1>9, <2>b, <3>1
      <4> QED
        BY <1>1, <1>3, <4>1
    <3>2. CASE ~jc
      <4>1. sq = 0
        BY <1>9, <3>2
      <4> QED
        BY <1>1, <4>1
    <3> QED
      BY <3>1, <3>2
  <2> QED
    BY <1>1, <1>10, <2>1, <2>2, Widths
<1>13. n % Word = n /\ at \in Addr \ {0} /\ n \in Addr
  <2>1. n < Word /\ at < Word
    BY <1>12, Widths
  <2> QED
    BY <1>12, <2>1, NoWrap, Widths
<1>14. next \in [Addr -> Addr] /\ size \in [Addr -> Addr] /\ head \in Addr /\ ents \subseteq Addr \ {0}
  BY DEF ListInv, TypeOK
<1>15. PICK after \in Addr : after = IF jc THEN next[q] ELSE q
  <2>1. q \in Addr
    BY <1>1, <1>14, Widths
  <2> QED
    BY <1>14, <2>1
<1>16. b \in Addr /\ p \in Addr
  BY <1>1, Widths
<1>17. size' = [size EXCEPT ![at] = n]
  <2>1. size' = [size EXCEPT ![at] = (z + sp + sq) % Word]
    BY <1>6, <1>7, <1>8, <1>9, <1>11 DEF Insert
  <2> QED
    BY <1>10, <1>13, <2>1
<1>18. next' = IF p = 0 \/ jp THEN [next EXCEPT ![at] = after]
                              ELSE [[next EXCEPT ![at] = after] EXCEPT ![p] = b]
  BY <1>6, <1>7, <1>11, <1>15 DEF Insert
<1>19. /\ head' = (IF p = 0 THEN b ELSE head)
       /\ ents' = (ents \ (IF jc THEN {q} ELSE {})) \cup {at}
       /\ owned' = owned \ {<<b, z>>}
  BY <1>6, <1>7, <1>11 DEF Insert
<1>20. size'[at] = n /\ (\A a \in ents \ {at} : size'[a] = size[a]) /\ size' \in [Addr -> Addr]
  BY <1>13, <1>14, <1>17
<1>21. /\ next'[at] = after /\ next' \in [Addr -> Addr]
       /\ \A a \in ents \ {at} : next'[a] = IF a = p THEN b ELSE next[a]
  <2>1. CASE p = 0 \/ jp
    <3>1. next' = [next EXCEPT ![at] = after]
      BY <1>18, <2>1
    <3>2. \A a \in ents \ {at} : a # p
      BY <1>11, <1>14, <2>1
    <3> QED
      BY <3>1, <3>2, <1>13, <1>14
  <2>2. CASE ~(p = 0 \/ jp)
    <3>1. next' = [[next EXCEPT ![at] = after] EXCEPT ![p] = b]
      BY <1>18, <2>2
    <3>2. at # p
      BY <1>1, <1>11, <2>2
    <3> QED
      BY <3>1, <3>2, <1>13, <1>14, <1>16
  <2> QED
    BY <2>1, <2>2
<1>22. head' \in Addr
  BY <1>14, <1>16, <1>19
<1>23. Frees(b, z, p, q, at, n)
  <2>1. cuts' = cuts \cap ents'
    BY DEF Insert
  <2> QED
    BY <1>5, <1>8, <1>9, <1>10, <1>11, <1>13, <1>15, <1>19, <1>20, <1>21, <1>22, <2>1 DEF Frees
<1> QED
  BY <1>23

LEMMA FreesThreaded ==
  ASSUME ListInv, NEW b, NEW z, NEW p, NEW q, NEW at, NEW n, Frees(b, z, p, q, at, n)
  PROVE  Threaded'
<1>1. /\ Links(ents, head, next) /\ head \in Nat /\ (\A a \in ents : next[a] \in Nat)
      /\ ents \in SUBSET (Nat \ {0})
  BY ThreadedLinks, Widths DEF ListInv, TypeOK
<1>2. /\ b \in Nat /\ z \in Nat /\ z > 0 /\ p \in ents \cup {0} /\ q \in ents \cup {0}
      /\ p \in Nat /\ q \in Nat /\ Succ(ents, p, q) /\ p < b /\ (q = 0 \/ b < q)
  <2>1. Between(b, z, p, q)
    BY DEF Frees
  <2>2. /\ b \in Nat /\ z \in Nat /\ z > 0 /\ p \in ents \cup {0} /\ q \in ents \cup {0}
        /\ p \in Nat /\ q \in Nat /\ Succ(ents, p, q) /\ p < b /\ (q # 0 => b + z <= q)
    BY <2>1 DEF Between
  <2> QED
    BY <2>2
<1>3. b \notin ents
  <2>1. SUFFICES ASSUME b \in ents PROVE FALSE
    OBVIOUS
  <2>2. q # 0 /\ q <= b
    BY <1>2, <2>1 DEF Succ
  <2> QED
    BY <1>2, <2>2
<1>4. CASE JoinCur(b, z, q)
  <2>1. q \in ents /\ q # 0 /\ next'[at] = next[q] /\ ents' = (ents \ {q}) \cup {at}
    BY <1>2, <1>4 DEF JoinCur, Frees
  <2>2. PICK h1, n1 : /\ h1 = IF p = 0 THEN next[q] ELSE head
                      /\ n1 = [a \in ents |-> IF a = p THEN next[q] ELSE next[a]]
    OBVIOUS
  <2>3. Unlinked(ents, head, next, p, q, h1, n1)
    BY <1>1, <1>2, <2>1, <2>2 DEF Unlinked
  <2>4. Links(ents \ {q}, h1, n1) /\ Succ(ents \ {q}, p, next[q])
    BY <2>3, Unlink
  <2>5. p # q /\ p < q /\ q \in Nat
    BY <1>2, <2>1
  <2>6. CASE JoinPrev(b, p)
    <3>1. at = p /\ p # 0 /\ p \in ents
      BY <1>2, <2>6 DEF JoinPrev, Frees
    <3>2. ents' = ents \ {q} /\ head' = h1
      BY <2>1, <2>2, <2>5, <3>1 DEF Frees
    <3>3. \A a \in ents \ {q} : next'[a] = n1[a]
      BY <2>1, <2>2, <3>1 DEF Frees
    <3> QED
      BY <2>4, <3>2, <3>3 DEF Threaded, Links
  <2>7. CASE ~JoinPrev(b, p)
    <3>1. at = b /\ head' = (IF p = 0 THEN b ELSE h1)
      BY <2>2, <2>7 DEF Frees
    <3>2. \A a \in ents \ {q} : next'[a] = IF a = p THEN b ELSE n1[a]
      BY <1>3, <2>2, <3>1 DEF Frees
    <3>3. next[q] \in Nat /\ (next[q] = 0 \/ b < next[q])
      <4>1. next[q] = 0 \/ q < next[q]
        BY <1>1, <2>1 DEF Links, Succ
      <4>2. next[q] \in Nat
        BY <1>1, <2>1
      <4> QED
        BY <1>2, <2>1, <2>5, <4>1, <4>2
    <3>4. h1 \in Nat /\ \A a \in ents \ {q} : n1[a] \in Nat
      BY <1>1, <2>2, <3>3
    <3>5. p \in (ents \ {q}) \cup {0} /\ ents \ {q} \in SUBSET (Nat \ {0})
      BY <1>1, <1>2, <2>5
    <3>6. Linked(ents \ {q}, h1, n1, p, b, next[q], head', next')
      BY <1>2, <2>1, <2>4, <3>1, <3>2, <3>3, <3>4, <3>5 DEF Linked
    <3>7. Links((ents \ {q}) \cup {b}, head', next')
      BY <3>6, Link
    <3> QED
      BY <2>1, <3>1, <3>7 DEF Threaded, Links
  <2> QED
    BY <2>6, <2>7
<1>5. CASE ~JoinCur(b, z, q)
  <2>1. next'[at] = q /\ ents' = ents \cup {at}
    BY <1>5 DEF Frees
  <2>2. CASE JoinPrev(b, p)
    <3>1. at = p /\ p # 0 /\ p \in ents
      BY <1>2, <2>2 DEF JoinPrev, Frees
    <3>2. next[p] = q
      <4>1. next[p] \in Nat /\ Succ(ents, p, next[p])
        BY <1>1, <3>1 DEF Links
      <4> QED
        BY <1>1, <1>2, <4>1, SuccUnique
    <3>3. ents' = ents /\ head' = head
      BY <2>1, <3>1 DEF Frees
    <3>4. \A a \in ents : next'[a] = next[a]
      BY <2>1, <3>1, <3>2 DEF Frees
    <3> QED
      BY <1>1, <3>3, <3>4 DEF Threaded, Links
  <2>3. CASE ~JoinPrev(b, p)
    <3>1. at = b /\ head' = (IF p = 0 THEN b ELSE head)
      BY <2>3 DEF Frees
    <3>2. \A a \in ents : next'[a] = IF a = p THEN b ELSE next[a]
      BY <1>3, <3>1 DEF Frees
    <3>3. Linked(ents, head, next, p, b, q, head', next')
      BY <1>1, <1>2, <2>1, <3>1, <3>2 DEF Linked
    <3>4. Links(ents \cup {b}, head', next')
      BY <3>3, Link
    <3> QED
      BY <2>1, <3>1, <3>4 DEF Threaded, Links
  <2> QED
    BY <2>2, <2>3
<1> QED
  BY <1>4, <1>5

\* The new entry is made of the block and of the neighbours it touches.
LEMMA FreesMakes ==
  ASSUME ListInv, NEW b, NEW z, NEW p, NEW q, NEW at, NEW n, Frees(b, z, p, q, at, n)
  PROVE  /\ at \in Nat /\ n \in Nat /\ at <= b /\ b + z <= at + n /\ n > 0
         /\ \/ at = p /\ p # 0 /\ p \in ents /\ p + size[p] = b /\ size[p] \in Nat
            \/ at = b /\ (p = 0 \/ p + size[p] < b)
         /\ \/ q # 0 /\ q \in ents /\ b + z = q /\ at + n = q + size[q] /\ size[q] \in Nat /\ q \notin ents'
            \/ at + n = b + z /\ (q = 0 \/ b + z < q)
         /\ \A a \in ents' : a = at \/ (a \in ents /\ a # at /\ size'[a] = size[a])
         /\ \A a \in ents : a \in ents' \/ (a = q /\ b + z = q)
         /\ at \in ents' /\ size'[at] = n
<1>1. /\ b \in Nat /\ z \in Nat /\ z > 0 /\ p \in ents \cup {0} /\ q \in ents \cup {0}
      /\ p \in Nat /\ q \in Nat /\ p < b
      /\ (p # 0 => size[p] \in Nat /\ p + size[p] <= b)
      /\ (q # 0 => size[q] \in Nat /\ b + z <= q)
  BY DEF Frees, Between
<1>2. PICK sp \in Nat : sp = IF JoinPrev(b, p) THEN size[p] ELSE 0
  BY <1>1 DEF JoinPrev
<1>3. PICK sq \in Nat : sq = IF JoinCur(b, z, q) THEN size[q] ELSE 0
  BY <1>1 DEF JoinCur
<1>4. n = z + sp + sq /\ n \in Nat
  <2>1. n = z + sp + sq
    BY <1>2, <1>3 DEF Frees
  <2> QED
    BY <1>1, <2>1
<1>5. /\ at \in Nat /\ at + sp = b
      /\ \/ at = p /\ p # 0 /\ p \in ents /\ p + size[p] = b /\ size[p] \in Nat
         \/ at = b /\ (p = 0 \/ p + size[p] < b)
  <2>1. CASE JoinPrev(b, p)
    <3>1. at = p /\ sp = size[p] /\ p # 0 /\ p + size[p] = b
      BY <1>2, <2>1 DEF Frees, JoinPrev
    <3> QED
      BY <1>1, <3>1
  <2>2. CASE ~JoinPrev(b, p)
    <3>1. at = b /\ sp = 0 /\ (p = 0 \/ p + size[p] # b)
      BY <1>2, <2>2 DEF Frees, JoinPrev
    <3> QED
      BY <1>1, <3>1
  <2> QED
    BY <2>1, <2>2
<1>6. /\ \/ q # 0 /\ q \in ents /\ b + z = q /\ b + z + sq = q + size[q] /\ size[q] \in Nat /\ q \notin ents'
         \/ sq = 0 /\ (q = 0 \/ b + z < q)
      /\ \A a \in ents : a \in ents' \/ (a = q /\ b + z = q)
  <2>1. CASE JoinCur(b, z, q)
    <3>1. sq = size[q] /\ q # 0 /\ b + z = q /\ ents' = (ents \ {q}) \cup {at}
      BY <1>3, <2>1 DEF Frees, JoinCur
    <3>2. at # q
      BY <1>1, <1>5, <3>1
    <3> QED
      BY <1>1, <3>1, <3>2
  <2>2. CASE ~JoinCur(b, z, q)
    <3>1. sq = 0 /\ (q = 0 \/ b + z # q) /\ ents' = ents \cup {at}
      BY <1>3, <2>2 DEF Frees, JoinCur
    <3> QED
      BY <1>1, <3>1
  <2> QED
    BY <2>1, <2>2
<1>7. \A a \in ents' : a = at \/ (a \in ents /\ a # at /\ size'[a] = size[a])
  BY DEF Frees
<1>8. at \in ents' /\ size'[at] = n
  BY DEF Frees
<1>9. at <= b /\ b + z <= at + n /\ n > 0 /\ at + n = b + z + sq
  BY <1>1, <1>4, <1>5
<1>10. \/ q # 0 /\ q \in ents /\ b + z = q /\ at + n = q + size[q] /\ size[q] \in Nat /\ q \notin ents'
       \/ at + n = b + z /\ (q = 0 \/ b + z < q)
  BY <1>1, <1>6, <1>9
<1> QED
  BY <1>4, <1>5, <1>6, <1>7, <1>8, <1>9, <1>10

\* Every other entry ends before the new one or starts after it.
LEMMA FreesOrder ==
  ASSUME ListInv, NEW b, NEW z, NEW p, NEW q, NEW at, NEW n, Frees(b, z, p, q, at, n),
         NEW a \in ents', a # at
  PROVE  /\ a \in ents /\ a \in Nat /\ size[a] \in Nat /\ size[a] > 0 /\ size'[a] = size[a]
         /\ a + size[a] <= at \/ at + n <= a
<1>1. a \in ents /\ size'[a] = size[a]
  BY FreesMakes
<1>2. \A x \in ents : x \in Nat /\ size[x] \in Nat /\ size[x] > 0
  BY Widths DEF ListInv, TypeOK, Blocks, Inside
<1>3. \A x, y \in ents : x < y => x + size[x] <= y
  BY DEF ListInv, Blocks
<1>4. /\ p \in ents \cup {0} /\ q \in ents \cup {0} /\ p \in Nat /\ q \in Nat /\ Succ(ents, p, q)
      /\ b \in Nat /\ z \in Nat
  BY DEF Frees, Between
<1>5. a <= p \/ (q # 0 /\ q <= a)
  BY <1>1, <1>2, <1>4 DEF Succ
<1>6. ASSUME a <= p PROVE a + size[a] <= at
  <2>1. p \in ents /\ p # 0
    <3>1. a \in Nat /\ a # 0
      BY <1>1, <1>2 DEF ListInv, TypeOK
    <3>2. p # 0
      BY <1>4, <1>6, <3>1
    <3> QED
      BY <1>4, <3>2
  <2>2. a < p => a + size[a] <= p
    BY <1>1, <1>3, <2>1
  <2>3. CASE at = p
    BY <1>1, <1>2, <1>4, <1>6, <2>2, <2>3
  <2>4. CASE at = b /\ (p = 0 \/ p + size[p] < b)
    BY <1>1, <1>2, <1>4, <1>6, <2>1, <2>2, <2>4
  <2> QED
    BY <2>3, <2>4, FreesMakes
<1>7. ASSUME q # 0, q <= a PROVE at + n <= a
  <2>1. q \in ents
    BY <1>4, <1>7
  <2>2. q < a => q + size[q] <= a
    BY <1>1, <1>3, <2>1
  <2>3. CASE at + n = q + size[q] /\ q \notin ents'
    BY <1>1, <1>2, <1>4, <1>7, <2>1, <2>2, <2>3
  <2>4. CASE at + n = b + z /\ (q = 0 \/ b + z < q)
    BY <1>1, <1>2, <1>4, <1>7, <2>4
  <2> QED
    BY <2>3, <2>4, FreesMakes
<1> QED
  BY <1>1, <1>2, <1>5, <1>6, <1>7

LEMMA FreesBlocks ==
  ASSUME ListInv, NEW b, NEW z, NEW p, NEW q, NEW at, NEW n, Frees(b, z, p, q, at, n)
  PROVE  Blocks'
<1>1. /\ b \in Nat /\ z \in Nat /\ z > 0 /\ <<b, z>> \in owned /\ Inside(b, z)
      /\ owned' = owned \ {<<b, z>>} /\ p \in Nat /\ q \in Nat
  BY DEF Frees, Between
<1>2. /\ at \in Nat /\ n \in Nat /\ at <= b /\ b + z <= at + n /\ n > 0
      /\ at \in ents' /\ size'[at] = n
  BY FreesMakes
<1>3. \/ at = p /\ p # 0 /\ p \in ents /\ p + size[p] = b /\ size[p] \in Nat
      \/ at = b /\ (p = 0 \/ p + size[p] < b)
  BY FreesMakes
<1>4. \/ q # 0 /\ q \in ents /\ b + z = q /\ at + n = q + size[q] /\ size[q] \in Nat
      \/ at + n = b + z /\ (q = 0 \/ b + z < q)
  BY FreesMakes
<1>5. \A a \in ents' : a = at \/ (a \in ents /\ a # at /\ size'[a] = size[a])
  BY FreesMakes
<1>6. Blocks
  BY DEF ListInv
<1>7. \A a \in ents : a \in Nat /\ size[a] \in Nat /\ size[a] > 0 /\ Inside(a, size[a])
  BY Widths DEF ListInv, TypeOK, Blocks, Inside
<1>8. \A o \in owned : o[1] \in Nat /\ o[2] \in Nat /\ o[2] > 0 /\ o = <<o[1], o[2]>>
  BY OwnedAre DEF ListInv
<1>9. Inside(at, n)
  <2>1. \A x \in Nat : b <= x /\ x < b + z => x \in Arena
    BY <1>1, Bounds
  <2>2. \A x \in Nat : at <= x /\ x < b => x \in Arena
    <3>1. CASE at = p /\ p \in ents /\ p + size[p] = b
      BY <1>7, <3>1, Bounds
    <3>2. CASE at = b
      BY <1>1, <3>2
    <3> QED
      BY <1>3, <3>1, <3>2
  <2>3. \A x \in Nat : b + z <= x /\ x < at + n => x \in Arena
    <3>1. CASE q \in ents /\ b + z = q /\ at + n = q + size[q]
      BY <1>7, <3>1, Bounds
    <3>2. CASE at + n = b + z
      BY <1>1, <3>2
    <3> QED
      BY <1>4, <3>1, <3>2
  <2>4. Cells(at, n) \subseteq Arena
    <3>1. \A x \in Nat : at <= x /\ x < at + n => x \in Arena
      BY <1>1, <1>2, <2>1, <2>2, <2>3
    <3> QED
      BY <1>2, <3>1 DEF Cells
  <2>5. AlignSize \in Nat \ {0} /\ b % AlignSize = 0 /\ z % AlignSize = 0 /\ b \in Int /\ z \in Int
    BY <1>1, Widths DEF Inside
  <2>6. at % AlignSize = 0
    BY <1>3, <1>7, <2>5 DEF Inside
  <2>7. PICK top \in Int : top = at + n
    BY <1>2
  <2>8. top % AlignSize = 0
    <3>1. CASE q \in ents /\ at + n = q + size[q]
      <4>1. q % AlignSize = 0 /\ size[q] % AlignSize = 0 /\ q \in Int /\ size[q] \in Int
        BY <1>7, <3>1 DEF Inside
      <4>2. (q + size[q]) % AlignSize = 0
        BY <2>5, <4>1, ModSum
      <4> QED
        BY <2>7, <3>1, <4>2
    <3>2. CASE at + n = b + z
      <4>1. (b + z) % AlignSize = 0
        BY <2>5, ModSum
      <4> QED
        BY <2>7, <3>2, <4>1
    <3> QED
      BY <1>4, <3>1, <3>2
  <2>9. n % AlignSize = 0
    <3>1. at \in Int /\ (top - at) % AlignSize = 0
      BY <1>2, <2>5, <2>6, <2>8, ModSum
    <3>2. n = top - at
      BY <1>2, <2>7
    <3> QED
      BY <3>1, <3>2
  <2> QED
    BY <1>2, <2>4, <2>6, <2>9 DEF Inside
<1>10. \A a \in ents' : Inside(a, size'[a])
  BY <1>2, <1>5, <1>7, <1>9
<1>11. \A o \in owned' : Inside(o[1], o[2])
  BY <1>1, <1>6 DEF Blocks
<1>12. \A a, c \in ents' : a < c => a + size'[a] <= c
  <2>1. SUFFICES ASSUME NEW a \in ents', NEW c \in ents', a < c PROVE a + size'[a] <= c
    OBVIOUS
  <2>2. CASE a = at
    <3>1. c # at /\ c \in Nat /\ size[c] \in Nat /\ (c + size[c] <= at \/ at + n <= c)
      BY <1>2, <2>1, <2>2, FreesOrder
    <3> QED
      BY <1>2, <2>1, <2>2, <3>1
  <2>3. CASE a # at /\ c = at
    <3>1. a \in Nat /\ size'[a] = size[a] /\ (a + size[a] <= at \/ at + n <= a)
      BY <2>3, FreesOrder
    <3> QED
      BY <1>2, <2>1, <2>3, <3>1
  <2>4. CASE a # at /\ c # at
    BY <1>5, <1>6, <2>1, <2>4 DEF Blocks
  <2> QED
    BY <2>2, <2>3, <2>4
<1>13. \A a \in ents', o \in owned' : Apart(a, size'[a], o[1], o[2])
  <2>1. SUFFICES ASSUME NEW a \in ents', NEW o \in owned' PROVE Apart(a, size'[a], o[1], o[2])
    OBVIOUS
  <2>2. o \in owned /\ o # <<b, z>> /\ o[1] \in Nat /\ o[2] \in Nat /\ o[2] > 0
    BY <1>1, <1>8
  <2>3. CASE a = at
    <3>1. Apart(b, z, o[1], o[2])
      <4>1. PICK k \in owned : k = <<b, z>> /\ k[1] = b /\ k[2] = z
        BY <1>1
      <4> QED
        BY <1>6, <2>2, <4>1 DEF Blocks
    <3>2. \A x \in ents : Apart(x, size[x], o[1], o[2])
      BY <1>6, <2>2 DEF Blocks
    <3>3. o[1] + o[2] <= b => o[1] + o[2] <= at
      <4>1. CASE at = p /\ p \in ents /\ p + size[p] = b
        <5>1. Apart(p, size[p], o[1], o[2]) /\ size[p] \in Nat
          BY <1>7, <3>2, <4>1
        <5> QED
          BY <1>1, <1>2, <2>2, <4>1, <5>1 DEF Apart
      <4>2. CASE at = b
        BY <4>2
      <4> QED
        BY <1>3, <4>1, <4>2
    <3>4. b + z <= o[1] => at + n <= o[1]
      <4>1. CASE q \in ents /\ b + z = q /\ at + n = q + size[q]
        <5>1. Apart(q, size[q], o[1], o[2]) /\ size[q] \in Nat
          BY <1>7, <3>2, <4>1
        <5> QED
          BY <1>1, <1>2, <2>2, <4>1, <5>1 DEF Apart
      <4>2. CASE at + n = b + z
        BY <4>2
      <4> QED
        BY <1>4, <4>1, <4>2
    <3> QED
      BY <1>2, <2>3, <3>1, <3>3, <3>4 DEF Apart
  <2>4. CASE a # at
    BY <1>5, <1>6, <2>2, <2>4 DEF Blocks
  <2> QED
    BY <2>3, <2>4
<1>14. \A o, k \in owned' : o = k \/ Apart(o[1], o[2], k[1], k[2])
  BY <1>1, <1>6 DEF Blocks
<1>15. ASSUME NEW x \in Arena
       PROVE  \/ \E a \in ents' : a <= x /\ x < a + size'[a]
              \/ \E o \in owned' : o[1] <= x /\ x < o[1] + o[2]
  <2>1. x \in Nat
    BY ArenaBounds
  <2>2. CASE at <= x /\ x < at + n
    BY <1>2, <2>2
  <2>3. CASE ~(at <= x /\ x < at + n)
    <3>1. ASSUME NEW o \in owned, o[1] <= x, x < o[1] + o[2] PROVE o \in owned'
      <4>1. o # <<b, z>>
        <5>1. SUFFICES ASSUME o = <<b, z>> PROVE FALSE
          OBVIOUS
        <5>2. o[1] = b /\ o[2] = z
          BY <5>1
        <5> QED
          BY <1>1, <1>2, <2>1, <2>3, <3>1, <5>2
      <4> QED
        BY <1>1, <4>1
    <3>2. ASSUME NEW a \in ents, a <= x, x < a + size[a] PROVE a \in ents' /\ size'[a] = size[a]
      <4>1. a \in ents' \/ (a = q /\ b + z = q)
        BY FreesMakes
      <4>2. ~(a = q /\ b + z = q)
        <5>1. SUFFICES ASSUME a = q, b + z = q PROVE FALSE
          OBVIOUS
        <5>2. q \in ents /\ size[q] \in Nat /\ q \in Nat
          BY <1>7, <5>1
        <5>3. q # 0 /\ at + n = q + size[q]
          BY <1>1, <1>4, <5>1
        <5> QED
          BY <1>1, <1>2, <2>1, <2>3, <3>2, <5>1, <5>2, <5>3
      <4>3. a # at
        <5>1. SUFFICES ASSUME a = at PROVE FALSE
          OBVIOUS
        <5>2. a \in Nat /\ size[a] \in Nat
          BY <1>7
        <5>3. CASE at = p /\ p + size[p] = b
          BY <1>1, <1>2, <2>1, <2>3, <3>2, <5>1, <5>2, <5>3
        <5>4. CASE at = b
          <6>1. PICK k \in owned : k = <<b, z>> /\ k[1] = b /\ k[2] = z
            BY <1>1
          <6>2. Apart(a, size[a], b, z) /\ size[a] > 0
            BY <1>6, <1>7, <6>1 DEF Blocks
          <6> QED
            BY <1>1, <5>1, <5>2, <5>4, <6>2 DEF Apart
        <5> QED
          BY <1>3, <5>3, <5>4
      <4> QED
        BY <1>5, <4>1, <4>2, <4>3
    <3> QED
      BY <1>6, <3>1, <3>2 DEF Blocks
  <2> QED
    BY <2>2, <2>3
<1> QED
  BY <1>10, <1>11, <1>12, <1>13, <1>14, <1>15 DEF Blocks

\* The block a call gives back is one that was handed out.
LEMMA FreedIsOwned ==
  ASSUME ListInv, NEW c \in Core, pc[c] \in {"free", "place"}
  PROVE  <<PhyAddr(c), BlockSize(c)>> \in owned /\ desc[c] \in Live
<1>1. desc[c] \in Live
  BY NamedAssumption DEF ListInv, Kept, TypeOK, Live
<1>2. pc[c] \in Locked
  BY DEF Locked
<1>3. \A d \in Core : pc[d] # "clear"
  BY <1>2, OnlyOwner DEF Locked
<1> QED
  BY <1>1, <1>3 DEF ListInv, NamedKept, PhyAddr, BlockSize

LEMMA FreesList ==
  ASSUME ListInv, NEW c \in Core, pc[c] \in {"free", "place"}, NEW b, NEW z,
         b = PhyAddr(c), z = BlockSize(c), NEW p, NEW q, NEW at, NEW n,
         Frees(b, z, p, q, at, n), Disturb, Goto(c, "clear"),
         UNCHANGED <<lock, named, req, ent, prev, desc, res, total, split>>
  PROVE  ListInv'
<1>1. pc[c] \in Locked /\ "clear" \in Locked
  BY DEF Locked
<1>2. Exclusion'
  BY <1>1, OwnerStays DEF ListInv
<1>3. pc'[c] = "clear" /\ \A d \in Core : d # c => SameCore(d)
  BY DEF ListInv, TypeOK, SameCore, Goto
<1>4. Threaded' /\ Blocks'
  BY FreesThreaded, FreesBlocks
<1>5. TypeOK'
  <2>1. pc' \in [Core -> PcValues]
    BY DEF ListInv, TypeOK, Goto, PcValues, Locked
  <2>2. calm' \in [Core -> BOOLEAN]
    BY DisturbType DEF ListInv
  <2>3. ents' \in SUBSET (Addr \ {0}) /\ owned' \in SUBSET ((Addr \ {0}) \X (Addr \ {0}))
    <3>1. at \in Addr \ {0} /\ owned' \subseteq owned /\ ents' \subseteq ents \cup {at}
      BY DEF Frees
    <3> QED
      BY <3>1 DEF ListInv, TypeOK
  <2>4. size' \in [Addr -> Addr] /\ next' \in [Addr -> Addr] /\ head' \in Addr
    BY DEF Frees
  <2>5. cuts' \subseteq ents'
    BY DEF Frees
  <2> QED
    BY <2>1, <2>2, <2>3, <2>4, <2>5 DEF ListInv, TypeOK
<1>6. \A d \in Core : Kept(d)'
  <2>1. Kept(c)'
    BY <1>3 DEF ListInv, Kept
  <2> QED
    BY <1>1, <1>3, <2>1, OthersKept
<1>7. NamedKept'
  <2>1. \A d \in Core : d # c => pc[d] \notin Locked
    BY <1>1, OnlyOwner
  <2>2. \A d \in Core : pc[d] # "clear" /\ pc'[d] # "record"
    BY <1>3, <2>1 DEF SameCore, Locked
  <2>3. Live' = Live /\ named' = named
    BY DEF Live
  <2>4. desc[c] \in Live /\ b = named[desc[c]].base
    BY FreedIsOwned DEF PhyAddr
  <2>5. \A i \in Live : i # desc[c] => <<named[i].base, named[i].size>> \in owned'
    <3>1. \A i \in Live : i # desc[c] => named[i].base # b
      BY <2>4 DEF ListInv, NamedKept
    <3>2. \A i \in Live : <<named[i].base, named[i].size>> \in owned
      BY <2>2 DEF ListInv, NamedKept
    <3>3. owned' = owned \ {<<b, z>>}
      BY DEF Frees
    <3> QED
      BY <3>1, <3>2, <3>3
  <2>6. \A i, j \in Live : i # j => named[i].name # named[j].name /\ named[i].base # named[j].base
    BY DEF ListInv, NamedKept
  <2> QED
    BY <1>3, <2>2, <2>3, <2>5, <2>6 DEF NamedKept
<1> QED
  BY <1>2, <1>4, <1>5, <1>6, <1>7 DEF ListInv

\* FreeFront and FreeInsert put the block between two entries.
LEMMA FreeIs ==
  ASSUME ListInv, NEW c \in Core, FreeFront(c) \/ FreeInsert(c)
  PROVE  /\ pc[c] \in {"free", "place"} /\ Disturb /\ Goto(c, "clear")
         /\ UNCHANGED <<lock, named, req, ent, prev, desc, res, total, split>>
         /\ \E p, q, at, n : Frees(PhyAddr(c), BlockSize(c), p, q, at, n)
<1>1. pc[c] \in {"free", "place"} /\ Goto(c, "clear")
      /\ UNCHANGED <<lock, named, req, ent, prev, desc, res, total, split>>
  BY DEF FreeFront, FreeInsert
<1>2. PICK b, z : b = PhyAddr(c) /\ z = BlockSize(c)
  OBVIOUS
<1>3. <<b, z>> \in owned
  BY <1>1, <1>2, FreedIsOwned
<1>4. b \in Nat /\ b > 0 /\ z \in Nat
  <2>1. PICK o \in owned : o = <<b, z>>
    BY <1>3
  <2> QED
    BY <2>1, OwnedAre DEF ListInv
<1>5. ents \in SUBSET (Nat \ {0}) /\ \A a \in ents : a \in Nat
  BY Widths DEF ListInv, TypeOK
<1>6. CASE FreeFront(c)
  <2>1. Succ(ents, 0, head) /\ head \in ents \cup {0} /\ (head = 0 \/ b < head)
    <3>1. Succ(ents, 0, head)
      BY DEF ListInv, Threaded
    <3> QED
      BY <1>2, <1>6, <3>1 DEF FreeFront, BeforeHead, Succ
  <2>2. Between(b, z, 0, head)
    <3>1. 0 < b /\ (head = 0 \/ b <= head)
      BY <1>4, <1>5, <2>1
    <3> QED
      BY <1>3, <2>1, <3>1, OwnedPlace
  <2>3. ~(head # 0 /\ (b + z) % Word > head)
    <3>1. b + z < Word /\ (head # 0 => b + z <= head) /\ head \in Nat
      BY <2>2 DEF Between
    <3>2. (b + z) % Word = b + z
      BY <1>4, <3>1, NoWrap
    <3> QED
      BY <1>4, <3>1, <3>2
  <2>4. Insert(c, 0, head) /\ Disturb
    BY <1>2, <1>6, <2>3 DEF FreeFront
  <2>5. \E at, n \in Nat : Frees(b, z, 0, head, at, n)
    BY <1>2, <2>2, <2>4, FreesIs
  <2> QED
    BY <1>1, <1>2, <2>4, <2>5
<1>7. CASE FreeInsert(c)
  <2>1. Walking(c) /\ prev[c] < b
    BY <1>2, <1>7 DEF FreeInsert, ListInv, Kept
  <2>2. PICK p, q : p = prev[c] /\ q = ent[c]
    OBVIOUS
  <2>3. p \in ents \cup {0} /\ q \in ents \cup {0} /\ Succ(ents, p, q) /\ p < b
    BY <2>1, <2>2 DEF Walking, Succ
  <2>4. q = 0 \/ b <= q
    <3>a. ~(q # 0 /\ b > q)
      BY <1>2, <1>7, <2>2 DEF FreeInsert
    <3>b. q \in Nat
      BY <2>2, Widths DEF ListInv, TypeOK
    <3>1. ~(q # 0 /\ b > q) /\ q \in Nat
      BY <3>a, <3>b
    <3> QED
      BY <1>4, <3>1
  <2>5. Between(b, z, p, q)
    BY <1>3, <2>3, <2>4, OwnedPlace
  <2>6. Insert(c, p, q) /\ Disturb
    BY <1>7, <2>2 DEF FreeInsert
  <2>7. \E at, n \in Nat : Frees(b, z, p, q, at, n)
    BY <1>2, <2>5, <2>6, FreesIs
  <2> QED
    BY <1>1, <1>2, <2>6, <2>7
<1> QED
  BY <1>6, <1>7

LEMMA FreeList == ASSUME ListInv, NEW c \in Core, FreeFront(c) \/ FreeInsert(c) PROVE ListInv'
<1>1. PICK p, q, at, n : Frees(PhyAddr(c), BlockSize(c), p, q, at, n)
  BY FreeIs
<1>2. /\ pc[c] \in {"free", "place"} /\ Disturb /\ Goto(c, "clear")
      /\ UNCHANGED <<lock, named, req, ent, prev, desc, res, total, split>>
  BY FreeIs
<1> QED
  BY <1>1, <1>2, FreesList

LEMMA InitList == ASSUME Init PROVE ListInv /\ MeetsRequest
<1>1. \A a \in DOMAIN InitFree :
        /\ a \in Addr \ {0} /\ a \in Nat /\ InitFree[a] \in Addr /\ InitFree[a] \in Nat
        /\ InitFree[a] > 0
  BY InitFreeAssumption, Widths
<1>2. ents = DOMAIN InitFree /\ DOMAIN InitFree \in SUBSET (Nat \ {0})
      /\ \A a \in ents : size[a] = InitFree[a]
  BY <1>1 DEF Init
<1>3. \A S \in SUBSET (DOMAIN InitFree) : First(S) \in Addr
  <2>1. \A S \in SUBSET (DOMAIN InitFree) : S \in SUBSET Nat /\ S \in SUBSET Addr
    BY <1>1
  <2>2. 0 \in Addr
    BY Widths
  <2> QED
    BY <2>1, <2>2, FirstIs
<1>4. \A a \in Addr : {b \in DOMAIN InitFree : a \in DOMAIN InitFree /\ a < b}
                        \in SUBSET (DOMAIN InitFree)
  OBVIOUS
<1>5. TypeOK
  <2>1. head \in Addr /\ next \in [Addr -> Addr] /\ size \in [Addr -> Addr]
    <3>1. head \in Addr
      BY <1>3 DEF Init
    <3>2. next \in [Addr -> Addr]
      BY <1>3, <1>4 DEF Init
    <3>3. 0 \in Addr
      BY Widths
    <3>4. size \in [Addr -> Addr]
      BY <1>1, <3>3 DEF Init
    <3> QED
      BY <3>1, <3>2, <3>4
  <2>2. Unused \in [base : Addr, size : Addr, name : Names]
    BY NoReqIs, Widths DEF Unused
  <2>3. 0 \in Addr /\ 0 \in 0 .. NumNamed
    BY Widths, NamedAssumption
  <2>4. named \in [1 .. NumNamed -> [base : Addr, size : Addr, name : Names]]
    BY <2>2 DEF Init
  <2>5. ents \in SUBSET (Addr \ {0}) /\ owned \in SUBSET ((Addr \ {0}) \X (Addr \ {0}))
    BY <1>1 DEF Init
  <2>6. /\ lock \in BOOLEAN /\ pc \in [Core -> PcValues] /\ req \in [Core -> Request]
        /\ ent \in [Core -> Addr] /\ prev \in [Core -> Addr] /\ desc \in [Core -> 0 .. NumNamed]
        /\ res \in [Core -> Addr] /\ total \in [Core -> Addr]
        /\ split \in [Core -> BOOLEAN] /\ calm \in [Core -> BOOLEAN]
    BY <2>3, NoReqIs DEF Init, PcValues
  <2>7. cuts \subseteq ents
    BY DEF Init
  <2> QED
    BY <2>1, <2>4, <2>5, <2>6, <2>7 DEF TypeOK
<1>6. Exclusion
  <2>1. Owner = {}
    BY DEF Init, Owner, Locked
  <2> QED
    BY <2>1 DEF Exclusion, Init
<1>7. Threaded
  <2>1. ListThreaded
    <3>1. head = First(ents)
      BY DEF Init
    <3>2. ASSUME NEW a \in ents PROVE next[a] = First({b \in ents : b > a})
      <4>1. a \in DOMAIN InitFree /\ a \in Addr /\ a \in Nat
        BY <1>1, <1>2
      <4>2. next[a] = First({b \in DOMAIN InitFree : a \in DOMAIN InitFree /\ a < b})
        BY <4>1 DEF Init
      <4>3. {b \in DOMAIN InitFree : a \in DOMAIN InitFree /\ a < b} = {b \in ents : b > a}
        BY <1>1, <1>2, <4>1
      <4> QED
        BY <4>2, <4>3
    <3> QED
      BY <3>1, <3>2 DEF ListThreaded
  <2> QED
    BY <1>5, <2>1, ThreadedIs
<1>8. Blocks
  <2>1. \A a \in ents : Inside(a, size[a])
    <3>1. SUFFICES ASSUME NEW a \in DOMAIN InitFree PROVE Inside(a, InitFree[a])
      BY <1>2
    <3>2. Cells(a, InitFree[a]) \subseteq Arena
      BY DEF Arena
    <3> QED
      BY <1>1, <3>2, AlignAssumption DEF Inside
  <2>2. owned = {}
    BY DEF Init
  <2>3. \A a, b \in ents : a < b => a + size[a] <= b
    <3>1. SUFFICES ASSUME NEW a \in DOMAIN InitFree, NEW b \in DOMAIN InitFree, a < b
                   PROVE  a + InitFree[a] <= b
      BY <1>2
    <3>2. a + InitFree[a] < b
      BY <3>1, InitFreeAssumption
    <3> QED
      BY <1>1, <3>2
  <2>4. \A x \in Arena : \E a \in ents : a <= x /\ x < a + size[a]
    <3>1. SUFFICES ASSUME NEW x \in Arena PROVE \E a \in DOMAIN InitFree : a <= x /\ x < a + InitFree[a]
      BY <1>2
    <3>2. PICK a \in DOMAIN InitFree : x \in Cells(a, InitFree[a])
      BY DEF Arena
    <3> QED
      BY <1>1, <3>2 DEF Cells
  <2> QED
    BY <2>1, <2>2, <2>3, <2>4 DEF Blocks
<1>9. \A c \in Core : Kept(c)
  BY DEF Init, Kept
<1>10. NamedKept
  <2>1. Live = {}
    BY DEF Init, Live, Unused
  <2> QED
    BY <2>1 DEF NamedKept
<1>11. MeetsRequest
  BY DEF Init, MeetsRequest
<1> QED
  BY <1>5, <1>6, <1>7, <1>8, <1>9, <1>10, <1>11 DEF ListInv

-----------------------------------------------------------------------------
(* The answers *)

\* The block TakeFront takes meets the request.
LEMMA TakeMeets ==
  ASSUME ListInv, NEW r \in Request, NEW e \in ents, ~Rejected(r),
         CanSatisfy(r, e), UsableBase(r, e) = e
  PROVE  /\ e % Alignment(r) = 0 /\ e >= r.min
         /\ r.max # 0 => e + r.size <= r.max
         /\ r.max = 0 /\ r.min # 0 => e = r.min
<1>1. /\ ReqSize(r) \in Nat /\ r.size \in Nat /\ r.size <= ReqSize(r) /\ r.min \in Nat
      /\ r.max \in Nat /\ AddrMin(r) \in Nat /\ r.min <= AddrMin(r) /\ AddrMax(r) \in Nat
  BY Sizes, Fields, Minimum, Maximum, Widths
<1>2. e + ReqSize(r) <= AddrMax(r) /\ AddrMin(r) <= e /\ e % Alignment(r) = 0 /\ e \in Nat
  BY TakeFits, FitsIs
<1>3. ASSUME r.max # 0 PROVE e + r.size <= r.max
  BY <1>1, <1>2, <1>3 DEF AddrMax
<1>4. ASSUME r.max = 0, r.min # 0 PROVE e = r.min
  <2>1. AddrMax(r) = (r.min + ReqSize(r)) % Word
    BY <1>4 DEF AddrMax
  <2>2. (r.min + ReqSize(r)) % Word <= r.min + ReqSize(r)
    <3>1. PICK x \in Nat : x = r.min + ReqSize(r)
      BY <1>1
    <3>2. x % Word <= x
      BY Widths, RoundDown, DivMod
    <3> QED
      BY <3>1, <3>2
  <2> QED
    BY <1>1, <1>2, <2>1, <2>2
<1> QED
  BY <1>1, <1>2, <1>3, <1>4

\* An answer is only held by the owner of the lock.
LEMMA AnswerHeld ==
  ASSUME ListInv, NEW c \in Core, pc[c] \in Locked, NEW d \in Core, d # c PROVE res[d] = 0
<1>1. pc[d] \notin Locked
  BY OnlyOwner
<1> QED
  BY <1>1 DEF ListInv, Kept, Locked

\* A step after which the answers are the ones before it.
LEMMA AnswersStay ==
  ASSUME MeetsRequest,
         \A d \in Core : \/ res'[d] = 0
                         \/ /\ res'[d] = res[d] /\ req'[d] = req[d]
                            /\ \A s : <<res[d], s>> \in owned => <<res[d], s>> \in owned'
  PROVE  MeetsRequest'
  BY DEF MeetsRequest

LEMMA StepMeets == ASSUME ListInv, MeetsRequest, NEW c \in Core, Step(c) PROVE MeetsRequest'
<1>1. ASSUME NEW r \in Request, Enter(c, r) \/ Available(c, r) PROVE MeetsRequest'
  <2>1. res[c] = 0 /\ UNCHANGED <<res, owned>> /\ \A d \in Core : d # c => req'[d] = req[d]
    BY <1>1 DEF Enter, Available, memory, ListInv, Kept, TypeOK
  <2> QED
    BY <2>1, AnswersStay
<1>2. ASSUME \/ LookupAlloc(c) \/ LookupFree(c) \/ LookupFind(c) \/ Check(c) \/ SplitFront(c)
             \/ Skip(c) \/ NothingFits(c) \/ Record(c) \/ FreeSearch(c) \/ Place(c) \/ Clear(c)
             \/ Sum(c) \/ SumLost(c)
      PROVE  MeetsRequest'
  <2>1. UNCHANGED <<res, req, owned>>
    BY <1>2 DEF LookupAlloc, LookupFree, LookupFind, Check, SplitFront, Skip, NothingFits, Record,
                FreeSearch, Place, Clear, Sum, SumLost, memory
  <2> QED
    BY <2>1, AnswersStay
<1>3. ASSUME SumDone(c) PROVE MeetsRequest'
  <2>1. res[c] = 0 /\ UNCHANGED <<res, owned>> /\ \A d \in Core : d # c => req'[d] = req[d]
    BY <1>3 DEF SumDone, memory, ListInv, Kept, TypeOK
  <2> QED
    BY <2>1, AnswersStay
<1>4. ASSUME Unlock(c) PROVE MeetsRequest'
  <2>1. res'[c] = 0 /\ UNCHANGED owned
        /\ \A d \in Core : d # c => req'[d] = req[d] /\ res'[d] = res[d]
    BY <1>4 DEF Unlock, ListInv, TypeOK
  <2> QED
    BY <2>1, AnswersStay
<1>5. ASSUME FreeFront(c) \/ FreeInsert(c) PROVE MeetsRequest'
  <2>1. pc[c] \in {"free", "place"} /\ UNCHANGED res
    BY <1>5, FreeIs
  <2>2. res[c] = 0 /\ pc[c] \in Locked
    BY <2>1 DEF ListInv, Kept, Locked
  <2> QED
    BY <2>1, <2>2, AnswerHeld, AnswersStay
<1>6. ASSUME TakeFront(c) PROVE MeetsRequest'
  <2>1. pc[c] = "visit" /\ pc[c] \in Locked /\ ~ListEnds(ent[c]) /\ UNCHANGED req
    BY <1>6 DEF TakeFront, Locked
  <2>2. PICK e, r : e = ent[c] /\ r = req[c]
    OBVIOUS
  <2>3. e \in ents /\ r \in Request /\ ~Rejected(r) /\ CanSatisfy(r, e) /\ UsableBase(r, e) = e
    BY <1>6, <2>1, <2>2, VisitsEntry DEF TakeFront
  <2>4. res'[c] = e /\ <<e, ReqSize(r)>> \in owned' /\ req'[c] = r
    BY <1>6, <2>1, <2>2 DEF TakeFront, ListInv, TypeOK
  <2>5. \A d \in Core : d # c => res'[d] = 0
    <3>1. \A d \in Core : d # c => res'[d] = res[d]
      BY <1>6 DEF TakeFront, ListInv, TypeOK
    <3> QED
      BY <2>1, <3>1, AnswerHeld
  <2>6. /\ e % Alignment(r) = 0 /\ e >= r.min
        /\ r.max # 0 => e + r.size <= r.max
        /\ r.max = 0 /\ r.min # 0 => e = r.min
    BY <2>3, TakeMeets
  <2> QED
    BY <2>4, <2>5, <2>6 DEF MeetsRequest
<1> QED
  BY <1>1, <1>2, <1>3, <1>4, <1>5, <1>6 DEF Step, Holding, BlockAlloc, BlockFree

LEMMA StepList == ASSUME ListInv, MeetsRequest, NEW c \in Core, Step(c) PROVE ListInv'
  BY EnterList, LookupList, CheckList, SkipList, NothingFitsList, FreeSearchList, PlaceList, SumList,
     TakeFrontList, SplitFrontList, RecordList, ClearList, UnlockList, FreeList
  DEF Step, Holding, BlockAlloc, BlockFree

-----------------------------------------------------------------------------
(* Free blocks that touch *)

NoTouch == \A a, b \in ents : a + size[a] = b => b \in cuts

LEMMA EntryFollows == ASSUME ListInv, NEW e \in ents PROVE ~ListEnds(e) /\ e # 0
<1>1. e \in Nat /\ e # 0 /\ next[e] \in Nat /\ Succ(ents, e, next[e])
  BY Widths DEF ListInv, TypeOK, Threaded
<1>2. next[e] = 0 \/ next[e] > e
  BY <1>1 DEF Succ
<1> QED
  BY <1>1, <1>2 DEF ListEnds

LEMMA TouchLone ==
  ASSUME ListInv, Touching, NEW c \in Core, pc[c] \in Locked,
         ~(pc[c] = "visit" /\ CanSatisfy(req[c], ent[c]) /\ UsableBase(req[c], ent[c]) = ent[c])
  PROVE  NoTouch
<1>1. SUFFICES ASSUME NEW a \in ents, NEW b \in ents, a + size[a] = b, b \notin cuts PROVE FALSE
  BY DEF NoTouch
<1>2. PICK d \in Core : Taking(d, a, b)
  BY <1>1 DEF Touching
<1>3. d = c
  BY <1>2, OnlyOwner DEF Taking, Locked
<1> QED
  BY <1>2, <1>3 DEF Taking

LEMMA TouchStays ==
  ASSUME NoTouch, ents' = ents, cuts' = cuts, \A a \in ents : size'[a] = size[a]
  PROVE  Touching' /\ NoTouch'
  BY DEF NoTouch, Touching

LEMMA TouchOther ==
  ASSUME Touching, NEW c \in Core, pc[c] # "visit", UNCHANGED memory,
         \A d \in Core : d # c => SameCore(d)
  PROVE  Touching'
<1>1. SUFFICES ASSUME NEW a \in ents, NEW b \in ents, a + size[a] = b, b \notin cuts
               PROVE  \E d \in Core : Taking(d, a, b)'
  BY DEF Touching, memory
<1>2. PICK d \in Core : Taking(d, a, b)
  BY <1>1 DEF Touching
<1>3. d # c /\ SameCore(d) /\ size' = size
  BY <1>2 DEF Taking, memory
<1>4. Taking(d, a, b)'
  BY <1>2, <1>3 DEF Taking, SameCore, CanSatisfy
<1> QED
  BY <1>4

LEMMA TakeTouch ==
  ASSUME ListInv, Touching, NEW c \in Core, TakeFront(c) PROVE Touching'
<1>1. PICK e, s : e = ent[c] /\ s = ReqSize(req[c]) /\ Takes(c, e, s)
  BY TakesIs
<1>2. /\ e \in ents /\ e \in Nat /\ s \in Nat /\ size[e] \in Nat /\ 0 < s /\ s <= size[e]
  BY <1>1 DEF Takes
<1>3. \A a \in ents' : \/ a \in ents /\ a # e /\ size'[a] = size[a]
                       \/ a = e + s /\ s < size[e] /\ size'[a] = size[e] - s
  BY <1>1 DEF Takes
<1>4. \A a, b \in ents : a + size[a] = b => b = e \/ b \in cuts
  <2>1. SUFFICES ASSUME NEW a \in ents, NEW b \in ents, a + size[a] = b, b \notin cuts PROVE b = e
    OBVIOUS
  <2>2. PICK d \in Core : Taking(d, a, b)
    BY <2>1 DEF Touching
  <2>3. d = c
    BY <2>2, OnlyOwner DEF Taking, TakeFront, Locked
  <2> QED
    BY <1>1, <2>2, <2>3 DEF Taking
<1>5. /\ \A a \in ents : a \in Nat /\ size[a] \in Nat /\ size[a] > 0
      /\ \A a, b \in ents : a < b => a + size[a] <= b
  BY Widths DEF ListInv, TypeOK, Blocks, Inside
<1>6. ASSUME NEW a \in ents', NEW b \in ents', a + size'[a] = b, b \notin cuts PROVE FALSE
  <2>1. CASE a \in ents /\ a # e /\ size'[a] = size[a] /\ b \in ents /\ b # e
    BY <1>4, <1>6, <2>1
  <2>2. CASE a = e + s /\ s < size[e] /\ size'[a] = size[e] - s /\ b \in ents /\ b # e
    <3>1. e + size[e] = b
      BY <1>2, <1>6, <2>2
    <3> QED
      BY <1>2, <1>4, <1>6, <2>2, <3>1
  <2>3. CASE a \in ents /\ a # e /\ size'[a] = size[a] /\ b = e + s /\ s < size[e]
    <3>1. a < e \/ e < a
      BY <1>2, <1>5, <2>3
    <3>2. a < e => a + size[a] <= e
      BY <1>2, <1>5, <2>3
    <3>3. e < a => e + size[e] <= a
      BY <1>2, <1>5, <2>3
    <3>4. a \in Nat /\ size[a] \in Nat
      BY <1>5, <2>3
    <3> QED
      BY <1>2, <1>6, <2>3, <3>1, <3>2, <3>3, <3>4
  <2>4. CASE a = e + s /\ size'[a] = size[e] - s /\ s < size[e] /\ b = e + s
    BY <1>2, <1>6, <2>4
  <2> QED
    BY <1>3, <2>1, <2>2, <2>3, <2>4
<1>7. cuts' = cuts \cap ents'
  BY DEF TakeFront
<1> QED
  BY <1>6, <1>7 DEF Touching

\* The part of an entry that is cut off can satisfy the request from its start,
\* unless that is above the maximum.
LEMMA SecondPart ==
  ASSUME ListInv, NEW c \in Core, SplitFront(c), NEW e, NEW t, Splits(c, e, t),
         ~(e + t > AddrMax(req[c]))
  PROVE  CanSatisfy(req[c], e + t)' /\ UsableBase(req[c], e + t) = e + t
<1>1. pc[c] = "visit" /\ ~ListEnds(ent[c]) /\ UNCHANGED req
  BY DEF SplitFront
<1>2. PICK r : r = req[c]
  OBVIOUS
<1>3. r \in Request /\ ~Rejected(r) /\ CanSatisfy(r, e) /\ e \in ents
  BY <1>1, <1>2, VisitsEntry DEF SplitFront, Splits
<1>4. /\ e \in Arena /\ e \in Nat /\ size[e] \in Nat /\ e + size[e] < Word
      /\ UsableBase(r, e) < e + size[e] /\ e < AddrMax(r)
      /\ ReqSize(r) <= (Smaller(AddrMax(r), e + size[e]) - UsableBase(r, e)) % Word
  BY <1>3, FitsIs
<1>5. PICK x \in Nat : x = e + t /\ x = UsableBase(r, e)
  BY <1>2, <1>3, <1>4, Usable DEF Splits
<1>6. t \in Nat /\ t < size[e] /\ size'[x] = size[e] - t /\ Inside(e, size[e]) /\ t > 0
  BY <1>5 DEF Splits
<1>7. x \in Arena
  BY <1>4, <1>5, <1>6, Bounds
<1>8. UsableBase(r, x) = x
  <2>1. AddrMin(r) <= x /\ x % Alignment(r) = 0
    BY <1>3, <1>4, <1>5, Usable
  <2> QED
    BY <1>3, <1>7, <2>1, Usable
<1>9. AddrMax(r) \in Nat /\ ReqSize(r) \in Nat /\ ReqSize(r) > 0
  <2>1. ReqSize(r) \in Nat /\ r.size \in Nat /\ r.size <= ReqSize(r) /\ r.size # 0
    BY <1>3, Sizes, Fields, Widths DEF Rejected
  <2> QED
    BY <1>3, <2>1, Maximum, Widths
<1>10. x <= AddrMax(r)
  BY <1>2, <1>5, <1>9
<1>11. x # AddrMax(r)
  <2>1. SUFFICES ASSUME x = AddrMax(r) PROVE FALSE
    OBVIOUS
  <2>2. Smaller(AddrMax(r), e + size[e]) = x
    BY <1>4, <1>5, <2>1 DEF Smaller
  <2>3. (x - x) % Word = 0
    BY Widths
  <2> QED
    BY <1>4, <1>5, <1>9, <2>2, <2>3
<1>12. (x + size'[x]) % Word = e + size[e]
  <2>1. x + size'[x] = e + size[e] /\ e + size[e] \in Nat
    BY <1>4, <1>5, <1>6
  <2> QED
    BY <1>4, <2>1, NoWrap
<1>13. CanSatisfy(r, x)'
  <2>1. x < AddrMax(r) /\ e + size[e] > x
    BY <1>4, <1>5, <1>9, <1>10, <1>11
  <2>2. ReqSize(r) <= (Smaller(AddrMax(r), e + size[e]) - x) % Word
    BY <1>4, <1>5
  <2> QED
    BY <1>8, <1>12, <2>1, <2>2 DEF CanSatisfy
<1> QED
  BY <1>1, <1>2, <1>5, <1>8, <1>13

LEMMA SplitTouch ==
  ASSUME ListInv, Touching, NEW c \in Core, SplitFront(c) PROVE Touching'
<1>1. PICK t \in Nat : Splits(c, ent[c], t)
  BY SplitsIs
<1>2. PICK e, x : e = ent[c] /\ x = e + t /\ Splits(c, e, t)
  BY <1>1
<1>3. pc[c] = "visit" /\ UsableBase(req[c], ent[c]) # ent[c]
  BY DEF SplitFront
<1>4. NoTouch
  BY <1>3, TouchLone DEF Locked
<1>5. /\ e \in ents /\ e \in Nat /\ size[e] \in Nat /\ 0 < t /\ t < size[e]
      /\ x = UsableBase(req[c], ent[c])
  BY <1>2 DEF Splits
<1>6. \A a \in ents' : \/ a \in ents /\ a # e /\ size'[a] = size[a]
                       \/ a = e /\ size'[a] = t
                       \/ a = x /\ size'[a] = size[e] - t
  BY <1>2 DEF Splits
<1>7. /\ \A a \in ents : a \in Nat /\ size[a] \in Nat /\ size[a] > 0
      /\ \A a, b \in ents : a < b => a + size[a] <= b
  BY Widths DEF ListInv, TypeOK, Blocks, Inside
<1>c. cuts' = cuts \cup {a \in {x} : a > AddrMax(req[c])}
  BY <1>5 DEF SplitFront
<1>8. ASSUME x \notin cuts' PROVE Taking(c, e, x)'
  <2>0. ~(x > AddrMax(req[c]))
    BY <1>c, <1>8
  <2>1. CanSatisfy(req[c], x)' /\ UsableBase(req[c], x) = x
    BY <1>2, <2>0, SecondPart
  <2>2. pc'[c] = "visit" /\ prev'[c] = e /\ ent'[c] = x /\ req' = req
    BY <1>2, <1>3, <1>5 DEF SplitFront, ListInv, TypeOK
  <2> QED
    BY <2>1, <2>2 DEF Taking
<1>9. ASSUME NEW a \in ents', NEW b \in ents', a + size'[a] = b, b \notin cuts PROVE a = e /\ b = x
  <2>1. CASE a \in ents /\ a # e /\ size'[a] = size[a]
    <3>1. a \in Nat /\ size[a] \in Nat /\ (a < e => a + size[a] <= e) /\ (e < a => e + size[e] <= a)
          /\ (a < e \/ e < a) /\ size[a] > 0
      BY <1>5, <1>7, <2>1
    <3>2. b # x
      BY <1>2, <1>5, <1>9, <2>1, <3>1
    <3>3. b \in ents
      BY <1>5, <1>6, <3>2
    <3> QED
      BY <1>4, <1>9, <2>1, <3>3 DEF NoTouch
  <2>2. CASE a = e /\ size'[a] = t
    BY <1>2, <1>9, <2>2
  <2>3. CASE a = x /\ size'[a] = size[e] - t
    <3>1. b = e + size[e] /\ b # x
      BY <1>2, <1>5, <1>9, <2>3
    <3>2. b \in ents
      BY <1>5, <1>6, <3>1
    <3> QED
      BY <1>4, <1>5, <1>9, <3>1, <3>2 DEF NoTouch
  <2> QED
    BY <1>6, <2>1, <2>2, <2>3
<1>10. cuts \subseteq cuts'
  BY <1>c
<1> QED
  BY <1>8, <1>9, <1>10 DEF Touching

LEMMA FreeTouch ==
  ASSUME ListInv, Touching, NEW c \in Core, FreeFront(c) \/ FreeInsert(c) PROVE Touching'
<1>1. PICK b, z, p, q, at, n : Frees(b, z, p, q, at, n)
  BY FreeIs
<1>2. pc[c] \in {"free", "place"}
  BY FreeIs
<1>3. NoTouch
  BY <1>2, TouchLone DEF Locked
<1>4. /\ b \in Nat /\ z \in Nat /\ z > 0 /\ p \in ents \cup {0} /\ q \in ents \cup {0}
      /\ p \in Nat /\ q \in Nat /\ Succ(ents, p, q) /\ p < b
      /\ (q # 0 => b + z <= q)
  BY <1>1 DEF Frees, Between
<1>5. /\ at \in Nat /\ n \in Nat /\ n > 0 /\ at <= b /\ b + z <= at + n /\ size'[at] = n
      /\ \/ at = p /\ p \in ents
         \/ at = b /\ (p = 0 \/ p + size[p] < b)
      /\ \/ q \in ents /\ at + n = q + size[q]
         \/ at + n = b + z /\ (q = 0 \/ b + z < q)
  BY <1>1, FreesMakes
<1>6. /\ \A a \in ents : a \in Nat /\ size[a] \in Nat /\ size[a] > 0 /\ a > 0
      /\ \A a, d \in ents : a < d => a + size[a] <= d
  <2>1. Blocks /\ TypeOK
    BY DEF ListInv
  <2>2. \A a \in ents : a \in Nat /\ size[a] \in Nat /\ size[a] > 0 /\ a > 0
    BY <2>1, Widths DEF TypeOK, Blocks, Inside
  <2>3. \A a, d \in ents : a < d => a + size[a] <= d
    BY <2>1 DEF Blocks
  <2> QED
    BY <2>2, <2>3
<1>7. ASSUME NEW a \in ents', NEW d \in ents', a + size'[a] = d, d \notin cuts PROVE FALSE
  <2>1. CASE a # at /\ d # at
    <3>1. a \in ents /\ d \in ents /\ size'[a] = size[a]
      BY <1>1, <2>1, FreesOrder
    <3> QED
      BY <1>3, <1>7, <3>1 DEF NoTouch
  <2>2. CASE a = at
    <3>1. d # at /\ d = at + n
      BY <1>5, <1>7, <2>2
    <3>2. d \in ents /\ d \in Nat
      BY <1>1, <3>1, FreesOrder
    <3>3. CASE q \in ents /\ at + n = q + size[q]
      BY <1>3, <1>7, <3>1, <3>2, <3>3 DEF NoTouch
    <3>4. CASE at + n = b + z /\ (q = 0 \/ b + z < q)
      <4>1. d > p
        BY <1>4, <3>1, <3>4
      <4>2. q # 0 /\ q <= d
        BY <1>4, <3>2, <4>1 DEF Succ
      <4> QED
        BY <1>4, <3>1, <3>4, <4>2
    <3> QED
      BY <1>5, <3>3, <3>4
  <2>3. CASE a # at /\ d = at
    <3>1. a \in ents /\ size'[a] = size[a] /\ a \in Nat /\ size[a] \in Nat /\ size[a] > 0
      BY <1>1, <2>3, FreesOrder
    <3>2. CASE at = p /\ p \in ents
      BY <1>3, <1>7, <2>3, <3>1, <3>2 DEF NoTouch
    <3>3. CASE at = b /\ (p = 0 \/ p + size[p] < b)
      <4>1. a < b
        BY <1>4, <1>7, <2>3, <3>1, <3>3
      <4>2. a <= p
        <5>1. SUFFICES ASSUME ~(a <= p) PROVE FALSE
          OBVIOUS
        <5>2. a > p
          BY <1>4, <3>1, <5>1
        <5>3. q # 0 /\ q <= a
          BY <1>4, <3>1, <5>2 DEF Succ
        <5> QED
          BY <1>4, <3>1, <4>1, <5>3
      <4>3. p \in ents /\ p # 0
        BY <1>4, <1>6, <3>1, <4>2
      <4>4. a < p => a + size[a] <= p
        BY <1>6, <3>1, <4>3
      <4> QED
        BY <1>4, <1>6, <1>7, <2>3, <3>1, <3>3, <4>2, <4>3, <4>4
    <3> QED
      BY <1>5, <3>2, <3>3
  <2> QED
    BY <2>1, <2>2, <2>3
<1>8. cuts' = cuts \cap ents'
  BY <1>1 DEF Frees
<1> QED
  BY <1>7, <1>8 DEF Touching

LEMMA StepTouch ==
  ASSUME ListInv, MeetsRequest, Touching, NEW c \in Core, Step(c) PROVE Touching'
<1>1. ASSUME \/ (\E r \in Request : Enter(c, r) \/ Available(c, r))
             \/ Sum(c) \/ SumLost(c) \/ SumDone(c)
      PROVE  Touching'
  <2>1. pc[c] # "visit" /\ UNCHANGED memory
    BY <1>1 DEF Enter, Available, Sum, SumLost, SumDone
  <2>2. \A d \in Core : d # c => SameCore(d)
    <3>1. ASSUME NEW r \in Request, Enter(c, r) \/ Available(c, r)
          PROVE  \A d \in Core : d # c => SameCore(d)
      BY <3>1 DEF Enter, Available, SameCore, Goto, ListInv, TypeOK
    <3>2. ASSUME Sum(c) \/ SumLost(c) \/ SumDone(c)
          PROVE  \A d \in Core : d # c => SameCore(d)
      BY <3>2 DEF Sum, SumLost, SumDone, SameCore, Goto, ListInv, TypeOK
    <3> QED
      BY <1>1, <3>1, <3>2
  <2> QED
    BY <2>1, <2>2, TouchOther
<1>2. ASSUME \/ LookupAlloc(c) \/ LookupFree(c) \/ LookupFind(c) \/ Check(c) \/ Record(c)
             \/ FreeSearch(c) \/ Place(c) \/ Clear(c)
      PROVE  Touching'
  <2>1. pc[c] # "visit" /\ pc[c] \in Locked /\ UNCHANGED memory
    BY <1>2 DEF LookupAlloc, LookupFree, LookupFind, Check, Record, FreeSearch, Place, Clear, Locked
  <2>2. NoTouch
    BY <2>1, TouchLone
  <2> QED
    BY <2>1, <2>2, TouchStays DEF memory
<1>3. ASSUME Unlock(c) PROVE Touching'
  <2>1. pc[c] = "unlock" /\ pc[c] \in Locked /\ ents' = ents /\ cuts' = cuts
    BY <1>3 DEF Unlock, Locked
  <2>2. NoTouch
    BY <2>1, TouchLone
  <2>3. \A a \in ents : size'[a] = size[a]
    BY <1>3, UnlockWrites
  <2> QED
    BY <2>1, <2>2, <2>3, TouchStays
<1>4. ASSUME Skip(c) PROVE Touching'
  <2>1. pc[c] \in Locked /\ ~CanSatisfy(req[c], ent[c]) /\ UNCHANGED memory
    BY <1>4 DEF Skip, Locked
  <2>2. NoTouch
    BY <2>1, TouchLone
  <2> QED
    BY <2>1, <2>2, TouchStays DEF memory
<1>5. ASSUME NothingFits(c) PROVE Touching'
  <2>1. pc[c] = "visit" /\ ListEnds(ent[c]) /\ UNCHANGED memory
    BY <1>5 DEF NothingFits
  <2>2. NoTouch
    <3>1. SUFFICES ASSUME NEW a \in ents, NEW b \in ents, a + size[a] = b, b \notin cuts PROVE FALSE
      BY DEF NoTouch
    <3>2. PICK d \in Core : Taking(d, a, b)
      BY <3>1 DEF Touching
    <3>3. d = c
      BY <2>1, <3>2, OnlyOwner DEF Taking, Locked
    <3>4. ent[c] = b
      BY <3>2, <3>3 DEF Taking
    <3> QED
      BY <2>1, <3>4, EntryFollows
  <2> QED
    BY <2>1, <2>2, TouchStays DEF memory
<1> QED
  BY <1>1, <1>2, <1>3, <1>4, <1>5, TakeTouch, SplitTouch, FreeTouch
     DEF Step, Holding, BlockAlloc, BlockFree

LEMMA InitTouch == ASSUME Init PROVE Touching
<1>1. ListInv
  BY InitList
<1>2. SUFFICES ASSUME NEW a \in ents, NEW b \in ents, a + size[a] = b PROVE FALSE
  BY DEF Touching
<1>3. a \in Nat /\ b \in Nat /\ size[a] \in Nat /\ size[a] > 0
  BY <1>1, Widths DEF ListInv, TypeOK, Blocks, Inside
<1>4. a \in DOMAIN InitFree /\ b \in DOMAIN InitFree /\ size[a] = InitFree[a]
  BY InitFreeAssumption DEF Init
<1>5. a < b
  BY <1>2, <1>3
<1> QED
  BY <1>2, <1>3, <1>4, <1>5, InitFreeAssumption

-----------------------------------------------------------------------------
(* The free list is sound *)

LEMMA ListParts ==
  ASSUME ListInv PROVE TypeOK /\ Exclusion /\ ListThreaded /\ Partition /\ HeadersFit
<1>1. /\ \A a \in ents : a \in Nat /\ size[a] \in Nat /\ size[a] > 0
      /\ \A o \in owned : o[1] \in Nat /\ o[2] \in Nat /\ o[2] > 0
  BY Widths, OwnedAre DEF ListInv, TypeOK, Blocks, Inside
<1>2. \A e \in Entries : e[1] \in ents /\ e[2] = size[e[1]] /\ e = <<e[1], e[2]>>
  BY DEF Entries
<1>3. \A a \in ents : <<a, size[a]>> \in Entries
  BY DEF Entries
<1>4. Blocks
  BY DEF ListInv
<1>5. \A a \in Nat, s \in Nat, b \in Nat, t \in Nat :
        Apart(a, s, b, t) => Cells(a, s) \cap Cells(b, t) = {}
  BY DEF Apart, Cells
<1>6. \A e \in Entries \cup owned :
        /\ e[1] \in Nat /\ e[2] \in Nat /\ e[2] > 0 /\ Inside(e[1], e[2])
  BY <1>1, <1>2, <1>4 DEF Blocks
<1>7. HeadersFit
  BY <1>6 DEF HeadersFit, Inside
<1>8. Partition
  <2>1. \A b \in Entries \cup owned : b[2] > 0 /\ Cells(b[1], b[2]) \subseteq Arena
    BY <1>6 DEF Inside
  <2>2. ASSUME NEW x \in Arena PROVE \E b \in Entries \cup owned : x \in Cells(b[1], b[2])
    <3>1. x \in Nat
      BY ArenaBounds
    <3>2. CASE \E a \in ents : a <= x /\ x < a + size[a]
      <4>1. PICK a \in ents : a <= x /\ x < a + size[a]
        BY <3>2
      <4>2. x \in Cells(a, size[a])
        BY <1>1, <3>1, <4>1 DEF Cells
      <4>3. <<a, size[a]>> \in Entries /\ <<a, size[a]>>[1] = a /\ <<a, size[a]>>[2] = size[a]
        BY <1>3
      <4> QED
        BY <4>2, <4>3
    <3>3. CASE \E o \in owned : o[1] <= x /\ x < o[1] + o[2]
      BY <1>1, <3>1, <3>3 DEF Cells
    <3> QED
      BY <1>4, <3>2, <3>3 DEF Blocks
  <2>3. ASSUME NEW b \in Entries \cup owned, NEW d \in Entries \cup owned, b # d
        PROVE  Cells(b[1], b[2]) \cap Cells(d[1], d[2]) = {}
    <3>1. Apart(b[1], b[2], d[1], d[2]) \/ Apart(d[1], d[2], b[1], b[2])
      <4>1. CASE b \in Entries /\ d \in Entries
        <5>1. b[1] # d[1]
          BY <1>2, <2>3, <4>1
        <5> QED
          BY <1>2, <4>1, <5>1, EntriesApart
      <4>2. CASE b \in Entries /\ d \in owned
        BY <1>2, <1>4, <4>2 DEF Blocks
      <4>3. CASE b \in owned /\ d \in Entries
        BY <1>2, <1>4, <4>3 DEF Blocks
      <4>4. CASE b \in owned /\ d \in owned
        BY <1>4, <2>3, <4>4 DEF Blocks
      <4> QED
        BY <4>1, <4>2, <4>3, <4>4
    <3> QED
      BY <1>5, <1>6, <3>1
  <2>4. \A b \in owned : b[1] \notin ents
    <3>1. SUFFICES ASSUME NEW b \in owned, b[1] \in ents PROVE FALSE
      OBVIOUS
    <3>2. Apart(b[1], size[b[1]], b[1], b[2])
      BY <1>4, <3>1 DEF Blocks
    <3> QED
      BY <1>1, <3>1, <3>2 DEF Apart
  <2> QED
    BY <2>1, <2>2, <2>3, <2>4 DEF Partition
<1>9. ListThreaded
  BY ThreadedIs DEF ListInv
<1> QED
  BY <1>7, <1>8, <1>9 DEF ListInv

LEMMA SoundList == ASSUME ListInv, Touching PROVE FreeListSound
<1>1. \A e \in Entries : e[1] \in ents /\ e[2] = size[e[1]]
  BY DEF Entries
<1>2. Coalesced
  <2>1. SUFFICES ASSUME ~lock, NEW b \in Entries, NEW d \in Entries, b[1] + b[2] = d[1], d[1] \notin cuts
                 PROVE  FALSE
    BY DEF Coalesced
  <2>2. PICK c \in Core : Taking(c, b[1], d[1])
    BY <1>1, <2>1 DEF Touching
  <2>3. c \in Owner
    BY <2>2 DEF Taking, Owner, Locked
  <2> QED
    BY <2>1, <2>3 DEF ListInv, Exclusion
<1> QED
  BY <1>2, ListParts DEF FreeListSound

LEMMA StutterSame ==
  ASSUME UNCHANGED vars
  PROVE  /\ ListInv => ListInv'
         /\ Touching => Touching'
         /\ MeetsRequest => MeetsRequest'
<1>1. UNCHANGED <<lock, head, next, size, ents, owned, cuts, named, pc, req, ent, prev, desc, res>>
      /\ UNCHANGED <<total, split, calm>>
  BY DEF vars, memory, local
<1>2. ListInv => ListInv'
  <2>1. TypeOK => TypeOK'
    BY <1>1 DEF TypeOK
  <2>2. Exclusion => Exclusion'
    BY <1>1 DEF Exclusion, Owner
  <2>3. Threaded /\ Blocks => Threaded' /\ Blocks'
    BY <1>1 DEF Threaded, Blocks
  <2>4. (\A c \in Core : Kept(c)) => (\A c \in Core : Kept(c)')
    BY <1>1 DEF Kept, Walking, Describes, Live, PhyAddr
  <2>5. NamedKept => NamedKept'
    BY <1>1 DEF NamedKept, Live
  <2> QED
    BY <2>1, <2>2, <2>3, <2>4, <2>5 DEF ListInv
<1>3. Touching => Touching'
  BY <1>1 DEF Touching, Taking, CanSatisfy
<1>4. MeetsRequest => MeetsRequest'
  BY <1>1 DEF MeetsRequest
<1> QED
  BY <1>2, <1>3, <1>4

\* Whoever takes octeon_lock finds the free list in order: one core at a time
\* between octeon_lock and octeon_unlock, links that visit the free blocks in
\* ascending order, every byte in one free block or one block handed out,
\* everything aligned, and free neighbours merged but for those that a call cut
\* apart above its maximum.  The list's code does this for every memory, every set
\* of cores and every sequence of calls.
THEOREM FreeListAlwaysSound == Spec => []FreeListSound
<1> DEFINE Inv == ListInv /\ MeetsRequest /\ Touching
<1>1. Init => Inv
  BY InitList, InitTouch
<1>2. Inv /\ [Next]_vars => Inv'
  <2>1. ASSUME Inv, NEW c \in Core, Step(c) PROVE Inv'
    BY <2>1, StepList, StepMeets, StepTouch
  <2>2. ASSUME Inv, UNCHANGED vars PROVE Inv'
    BY <2>2, StutterSame
  <2> QED
    BY <2>1, <2>2 DEF Next
<1>3. Inv => FreeListSound
  BY SoundList
<1> HIDE DEF Inv
<1> QED
  BY <1>1, <1>2, <1>3, PTL DEF Spec

-----------------------------------------------------------------------------
(* First fit finds a place wherever there is one *)

SearchedBy(c) ==
  /\ pc[c] = "visit" => \A a \in ents : a <= prev[c] => ~CanSatisfy(req[c], a)
  /\ pc[c] = "unlock" /\ req[c].op = "range" /\ res[c] = 0 =>
       Rejected(req[c]) \/ \A a \in ents : ~CanSatisfy(req[c], a)
  /\ pc[c] \in {"free", "place", "clear"} => req[c].op = "free"

LEMMA SearchedAll == Searched <=> \A c \in Core : SearchedBy(c)
  BY DEF Searched, SearchedBy

LEMMA SearchOthers ==
  ASSUME ListInv, Searched, NEW c \in Core, NEW d \in Core, d # c, SameCore(d),
         pc[c] \in Locked \/ UNCHANGED memory
  PROVE  SearchedBy(d)'
<1>1. SearchedBy(d)
  BY SearchedAll
<1>2. CASE pc[c] \in Locked
  <2>1. pc[d] \notin Locked
    BY <1>2, OnlyOwner
  <2> QED
    BY <2>1 DEF SearchedBy, SameCore, Locked
<1>3. CASE UNCHANGED memory
  <2>1. UNCHANGED <<ents, size>>
    BY <1>3 DEF memory
  <2> QED
    BY <1>1, <2>1 DEF SearchedBy, SameCore, CanSatisfy
<1> QED
  BY <1>2, <1>3

\* No step of a core changes what another one works with.
LEMMA OthersSame ==
  ASSUME ListInv, NEW c \in Core, Step(c), NEW d \in Core, d # c
  PROVE  SameCore(d) /\ (pc[c] \in Locked \/ UNCHANGED memory)
<1> USE DEF ListInv, TypeOK, SameCore, Goto
<1>1. ASSUME NEW r \in Request, Enter(c, r) \/ Available(c, r)
      PROVE  SameCore(d) /\ UNCHANGED memory
  BY <1>1 DEF Enter, Available
<1>2. ASSUME Sum(c) \/ SumLost(c) \/ SumDone(c) PROVE SameCore(d) /\ UNCHANGED memory
  BY <1>2 DEF Sum, SumLost, SumDone
<1>3. ASSUME LookupAlloc(c) \/ LookupFree(c) \/ LookupFind(c) PROVE SameCore(d) /\ pc[c] \in Locked
  BY <1>3 DEF LookupAlloc, LookupFree, LookupFind, Locked
<1>4. ASSUME Check(c) \/ Skip(c) \/ NothingFits(c) PROVE SameCore(d) /\ pc[c] \in Locked
  BY <1>4 DEF Check, Skip, NothingFits, Locked
<1>5. ASSUME TakeFront(c) \/ SplitFront(c) PROVE SameCore(d) /\ pc[c] \in Locked
  BY <1>5 DEF TakeFront, SplitFront, Locked
<1>6. ASSUME Record(c) \/ Clear(c) \/ Unlock(c) PROVE SameCore(d) /\ pc[c] \in Locked
  BY <1>6 DEF Record, Clear, Unlock, Locked
<1>7. ASSUME FreeSearch(c) \/ Place(c) PROVE SameCore(d) /\ pc[c] \in Locked
  BY <1>7 DEF FreeSearch, Place, Locked
<1>8. ASSUME FreeFront(c) \/ FreeInsert(c) PROVE SameCore(d) /\ pc[c] \in Locked
  <2>1. pc[c] \in {"free", "place"} /\ Goto(c, "clear") /\ UNCHANGED <<req, ent, prev, desc, res>>
    BY <1>8 DEF FreeFront, FreeInsert
  <2> QED
    BY <2>1 DEF Locked
<1> QED
  BY <1>1, <1>2, <1>3, <1>4, <1>5, <1>6, <1>7, <1>8 DEF Step, Holding, BlockAlloc, BlockFree

LEMMA SplitSearch ==
  ASSUME ListInv, Searched, NEW c \in Core, SplitFront(c) PROVE SearchedBy(c)'
<1>1. PICK t \in Nat : Splits(c, ent[c], t)
  BY SplitsIs
<1>2. PICK e, x, r : e = ent[c] /\ x = e + t /\ Splits(c, e, t) /\ r = req[c]
  BY <1>1
<1>3. pc[c] = "visit" /\ UNCHANGED <<pc, req>> /\ prev'[c] = e /\ ~ListEnds(ent[c])
  BY <1>2 DEF SplitFront, ListInv, TypeOK
<1>4. /\ e \in ents /\ e \in Nat /\ t \in Nat /\ x = UsableBase(r, e) /\ size'[e] = t /\ 0 < t
      /\ x \in Addr /\ ents' = ents \cup {x} /\ \A a \in ents \ {e} : size'[a] = size[a]
  BY <1>2 DEF Splits
<1>5. \A a \in ents : a <= prev[c] => ~CanSatisfy(r, a)
  BY <1>2, <1>3, SearchedAll DEF SearchedBy
<1>6. Succ(ents, prev[c], e) /\ prev[c] \in Nat /\ \A a \in ents : a \in Nat
  BY <1>2, <1>3, VisitsEntry
<1>7. ASSUME NEW a \in ents', a <= e PROVE ~CanSatisfy(r, a)'
  <2>1. a \in ents
    BY <1>2, <1>4, <1>7
  <2>2. CASE a = e
    <3>1. (e + t) % Word = e + t
      BY <1>2, <1>4, NoWrap, Widths
    <3> QED
      BY <1>2, <1>4, <2>2, <3>1 DEF CanSatisfy
  <2>3. CASE a # e
    <3>1. a <= prev[c]
      BY <1>4, <1>6, <1>7, <2>1, <2>3 DEF Succ
    <3>2. size'[a] = size[a] /\ ~CanSatisfy(r, a)
      BY <1>4, <1>5, <2>1, <2>3, <3>1
    <3> QED
      BY <3>2 DEF CanSatisfy
  <2> QED
    BY <2>2, <2>3
<1> QED
  BY <1>2, <1>3, <1>7 DEF SearchedBy

LEMMA StepSearch == ASSUME ListInv, Searched, NEW c \in Core, Step(c) PROVE Searched'
<1>1. SUFFICES SearchedBy(c)'
  <2>1. \A d \in Core : d # c => SearchedBy(d)'
    BY OthersSame, SearchOthers
  <2> QED
    BY <2>1 DEF Searched, SearchedBy
<1>2. SearchedBy(c)
  BY SearchedAll
<1>3. ASSUME NEW r \in Request, Enter(c, r) \/ Available(c, r) PROVE SearchedBy(c)'
  <2>1. pc'[c] \in {"check", "lookup", "sum"}
    BY <1>3 DEF Enter, Available, FirstStep, Goto, ListInv, TypeOK
  <2> QED
    BY <2>1 DEF SearchedBy
<1>4. ASSUME Sum(c) \/ SumLost(c) \/ SumDone(c) PROVE SearchedBy(c)'
  <2>1. pc'[c] \in {"sum", "lost", "idle"}
    BY <1>4 DEF Sum, SumLost, SumDone, Goto, ListInv, TypeOK
  <2> QED
    BY <2>1 DEF SearchedBy
<1>5. ASSUME LookupAlloc(c) \/ LookupFree(c) \/ LookupFind(c) PROVE SearchedBy(c)'
  <2>1. req' = req /\ req[c].op # "range"
        /\ \/ pc'[c] \in {"unlock", "check"}
           \/ pc'[c] = "free" /\ req[c].op = "free"
    BY <1>5 DEF LookupAlloc, LookupFree, LookupFind, Goto, ListInv, TypeOK
  <2> QED
    BY <2>1 DEF SearchedBy
<1>6. ASSUME Check(c) PROVE SearchedBy(c)'
  <2>1. /\ UNCHANGED <<req, ents>> /\ prev'[c] = 0
        /\ \/ pc'[c] = "unlock" /\ Rejected(req[c])
           \/ pc'[c] = "visit"
    BY <1>6 DEF Check, Goto, ListInv, TypeOK, Kept, memory
  <2>2. \A a \in ents : ~(a <= 0)
    BY Widths DEF ListInv, TypeOK
  <2> QED
    BY <2>1, <2>2 DEF SearchedBy
<1>7. ASSUME Skip(c) PROVE SearchedBy(c)'
  <2>1. /\ pc[c] = "visit" /\ UNCHANGED <<pc, req, ents, size>> /\ prev'[c] = ent[c]
        /\ ~CanSatisfy(req[c], ent[c]) /\ ~ListEnds(ent[c])
    BY <1>7 DEF Skip, memory, ListInv, TypeOK
  <2>2. /\ Succ(ents, prev[c], ent[c]) /\ ent[c] \in ents /\ prev[c] \in Nat
        /\ \A a \in ents : a \in Nat
    BY <2>1, VisitsEntry
  <2>3. \A a \in ents : a <= ent[c] => a <= prev[c] \/ a = ent[c]
    BY <2>2 DEF Succ
  <2>4. \A a \in ents : a <= ent[c] => ~CanSatisfy(req[c], a)
    BY <1>2, <2>1, <2>3 DEF SearchedBy
  <2> QED
    BY <2>1, <2>4 DEF SearchedBy, CanSatisfy
<1>8. ASSUME NothingFits(c) PROVE SearchedBy(c)'
  <2>1. pc[c] = "visit" /\ ListEnds(ent[c]) /\ UNCHANGED <<req, ents, size>> /\ pc'[c] = "unlock"
    BY <1>8 DEF NothingFits, memory, Goto, ListInv, TypeOK
  <2>2. Walking(c)
    BY <2>1 DEF ListInv, Kept
  <2>3. ent[c] \notin ents
    BY <2>1, EntryFollows
  <2>4. \A a \in ents : a <= prev[c]
    BY <2>2, <2>3 DEF Walking, Succ
  <2>5. \A a \in ents : ~CanSatisfy(req[c], a)
    BY <1>2, <2>1, <2>4 DEF SearchedBy
  <2> QED
    BY <2>1, <2>5 DEF SearchedBy, CanSatisfy
<1>9. ASSUME TakeFront(c) PROVE SearchedBy(c)'
  <2>1. pc'[c] \in {"record", "unlock"} /\ res'[c] # 0
    <3>1. ent[c] # 0
      BY <1>9 DEF TakeFront, ListEnds
    <3> QED
      BY <1>9, <3>1 DEF TakeFront, Goto, ListInv, TypeOK
  <2> QED
    BY <2>1 DEF SearchedBy
<1>10. ASSUME Record(c) PROVE SearchedBy(c)'
  <2>1. pc'[c] = "unlock" /\ req' = req /\ req[c].op = "named"
    BY <1>10 DEF Record, Goto, ListInv, TypeOK, Kept
  <2> QED
    BY <2>1 DEF SearchedBy
<1>11. ASSUME Clear(c) PROVE SearchedBy(c)'
  <2>1. pc'[c] = "unlock" /\ req' = req /\ req[c].op = "free"
    BY <1>2, <1>11 DEF Clear, Goto, ListInv, TypeOK, SearchedBy
  <2> QED
    BY <2>1 DEF SearchedBy
<1>12. ASSUME FreeSearch(c) \/ Place(c) \/ FreeFront(c) \/ FreeInsert(c) PROVE SearchedBy(c)'
  <2>1. pc'[c] \in {"place", "clear"} /\ req' = req /\ pc[c] \in {"free", "place"}
    BY <1>12 DEF FreeSearch, Place, FreeFront, FreeInsert, Goto, ListInv, TypeOK
  <2> QED
    BY <1>2, <2>1 DEF SearchedBy
<1>13. ASSUME Unlock(c) PROVE SearchedBy(c)'
  <2>1. pc'[c] = "idle"
    BY <1>13 DEF Unlock, Goto, ListInv, TypeOK
  <2> QED
    BY <2>1 DEF SearchedBy
<1> QED
  BY <1>3, <1>4, <1>5, <1>6, <1>7, <1>8, <1>9, <1>10, <1>11, <1>12, <1>13, SplitSearch
     DEF Step, Holding, BlockAlloc, BlockFree

\* A run of free cells with no cut inside lies in one entry.
LEMMA RunInEntry ==
  ASSUME ListInv, NoTouch, NEW a \in Nat, NEW s \in Nat, s > 0, Cells(a, s) \subseteq FreeCells,
         \A x \in cuts : ~(a < x /\ x < a + s)
  PROVE  \E e \in ents : e <= a /\ a + s <= e + size[e]
<1>1. /\ \A e \in ents : e \in Nat /\ size[e] \in Nat /\ size[e] > 0
      /\ \A e, f \in ents : e < f => e + size[e] <= f
  BY Widths DEF ListInv, TypeOK, Blocks, Inside
<1>2. \A x \in Nat : x \in FreeCells => \E e \in ents : e <= x /\ x < e + size[e]
  <2>1. SUFFICES ASSUME NEW x \in Nat, x \in FreeCells PROVE \E e \in ents : e <= x /\ x < e + size[e]
    OBVIOUS
  <2>2. PICK b \in Entries : x \in Cells(b[1], b[2])
    BY <2>1 DEF FreeCells
  <2>3. b[1] \in ents /\ b[2] = size[b[1]]
    BY DEF Entries
  <2> QED
    BY <1>1, <2>2, <2>3 DEF Cells
<1>3. a \in FreeCells
  BY DEF Cells
<1>4. PICK e \in ents : e <= a /\ a < e + size[e]
  BY <1>2, <1>3
<1>5. PICK x \in Nat : x = e + size[e]
  BY <1>1
<1>6. ASSUME x < a + s PROVE FALSE
  <2>1. x \in Cells(a, s)
    BY <1>4, <1>5, <1>6 DEF Cells
  <2>2. PICK f \in ents : f <= x /\ x < f + size[f]
    BY <1>2, <2>1
  <2>3. f # x
    BY <1>4, <1>5, <1>6, <2>2 DEF NoTouch
  <2>4. f \in Nat /\ size[f] \in Nat /\ e \in Nat /\ size[e] \in Nat /\ size[e] > 0
    BY <1>1
  <2>5. (f < e => f + size[f] <= e) /\ (e < f => e + size[e] <= f)
    BY <1>1
  <2> QED
    BY <1>5, <2>2, <2>3, <2>4, <2>5
<1>7. a + s <= e + size[e]
  BY <1>5, <1>6
<1> QED
  BY <1>4, <1>7

\* An entry with a place for the request satisfies it.
LEMMA PlaceFits ==
  ASSUME ListInv, NEW r \in Request, r.size > 0, r.min % AlignSize = 0, NEW a \in Nat,
         a % Alignment(r) = 0, a >= r.min, a + ReqSize(r) <= AddrMax(r),
         NEW e \in ents, e <= a, a + ReqSize(r) <= e + size[e]
  PROVE  ~Rejected(r) /\ CanSatisfy(r, e)
<1>1. /\ ReqSize(r) \in Nat /\ r.size \in Nat /\ r.size <= ReqSize(r) /\ r.min \in Nat
      /\ AddrMin(r) \in Nat /\ AddrMax(r) \in Nat /\ AddrMax(r) < Word
  BY Sizes, Fields, Minimum, Maximum, Widths
<1>2. AddrMin(r) <= a
  BY Minimum, <1>1
<1>3. ~Rejected(r)
  <2>1. PICK d \in Nat : d = AddrMax(r) - AddrMin(r) /\ d < Word /\ ReqSize(r) <= d
    <3>1. AddrMax(r) - AddrMin(r) \in Nat
      BY <1>1, <1>2
    <3> QED
      BY <1>1, <1>2, <3>1, Widths
  <2>2. d % Word = d
    BY <2>1, NoWrap
  <2>3. ~(ReqSize(r) > d)
    BY <1>1, <2>1
  <2> QED
    BY <1>1, <2>1, <2>2, <2>3 DEF Rejected
<1>4. e \in Arena /\ e \in Nat /\ size[e] \in Nat /\ e + size[e] < Word
  BY FitsIs
<1>5. PICK b \in Nat : b = UsableBase(r, e)
  BY <1>4, Usable
<1>6. b <= a
  BY <1>2, <1>4, <1>5, Usable
<1>7. ReqSize(r) > 0
  BY <1>1
<1>8. b < e + size[e] /\ e < AddrMax(r) /\ b <= AddrMax(r)
  BY <1>1, <1>4, <1>6, <1>7
<1>9. (Smaller(AddrMax(r), e + size[e]) - b) % Word = Smaller(AddrMax(r), e + size[e]) - b
  BY <1>5, <1>8, FitsIs
<1>10. ReqSize(r) <= Smaller(AddrMax(r), e + size[e]) - b
  BY <1>1, <1>4, <1>6 DEF Smaller
<1> QED
  BY <1>3, <1>5, <1>8, <1>9, <1>10, FitsIs

LEMMA FullIs == ASSUME ListInv, Touching, Searched PROVE FailsOnlyWhenFull
<1>1. SUFFICES ASSUME NEW c \in Core, pc[c] = "unlock", req[c].op = "range", res[c] = 0,
                      req[c].size > 0, req[c].min % AlignSize = 0, NEW a \in Addr,
                      a % Alignment(req[c]) = 0, a >= req[c].min,
                      a + ReqSize(req[c]) <= AddrMax(req[c]),
                      Cells(a, ReqSize(req[c])) \subseteq FreeCells,
                      \A x \in cuts : ~(a < x /\ x < a + ReqSize(req[c]))
               PROVE  FALSE
  BY DEF FailsOnlyWhenFull
<1>2. PICK r : r = req[c]
  OBVIOUS
<1>3. r \in Request /\ a \in Nat
  BY <1>2, Widths DEF ListInv, TypeOK
<1>4. ReqSize(r) \in Nat /\ ReqSize(r) > 0
  <2>1. ReqSize(r) \in Nat /\ r.size <= ReqSize(r) /\ r.size \in Nat /\ r.size > 0
    BY <1>1, <1>2, <1>3, Sizes, Fields, Widths
  <2> QED
    BY <2>1
<1>5. NoTouch
  BY <1>1, TouchLone DEF Locked
<1>6. PICK e \in ents : e <= a /\ a + ReqSize(r) <= e + size[e]
  BY <1>1, <1>2, <1>3, <1>4, <1>5, RunInEntry
<1>7. ~Rejected(r) /\ CanSatisfy(r, e)
  BY <1>1, <1>2, <1>3, <1>6, PlaceFits
<1> QED
  BY <1>1, <1>2, <1>7 DEF Searched

LEMMA NamesAre == ASSUME ListInv PROVE NamesMatchBlocks
<1>1. SUFFICES ASSUME ~lock PROVE NamesMatchBlocks
  BY DEF NamesMatchBlocks
<1>2. \A d \in Core : pc[d] # "clear"
  BY <1>1 DEF ListInv, Exclusion, Owner, Locked
<1>3. Live = {i \in DOMAIN named : named[i].size # 0}
  BY DEF Live, ListInv, TypeOK
<1> QED
  BY <1>2, <1>3 DEF NamesMatchBlocks, ListInv, NamedKept

-----------------------------------------------------------------------------
(* What SumFunctionOnSet adds up, whatever the order *)

Pick(s) == CHOOSE x \in s : TRUE
\* g adds up f over every subset of T
Adds(f, T, g) ==
  g = [s \in SUBSET T |-> IF s = {} THEN 0 ELSE f[Pick(s)] + g[s \ {Pick(s)}]]

LEMMA SumIs ==
  ASSUME NEW f, NEW T, NEW g, Adds(f, T, g)
  PROVE  \E h : Adds(f, T, h) /\ SumFunctionOnSet(f, T) = h[T]
<1> DEFINE it == CHOOSE h : h = [s \in SUBSET T |-> IF s = {} THEN 0 ELSE f[Pick(s)] + h[s \ {Pick(s)}]]
<1>1. it = [s \in SUBSET T |-> IF s = {} THEN 0 ELSE f[Pick(s)] + it[s \ {Pick(s)}]]
  BY DEF Adds
<1>2. SumFunctionOnSet(f, T) = it[T]
  BY Zenon DEF SumFunctionOnSet, FoldFunctionOnSet, MapThenFoldSet, Pick
<1> QED
  BY <1>1, <1>2 DEF Adds

\* Among subsets of a finite set, one has no other below it.
LEMMA LeastSet ==
  ASSUME NEW T, IsFiniteSet(T), NEW B \in SUBSET (SUBSET T), B # {}
  PROVE  \E s \in B : \A u \in SUBSET s : u # s => u \notin B
<1>1. \A s \in B : IsFiniteSet(s) /\ Cardinality(s) \in Nat
  BY FS_Subset, FS_CardinalityType
<1>2. PICK N : N = {Cardinality(s) : s \in B}
  OBVIOUS
<1>3. N \in SUBSET Nat /\ N # {}
  BY <1>1, <1>2
<1>4. PICK n \in N : \A m \in N : n <= m
  BY <1>3, LeastNat
<1>5. PICK s \in B : n = Cardinality(s)
  BY <1>2
<1>6. ASSUME NEW u \in SUBSET s, u # s, u \in B PROVE FALSE
  <2>1. Cardinality(u) < Cardinality(s) /\ Cardinality(u) \in Nat /\ Cardinality(s) \in Nat
    BY <1>1, <1>6, FS_Subset
  <2>2. Cardinality(s) <= Cardinality(u)
    BY <1>2, <1>4, <1>5, <1>6
  <2> QED
    BY <2>1, <2>2
<1> QED
  BY <1>6

LEMMA PickIs == ASSUME NEW s, s # {} PROVE Pick(s) \in s
  BY DEF Pick

LEMMA AddsIs ==
  ASSUME NEW f, NEW T, NEW g, Adds(f, T, g), NEW s \in SUBSET T
  PROVE  /\ s = {} => g[s] = 0
         /\ s # {} => g[s] = f[Pick(s)] + g[s \ {Pick(s)}] /\ Pick(s) \in s
<1>1. g[s] = IF s = {} THEN 0 ELSE f[Pick(s)] + g[s \ {Pick(s)}]
  BY DEF Adds
<1> QED
  BY <1>1, PickIs

LEMMA AddsUnique ==
  ASSUME NEW f, NEW T, NEW U, NEW g, NEW h, Adds(f, T, g), Adds(f, U, h),
         NEW S, IsFiniteSet(S), S \subseteq T, S \subseteq U
  PROVE  g[S] = h[S]
<1>1. PICK B : B = {s \in SUBSET S : g[s] # h[s]}
  OBVIOUS
<1>2. SUFFICES ASSUME B # {} PROVE FALSE
  BY <1>1
<1>3. B \in SUBSET (SUBSET S)
  BY <1>1
<1>4. PICK s \in B : \A u \in SUBSET s : u # s => u \notin B
  BY <1>2, <1>3, LeastSet
<1>5. s \in SUBSET S /\ s \in SUBSET T /\ s \in SUBSET U /\ g[s] # h[s]
  BY <1>1
<1>6. s # {}
  BY <1>5, AddsIs
<1>7. PICK u : u = s \ {Pick(s)}
  OBVIOUS
<1>8. u \in SUBSET s /\ u # s /\ u \in SUBSET S
  BY <1>5, <1>6, <1>7, PickIs
<1>9. g[u] = h[u]
  BY <1>1, <1>4, <1>8
<1>10. g[s] = f[Pick(s)] + g[u] /\ h[s] = f[Pick(s)] + h[u]
  BY <1>5, <1>6, <1>7, AddsIs
<1> QED
  BY <1>5, <1>9, <1>10

LEMMA AddsExists ==
  ASSUME NEW f, NEW T, IsFiniteSet(T)
  PROVE  \E g : Adds(f, T, g)
<1>1. PICK B : B = {s \in SUBSET T : ~\E g : Adds(f, s, g)}
  OBVIOUS
<1>2. SUFFICES ASSUME B # {} PROVE FALSE
  BY <1>1
<1>3. B \in SUBSET (SUBSET T)
  BY <1>1
<1>4. PICK s \in B : \A u \in SUBSET s : u # s => u \notin B
  BY <1>2, <1>3, LeastSet
<1>5. s \in SUBSET T /\ IsFiniteSet(s)
  BY <1>1, FS_Subset
<1> DEFINE G(u) == CHOOSE g : Adds(f, u, g)
<1>6. \A u \in SUBSET s : u # s => Adds(f, u, G(u))
  <2>1. SUFFICES ASSUME NEW u \in SUBSET s, u # s PROVE Adds(f, u, G(u))
    OBVIOUS
  <2>2. \E g : Adds(f, u, g)
    BY <1>1, <1>4, <1>5, <2>1
  <2> QED
    BY <2>2
<1> DEFINE V(u) == IF u = {} THEN 0 ELSE f[Pick(u)] + G(u \ {Pick(u)})[u \ {Pick(u)}]
<1>7. ASSUME NEW w \in SUBSET s, w # s PROVE V(w) = G(w)[w]
  <2>1. Adds(f, w, G(w)) /\ w \in SUBSET w
    BY <1>6, <1>7
  <2>2. CASE w = {}
    BY <2>1, <2>2, AddsIs
  <2>3. CASE w # {}
    <3>1. PICK x : x = w \ {Pick(w)}
      OBVIOUS
    <3>2. x \in SUBSET s /\ x # s /\ x \subseteq w /\ IsFiniteSet(x)
      BY <1>5, <1>7, <2>3, <3>1, PickIs, FS_Subset
    <3>3. Adds(f, x, G(x))
      BY <1>6, <3>2
    <3> HIDE DEF G
    <3>4. G(w)[x] = G(x)[x]
      BY <2>1, <3>2, <3>3, AddsUnique
    <3>5. G(w)[w] = f[Pick(w)] + G(w)[x]
      BY <2>1, <2>3, <3>1, AddsIs
    <3> QED
      BY <2>3, <3>1, <3>4, <3>5
  <2> QED
    BY <2>2, <2>3
<1> HIDE DEF G
<1> DEFINE g == [u \in SUBSET s |-> V(u)]
<1>8. g = [u \in SUBSET s |-> IF u = {} THEN 0 ELSE f[Pick(u)] + g[u \ {Pick(u)}]]
  <2>1. ASSUME NEW u \in SUBSET s, u # {}
        PROVE  V(u) = f[Pick(u)] + g[u \ {Pick(u)}]
    <3>1. PICK w : w = u \ {Pick(u)}
      OBVIOUS
    <3>2. w \in SUBSET s /\ w # s
      BY <2>1, <3>1, PickIs
    <3>3. g[w] = G(w)[w]
      BY <1>7, <3>2
    <3> QED
      BY <2>1, <3>1, <3>3
  <2>2. \A u \in SUBSET s : V(u) = IF u = {} THEN 0 ELSE f[Pick(u)] + g[u \ {Pick(u)}]
    BY <2>1
  <2> HIDE DEF V
  <2> QED
    BY <2>2
<1>9. Adds(f, s, g)
  BY <1>8 DEF Adds
<1> QED
  BY <1>1, <1>9

LEMMA SumOn ==
  ASSUME NEW f, NEW T, IsFiniteSet(T), NEW g, Adds(f, T, g), NEW S \in SUBSET T
  PROVE  SumFunctionOnSet(f, S) = g[S]
<1>1. IsFiniteSet(S)
  BY FS_Subset
<1>2. PICK k : Adds(f, S, k)
  BY <1>1, AddsExists
<1>3. PICK h : Adds(f, S, h) /\ SumFunctionOnSet(f, S) = h[S]
  BY <1>2, SumIs
<1>4. h[S] = g[S]
  BY <1>1, <1>3, AddsUnique
<1> QED
  BY <1>3, <1>4

LEMMA AddsNat ==
  ASSUME NEW f, NEW T, IsFiniteSet(T), NEW g, Adds(f, T, g), \A x \in T : f[x] \in Nat
  PROVE  \A s \in SUBSET T : g[s] \in Nat
<1>1. PICK B : B = {s \in SUBSET T : g[s] \notin Nat}
  OBVIOUS
<1>2. SUFFICES ASSUME B # {} PROVE FALSE
  BY <1>1
<1>3. B \in SUBSET (SUBSET T)
  BY <1>1
<1>4. PICK s \in B : \A u \in SUBSET s : u # s => u \notin B
  BY <1>2, <1>3, LeastSet
<1>5. s \in SUBSET T /\ g[s] \notin Nat
  BY <1>1
<1>6. s # {}
  <2>1. s = {} => g[s] = 0
    BY <1>5, AddsIs
  <2>2. 0 \in Nat
    OBVIOUS
  <2> QED
    BY <1>5, <2>1, <2>2
<1>7. PICK u : u = s \ {Pick(s)}
  OBVIOUS
<1>8. u \in SUBSET s /\ u # s /\ u \in SUBSET T /\ Pick(s) \in T
  BY <1>5, <1>6, <1>7, PickIs
<1>9. g[u] \in Nat /\ f[Pick(s)] \in Nat
  BY <1>1, <1>4, <1>8
<1>10. g[s] = f[Pick(s)] + g[u]
  BY <1>5, <1>6, <1>7, AddsIs
<1> QED
  BY <1>5, <1>9, <1>10

\* The order of the addition does not matter.
LEMMA AddsAny ==
  ASSUME NEW f, NEW T, IsFiniteSet(T), NEW g, Adds(f, T, g), \A x \in T : f[x] \in Nat,
         NEW S \in SUBSET T, NEW e \in S
  PROVE  g[S] = f[e] + g[S \ {e}]
<1>1. PICK B : B = {s \in SUBSET T : ~\A a \in s : g[s] = f[a] + g[s \ {a}]}
  OBVIOUS
<1>2. SUFFICES ASSUME B # {} PROVE FALSE
  BY <1>1
<1>3. B \in SUBSET (SUBSET T)
  BY <1>1
<1>4. PICK s \in B : \A u \in SUBSET s : u # s => u \notin B
  BY <1>2, <1>3, LeastSet
<1>5. s \in SUBSET T
  BY <1>1
<1>6. PICK a \in s : g[s] # f[a] + g[s \ {a}]
  BY <1>1
<1>7. PICK x \in s : x = Pick(s)
  BY <1>6, PickIs
<1>8. g[s] = f[x] + g[s \ {x}]
  BY <1>5, <1>6, <1>7, AddsIs
<1>9. a # x
  BY <1>6, <1>8
<1>10. PICK u, v, w : u = s \ {x} /\ v = s \ {a} /\ w = (s \ {a}) \ {x}
  OBVIOUS
<1>11. /\ u \in SUBSET s /\ u # s /\ v \in SUBSET s /\ v # s /\ a \in u /\ x \in v
       /\ u \ {a} = w /\ v \ {x} = w /\ u \in SUBSET T /\ v \in SUBSET T /\ w \in SUBSET T
  BY <1>5, <1>9, <1>10
<1>12. g[u] = f[a] + g[w]
  <2>1. u \notin B
    BY <1>4, <1>11
  <2> QED
    BY <1>1, <1>11, <2>1
<1>13. g[v] = f[x] + g[w]
  <2>1. v \notin B
    BY <1>4, <1>11
  <2> QED
    BY <1>1, <1>11, <2>1
<1>14. g[w] \in Nat /\ f[a] \in Nat /\ f[x] \in Nat
  BY <1>5, <1>11, AddsNat
<1> QED
  BY <1>6, <1>8, <1>10, <1>12, <1>13, <1>14

LEMMA SumNone == ASSUME NEW f PROVE SumFunctionOnSet(f, {}) = 0
<1>1. IsFiniteSet({})
  BY FS_EmptySet
<1>2. PICK g : Adds(f, {}, g)
  BY <1>1, AddsExists
<1>3. SumFunctionOnSet(f, {}) = g[{}]
  BY <1>1, <1>2, SumOn
<1> QED
  BY <1>2, <1>3, AddsIs

LEMMA SumOneMore ==
  ASSUME NEW f, NEW S, IsFiniteSet(S), NEW a, a \notin S, \A x \in S \cup {a} : f[x] \in Nat
  PROVE  /\ SumFunctionOnSet(f, S) \in Nat
         /\ SumFunctionOnSet(f, S \cup {a}) = f[a] + SumFunctionOnSet(f, S)
<1>1. PICK T : T = S \cup {a}
  OBVIOUS
<1>2. IsFiniteSet(T)
  BY <1>1, FS_AddElement
<1>3. PICK g : Adds(f, T, g)
  BY <1>2, AddsExists
<1>4. SumFunctionOnSet(f, T) = g[T] /\ SumFunctionOnSet(f, S) = g[S]
  BY <1>1, <1>2, <1>3, SumOn
<1>5. \A x \in T : f[x] \in Nat
  BY <1>1
<1>6. g[S] \in Nat
  BY <1>1, <1>2, <1>3, <1>5, AddsNat
<1>7. g[T] = f[a] + g[T \ {a}]
  <2>1. T \in SUBSET T /\ a \in T
    BY <1>1
  <2> QED
    BY <2>1, <1>2, <1>3, <1>5, AddsAny
<1>8. T \ {a} = S
  BY <1>1
<1> QED
  BY <1>1, <1>4, <1>6, <1>7, <1>8

LEMMA SumSame ==
  ASSUME NEW f, NEW h, NEW S, IsFiniteSet(S), \A x \in S : f[x] = h[x]
  PROVE  SumFunctionOnSet(f, S) = SumFunctionOnSet(h, S)
<1>1. PICK g : Adds(f, S, g)
  BY AddsExists
<1>2. Adds(h, S, g)
  <2>1. \A s \in SUBSET S : s # {} => f[Pick(s)] = h[Pick(s)]
    BY PickIs
  <2>2. g = [s \in SUBSET S |-> IF s = {} THEN 0 ELSE f[Pick(s)] + g[s \ {Pick(s)}]]
    BY <1>1 DEF Adds
  <2>3. [s \in SUBSET S |-> IF s = {} THEN 0 ELSE f[Pick(s)] + g[s \ {Pick(s)}]]
          = [s \in SUBSET S |-> IF s = {} THEN 0 ELSE h[Pick(s)] + g[s \ {Pick(s)}]]
    BY <2>1
  <2> QED
    BY <2>2, <2>3 DEF Adds
<1> QED
  BY <1>1, <1>2, SumOn

-----------------------------------------------------------------------------
(* The sum of the free blocks *)

SummedBy(c) ==
  /\ pc[c] \notin {"sum", "lost"} => total[c] = 0
  /\ pc[c] = "sum" /\ calm[c] =>
       /\ ent[c] \in ents \cup {0}
       /\ ent[c] # 0 => total[c] <= ent[c]
       /\ total[c] = SumFunctionOnSet(size, Counted(c))

LEMMA SummedAll == Summed <=> \A c \in Core : SummedBy(c)
  BY DEF Summed, SummedBy

LEMMA CountedFinite == ASSUME ListInv, NEW S \in SUBSET ents PROVE IsFiniteSet(S)
<1>1. IsFiniteSet(0 .. Word - 1)
  BY Widths, FS_Interval
<1>2. S \in SUBSET (0 .. Word - 1)
  BY DEF ListInv, TypeOK, Addr
<1> QED
  BY <1>1, <1>2, FS_Subset

\* A walk goes on undisturbed only while the free blocks stay what they are.
LEMMA WalkersSee ==
  ASSUME ListInv, MeetsRequest, NEW c \in Core, Step(c), NEW d \in Core, d # c, pc[d] = "sum"
  PROVE  /\ total'[d] = total[d]
         /\ calm'[d] => calm[d] /\ ents' = ents /\ \A a \in ents : size'[a] = size[a]
<1> USE DEF ListInv, TypeOK
<1>1. ASSUME NEW r \in Request, Enter(c, r) \/ Available(c, r)
      PROVE  UNCHANGED <<total, ents, size>> /\ calm'[d] = calm[d]
  BY <1>1 DEF Enter, Available, memory
<1>2. ASSUME Sum(c) \/ SumLost(c) \/ SumDone(c)
      PROVE  total'[d] = total[d] /\ UNCHANGED <<ents, size>> /\ calm'[d] = calm[d]
  BY <1>2 DEF Sum, SumLost, SumDone, memory
<1>3. ASSUME \/ LookupAlloc(c) \/ LookupFree(c) \/ LookupFind(c) \/ Check(c) \/ Record(c)
             \/ FreeSearch(c) \/ Place(c) \/ Clear(c) \/ Skip(c) \/ NothingFits(c)
      PROVE  UNCHANGED <<total, calm, ents, size>>
  BY <1>3 DEF LookupAlloc, LookupFree, LookupFind, Check, Record, FreeSearch, Place, Clear,
              Skip, NothingFits, memory
<1>4. ASSUME Unlock(c)
      PROVE  UNCHANGED <<total, calm, ents>> /\ \A a \in ents : size'[a] = size[a]
  BY <1>4, UnlockWrites DEF Unlock
<1>5. ASSUME TakeFront(c) \/ SplitFront(c) \/ FreeFront(c) \/ FreeInsert(c)
      PROVE  UNCHANGED total /\ ~calm'[d]
  <2>1. UNCHANGED total /\ Disturb
    BY <1>5, FreeIs DEF TakeFront, SplitFront
  <2> QED
    BY <2>1 DEF Disturb
<1> QED
  BY <1>1, <1>2, <1>3, <1>4, <1>5 DEF Step, Holding, BlockAlloc, BlockFree

LEMMA SumOthers ==
  ASSUME ListInv, MeetsRequest, Summed, NEW c \in Core, Step(c), NEW d \in Core, d # c
  PROVE  SummedBy(d)'
<1>1. SameCore(d) /\ SummedBy(d)
  BY OthersSame, SummedAll
<1>2. CASE pc[d] = "sum"
  <2>1. SUFFICES ASSUME calm'[d]
                 PROVE  /\ ent'[d] \in ents' \cup {0}
                        /\ ent'[d] # 0 => total'[d] <= ent'[d]
                        /\ total'[d] = SumFunctionOnSet(size', Counted(d)')
    BY <1>1, <1>2 DEF SummedBy, SameCore
  <2>2. /\ total'[d] = total[d] /\ calm[d] /\ ents' = ents
        /\ \A a \in ents : size'[a] = size[a]
    BY <1>2, <2>1, WalkersSee
  <2>3. Counted(d)' = Counted(d) /\ Counted(d) \in SUBSET ents
    BY <1>1, <2>2 DEF Counted, SameCore
  <2>4. IsFiniteSet(Counted(d)) /\ \A a \in Counted(d) : size'[a] = size[a]
    BY <2>2, <2>3, CountedFinite
  <2>5. SumFunctionOnSet(size', Counted(d)) = SumFunctionOnSet(size, Counted(d))
    <3>1. PICK f, h, S : f = size' /\ h = size /\ S = Counted(d)
      OBVIOUS
    <3>2. IsFiniteSet(S) /\ \A x \in S : f[x] = h[x]
      BY <2>4, <3>1
    <3>3. SumFunctionOnSet(f, S) = SumFunctionOnSet(h, S)
      BY <3>2, SumSame
    <3> QED
      BY <3>1, <3>3
  <2> QED
    BY <1>1, <1>2, <2>2, <2>3, <2>5 DEF SummedBy, SameCore
<1>3. CASE pc[d] # "sum"
  <2>1. total'[d] = total[d]
    <3> USE DEF ListInv, TypeOK
    <3>1. ASSUME NEW r \in Request, Enter(c, r) \/ Available(c, r) PROVE total'[d] = total[d]
      BY <3>1 DEF Enter, Available
    <3>2. ASSUME Sum(c) \/ SumLost(c) \/ SumDone(c) PROVE total'[d] = total[d]
      BY <3>2 DEF Sum, SumLost, SumDone
    <3>3. ASSUME Holding(c) PROVE total'[d] = total[d]
      BY <3>3 DEF Holding, BlockAlloc, BlockFree, LookupAlloc, LookupFree, LookupFind, Check,
                  Record, FreeSearch, Place, Clear, Skip, NothingFits, Unlock, TakeFront,
                  SplitFront, FreeFront, FreeInsert
    <3> QED
      BY <3>1, <3>2, <3>3 DEF Step
  <2> QED
    BY <1>1, <1>3, <2>1 DEF SummedBy, SameCore
<1> QED
  BY <1>2, <1>3

LEMMA SumStep ==
  ASSUME ListInv, Summed, NEW c \in Core, Sum(c) PROVE SummedBy(c)'
<1>1. PICK e, n, r : e = ent[c] /\ n = next[e] /\ r = req[c].size
  OBVIOUS
<1>2. /\ pc[c] = "sum" /\ pc'[c] = "sum" /\ e # 0 /\ ent'[c] = n /\ req' = req
      /\ UNCHANGED <<ents, size, calm>>
      /\ total'[c] = IF size[e] >= r THEN (total[c] + size[e]) % Word ELSE total[c]
  BY <1>1 DEF Sum, memory, ListInv, TypeOK
<1>3. SUFFICES ASSUME calm[c]
               PROVE  /\ n \in ents \cup {0}
                      /\ n # 0 => total'[c] <= n
                      /\ total'[c] = SumFunctionOnSet(size, Counted(c)')
  BY <1>2 DEF SummedBy
<1>4. e \in ents /\ total[c] <= e /\ total[c] = SumFunctionOnSet(size, Counted(c))
  BY <1>1, <1>2, <1>3 DEF Summed
<1>5. Succ(ents, e, n) /\ n \in ents \cup {0}
  <2>1. Succ(ents, e, n)
    BY <1>1, <1>4 DEF ListInv, Threaded
  <2> QED
    BY <2>1 DEF Succ
<1>6. /\ \A a \in ents : a \in Nat /\ size[a] \in Nat /\ a # 0
      /\ e + size[e] < Word /\ total[c] \in Nat /\ r \in Nat
  <2>1. \A a \in ents : a \in Nat /\ size[a] \in Nat /\ a # 0 /\ Inside(a, size[a])
    BY Widths DEF ListInv, TypeOK, Blocks
  <2>2. e + size[e] < Word
    BY <1>4, <2>1, Bounds
  <2>3. req[c] \in Request
    BY DEF ListInv, TypeOK
  <2>4. r \in Nat
    BY <1>1, <2>3, Fields, Widths
  <2>5. total[c] \in Nat
    BY Widths DEF ListInv, TypeOK
  <2> QED
    BY <2>1, <2>2, <2>4, <2>5
<1>7. n # 0 => e + size[e] <= n /\ e < n
  BY <1>4, <1>5 DEF Succ, ListInv, Blocks
<1>8. PICK S : S = Counted(c)
  OBVIOUS
<1>9. S = {a \in ents : a < e /\ size[a] >= r} /\ S \in SUBSET ents
  BY <1>1, <1>2, <1>8 DEF Counted
<1>10. Counted(c)' = {a \in ents : a <= e /\ size[a] >= r}
  <2>1. Counted(c)' = {a \in ents : (n = 0 \/ a < n) /\ size[a] >= r}
    BY <1>1, <1>2 DEF Counted
  <2>2. \A a \in ents : (n = 0 \/ a < n) <=> a <= e
    BY <1>4, <1>5, <1>6 DEF Succ
  <2> QED
    BY <2>1, <2>2
<1>11. CASE size[e] >= r
  <2>1. Counted(c)' = S \cup {e} /\ e \notin S
    BY <1>4, <1>6, <1>9, <1>10, <1>11
  <2>2. IsFiniteSet(S) /\ \A x \in S \cup {e} : size[x] \in Nat
    BY <1>4, <1>6, <1>9, CountedFinite
  <2>3. SumFunctionOnSet(size, S \cup {e}) = size[e] + SumFunctionOnSet(size, S)
    BY <2>1, <2>2, SumOneMore
  <2>4. total[c] + size[e] \in Nat /\ total[c] + size[e] <= e + size[e]
        /\ total[c] + size[e] < Word /\ size[e] + total[c] = total[c] + size[e]
    BY <1>4, <1>6, Widths
  <2>5. (total[c] + size[e]) % Word = total[c] + size[e]
    BY <2>4, NoWrap
  <2>6. total'[c] = total[c] + size[e]
    BY <1>2, <1>11, <2>5
  <2>7. n # 0 => total'[c] <= n
    BY <1>4, <1>5, <1>6, <1>7, <2>4, <2>6
  <2> QED
    BY <1>4, <1>5, <1>8, <2>1, <2>3, <2>4, <2>6, <2>7
<1>12. CASE ~(size[e] >= r)
  <2>1. Counted(c)' = S
    BY <1>4, <1>6, <1>9, <1>10, <1>12
  <2>2. total'[c] = total[c]
    BY <1>2, <1>12
  <2>3. n # 0 => total'[c] <= n
    BY <1>4, <1>5, <1>6, <1>7, <2>2
  <2> QED
    BY <1>4, <1>5, <1>8, <2>1, <2>2, <2>3
<1> QED
  BY <1>11, <1>12

LEMMA StepSum == ASSUME ListInv, MeetsRequest, Summed, NEW c \in Core, Step(c) PROVE Summed'
<1>1. SUFFICES SummedBy(c)'
  <2>1. \A d \in Core : d # c => SummedBy(d)'
    BY SumOthers
  <2> QED
    BY <2>1 DEF Summed, SummedBy
<1>2. SummedBy(c)
  BY SummedAll
<1>3. ASSUME NEW r \in Request, Available(c, r) PROVE SummedBy(c)'
  <2>1. /\ pc[c] = "idle" /\ total'[c] = total[c] /\ pc'[c] = "sum" /\ ent'[c] = head
        /\ UNCHANGED <<ents, size>>
    BY <1>3 DEF Available, memory, Goto, ListInv, TypeOK
  <2>2. total'[c] = 0
    BY <1>2, <2>1 DEF SummedBy
  <2>3. Succ(ents, 0, head) /\ \A a \in ents : a \in Nat /\ a > 0
    BY Widths DEF ListInv, Threaded, TypeOK
  <2>4. head \in ents \cup {0} /\ head \in Nat /\ \A a \in ents : ~(head = 0 \/ a < head)
    BY <2>3 DEF Succ
  <2>5. Counted(c)' = {}
    BY <2>1, <2>4 DEF Counted
  <2>6. SumFunctionOnSet(size', Counted(c)') = 0
    <3>1. PICK f : f = size'
      OBVIOUS
    <3>2. SumFunctionOnSet(f, {}) = 0
      BY SumNone
    <3> QED
      BY <2>5, <3>1, <3>2
  <2> QED
    BY <2>1, <2>2, <2>4, <2>6 DEF SummedBy
<1>4. ASSUME SumLost(c) PROVE SummedBy(c)'
  <2>1. pc'[c] = "lost"
    BY <1>4 DEF SumLost, Goto, ListInv, TypeOK
  <2> QED
    BY <2>1 DEF SummedBy
<1>5. ASSUME SumDone(c) PROVE SummedBy(c)'
  <2>1. pc'[c] = "idle" /\ total'[c] = 0
    BY <1>5 DEF SumDone, Goto, ListInv, TypeOK
  <2> QED
    BY <2>1 DEF SummedBy
<1>6. ASSUME Holding(c) \/ \E r \in Request : Enter(c, r) PROVE SummedBy(c)'
  <2>1. pc[c] \notin {"sum", "lost"} /\ pc'[c] \notin {"sum", "lost"} /\ total'[c] = total[c]
    <3> USE DEF ListInv, TypeOK, Goto
    <3>1. ASSUME NEW r \in Request, Enter(c, r)
          PROVE  pc[c] \notin {"sum", "lost"} /\ pc'[c] \notin {"sum", "lost"} /\ total'[c] = total[c]
      BY <3>1 DEF Enter, FirstStep
    <3>2. ASSUME LookupAlloc(c) \/ LookupFree(c) \/ LookupFind(c) \/ Check(c) \/ Skip(c) \/ NothingFits(c)
          PROVE  pc[c] \notin {"sum", "lost"} /\ pc'[c] \notin {"sum", "lost"} /\ total'[c] = total[c]
      BY <3>2 DEF LookupAlloc, LookupFree, LookupFind, Check, Skip, NothingFits
    <3>3. ASSUME \/ TakeFront(c) \/ SplitFront(c) \/ Record(c) \/ Clear(c) \/ Unlock(c)
                 \/ FreeSearch(c) \/ Place(c) \/ FreeFront(c) \/ FreeInsert(c)
          PROVE  pc[c] \notin {"sum", "lost"} /\ pc'[c] \notin {"sum", "lost"} /\ total'[c] = total[c]
      BY <3>3 DEF TakeFront, SplitFront, Record, Clear, Unlock, FreeSearch, Place, FreeFront, FreeInsert
    <3> QED
      BY <1>6, <3>1, <3>2, <3>3 DEF Holding, BlockAlloc, BlockFree
  <2> QED
    BY <1>2, <2>1 DEF SummedBy
<1> QED
  BY <1>3, <1>4, <1>5, <1>6, SumStep DEF Step

LEMMA ExactIs == ASSUME Summed PROVE AvailableExact
<1>1. SUFFICES ASSUME NEW c \in Core, pc[c] = "sum", calm[c], ent[c] = 0
               PROVE  total[c] = SumFunctionOnSet(size, {a \in ents : size[a] >= req[c].size})
  BY DEF AvailableExact
<1>2. Counted(c) = {a \in ents : size[a] >= req[c].size}
  BY <1>1 DEF Counted
<1> QED
  BY <1>1, <1>2 DEF Summed

LEMMA InitAnswers == ASSUME Init PROVE Searched /\ Summed
  BY DEF Init, Searched, Summed

LEMMA StutterAnswers ==
  ASSUME UNCHANGED vars PROVE (Searched => Searched') /\ (Summed => Summed')
<1>1. UNCHANGED <<size, ents, pc, req, ent, prev, res, total, calm>>
  BY DEF vars, memory, local
<1>2. Searched => Searched'
  BY <1>1 DEF Searched, CanSatisfy
<1>3. Summed => Summed'
  <2>1. \A c \in Core : Counted(c)' = Counted(c)
    BY <1>1 DEF Counted
  <2> QED
    BY <1>1, <2>1 DEF Summed
<1> QED
  BY <1>2, <1>3

\* Every call answers rightly: a block that meets the request; none only when
\* every aligned place within the limits has a byte in use or a cut inside; every
\* name with the block that was allocated under it; and, when nothing changed
\* meanwhile, exactly the sum of the free blocks of the size asked for.
THEOREM AnswersAlwaysRight == Spec => []AnswersRight
<1> DEFINE Inv == ListInv /\ MeetsRequest /\ Touching /\ Searched /\ Summed
<1>1. Init => Inv
  BY InitList, InitTouch, InitAnswers
<1>2. Inv /\ [Next]_vars => Inv'
  <2>1. ASSUME Inv, NEW c \in Core, Step(c) PROVE Inv'
    BY <2>1, StepList, StepMeets, StepTouch, StepSearch, StepSum
  <2>2. ASSUME Inv, UNCHANGED vars PROVE Inv'
    BY <2>2, StutterSame, StutterAnswers
  <2> QED
    BY <2>1, <2>2 DEF Next
<1>3. Inv => AnswersRight
  BY FullIs, NamesAre, ExactIs DEF AnswersRight
<1> HIDE DEF Inv
<1> QED
  BY <1>1, <1>2, <1>3, PTL DEF Spec

-----------------------------------------------------------------------------
(* The allocator is the pool its users see *)

Held(x) == \E o \in owned : x \in Cells(o[1], o[2])

\* What is free is what nobody was given.
FreeIsRest == \A x : x \in FreeCells <=> x \in Arena /\ ~Held(x)

\* every block handed out has the size some request asks for
OwnedSizes == \A o \in owned : o[2] \in {ReqSize(r) : r \in Request}

LEMMA FreeAre == ASSUME ListInv PROVE FreeIsRest
<1>1. \A a \in ents : a \in Nat /\ size[a] \in Nat /\ Inside(a, size[a])
  BY Widths DEF ListInv, TypeOK, Blocks
<1>2. \A o \in owned : o[1] \in Nat /\ o[2] \in Nat /\ Inside(o[1], o[2])
  BY OwnedAre DEF ListInv, Blocks
<1>3. \A a \in ents, o \in owned : Apart(a, size[a], o[1], o[2])
  BY DEF ListInv, Blocks
<1>4. \A x : x \in FreeCells <=> \E a \in ents : x \in Cells(a, size[a])
  <2>1. \A x : x \in FreeCells <=> \E b \in Entries : x \in Cells(b[1], b[2])
    BY DEF FreeCells
  <2>2. ASSUME NEW x, NEW a \in ents, x \in Cells(a, size[a]) PROVE x \in FreeCells
    <3>1. PICK b : b = <<a, size[a]>>
      OBVIOUS
    <3>2. b \in Entries /\ b[1] = a /\ b[2] = size[a]
      BY <3>1 DEF Entries
    <3> QED
      BY <2>1, <2>2, <3>2
  <2>3. ASSUME NEW x \in FreeCells PROVE \E a \in ents : x \in Cells(a, size[a])
    <3>1. PICK b \in Entries : x \in Cells(b[1], b[2])
      BY <2>1
    <3>2. PICK a \in ents : b = <<a, size[a]>>
      BY DEF Entries
    <3>3. b[1] = a /\ b[2] = size[a]
      BY <3>2
    <3> QED
      BY <3>1, <3>3
  <2> QED
    BY <2>2, <2>3
<1>5. ASSUME NEW x, NEW a \in ents, x \in Cells(a, size[a]) PROVE x \in Arena /\ ~Held(x)
  <2>1. x \in Arena /\ x \in Nat /\ a <= x /\ x < a + size[a]
    BY <1>1, <1>5, ArenaBounds DEF Inside, Cells
  <2>2. ASSUME NEW o \in owned, x \in Cells(o[1], o[2]) PROVE FALSE
    <3>1. PICK p \in Nat, s \in Nat, t \in Nat : p = o[1] /\ s = o[2] /\ t = size[a]
      BY <1>1, <1>2
    <3>2. p <= x /\ x < p + s
      BY <2>1, <2>2, <3>1 DEF Cells
    <3>3. Apart(a, t, p, s)
      BY <1>3, <3>1
    <3> QED
      BY <1>1, <2>1, <3>1, <3>2, <3>3 DEF Apart
  <2> QED
    BY <2>1, <2>2 DEF Held
<1>6. ASSUME NEW x \in Arena, ~Held(x) PROVE \E a \in ents : x \in Cells(a, size[a])
  <2>1. x \in Nat
    BY ArenaBounds
  <2>2. \A o \in owned : ~(o[1] <= x /\ x < o[1] + o[2])
    BY <1>2, <1>6, <2>1 DEF Held, Cells
  <2>3. PICK a \in ents : a <= x /\ x < a + size[a]
    BY <2>2 DEF ListInv, Blocks
  <2> QED
    BY <1>1, <2>1, <2>3 DEF Cells
<1> QED
  BY <1>4, <1>5, <1>6 DEF FreeIsRest

\* The same in the next state.
LEMMA FreeAreNext == ListInv' => FreeIsRest'
<1>1. ListInv => FreeIsRest
  BY FreeAre
<1> QED
  BY <1>1, PTL

\* A step that hands out and takes back nothing does not change what is free.
LEMMA FreeSame ==
  ASSUME FreeIsRest, FreeIsRest', UNCHANGED owned PROVE FreeCells' = FreeCells
<1>1. \A x : Held(x)' <=> Held(x)
  BY DEF Held
<1> QED
  BY <1>1 DEF FreeIsRest

LEMMA TakePool ==
  ASSUME ListInv, ListInv', NEW c \in Core, TakeFront(c)
  PROVE  \E b \in Arena \X {ReqSize(r) : r \in Request} : Pool!Alloc(b)
<1>1. FreeIsRest /\ FreeIsRest'
  BY FreeAre, FreeAreNext
<1>2. PICK e, s : e = ent[c] /\ s = ReqSize(req[c]) /\ Takes(c, e, s)
  BY TakesIs
<1>3. /\ e \in Nat /\ s \in Nat /\ s > 0 /\ owned' = owned \cup {<<e, s>>}
      /\ e \in ents /\ size[e] \in Nat /\ Inside(e, size[e]) /\ s <= size[e]
  BY <1>2 DEF Takes
<1>4. <<e, s>> \in Arena \X {ReqSize(r) : r \in Request}
  <2>1. req[c] \in Request
    BY DEF ListInv, TypeOK
  <2>2. e \in Arena
    BY <1>3, Bounds
  <2> QED
    BY <1>2, <2>1, <2>2
<1>5. Cells(e, s) \subseteq FreeCells
  <2>1. Cells(e, s) \subseteq Cells(e, size[e])
    BY <1>3 DEF Cells
  <2>2. <<e, size[e]>> \in Entries
    BY <1>3 DEF Entries
  <2>3. Cells(e, size[e]) \subseteq FreeCells
    BY <2>2 DEF FreeCells
  <2> QED
    BY <2>1, <2>3
<1>6. \A x : Held(x)' <=> Held(x) \/ x \in Cells(e, s)
  <2>1. \A x : Held(x)' <=> \E o \in owned' : x \in Cells(o[1], o[2])
    BY DEF Held
  <2>2. ASSUME NEW x, x \in Cells(e, s) PROVE Held(x)'
    <3>1. PICK o : o = <<e, s>>
      OBVIOUS
    <3>2. o \in owned' /\ o[1] = e /\ o[2] = s
      BY <1>3, <3>1
    <3> QED
      BY <2>1, <2>2, <3>2
  <2>3. ASSUME NEW x, Held(x) PROVE Held(x)'
    BY <1>3, <2>1, <2>3 DEF Held
  <2>4. ASSUME NEW x, Held(x)' PROVE Held(x) \/ x \in Cells(e, s)
    <3>1. PICK o \in owned' : x \in Cells(o[1], o[2])
      BY <2>1, <2>4
    <3>2. o \in owned \/ (o[1] = e /\ o[2] = s)
      BY <1>3
    <3> QED
      BY <3>1, <3>2 DEF Held
  <2> QED
    BY <2>2, <2>3, <2>4
<1>7. FreeCells' = FreeCells \ Cells(e, s)
  BY <1>1, <1>6 DEF FreeIsRest
<1>8. Pool!Cells(<<e, s>>) = Cells(e, s)
  BY DEF Pool!Cells, Cells
<1>9. Pool!Alloc(<<e, s>>)
  BY <1>3, <1>5, <1>7, <1>8 DEF Pool!Alloc
<1> QED
  BY <1>4, <1>9

LEMMA FreePool ==
  ASSUME ListInv, ListInv', OwnedSizes, NEW c \in Core, FreeFront(c) \/ FreeInsert(c)
  PROVE  /\ \E b \in Arena \X {ReqSize(r) : r \in Request} : Pool!Free(b)
         /\ owned' \subseteq owned
<1>1. FreeIsRest /\ FreeIsRest'
  BY FreeAre, FreeAreNext
<1>2. pc[c] \in {"free", "place"}
      /\ \E p, q, at, n : Frees(PhyAddr(c), BlockSize(c), p, q, at, n)
  BY FreeIs
<1>3. PICK b, z : b = PhyAddr(c) /\ z = BlockSize(c)
  OBVIOUS
<1>4. /\ <<b, z>> \in owned /\ owned' = owned \ {<<b, z>>}
      /\ b \in Nat /\ z \in Nat /\ Inside(b, z)
  BY <1>2, <1>3 DEF Frees, Between
<1>5. <<b, z>> \in Arena \X {ReqSize(r) : r \in Request}
  <2>1. b \in Arena
    BY <1>4, Bounds
  <2>2. z \in {ReqSize(r) : r \in Request}
    <3>1. PICK o \in owned : o = <<b, z>>
      BY <1>4
    <3> QED
      BY <3>1 DEF OwnedSizes
  <2> QED
    BY <2>1, <2>2
<1>6. \A x : Held(x) <=> Held(x)' \/ x \in Cells(b, z)
  <2>1. \A x : Held(x)' <=> \E o \in owned' : x \in Cells(o[1], o[2])
    BY DEF Held
  <2> QED
    BY <1>4, <2>1 DEF Held
<1>7. Cells(b, z) \subseteq Arena
  BY <1>4 DEF Inside
<1>8. ASSUME NEW x, x \in Cells(b, z) PROVE ~Held(x)'
  <2>1. SUFFICES ASSUME NEW o \in owned, o # <<b, z>>, x \in Cells(o[1], o[2]) PROVE FALSE
    BY <1>4 DEF Held
  <2>2. PICK p \in Nat, s \in Nat : p = o[1] /\ s = o[2]
    BY OwnedAre DEF ListInv
  <2>3. \A q, w : <<q, w>> \in owned => o = <<q, w>> \/ Apart(p, s, q, w)
    BY <2>2 DEF ListInv, Blocks
  <2>4. Apart(p, s, b, z)
    BY <1>4, <2>1, <2>3
  <2>5. x \in Nat /\ b <= x /\ x < b + z /\ p <= x /\ x < p + s
    BY <1>4, <1>8, <2>1, <2>2 DEF Cells
  <2> QED
    BY <1>4, <2>2, <2>4, <2>5 DEF Apart
<1>9. FreeCells' = FreeCells \cup Cells(b, z)
  BY <1>1, <1>6, <1>7, <1>8 DEF FreeIsRest
<1>10. Pool!Cells(<<b, z>>) = Cells(b, z)
  BY DEF Pool!Cells, Cells
<1>11. Pool!Free(<<b, z>>)
  BY <1>4, <1>9, <1>10 DEF Pool!Free
<1> QED
  BY <1>4, <1>5, <1>11

\* Every other step leaves the blocks with their owners.
LEMMA StepOwned ==
  ASSUME NEW c \in Core, Step(c)
  PROVE  TakeFront(c) \/ FreeFront(c) \/ FreeInsert(c) \/ UNCHANGED owned
<1>1. ASSUME NEW r \in Request, Enter(c, r) \/ Available(c, r) PROVE UNCHANGED owned
  BY <1>1 DEF Enter, Available, memory
<1>2. ASSUME \/ LookupAlloc(c) \/ LookupFree(c) \/ LookupFind(c) \/ Check(c) \/ SplitFront(c)
             \/ Skip(c) \/ NothingFits(c) \/ Record(c) \/ FreeSearch(c) \/ Place(c) \/ Clear(c)
             \/ Sum(c) \/ SumLost(c) \/ SumDone(c) \/ Unlock(c)
      PROVE  UNCHANGED owned
  BY <1>2 DEF LookupAlloc, LookupFree, LookupFind, Check, SplitFront, Skip, NothingFits, Record,
              FreeSearch, Place, Clear, Sum, SumLost, SumDone, Unlock, memory
<1> QED
  BY <1>1, <1>2 DEF Step, Holding, BlockAlloc, BlockFree

LEMMA StepPool ==
  ASSUME ListInv, ListInv', OwnedSizes, NEW c \in Core, Step(c)
  PROVE  OwnedSizes' /\ [Pool!Next]_<<FreeCells, owned>>
<1>1. CASE TakeFront(c)
  <2>1. PICK s : s = ReqSize(req[c]) /\ owned' = owned \cup {<<ent[c], s>>} /\ req[c] \in Request
    BY <1>1 DEF TakeFront, ListInv, TypeOK
  <2>2. OwnedSizes'
    BY <2>1 DEF OwnedSizes
  <2> QED
    BY <1>1, <2>2, TakePool DEF Pool!Next
<1>2. CASE FreeFront(c) \/ FreeInsert(c)
  BY <1>2, FreePool DEF Pool!Next, OwnedSizes
<1>3. CASE UNCHANGED owned
  <2>1. FreeCells' = FreeCells
    BY <1>3, FreeAre, FreeAreNext, FreeSame
  <2> QED
    BY <1>3, <2>1 DEF OwnedSizes
<1> QED
  BY <1>1, <1>2, <1>3, StepOwned

\* Seen from outside, memory moves between the pool and its users one whole
\* block at a time: however the list is cut, walked and merged under the lock, an
\* allocation takes one free block at one instant, a release gives one back, and
\* no other step moves a byte.  The safety half of PoolServed, for any memory,
\* requests and cores.
THEOREM BootmemIsPool == Spec => Pool!Spec
<1> DEFINE Inv == ListInv /\ MeetsRequest /\ OwnedSizes
<1>1. Init => Inv
  BY InitList DEF Init, OwnedSizes
<1>2. Init => Pool!Init
  <2>1. SUFFICES ASSUME Init PROVE Pool!Init
    OBVIOUS
  <2>2. FreeIsRest /\ owned = {}
    BY <2>1, InitList, FreeAre DEF Init
  <2>3. FreeCells = Arena
    BY <2>2 DEF FreeIsRest, Held
  <2> QED
    BY <2>2, <2>3 DEF Pool!Init
<1>3. Inv /\ [Next]_vars => Inv' /\ [Pool!Next]_<<FreeCells, owned>>
  <2>1. ASSUME Inv, NEW c \in Core, Step(c) PROVE Inv' /\ [Pool!Next]_<<FreeCells, owned>>
    <3>1. ListInv' /\ MeetsRequest'
      BY <2>1, StepList, StepMeets
    <3> QED
      BY <2>1, <3>1, StepPool
  <2>2. ASSUME Inv, UNCHANGED vars PROVE Inv' /\ [Pool!Next]_<<FreeCells, owned>>
    <3>1. ListInv' /\ MeetsRequest' /\ UNCHANGED owned
      BY <2>2, StutterSame DEF vars, memory
    <3>2. FreeCells' = FreeCells
      BY <2>2, <3>1, FreeAre, FreeAreNext, FreeSame
    <3> QED
      BY <2>2, <3>1, <3>2 DEF OwnedSizes
  <2> QED
    BY <2>1, <2>2 DEF Next
<1> HIDE DEF Inv
<1> QED
  BY <1>1, <1>2, <1>3, PTL DEF Spec, Pool!Spec

-----------------------------------------------------------------------------
(* The zone allocator: proofs about CvmxZone, for any number of cores and     *)
(* elements and whatever the lock's memory held.                              *)

CONSTANTS NumElem, Addresses, PtrSize, StaleLocks, NULL, ZoneJunk
VARIABLES made, zoneLock, freelist, link, zonePc, item, held, list

Zone == INSTANCE CvmxZone WITH Junk <- ZoneJunk, lock <- zoneLock, pc <- zonePc

ZoneEmpties == {"out", "alloc", "pop"}
ZoneGiving  == {"free", "push", "freed"}

\* what item holds at each place
ZoneItemsKept ==
  \A c \in Core :
    /\ zonePc[c] \in ZoneEmpties => item[c] = NULL
    /\ zonePc[c] \in ZoneGiving => item[c] \in Zone!Elem
    /\ zonePc[c] # "freed" => item[c] \notin held[c]

\* nothing happens before the zone exists
ZoneUnmade ==
  ~made => /\ list = << >>
           /\ \A c \in Core : zonePc[c] = "out" /\ held[c] = {}

\* The invariant: the list as threaded, the sharing of the elements, and the
\* lock that protects both.
ZoneIInv == Zone!TypeOK /\ Zone!Exclusion /\ Zone!ListThreaded /\ Zone!ElementsShared /\ ZoneItemsKept /\ ZoneUnmade

\* No core is inside and the list is empty before the zone exists.
LEMMA ZoneInitInv == ASSUME Zone!ZoneConstants, Zone!Init PROVE ZoneIInv
<1> USE DEF Zone!ZoneConstants
<1>1. Zone!TypeOK
  <2>1. list \in Seq(Zone!Elem)
    BY DEF Zone!Init
  <2>2. made \in BOOLEAN
    BY Zenon DEF Zone!Init
  <2> QED
    BY <2>1, <2>2 DEF Zone!Init, Zone!TypeOK
<1>2. Zone!Exclusion /\ ZoneItemsKept /\ ZoneUnmade /\ Zone!ListThreaded /\ Zone!ElementsShared
  BY DEF Zone!Init, Zone!Exclusion, ZoneItemsKept, ZoneUnmade, Zone!ListThreaded, Zone!ElementsShared, Zone!Inside,
         ZoneGiving, Zone!At
<1> QED
  BY <1>1, <1>2 DEF ZoneIInv

LEMMA ZoneThreadedInv == ASSUME Zone!ZoneConstants, ZoneIInv, ~made, Zone!Threaded PROVE ZoneIInv'
<1> USE DEF Zone!ZoneConstants, ZoneIInv
<1>1. Zone!TypeOK'
  <2>1. list' \in Seq(Zone!Elem)
    BY DEF Zone!Threaded, Zone!Elem
  <2> QED
    BY <2>1 DEF Zone!Threaded, Zone!TypeOK, Zone!Elem
<1>2. Len(list') = NumElem /\ \A n \in 1 .. NumElem : list'[n] = NumElem - n
  BY DEF Zone!Threaded
<1>3. \A c \in Core : zonePc[c] = "out" /\ held[c] = {} /\ item[c] = NULL
  BY DEF ZoneUnmade, ZoneItemsKept, ZoneEmpties
<1>4. Zone!ListThreaded'
  BY <1>2 DEF Zone!Threaded, Zone!ListThreaded, Zone!At, Zone!Elem
<1>5. Zone!ElementsShared'
  <2>1. \A c \in Core, e \in Zone!Elem : e \notin Zone!Taken(c)'
    BY <1>3 DEF Zone!Threaded, Zone!Taken
  <2>2. \A n \in 1 .. NumElem : list'[n] \in Zone!Elem
    BY <1>2 DEF Zone!Elem
  <2>3. \A e \in Zone!Elem : NumElem - e \in 1 .. NumElem /\ list'[NumElem - e] = e
    BY <1>2 DEF Zone!Elem
  <2> QED
    BY <1>2, <2>1, <2>2, <2>3 DEF Zone!ElementsShared
<1>6. Zone!Exclusion' /\ ZoneItemsKept' /\ ZoneUnmade'
  BY <1>3 DEF Zone!Threaded, Zone!Exclusion, ZoneItemsKept, ZoneUnmade, Zone!Inside, ZoneGiving, ZoneEmpties, Zone!Elem
<1> QED
  BY <1>1, <1>4, <1>5, <1>6

\* A core that calls, or takes the lock, moves no element.
LEMMA ZoneCallInv ==
  ASSUME Zone!ZoneConstants, ZoneIInv, NEW c \in Core,
         Zone!AllocCall(c) \/ Zone!Acquire(c, "alloc", "pop") \/ Zone!Acquire(c, "free", "push")
  PROVE  ZoneIInv'
<1> USE DEF Zone!ZoneConstants, ZoneIInv
<1>1. UNCHANGED <<made, freelist, link, item, held, list>> /\ zonePc[c] # "freed" /\ zonePc'[c] # "freed"
  BY DEF Zone!AllocCall, Zone!Acquire, Zone!Goto, Zone!TypeOK
<1>2. Zone!TypeOK'
  BY DEF Zone!TypeOK, Zone!AllocCall, Zone!Acquire, Zone!Goto
<1>3. Zone!Exclusion'
  BY DEF Zone!TypeOK, Zone!Exclusion, Zone!AllocCall, Zone!Acquire, Zone!Goto, Zone!Inside
<1>4. Zone!ListThreaded'
  BY <1>1 DEF Zone!ListThreaded, Zone!At
<1>5. \A d \in Core, e \in Zone!Elem : e \in Zone!Taken(d)' <=> e \in Zone!Taken(d)
  BY <1>1 DEF Zone!Taken, Zone!AllocCall, Zone!Acquire, Zone!Goto, Zone!TypeOK
<1>6. Zone!ElementsShared'
  BY <1>1, <1>5 DEF Zone!ElementsShared, Zone!TypeOK
<1>7. ZoneItemsKept' /\ ZoneUnmade'
  BY DEF Zone!TypeOK, ZoneItemsKept, ZoneUnmade, Zone!AllocCall, Zone!Acquire, Zone!Goto, ZoneEmpties, ZoneGiving
<1> QED
  BY <1>2, <1>3, <1>4, <1>6, <1>7

LEMMA ZonePopInv == ASSUME Zone!ZoneConstants, ZoneIInv, NEW c \in Core, Zone!Pop(c) PROVE ZoneIInv'
<1> USE DEF Zone!ZoneConstants, ZoneIInv
<1>1. made /\ item[c] = NULL
  BY DEF Zone!Pop, ZoneUnmade, ZoneItemsKept, ZoneEmpties
<1>2. ASSUME list = << >> PROVE ZoneIInv'
  <2>1. freelist = NULL /\ UNCHANGED <<freelist, list, item>>
    BY <1>1, <1>2 DEF Zone!Pop, Zone!ListThreaded, Zone!At, Zone!TypeOK
  <2>2. Zone!TypeOK'
    BY <2>1 DEF Zone!Pop, Zone!TypeOK, Zone!Goto
  <2>3. Zone!Exclusion'
    BY DEF Zone!Pop, Zone!TypeOK, Zone!Goto, Zone!Exclusion, Zone!Inside
  <2>4. Zone!ListThreaded'
    BY <2>1 DEF Zone!Pop, Zone!ListThreaded, Zone!At
  <2>5. \A d \in Core, e \in Zone!Elem : e \in Zone!Taken(d)' <=> e \in Zone!Taken(d)
    BY <2>1 DEF Zone!Taken, Zone!Pop, Zone!Goto, Zone!TypeOK
  <2>6. Zone!ElementsShared'
    BY <2>1, <2>5 DEF Zone!Pop, Zone!ElementsShared, Zone!TypeOK
  <2>7. ZoneItemsKept' /\ ZoneUnmade'
    BY <1>1, <2>1 DEF Zone!Pop, Zone!TypeOK, ZoneItemsKept, ZoneUnmade, Zone!Goto, ZoneEmpties, ZoneGiving
  <2> QED
    BY <2>2, <2>3, <2>4, <2>6, <2>7
<1>3. ASSUME list # << >> PROVE ZoneIInv'
  <2> DEFINE top == list[1]
  <2>1. /\ Len(list) >= 1 /\ top \in Zone!Elem /\ freelist = top
        /\ Len(list') = Len(list) - 1 /\ list' \in Seq(Zone!Elem)
        /\ \A n \in 1 .. Len(list) - 1 : list'[n] = list[n + 1]
    BY <1>3 DEF Zone!Pop, Zone!ListThreaded, Zone!At, Zone!TypeOK
  <2>2. freelist' = Zone!At(2) /\ item' = [item EXCEPT ![c] = top]
    BY <2>1 DEF Zone!Pop, Zone!ListThreaded, Zone!At
  <2>3. Zone!TypeOK'
    <3>1. freelist' \in Zone!Elem \cup {NULL}
      BY <2>1, <2>2 DEF Zone!TypeOK, Zone!At
    <3> QED
      BY <3>1, <2>1, <2>2 DEF Zone!Pop, Zone!TypeOK, Zone!Goto
  <2>4. Zone!Exclusion'
    BY DEF Zone!Pop, Zone!TypeOK, Zone!Goto, Zone!Exclusion, Zone!Inside
  <2>5. Zone!ListThreaded'
    <3>1. \A n \in 1 .. Len(list') : n + 1 \in 1 .. Len(list) /\ list'[n] = list[n + 1]
      BY <2>1 DEF Zone!TypeOK
    <3>2. freelist' = Zone!At(1)'
      BY <2>1, <2>2, <3>1 DEF Zone!At, Zone!TypeOK
    <3>3. ASSUME NEW n \in 1 .. Len(list') PROVE link'[list'[n]] = Zone!At(n + 1)'
      <4>1. link'[list'[n]] = Zone!At((n + 1) + 1)
        BY <3>1 DEF Zone!Pop, Zone!ListThreaded
      <4>2. Zone!At((n + 1) + 1) = Zone!At(n + 1)'
        BY <2>1, <3>1 DEF Zone!At, Zone!TypeOK
      <4> QED
        BY <4>1, <4>2
    <3>4. ASSUME NEW m \in 1 .. Len(list'), NEW n \in 1 .. Len(list'), list'[m] = list'[n]
          PROVE  m = n
      <4>1. m + 1 = n + 1
        BY <3>1, <3>4 DEF Zone!ListThreaded
      <4> QED
        BY <4>1, <2>1 DEF Zone!TypeOK
    <3> QED
      BY <3>2, <3>3, <3>4 DEF Zone!ListThreaded
  <2>6. \A d \in Core, e \in Zone!Elem : e \in Zone!Taken(d)' <=> e \in Zone!Taken(d) \/ (d = c /\ e = top)
    BY <1>1, <2>1, <2>2 DEF Zone!Taken, Zone!Pop, Zone!Goto, Zone!TypeOK
  <2>7. Zone!ElementsShared'
    <3>1. \A n \in 1 .. Len(list'), d \in Core : list'[n] \notin Zone!Taken(d)'
      BY <1>1, <2>1, <2>6 DEF Zone!ElementsShared, Zone!ListThreaded, Zone!TypeOK
    <3>2. \A d, f \in Core, e \in Zone!Elem : e \in Zone!Taken(d)' /\ e \in Zone!Taken(f)' => d = f
      BY <1>1, <2>1, <2>6 DEF Zone!ElementsShared
    <3>3. ASSUME NEW e \in Zone!Elem
          PROVE  \/ \E n \in 1 .. Len(list') : list'[n] = e
                 \/ \E d \in Core : e \in Zone!Taken(d)'
      <4>1. CASE \E d \in Core : e \in Zone!Taken(d)
        BY <4>1, <2>6
      <4>2. ASSUME NEW n \in 1 .. Len(list), list[n] = e
            PROVE  (\E m \in 1 .. Len(list') : list'[m] = e) \/ e \in Zone!Taken(c)'
        <5>1. CASE n = 1
          BY <5>1, <4>2, <2>6
        <5>2. CASE n > 1
          <6>1. n - 1 \in 1 .. Len(list') /\ (n - 1) + 1 = n
            BY <5>2, <2>1 DEF Zone!TypeOK
          <6>2. list'[n - 1] = e
            BY <6>1, <4>2, <2>1
          <6> QED
            BY <6>1, <6>2
        <5> QED
          BY <5>1, <5>2, <2>1 DEF Zone!TypeOK
      <4> QED
        BY <1>1, <4>1, <4>2 DEF Zone!ElementsShared
    <3> QED
      BY <3>1, <3>2, <3>3 DEF Zone!ElementsShared
  <2>8. ZoneItemsKept'
    <3>1. top \notin held[c]
      BY <1>1, <2>1 DEF Zone!ElementsShared, Zone!Taken
    <3> QED
      BY <3>1, <2>2 DEF Zone!Pop, Zone!TypeOK, ZoneItemsKept, Zone!Goto, ZoneEmpties, ZoneGiving
  <2>9. ZoneUnmade'
    BY <1>1 DEF Zone!Pop, ZoneUnmade
  <2> QED
    BY <2>3, <2>4, <2>5, <2>7, <2>8, <2>9
<1> QED
  BY <1>2, <1>3

LEMMA ZoneAllocReturnInv == ASSUME Zone!ZoneConstants, ZoneIInv, NEW c \in Core, Zone!AllocReturn(c) PROVE ZoneIInv'
<1> USE DEF Zone!ZoneConstants, ZoneIInv
<1>1. made
  BY DEF Zone!AllocReturn, ZoneUnmade
<1>2. Zone!TypeOK'
  BY DEF Zone!AllocReturn, Zone!TypeOK, Zone!Goto
<1>3. Zone!Exclusion'
  BY DEF Zone!AllocReturn, Zone!TypeOK, Zone!Goto, Zone!Exclusion, Zone!Inside
<1>4. \A n \in 1 .. Len(list) : list[n] \in Zone!Elem /\ list[n] # item[c]
  BY <1>1 DEF Zone!AllocReturn, Zone!ElementsShared, Zone!Taken, Zone!TypeOK
<1>5. Zone!ListThreaded'
  BY <1>4 DEF Zone!AllocReturn, Zone!ListThreaded, Zone!At
<1>6. \A d \in Core, e \in Zone!Elem : e \in Zone!Taken(d)' <=> e \in Zone!Taken(d)
  BY DEF Zone!Taken, Zone!AllocReturn, Zone!Goto, Zone!TypeOK
<1>7. Zone!ElementsShared'
  BY <1>4, <1>6 DEF Zone!AllocReturn, Zone!ElementsShared
<1>8. ZoneItemsKept'
  BY DEF Zone!AllocReturn, Zone!TypeOK, ZoneItemsKept, Zone!Goto, ZoneEmpties, ZoneGiving
<1>9. ZoneUnmade'
  BY <1>1 DEF Zone!AllocReturn, ZoneUnmade
<1> QED
  BY <1>2, <1>3, <1>5, <1>7, <1>8, <1>9

LEMMA ZoneFreeCallInv ==
  ASSUME Zone!ZoneConstants, ZoneIInv, NEW c \in Core, NEW x \in Zone!Elem, Zone!FreeCall(c, x) PROVE ZoneIInv'
<1> USE DEF Zone!ZoneConstants, ZoneIInv
<1>1. made
  BY DEF Zone!FreeCall
<1>2. Zone!TypeOK'
  BY DEF Zone!FreeCall, Zone!TypeOK, Zone!Goto
<1>3. Zone!Exclusion'
  BY DEF Zone!FreeCall, Zone!TypeOK, Zone!Goto, Zone!Exclusion, Zone!Inside
<1>4. Zone!ListThreaded'
  BY DEF Zone!FreeCall, Zone!ListThreaded, Zone!At
<1>5. item[c] = NULL
  BY DEF Zone!FreeCall, ZoneItemsKept, ZoneEmpties
<1>6. \A d \in Core, e \in Zone!Elem : e \in Zone!Taken(d)' <=> e \in Zone!Taken(d)
  BY <1>5 DEF Zone!Taken, Zone!FreeCall, Zone!Goto, Zone!TypeOK
<1>7. Zone!ElementsShared'
  BY <1>6 DEF Zone!FreeCall, Zone!ElementsShared, Zone!TypeOK
<1>8. ZoneItemsKept'
  BY DEF Zone!FreeCall, Zone!TypeOK, ZoneItemsKept, Zone!Goto, ZoneEmpties, ZoneGiving
<1>9. ZoneUnmade'
  BY <1>1 DEF Zone!FreeCall, ZoneUnmade
<1> QED
  BY <1>2, <1>3, <1>4, <1>7, <1>8, <1>9

LEMMA ZonePushInv == ASSUME Zone!ZoneConstants, ZoneIInv, NEW c \in Core, Zone!Push(c) PROVE ZoneIInv'
<1> USE DEF Zone!ZoneConstants, ZoneIInv
<1> DEFINE x == item[c]
<1>1. made /\ x \in Zone!Elem /\ x \in Zone!Taken(c) /\ x \notin held[c]
  BY DEF Zone!Push, ZoneUnmade, ZoneItemsKept, ZoneGiving, Zone!Taken
<1>2. /\ list' \in Seq(Zone!Elem) /\ Len(list') = Len(list) + 1 /\ list'[1] = x
      /\ \A n \in 1 .. Len(list) : list'[n + 1] = list[n]
  BY <1>1 DEF Zone!Push, Zone!TypeOK
<1>3. \A n \in 1 .. Len(list) : list[n] \in Zone!Elem /\ list[n] # x
  BY <1>1 DEF Zone!ElementsShared, Zone!TypeOK
<1>4. Zone!TypeOK'
  BY <1>1, <1>2 DEF Zone!Push, Zone!TypeOK, Zone!Goto
<1>5. Zone!Exclusion'
  BY DEF Zone!Push, Zone!TypeOK, Zone!Goto, Zone!Exclusion, Zone!Inside
<1>6. \A n \in 2 .. Len(list') : n - 1 \in 1 .. Len(list) /\ list'[n] = list[n - 1]
  <2> SUFFICES ASSUME NEW n \in 2 .. Len(list')
               PROVE  n - 1 \in 1 .. Len(list) /\ list'[n] = list[n - 1]
    OBVIOUS
  <2>1. n - 1 \in 1 .. Len(list) /\ (n - 1) + 1 = n
    BY <1>2 DEF Zone!TypeOK
  <2> QED
    BY <2>1, <1>2
<1>7. Zone!ListThreaded'
  <2>1. freelist' = Zone!At(1)'
    BY <1>2 DEF Zone!Push, Zone!At, Zone!TypeOK
  <2>2. ASSUME NEW n \in 1 .. Len(list') PROVE link'[list'[n]] = Zone!At(n + 1)'
    <3>1. CASE n = 1
      BY <3>1, <1>1, <1>2, <1>6 DEF Zone!Push, Zone!ListThreaded, Zone!At, Zone!TypeOK
    <3>2. CASE n # 1
      <4>1. n - 1 \in 1 .. Len(list) /\ list'[n] = list[n - 1] /\ list[n - 1] # x
        BY <3>2, <1>2, <1>3, <1>6 DEF Zone!TypeOK
      <4>2. link'[list'[n]] = Zone!At(n)
        BY <4>1, <1>3 DEF Zone!Push, Zone!ListThreaded, Zone!TypeOK
      <4>3. Zone!At(n) = Zone!At(n + 1)'
        BY <3>2, <1>2, <1>6 DEF Zone!At, Zone!TypeOK
      <4> QED
        BY <4>2, <4>3
    <3> QED
      BY <3>1, <3>2
  <2>3. \A m, n \in 1 .. Len(list') : list'[m] = list'[n] => m = n
    <3> SUFFICES ASSUME NEW m \in 1 .. Len(list'), NEW n \in 1 .. Len(list'),
                        list'[m] = list'[n]
                 PROVE  m = n
      OBVIOUS
    <3>1. CASE m = 1 \/ n = 1
      BY <3>1, <1>2, <1>3, <1>6 DEF Zone!TypeOK
    <3>2. CASE m # 1 /\ n # 1
      <4>1. /\ m - 1 \in 1 .. Len(list) /\ n - 1 \in 1 .. Len(list)
            /\ list[m - 1] = list[n - 1]
        BY <3>2, <1>2, <1>6 DEF Zone!TypeOK
      <4>2. m - 1 = n - 1
        BY <4>1 DEF Zone!ListThreaded
      <4> QED
        BY <4>2, <1>2 DEF Zone!TypeOK
    <3> QED
      BY <3>1, <3>2
  <2> QED
    BY <2>1, <2>2, <2>3 DEF Zone!ListThreaded
<1>8. \A d \in Core, e \in Zone!Elem : e \in Zone!Taken(d)' <=> e \in Zone!Taken(d) /\ ~(d = c /\ e = x)
  BY <1>1 DEF Zone!Taken, Zone!Push, Zone!Goto, Zone!TypeOK
<1>9. Zone!ElementsShared'
  <2>1. \A n \in 1 .. Len(list'), d \in Core : list'[n] \notin Zone!Taken(d)'
    <3> SUFFICES ASSUME NEW n \in 1 .. Len(list'), NEW d \in Core PROVE list'[n] \notin Zone!Taken(d)'
      OBVIOUS
    <3>1. CASE n = 1
      BY <3>1, <1>1, <1>2, <1>8 DEF Zone!ElementsShared
    <3>2. CASE n # 1
      <4>1. n - 1 \in 1 .. Len(list) /\ list'[n] = list[n - 1]
        BY <3>2, <1>2, <1>6 DEF Zone!TypeOK
      <4>2. list[n - 1] \notin Zone!Taken(d) /\ list[n - 1] \in Zone!Elem
        BY <4>1, <1>1, <1>3 DEF Zone!ElementsShared
      <4> QED
        BY <4>1, <4>2, <1>8
    <3> QED
      BY <3>1, <3>2
  <2>2. \A d, f \in Core, e \in Zone!Elem : e \in Zone!Taken(d)' /\ e \in Zone!Taken(f)' => d = f
    BY <1>1, <1>8 DEF Zone!ElementsShared
  <2>3. ASSUME NEW e \in Zone!Elem
        PROVE  \/ \E n \in 1 .. Len(list') : list'[n] = e
               \/ \E d \in Core : e \in Zone!Taken(d)'
    <3>1. CASE e = x
      <4>1. 1 \in 1 .. Len(list')
        BY <1>2 DEF Zone!TypeOK
      <4> QED
        BY <3>1, <4>1, <1>2
    <3>2. CASE e # x
      <4>1. CASE \E d \in Core : e \in Zone!Taken(d)
        BY <3>2, <4>1, <1>8
      <4>2. ASSUME NEW n \in 1 .. Len(list), list[n] = e
            PROVE  \E m \in 1 .. Len(list') : list'[m] = e
        <5>1. n + 1 \in 1 .. Len(list') /\ list'[n + 1] = e
          BY <4>2, <1>2 DEF Zone!TypeOK
        <5> QED
          BY <5>1
      <4> QED
        BY <1>1, <4>1, <4>2 DEF Zone!ElementsShared
    <3> QED
      BY <3>1, <3>2
  <2> QED
    BY <2>1, <2>2, <2>3 DEF Zone!ElementsShared
<1>10. ZoneItemsKept'
  BY <1>1 DEF Zone!Push, Zone!TypeOK, ZoneItemsKept, Zone!Goto, ZoneEmpties, ZoneGiving
<1>11. ZoneUnmade'
  BY <1>1 DEF Zone!Push, ZoneUnmade
<1> QED
  BY <1>4, <1>5, <1>7, <1>9, <1>10, <1>11

LEMMA ZoneFreeReturnInv == ASSUME Zone!ZoneConstants, ZoneIInv, NEW c \in Core, Zone!FreeReturn(c) PROVE ZoneIInv'
<1> USE DEF Zone!ZoneConstants, ZoneIInv
<1>1. made
  BY DEF Zone!FreeReturn, ZoneUnmade
<1>2. Zone!TypeOK'
  BY DEF Zone!FreeReturn, Zone!TypeOK, Zone!Goto
<1>3. Zone!Exclusion'
  BY DEF Zone!FreeReturn, Zone!TypeOK, Zone!Goto, Zone!Exclusion, Zone!Inside
<1>4. Zone!ListThreaded'
  BY DEF Zone!FreeReturn, Zone!ListThreaded, Zone!At
<1>5. \A d \in Core, e \in Zone!Elem : e \in Zone!Taken(d)' <=> e \in Zone!Taken(d)
  BY DEF Zone!Taken, Zone!FreeReturn, Zone!Goto, Zone!TypeOK
<1>6. Zone!ElementsShared'
  BY <1>5 DEF Zone!FreeReturn, Zone!ElementsShared, Zone!TypeOK
<1>7. ZoneItemsKept'
  BY DEF Zone!FreeReturn, Zone!TypeOK, ZoneItemsKept, Zone!Goto, ZoneEmpties, ZoneGiving
<1>8. ZoneUnmade'
  BY <1>1 DEF Zone!FreeReturn, ZoneUnmade
<1> QED
  BY <1>2, <1>3, <1>4, <1>6, <1>7, <1>8

LEMMA ZoneStepInv == ASSUME Zone!ZoneConstants, ZoneIInv, [Zone!Next]_(Zone!vars) PROVE ZoneIInv'
<1>1. ASSUME UNCHANGED Zone!vars PROVE ZoneIInv'
  BY <1>1 DEF Zone!vars, ZoneIInv, Zone!TypeOK, Zone!Exclusion, Zone!ListThreaded, Zone!At, Zone!ElementsShared, Zone!Taken,
              ZoneItemsKept, ZoneUnmade
<1>2. ASSUME NEW c \in Core, Zone!Step(c) PROVE ZoneIInv'
  BY <1>2, ZoneCallInv, ZonePopInv, ZoneAllocReturnInv, ZoneFreeCallInv, ZonePushInv, ZoneFreeReturnInv DEF Zone!Step
<1> QED
  BY <1>1, <1>2, ZoneThreadedInv DEF Zone!Next, Zone!CreateFromArena, Zone!CreateFromAddr

LEMMA ZoneInv == ASSUME Zone!ZoneConstants PROVE Zone!Spec => []ZoneIInv
<1>1. Zone!Init => ZoneIInv
  BY ZoneInitInv
<1>2. ZoneIInv /\ [Zone!Next]_(Zone!vars) => ZoneIInv'
  BY ZoneStepInv
<1> QED
  BY <1>1, <1>2, PTL DEF Zone!Spec

\* Cores that call cvmx_zone_alloc and cvmx_zone_free at the same time, and
\* write what they like into the elements they have, never break the list, are
\* never given the same element and never lose one.
THEOREM ZoneShared ==
  ASSUME Zone!ZoneConstants PROVE Zone!Spec => [](Zone!Exclusion /\ Zone!ListThreaded /\ Zone!ElementsShared)
<1>1. ZoneIInv => Zone!Exclusion /\ Zone!ListThreaded /\ Zone!ElementsShared
  BY DEF ZoneIInv
<1> QED
  BY <1>1, ZoneInv, PTL

-----------------------------------------------------------------------------
(* The zone implements ElementPool *)

\* The owner is the core that has the element, and NULL without one.
ZoneOwnersRight ==
  \A e \in Zone!Elem :
    /\ \A c \in Core : e \in Zone!Taken(c) => Zone!OwnerOf(e) = c
    /\ (\A c \in Core : e \notin Zone!Taken(c)) => Zone!OwnerOf(e) = NULL

LEMMA ZoneOwnerIs == ASSUME Zone!ZoneConstants PROVE ZoneIInv => ZoneOwnersRight
<1> SUFFICES ASSUME ZoneIInv, NEW e \in Zone!Elem
             PROVE  /\ \A c \in Core : e \in Zone!Taken(c) => Zone!OwnerOf(e) = c
                    /\ (\A c \in Core : e \notin Zone!Taken(c)) => Zone!OwnerOf(e) = NULL
  BY DEF ZoneOwnersRight
<1>1. \A c, d \in Core : e \in Zone!Taken(c) /\ e \in Zone!Taken(d) => c = d
  <2>1. CASE made
    BY <2>1 DEF ZoneIInv, Zone!ElementsShared
  <2>2. CASE ~made
    BY <2>2 DEF ZoneIInv, ZoneUnmade, ZoneItemsKept, ZoneEmpties, Zone!Taken
  <2> QED
    BY <2>1, <2>2
<1>2. ASSUME NEW c \in Core, e \in Zone!Taken(c) PROVE Zone!OwnerOf(e) = c
  <2>1. Zone!OwnerOf(e) = CHOOSE d \in Core : e \in Zone!Taken(d)
    BY <1>2 DEF Zone!OwnerOf
  <2>2. Zone!OwnerOf(e) \in Core /\ e \in Zone!Taken(Zone!OwnerOf(e))
    BY <1>2, <2>1
  <2> QED
    BY <1>1, <1>2, <2>2
<1>3. ASSUME \A c \in Core : e \notin Zone!Taken(c) PROVE Zone!OwnerOf(e) = NULL
  BY <1>3 DEF Zone!OwnerOf
<1> QED
  BY <1>2, <1>3

LEMMA ZoneOwnerIsNext == ASSUME Zone!ZoneConstants PROVE ZoneIInv' => ZoneOwnersRight'
  BY ZoneOwnerIs, PTL

ZoneOwners == [e \in Zone!Elem |-> Zone!OwnerOf(e)]

\* A step that leaves alone what the cores have is no step of the pool.
LEMMA ZoneSameOwners ==
  ASSUME ZoneOwnersRight, ZoneOwnersRight',
         \A c \in Core, e \in Zone!Elem : e \in Zone!Taken(c)' <=> e \in Zone!Taken(c)
  PROVE  ZoneOwners' = ZoneOwners
<1> SUFFICES ASSUME NEW e \in Zone!Elem PROVE Zone!OwnerOf(e)' = Zone!OwnerOf(e)
  BY DEF ZoneOwners
<1> QED
  BY DEF ZoneOwnersRight

\* A core comes to have one more element: the pool's Take.
LEMMA ZoneOneTaken ==
  ASSUME Zone!ZoneConstants, ZoneOwnersRight, ZoneOwnersRight', NEW k \in Core, NEW x \in Zone!Elem,
         \A c \in Core : x \notin Zone!Taken(c),
         \A c \in Core, e \in Zone!Elem :
           e \in Zone!Taken(c)' <=> e \in Zone!Taken(c) \/ (c = k /\ e = x)
  PROVE  ZoneOwners[x] = NULL /\ ZoneOwners' = [ZoneOwners EXCEPT ![x] = k]
<1>1. Zone!OwnerOf(x) = NULL /\ Zone!OwnerOf(x)' = k
  BY DEF ZoneOwnersRight
<1>2. \A e \in Zone!Elem \ {x} : Zone!OwnerOf(e)' = Zone!OwnerOf(e)
  BY DEF ZoneOwnersRight
<1> QED
  BY <1>1, <1>2 DEF ZoneOwners

\* A core comes to have one less: the pool's Give.
LEMMA ZoneOneGiven ==
  ASSUME Zone!ZoneConstants, ZoneOwnersRight, ZoneOwnersRight', NEW k \in Core, NEW x \in Zone!Elem,
         x \in Zone!Taken(k), \A c \in Core : x \in Zone!Taken(c) => c = k,
         \A c \in Core, e \in Zone!Elem :
           e \in Zone!Taken(c)' <=> e \in Zone!Taken(c) /\ ~(c = k /\ e = x)
  PROVE  ZoneOwners[x] # NULL /\ ZoneOwners' = [ZoneOwners EXCEPT ![x] = NULL]
<1>1. Zone!OwnerOf(x) = k /\ Zone!OwnerOf(x)' = NULL
  BY DEF ZoneOwnersRight
<1>2. \A e \in Zone!Elem \ {x} : Zone!OwnerOf(e)' = Zone!OwnerOf(e)
  BY DEF ZoneOwnersRight
<1> QED
  BY <1>1, <1>2 DEF ZoneOwners, Zone!ZoneConstants

LEMMA ZonePoolInit == ASSUME Zone!ZoneConstants, Zone!Init PROVE Zone!Pool!Init
<1>1. ZoneOwnersRight
  BY ZoneInitInv, ZoneOwnerIs
<1>2. \A e \in Zone!Elem, c \in Core : e \notin Zone!Taken(c)
  BY DEF Zone!Init, Zone!Taken, Zone!ZoneConstants
<1> QED
  BY <1>1, <1>2 DEF ZoneOwnersRight, Zone!Pool!Init

LEMMA ZonePoolStep == ASSUME Zone!ZoneConstants, ZoneIInv, ZoneIInv', [Zone!Next]_(Zone!vars) PROVE [Zone!Pool!Next]_ZoneOwners
<1> USE DEF Zone!ZoneConstants
<1>0. ZoneOwnersRight /\ ZoneOwnersRight'
  BY ZoneOwnerIs, ZoneOwnerIsNext
<1>1. ASSUME \A c \in Core, e \in Zone!Elem : e \in Zone!Taken(c)' <=> e \in Zone!Taken(c)
      PROVE  [Zone!Pool!Next]_ZoneOwners
  BY <1>0, <1>1, ZoneSameOwners
<1>2. ASSUME UNCHANGED Zone!vars PROVE [Zone!Pool!Next]_ZoneOwners
  BY <1>1, <1>2 DEF Zone!vars, Zone!Taken
<1>3. ASSUME Zone!Threaded PROVE [Zone!Pool!Next]_ZoneOwners
  BY <1>1, <1>3 DEF Zone!Threaded, Zone!Taken
<1>4. ASSUME NEW c \in Core, Zone!Step(c) PROVE [Zone!Pool!Next]_ZoneOwners
  <2>1. CASE Zone!AllocCall(c) \/ Zone!Acquire(c, "alloc", "pop") \/ Zone!Acquire(c, "free", "push")
    BY <1>1, <2>1 DEF Zone!AllocCall, Zone!Acquire, Zone!Goto, Zone!Taken, ZoneIInv, Zone!TypeOK
  <2>2. CASE \E e \in Zone!Elem : Zone!FreeCall(c, e)
    BY <1>1, <2>2 DEF Zone!FreeCall, Zone!Goto, Zone!Taken, ZoneIInv, Zone!TypeOK, ZoneItemsKept, ZoneEmpties
  <2>3. CASE Zone!AllocReturn(c)
    BY <1>1, <2>3 DEF Zone!AllocReturn, Zone!Goto, Zone!Taken, ZoneIInv, Zone!TypeOK
  <2>4. CASE Zone!FreeReturn(c)
    BY <1>1, <2>4 DEF Zone!FreeReturn, Zone!Goto, Zone!Taken, ZoneIInv, Zone!TypeOK
  <2>5. CASE Zone!Pop(c)
    <3>1. made /\ item[c] = NULL
      BY <2>5 DEF Zone!Pop, ZoneIInv, ZoneUnmade, ZoneItemsKept, ZoneEmpties
    <3>2. CASE list = << >>
      <4>1. freelist = NULL
        BY <3>2 DEF ZoneIInv, Zone!ListThreaded, Zone!At
      <4> QED
        BY <1>1, <2>5, <3>1, <4>1 DEF Zone!Pop, Zone!Goto, Zone!Taken, ZoneIInv, Zone!TypeOK
    <3>3. CASE list # << >>
      <4>1. freelist = list[1] /\ 1 \in 1 .. Len(list) /\ list[1] \in Zone!Elem
        BY <3>3 DEF ZoneIInv, Zone!TypeOK, Zone!ListThreaded, Zone!At
      <4>2. \A d \in Core : list[1] \notin Zone!Taken(d)
        BY <3>1, <4>1 DEF ZoneIInv, Zone!ElementsShared
      <4>3. \A d \in Core, e \in Zone!Elem :
              e \in Zone!Taken(d)' <=> e \in Zone!Taken(d) \/ (d = c /\ e = list[1])
        BY <2>5, <3>1, <4>1 DEF Zone!Pop, Zone!Goto, Zone!Taken, ZoneIInv, Zone!TypeOK
      <4>4. ZoneOwners[list[1]] = NULL /\ ZoneOwners' = [ZoneOwners EXCEPT ![list[1]] = c]
        BY <1>0, <4>1, <4>2, <4>3, ZoneOneTaken
      <4> QED
        BY <4>1, <4>4 DEF Zone!Pool!Next, Zone!Pool!Take, ZoneOwners
    <3> QED
      BY <3>2, <3>3
  <2>6. CASE Zone!Push(c)
    <3> DEFINE x == item[c]
    <3>1. made /\ x \in Zone!Elem /\ x \in Zone!Taken(c) /\ x \notin held[c]
      BY <2>6 DEF Zone!Push, ZoneIInv, ZoneUnmade, ZoneItemsKept, ZoneGiving, Zone!Taken
    <3>2. \A d \in Core : x \in Zone!Taken(d) => d = c
      BY <3>1 DEF ZoneIInv, Zone!ElementsShared
    <3>3. \A d \in Core, e \in Zone!Elem : e \in Zone!Taken(d)' <=> e \in Zone!Taken(d) /\ ~(d = c /\ e = x)
      BY <2>6, <3>1 DEF Zone!Push, Zone!Goto, Zone!Taken, ZoneIInv, Zone!TypeOK
    <3>4. ZoneOwners[x] # NULL /\ ZoneOwners' = [ZoneOwners EXCEPT ![x] = NULL]
      BY <1>0, <3>1, <3>2, <3>3, ZoneOneGiven
    <3> QED
      BY <3>1, <3>4 DEF Zone!Pool!Next, Zone!Pool!Give, ZoneOwners
  <2> QED
    BY <1>4, <2>1, <2>2, <2>3, <2>4, <2>5, <2>6 DEF Zone!Step
<1> QED
  BY <1>2, <1>3, <1>4 DEF Zone!Next, Zone!CreateFromArena, Zone!CreateFromAddr

\* Seen from outside, allocation and release are single steps: every behaviour
\* of the zone, of any number of cores and elements, is one of ElementPool.
THEOREM ZoneIsPool == ASSUME Zone!ZoneConstants PROVE Zone!Spec => Zone!PoolKept
<1>1. Zone!Init => Zone!Pool!Init
  BY ZonePoolInit
<1>2. ZoneIInv /\ ZoneIInv' /\ [Zone!Next]_(Zone!vars) => [Zone!Pool!Next]_ZoneOwners
  BY ZonePoolStep
<1>3. [Zone!Pool!Next]_ZoneOwners <=> [Zone!Pool!Next]_([e \in Zone!Elem |-> Zone!OwnerOf(e)])
  BY DEF ZoneOwners
<1> QED
  BY <1>1, <1>2, <1>3, ZoneInv, PTL DEF Zone!Spec, Zone!PoolKept, Zone!Pool!Spec
===============================================================================
