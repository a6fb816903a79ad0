----------------------------- MODULE CvmxBootmem -----------------------------
(***************************************************************************)
(* The boot memory allocator (cvmx-bootmem.c, cvmx-bootmem-shared.c).  The *)
(* free list is threaded through the free memory itself: the first words   *)
(* of a free block hold the address of the next one and its own size.      *)
(* Blocks are taken by first fit under one spinlock; named blocks can be   *)
(* given back and are then merged with their free neighbours.              *)
(*                                                                         *)
(* Each iteration of a walk over the list is a step.  Addresses and sizes  *)
(* are unsigned and computed modulo Word.                                  *)
(***************************************************************************)
EXTENDS Integers, FiniteSets, Functions

CONSTANTS
  Core,       \* the cores and processes that share the descriptor
  Word,       \* 2^64
  AlignSize,  \* CVMX_BOOTMEM_ALIGNMENT_SIZE, 16
  InitFree,   \* size of each block the bootloader left, by its address
  Names,      \* names of blocks
  NumNamed,   \* named_block_num_blocks
  Request     \* the calls that are made

ASSUME WordAssumption == Word \in Nat /\ AlignSize \in 1 .. Word - 1
ASSUME NamedAssumption == NumNamed \in Nat

Addr == 0 .. Word - 1

\* The op of a request: cvmx_bootmem_alloc_range, cvmx_bootmem_alloc_named_range,
\* cvmx_bootmem_free_named, cvmx_bootmem_find_named_block,
\* cvmx_bootmem_available_mem (whose min_block_size is in size)
AllocOps  == {"range", "named"}
LockedOps == AllocOps \cup {"free", "find"}
Call == [op : LockedOps \cup {"avail"}, size : Addr, min : Addr, max : Addr,
         align : Addr, name : Names]

\* a size that rounds up to 2^64 is 0 after rounding; no memory is that large
ASSUME RequestAssumption ==
  /\ Request \subseteq Call
  /\ Request # {}
  /\ \A r \in Request : r.size + AlignSize <= Word

Cells(a, s) == a .. a + s - 1
Arena == UNION {Cells(a, InitFree[a]) : a \in DOMAIN InitFree}

\* the blocks the bootloader left are apart, so address 0 is no block and no
\* block reaches the top of the address space
ASSUME InitFreeAssumption ==
  /\ DOMAIN InitFree \subseteq Addr \ {0}
  /\ IsFiniteSet(DOMAIN InitFree)
  /\ \A a \in DOMAIN InitFree :
       /\ InitFree[a] \in Addr \ {0}
       /\ a + InitFree[a] < Word
       /\ \A b \in DOMAIN InitFree : a < b => a + InitFree[a] < b

VARIABLES
  lock,     \* the spinlock of the descriptor
  head,     \* head_addr
  next,     \* next_block_addr at each address that holds a header
  size,     \* size at each address that holds a header
  named,    \* the named block descriptors, size 0 when unused
  pc,       \* where each core is
  req,      \* the call it is in
  ent,      \* ent_addr, cur_addr or addr: where it is in the list
  prev,     \* prev_addr
  desc,     \* the named descriptor it works on, 0 if none
  res,      \* the address it will return, 0 on failure
  total,    \* available_mem
  ents,     \* history: the addresses of the free blocks
  owned,    \* history: the blocks <<base, size>> handed out
  cuts,     \* history: the free blocks that begin where a call cut an entry in vain
  split,    \* history: the call has split an entry it cannot use from its start
  calm      \* history: nobody changed the list since the call began

memory == <<head, next, size, ents, owned, cuts>>
local  == <<pc, req, ent, prev, desc, res, total, split, calm>>
vars   == <<lock, memory, named, local>>

Junk == Word - 1     \* what the user of a block writes over its header

Locked   == {"lookup", "check", "visit", "record", "free", "place", "insert",
             "clear", "unlock"}
PcValues == Locked \cup {"idle", "sum", "lost"}

TypeOK ==
  /\ lock \in BOOLEAN
  /\ head \in Addr
  /\ next \in [Addr -> Addr]
  /\ size \in [Addr -> Addr]
  /\ named \in [1 .. NumNamed -> [base : Addr, size : Addr, name : Names]]
  /\ pc \in [Core -> PcValues]
  /\ req \in [Core -> Request]
  /\ ent \in [Core -> Addr]
  /\ prev \in [Core -> Addr]
  /\ desc \in [Core -> 0 .. NumNamed]
  /\ res \in [Core -> Addr]
  /\ total \in [Core -> Addr]
  /\ ents \in SUBSET (Addr \ {0})
  /\ owned \in SUBSET ((Addr \ {0}) \X (Addr \ {0}))
  /\ cuts \subseteq ents
  /\ split \in [Core -> BOOLEAN]
  /\ calm \in [Core -> BOOLEAN]

\* the first of a set of addresses, 0 if there is none
First(S) == IF S = {} THEN 0 ELSE CHOOSE a \in S : \A b \in S : a <= b

NoReq == CHOOSE r \in Request : TRUE

\* an unused descriptor: what it described before is never read again
Unused == [base |-> 0, size |-> 0, name |-> NoReq.name]

\* cvmx_bootmem_init finds the list the bootloader made
Init ==
  /\ lock = FALSE
  /\ head = First(DOMAIN InitFree)
  /\ next = [a \in Addr |-> First({b \in DOMAIN InitFree :
                                     a \in DOMAIN InitFree /\ a < b})]
  /\ size = [a \in Addr |-> IF a \in DOMAIN InitFree THEN InitFree[a] ELSE 0]
  /\ named = [i \in 1 .. NumNamed |-> Unused]
  /\ pc = [c \in Core |-> "idle"]
  /\ req = [c \in Core |-> NoReq]
  /\ ent = [c \in Core |-> 0]
  /\ prev = [c \in Core |-> 0]
  /\ desc = [c \in Core |-> 0]
  /\ res = [c \in Core |-> 0]
  /\ total = [c \in Core |-> 0]
  /\ ents = DOMAIN InitFree
  /\ owned = {}
  /\ cuts = {}
  /\ split = [c \in Core |-> FALSE]
  /\ calm = [c \in Core |-> TRUE]

Goto(c, l) == pc' = [pc EXCEPT ![c] = l]

-----------------------------------------------------------------------------
(* octeon_phy_mem_block_alloc: what the arguments mean *)

Larger(x, y)  == IF x > y THEN x ELSE y
Smaller(x, y) == IF x < y THEN x ELSE y

\* (x + (a - 1)) & ~(a - 1), and ALIGN_ADDR_UP
RoundUp(x, a) == LET y == (x + a - 1) % Word IN y - (y % a)

ReqSize(r) == RoundUp(r.size, AlignSize)

\* address_min after the adjustment to the requested alignment
AddrMin(r) == IF r.align = 0 THEN r.min ELSE RoundUp(r.min, r.align)

\* an exact place when only the minimum is given, no limit when neither is
AddrMax(r) == IF r.max # 0 THEN r.max
              ELSE IF r.min # 0 THEN (r.min + ReqSize(r)) % Word
              ELSE Word - 1

Alignment(r) == Larger(r.align, AlignSize)

\* alignments are powers of two ("must be power of 2"), the bootloader's blocks
\* have room for headers, and no aligned address is beyond 2^64
ASSUME AlignAssumption ==
  /\ \A r \in Request : r.align # 0 => r.align % AlignSize = 0 \/ AlignSize % r.align = 0
  /\ \A a \in DOMAIN InitFree : a % AlignSize = 0 /\ InitFree[a] % AlignSize = 0
ASSUME AddressAssumption ==
  \A r \in Request : \A a \in Arena \cup {r.min, AddrMin(r)} : a + Alignment(r) <= Word

Rejected(r) ==
  \/ r.size = 0
  \/ r.min % AlignSize # 0
  \/ ReqSize(r) > (AddrMax(r) - AddrMin(r)) % Word

UsableBase(r, e) == RoundUp(Larger(AddrMin(r), e), Alignment(r))

\* entry e can hold the request; a base above the maximum makes the last
\* difference wrap, and then anything fits
CanSatisfy(r, e) ==
  LET top == (e + size[e]) % Word
      base == UsableBase(r, e)
  IN /\ top > base
     /\ e < AddrMax(r)
     /\ ReqSize(r) <= (Smaller(AddrMax(r), top) - base) % Word

\* the whole list was visited, or it is out of order
ListEnds(e) == e = 0 \/ (next[e] # 0 /\ e > next[e])

-----------------------------------------------------------------------------
(* cvmx_bootmem_alloc_range, cvmx_bootmem_alloc_named_range,               *)
(* cvmx_bootmem_free_named, cvmx_bootmem_find_named_block                  *)

FirstStep(r) == IF r.op = "range" THEN "check" ELSE "lookup"

\* the call up to octeon_lock's success; a core that spins changes nothing
Enter(c, r) ==
  /\ pc[c] = "idle"
  /\ r.op \in LockedOps
  /\ ~lock
  /\ lock' = TRUE
  /\ req' = [req EXCEPT ![c] = r]
  /\ Goto(c, FirstStep(r))
  /\ UNCHANGED <<memory, named, ent, prev, desc, res, total, split, calm>>

\* octeon_phy_mem_named_block_find_internal with a name and without
Find(n) == First({i \in DOMAIN named : named[i].size # 0 /\ named[i].name = n})
FindUnused == First({i \in DOMAIN named : named[i].size = 0})

LookupAlloc(c) ==
  /\ pc[c] = "lookup" /\ req[c].op = "named"
  /\ desc' = [desc EXCEPT ![c] = FindUnused]
  /\ Goto(c, IF Find(req[c].name) # 0 \/ FindUnused = 0 THEN "unlock" ELSE "check")
  /\ UNCHANGED <<lock, memory, named, req, ent, prev, res, total, split, calm>>

LookupFree(c) ==
  /\ pc[c] = "lookup" /\ req[c].op = "free"
  /\ desc' = [desc EXCEPT ![c] = Find(req[c].name)]
  /\ Goto(c, IF Find(req[c].name) = 0 THEN "unlock" ELSE "free")
  /\ UNCHANGED <<lock, memory, named, req, ent, prev, res, total, split, calm>>

LookupFind(c) ==
  /\ pc[c] = "lookup" /\ req[c].op = "find"
  /\ desc' = [desc EXCEPT ![c] = Find(req[c].name)]
  /\ Goto(c, "unlock")
  /\ UNCHANGED <<lock, memory, named, req, ent, prev, res, total, split, calm>>

Check(c) ==
  /\ pc[c] = "check"
  /\ IF Rejected(req[c])
       THEN Goto(c, "unlock") /\ UNCHANGED ent
       ELSE Goto(c, "visit") /\ ent' = [ent EXCEPT ![c] = head]
  /\ UNCHANGED <<lock, memory, named, req, prev, desc, res, total, split, calm>>

\* a walk without the lock is disturbed by every change of the list
Disturb == calm' = [d \in Core |-> calm[d] /\ pc[d] # "sum"]

\* the block starts where the entry does: what is left becomes an entry
TakeFront(c) ==
  LET e    == ent[c]
      s    == ReqSize(req[c])
      rest == (e + s) % Word
      more == s < size[e]
      nxt  == IF more THEN [next EXCEPT ![rest] = next[e], ![e] = rest] ELSE next
  IN /\ pc[c] = "visit" /\ ~ListEnds(e)
     /\ CanSatisfy(req[c], e) /\ UsableBase(req[c], e) = e
     /\ size' = IF more THEN [size EXCEPT ![rest] = size[e] - s] ELSE size
     /\ head' = IF prev[c] = 0 THEN nxt[e] ELSE head
     /\ next' = IF prev[c] = 0 THEN nxt ELSE [nxt EXCEPT ![prev[c]] = nxt[e]]
     /\ ents' = (ents \ {e}) \cup (IF more THEN {rest} ELSE {})
     /\ cuts' = cuts \cap ents'
     /\ owned' = owned \cup {<<e, s>>}
     /\ res' = [res EXCEPT ![c] = e]
     /\ Disturb
     /\ Goto(c, IF req[c].op = "named" THEN "record" ELSE "unlock")
     /\ UNCHANGED <<lock, named, req, ent, prev, desc, total, split>>

\* faulty: the new entry keeps the size of the whole
SplitFront_Size(c) ==
  LET e    == ent[c]
      base == UsableBase(req[c], e)
  IN /\ pc[c] = "visit" /\ ~ListEnds(e)
     /\ CanSatisfy(req[c], e) /\ base # e
     /\ next' = [next EXCEPT ![base] = next[e], ![e] = base]
     /\ size' = [size EXCEPT ![base] = size[e], ![e] = base - e]
     /\ ents' = ents \cup {base}
     /\ cuts' = cuts \cup {a \in {base} : a > AddrMax(req[c])}
     /\ prev' = [prev EXCEPT ![c] = e]
     /\ ent' = [ent EXCEPT ![c] = base]
     /\ split' = [split EXCEPT ![c] = TRUE]
     /\ Disturb
     /\ UNCHANGED <<lock, head, owned, named, pc, req, desc, res, total>>

\* it starts later: the entry is cut in two and the loop goes on with the second
SplitFront(c) ==
  LET e    == ent[c]
      base == UsableBase(req[c], e)
  IN /\ pc[c] = "visit" /\ ~ListEnds(e)
     /\ CanSatisfy(req[c], e) /\ base # e
     /\ next' = [next EXCEPT ![base] = next[e], ![e] = base]
     /\ size' = [size EXCEPT ![base] = size[e] - (base - e), ![e] = base - e]
     /\ ents' = ents \cup {base}
     /\ cuts' = cuts \cup {a \in {base} : a > AddrMax(req[c])}
     /\ prev' = [prev EXCEPT ![c] = e]
     /\ ent' = [ent EXCEPT ![c] = base]
     /\ split' = [split EXCEPT ![c] = TRUE]
     /\ Disturb
     /\ UNCHANGED <<lock, head, owned, named, pc, req, desc, res, total>>

\* faulty: the walk stops at the first entry that is too small
Skip_Stop(c) ==
  /\ pc[c] = "visit" /\ ~ListEnds(ent[c])
  /\ ~CanSatisfy(req[c], ent[c])
  /\ Goto(c, "unlock")
  /\ UNCHANGED <<lock, memory, named, req, ent, prev, desc, res, total, split, calm>>

Skip(c) ==
  /\ pc[c] = "visit" /\ ~ListEnds(ent[c])
  /\ ~CanSatisfy(req[c], ent[c])
  /\ prev' = [prev EXCEPT ![c] = ent[c]]
  /\ ent' = [ent EXCEPT ![c] = next[ent[c]]]
  /\ UNCHANGED <<lock, memory, named, pc, req, desc, res, total, split, calm>>

NothingFits(c) ==
  /\ pc[c] = "visit" /\ ListEnds(ent[c])
  /\ Goto(c, "unlock")
  /\ UNCHANGED <<lock, memory, named, req, ent, prev, desc, res, total, split, calm>>

Record(c) ==
  /\ pc[c] = "record"
  /\ named' = [named EXCEPT ![desc[c]] = [base |-> res[c],
                 size |-> ReqSize(req[c]), name |-> req[c].name]]
  /\ Goto(c, "unlock")
  /\ UNCHANGED <<lock, memory, req, ent, prev, desc, res, total, split, calm>>

-----------------------------------------------------------------------------
(* octeon_phy_mem_block_free, called by octeon_phy_mem_named_block_free *)

PhyAddr(c)   == named[desc[c]].base
BlockSize(c) == named[desc[c]].size

\* the block goes between entries p and cur (0: the end of the list) and is
\* merged with either that it touches
Insert(c, p, cur) ==
  LET phy      == PhyAddr(c)
      s        == BlockSize(c)
      joinPrev == p # 0 /\ (p + size[p]) % Word = phy
      joinCur  == cur # 0 /\ (phy + s) % Word = cur
      at       == IF joinPrev THEN p ELSE phy
      after    == IF joinCur THEN next[cur] ELSE cur
      linked   == [next EXCEPT ![at] = after]
  IN /\ size' = [size EXCEPT ![at] = (s + (IF joinPrev THEN size[p] ELSE 0)
                                       + (IF joinCur THEN size[cur] ELSE 0)) % Word]
     /\ head' = IF p = 0 THEN phy ELSE head
     /\ next' = IF p = 0 \/ joinPrev THEN linked ELSE [linked EXCEPT ![p] = phy]
     /\ ents' = (ents \ (IF joinCur THEN {cur} ELSE {})) \cup {at}
     /\ cuts' = cuts \cap ents'
     /\ owned' = owned \ {<<phy, s>>}

BeforeHead(c) == head = 0 \/ PhyAddr(c) < head

\* a block that overlaps the first entry is refused
FreeFront(c) ==
  /\ pc[c] = "free" /\ BeforeHead(c)
  /\ IF head # 0 /\ (PhyAddr(c) + BlockSize(c)) % Word > head
       THEN UNCHANGED <<memory, calm>>
       ELSE Insert(c, 0, head) /\ Disturb
  /\ Goto(c, "clear")
  /\ UNCHANGED <<lock, named, req, ent, prev, desc, res, total, split>>

FreeSearch(c) ==
  /\ pc[c] = "free" /\ ~BeforeHead(c)
  /\ ent' = [ent EXCEPT ![c] = head]
  /\ Goto(c, "place")
  /\ UNCHANGED <<lock, memory, named, req, prev, desc, res, total, split, calm>>

\* faulty: the walk does not advance
Place_Stay(c) ==
  /\ pc[c] = "place"
  /\ ent[c] # 0 /\ PhyAddr(c) > ent[c]
  /\ prev' = [prev EXCEPT ![c] = ent[c]]
  /\ UNCHANGED <<lock, memory, named, pc, req, ent, desc, res, total, split, calm>>

\* the loop that finds the place in the list
Place(c) ==
  /\ pc[c] = "place"
  /\ ent[c] # 0 /\ PhyAddr(c) > ent[c]
  /\ prev' = [prev EXCEPT ![c] = ent[c]]
  /\ ent' = [ent EXCEPT ![c] = next[ent[c]]]
  /\ UNCHANGED <<lock, memory, named, pc, req, desc, res, total, split, calm>>

FreeInsert(c) ==
  /\ pc[c] = "place"
  /\ ~(ent[c] # 0 /\ PhyAddr(c) > ent[c])
  /\ Insert(c, prev[c], ent[c])
  /\ Disturb
  /\ Goto(c, "clear")
  /\ UNCHANGED <<lock, named, req, ent, prev, desc, res, total, split>>

Clear(c) ==
  /\ pc[c] = "clear"
  /\ named' = [named EXCEPT ![desc[c]] = Unused]
  /\ Goto(c, "unlock")
  /\ UNCHANGED <<lock, memory, req, ent, prev, desc, res, total, split, calm>>

\* octeon_unlock and return.  The caller of a successful allocation owns the
\* memory and writes to it: a header that was there is gone.
Unlock(c) ==
  LET mine == IF res[c] = 0 THEN {} ELSE Cells(res[c], ReqSize(req[c]))
  IN /\ pc[c] = "unlock"
     /\ lock' = FALSE
     /\ next' = [a \in Addr |-> IF a \in mine THEN Junk ELSE next[a]]
     /\ size' = [a \in Addr |-> IF a \in mine THEN Junk ELSE size[a]]
     /\ req' = [req EXCEPT ![c] = NoReq]
     /\ ent' = [ent EXCEPT ![c] = 0]
     /\ prev' = [prev EXCEPT ![c] = 0]
     /\ desc' = [desc EXCEPT ![c] = 0]
     /\ res' = [res EXCEPT ![c] = 0]
     /\ split' = [split EXCEPT ![c] = FALSE]
     /\ Goto(c, "idle")
     /\ UNCHANGED <<head, ents, owned, cuts, named, total, calm>>

-----------------------------------------------------------------------------
(* cvmx_bootmem_available_mem: walks the list without the lock *)

Available(c, r) ==
  /\ pc[c] = "idle"
  /\ r.op = "avail"
  /\ req' = [req EXCEPT ![c] = r]
  /\ ent' = [ent EXCEPT ![c] = head]
  /\ calm' = [calm EXCEPT ![c] = TRUE]
  /\ Goto(c, "sum")
  /\ UNCHANGED <<lock, memory, named, prev, desc, res, total, split>>

Sum(c) ==
  LET e == ent[c]
  IN /\ pc[c] = "sum" /\ e \notin {0, Junk}
     /\ total' = [total EXCEPT ![c] =
          IF size[e] >= req[c].size THEN (total[c] + size[e]) % Word ELSE total[c]]
     /\ ent' = [ent EXCEPT ![c] = next[e]]
     /\ UNCHANGED <<lock, memory, named, pc, req, prev, desc, res, split, calm>>

\* a link that a user wrote over leads nowhere: an address error or worse
SumLost(c) ==
  /\ pc[c] = "sum" /\ ent[c] = Junk
  /\ Goto(c, "lost")
  /\ UNCHANGED <<lock, memory, named, req, ent, prev, desc, res, total, split, calm>>

SumDone(c) ==
  /\ pc[c] = "sum" /\ ent[c] = 0
  /\ total' = [total EXCEPT ![c] = 0]
  /\ req' = [req EXCEPT ![c] = NoReq]
  /\ calm' = [calm EXCEPT ![c] = TRUE]
  /\ Goto(c, "idle")
  /\ UNCHANGED <<lock, memory, named, ent, prev, desc, res, split>>

-----------------------------------------------------------------------------
BlockAlloc(c) ==
  \/ Check(c) \/ TakeFront(c) \/ SplitFront(c) \/ Skip(c) \/ NothingFits(c)

BlockFree(c) == FreeFront(c) \/ FreeSearch(c) \/ Place(c) \/ FreeInsert(c)

\* what a core does between octeon_lock and octeon_unlock
Holding(c) ==
  \/ LookupAlloc(c) \/ LookupFree(c) \/ LookupFind(c)
  \/ BlockAlloc(c) \/ Record(c)
  \/ BlockFree(c) \/ Clear(c)
  \/ Unlock(c)

Step(c) ==
  \/ \E r \in Request : Enter(c, r) \/ Available(c, r)
  \/ Holding(c)
  \/ Sum(c) \/ SumLost(c) \/ SumDone(c)

Next == \E c \in Core : Step(c)

Spec == Init /\ [][Next]_vars

\* a core that holds the lock runs on
FairSpec == Spec /\ \A c \in Core : WF_vars(Holding(c))

-----------------------------------------------------------------------------
Entries == {<<a, size[a]>> : a \in ents}
Owner   == {c \in Core : pc[c] \in Locked}

\* The links and sizes describe exactly the free blocks: the list visits them
\* in ascending order.  Every header the allocator follows is one it wrote, in
\* memory that is still free, whatever the users of other blocks write.
ListThreaded ==
  /\ head = First(ents)
  /\ \A a \in ents : next[a] = First({b \in ents : b > a})

\* All memory the bootloader handed over is in exactly one place: in one entry
\* of the free list or in one block that was handed out.  Splitting, merging
\* and alignment neither lose a byte nor hand one out twice.
Partition ==
  LET all == Entries \cup owned
  IN /\ \A b \in all : b[2] > 0 /\ Cells(b[1], b[2]) \subseteq Arena
     /\ \A x \in Arena : \E b \in all : x \in Cells(b[1], b[2])
     /\ \A b, d \in all : b # d => Cells(b[1], b[2]) \cap Cells(d[1], d[2]) = {}
     /\ \A b \in owned : b[1] \notin ents

\* Entries and blocks start and end at multiples of the minimum alignment, so
\* that a header always fits and "the minimum free block size is the alignment
\* size".
HeadersFit ==
  \A b \in Entries \cup owned : b[1] % AlignSize = 0 /\ b[2] % AlignSize = 0

\* While nobody holds the lock two free blocks touch only where a call cut an
\* entry above its maximum and then took nothing: every other cut was taken from,
\* and freed blocks were merged with both neighbours.
Coalesced ==
  ~lock => \A b \in Entries, d \in Entries : b[1] + b[2] = d[1] => d[1] \in cuts

\* The address returned satisfies the request: aligned, between the limits,
\* and the block is the caller's alone.
MeetsRequest ==
  \A c \in Core : res[c] # 0 =>
    LET r == req[c]
    IN /\ res[c] % Alignment(r) = 0
       /\ res[c] >= r.min
       /\ r.max # 0 => res[c] + r.size <= r.max
       /\ r.max = 0 /\ r.min # 0 => res[c] = r.min
       /\ <<res[c], ReqSize(r)>> \in owned

FreeCells == UNION {Cells(b[1], b[2]) : b \in Entries}

\* An allocation fails only when it should: every aligned place between the
\* minimum and the maximum (which the code takes as exclusive) has a byte in use
\* or one of the cuts above inside.  First fit over a fragmented list finds a
\* place wherever else there is one.
FailsOnlyWhenFull ==
  \A c \in Core :
    /\ pc[c] = "unlock" /\ req[c].op = "range" /\ res[c] = 0 /\ req[c].size > 0
    /\ req[c].min % AlignSize = 0
    => LET r == req[c]
       IN ~\E a \in Addr : /\ a % Alignment(r) = 0 /\ a >= r.min
                           /\ a + ReqSize(r) <= AddrMax(r)
                           /\ Cells(a, ReqSize(r)) \subseteq FreeCells
                           /\ \A x \in cuts : ~(a < x /\ x < a + ReqSize(r))

\* While nobody holds the lock, every name in use belongs to one descriptor and
\* the descriptor describes a block that is really allocated: what
\* cvmx_bootmem_free_named gives back later is what was taken.
NamesMatchBlocks ==
  ~lock =>
    LET live == {i \in DOMAIN named : named[i].size # 0}
    IN /\ \A i \in live : <<named[i].base, named[i].size>> \in owned
       /\ \A i, j \in live : i # j => /\ named[i].name # named[j].name
                                      /\ named[i].base # named[j].base

\* At most one core is between octeon_lock and octeon_unlock, and then the lock
\* is taken.
Exclusion ==
  /\ \A c, d \in Owner : c = d
  /\ lock <=> Owner # {}

\* A walk nobody disturbed counts every free block of the minimum size.
AvailableExact ==
  \A c \in Core : pc[c] = "sum" /\ calm[c] /\ ent[c] = 0 =>
    total[c] = SumFunctionOnSet(size, {a \in ents : size[a] >= req[c].size})

\* Whoever takes octeon_lock finds the free list in order: one owner at a time,
\* links in memory that is free, every byte in one place, blocks aligned, and
\* merged but for the cuts.
FreeListSound ==
  TypeOK /\ Exclusion /\ ListThreaded /\ Partition /\ HeadersFit /\ Coalesced

\* Every call answers rightly: a block that meets the request, none only when no
\* place would do or an earlier call cut it, the block that goes with a name, and
\* the sum of the free blocks.
AnswersRight ==
  MeetsRequest /\ FailsOnlyWhenFull /\ NamesMatchBlocks /\ AvailableExact

\* Seen from outside, memory moves between the pool and its users one whole
\* block at a time; and the lock is always given back: every walk over the list
\* ends.
Pool == INSTANCE MemoryPool WITH
          Block <- Arena \X {ReqSize(r) : r \in Request}, free <- FreeCells, blocks <- owned
PoolServed == Pool!Spec /\ []<>(~lock)

-----------------------------------------------------------------------------
(* Two statements of the code's comments that the code does not keep *)

\* "We have found an entry for the request, so allocate from the entry as
\* required" and "Loop again to handle actual alloc from new block": a call
\* that cuts an entry in two allocates.
SplitMeansFound ==
  \A c \in Core : pc[c] = "unlock" /\ split[c] => res[c] # 0

\* "spinlock to control access to list": nobody reads the list while it changes
\* under him.
WalkProtected == \A c \in Core : pc[c] # "lost"
=============================================================================
