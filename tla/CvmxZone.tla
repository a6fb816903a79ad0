------------------------------ MODULE CvmxZone ------------------------------
(***************************************************************************)
(* The zone allocator of the executive (cvmx-zone.c): elements of one size *)
(* in a list that is threaded through the free elements themselves, under  *)
(* the spinlock of the zone.                                               *)
(*                                                                         *)
(* The elements are numbered in the order of their addresses; num_elem *   *)
(* elem_size is taken to fit the 32 bits it is computed in.                *)
(***************************************************************************)
EXTENDS Naturals, Sequences

CONSTANTS
  Core,
  NumElem,     \* num_elem
  Addresses,   \* mem_ptr of cvmx_zone_create_from_addr
  PtrSize,     \* sizeof(void *)
  StaleLocks,  \* what the memory of a new zone may hold where the lock goes
  NULL,
  Junk         \* what the users of an element write into it

Elem == 0 .. NumElem - 1

\* what the theorems about zones assume of the constants
ZoneConstants ==
  /\ NumElem \in Nat
  /\ StaleLocks \subseteq {0, 1}
  /\ NULL \notin Elem \cup Core
  /\ Junk \notin Elem \cup {NULL}

VARIABLES
  made,      \* the zone exists
  lock,      \* zone->lock.value
  freelist,  \* zone->freelist
  link,      \* the first word of each element
  pc,
  item,      \* the element a core is taking or giving back
  held,      \* the elements each core has
  list       \* history: the elements on the free list, from its head

vars == <<made, lock, freelist, link, pc, item, held, list>>

TypeOK ==
  /\ made \in BOOLEAN
  /\ lock \in {0, 1}
  /\ freelist \in Elem \cup {NULL}
  /\ link \in [Elem -> Elem \cup {NULL, Junk}]
  /\ pc \in [Core -> {"out", "alloc", "pop", "got", "free", "push", "freed"}]
  /\ item \in [Core -> Elem \cup {NULL}]
  /\ held \in [Core -> SUBSET Elem]
  /\ list \in Seq(Elem)

Init ==
  /\ made = FALSE
  /\ lock \in StaleLocks
  /\ freelist = NULL
  /\ link = [e \in Elem |-> Junk]
  /\ pc = [c \in Core |-> "out"]
  /\ item = [c \in Core |-> NULL]
  /\ held = [c \in Core |-> {}]
  /\ list = << >>

Goto(c, l) == pc' = [pc EXCEPT ![c] = l]

-----------------------------------------------------------------------------
(* cvmx_zone_create_from_addr, cvmx_zone_create_from_arena *)

\* each element is pushed on the list in turn; the lock is left as it is
Threaded ==
  /\ made' = TRUE
  /\ freelist' = IF NumElem = 0 THEN NULL ELSE NumElem - 1
  /\ link' = [e \in Elem |-> IF e = 0 THEN NULL ELSE e - 1]
  /\ list' = [n \in 1 .. NumElem |-> NumElem - n]
  /\ UNCHANGED <<lock, pc, item, held>>

\* mem_ptr & ~(sizeof(void *) - 1)
BadAlignment(a) == a - (a % PtrSize) # 0

\* a region that is refused, for its address or for want of room, changes nothing
CreateFromAddr(a) == ~made /\ ~BadAlignment(a) /\ Threaded

\* the arena may be out of memory, and then the call can be repeated
CreateFromArena == ~made /\ Threaded

-----------------------------------------------------------------------------
(* cvmx_zone_alloc *)

AllocCall(c) ==
  /\ made /\ pc[c] = "out"
  /\ Goto(c, "alloc")
  /\ UNCHANGED <<made, lock, freelist, link, item, held, list>>

\* cvmx_spinlock_lock
Acquire(c, from, to) ==
  /\ pc[c] = from /\ lock = 0
  /\ lock' = 1
  /\ Goto(c, to)
  /\ UNCHANGED <<made, freelist, link, item, held, list>>

\* the head of the list, NULL when there is none
Pop(c) ==
  /\ pc[c] = "pop"
  /\ item' = [item EXCEPT ![c] = freelist]
  /\ freelist' = IF freelist = NULL THEN NULL ELSE link[freelist]
  /\ list' = IF list = << >> THEN << >> ELSE Tail(list)
  /\ Goto(c, "got")
  /\ UNCHANGED <<made, lock, link, held>>

\* unlock and return; the caller writes over its element
AllocReturn(c) ==
  /\ pc[c] = "got"
  /\ lock' = 0
  /\ held' = [held EXCEPT ![c] = @ \cup ({item[c]} \ {NULL})]
  /\ link' = [e \in Elem |-> IF e = item[c] THEN Junk ELSE link[e]]
  /\ item' = [item EXCEPT ![c] = NULL]
  /\ Goto(c, "out")
  /\ UNCHANGED <<made, freelist, list>>

-----------------------------------------------------------------------------
(* cvmx_zone_free, of an element the core has *)

FreeCall(c, e) ==
  /\ made /\ pc[c] = "out"
  /\ e \in held[c]
  /\ item' = [item EXCEPT ![c] = e]
  /\ held' = [held EXCEPT ![c] = @ \ {e}]
  /\ Goto(c, "free")
  /\ UNCHANGED <<made, lock, freelist, link, list>>

Push(c) ==
  /\ pc[c] = "push"
  /\ link' = [link EXCEPT ![item[c]] = freelist]
  /\ freelist' = item[c]
  /\ list' = <<item[c]>> \o list
  /\ Goto(c, "freed")
  /\ UNCHANGED <<made, lock, item, held>>

FreeReturn(c) ==
  /\ pc[c] = "freed"
  /\ lock' = 0
  /\ item' = [item EXCEPT ![c] = NULL]
  /\ Goto(c, "out")
  /\ UNCHANGED <<made, freelist, link, held, list>>

-----------------------------------------------------------------------------
Step(c) ==
  \/ AllocCall(c) \/ \E e \in Elem : FreeCall(c, e)
  \/ Acquire(c, "alloc", "pop") \/ Acquire(c, "free", "push")
  \/ Pop(c) \/ AllocReturn(c) \/ Push(c) \/ FreeReturn(c)

Next ==
  \/ CreateFromArena \/ \E a \in Addresses : CreateFromAddr(a)
  \/ \E c \in Core : Step(c)

Spec == Init /\ [][Next]_vars

-----------------------------------------------------------------------------
Inside == {"pop", "got", "push", "freed"}

\* what a core has, or is about to receive or to give back
Taken(c) == held[c] \cup (IF pc[c] = "freed" THEN {} ELSE {item[c]} \ {NULL})

\* One core at a time is between cvmx_spinlock_lock and the unlock, and then the
\* lock is taken.
Exclusion ==
  /\ \A c, d \in Core : pc[c] \in Inside /\ pc[d] \in Inside => c = d
  /\ \A c \in Core : pc[c] \in Inside => lock = 1

At(n) == IF n \in 1 .. Len(list) THEN list[n] ELSE NULL

\* The free list is the one threaded through the free elements themselves,
\* although the users of the others write where its links were.
ListThreaded ==
  /\ freelist = At(1)
  /\ \A n \in 1 .. Len(list) : link[list[n]] = At(n + 1)
  /\ \A m, n \in 1 .. Len(list) : list[m] = list[n] => m = n

\* Once the zone exists each of its elements is on the list or with one core,
\* never with two and never in both places: none is handed out twice, none lost.
ElementsShared ==
  made =>
    /\ \A n \in 1 .. Len(list), c \in Core : list[n] \notin Taken(c)
    /\ \A c, d \in Core, e \in Elem : e \in Taken(c) /\ e \in Taken(d) => c = d
    /\ \A e \in Elem : \/ \E n \in 1 .. Len(list) : list[n] = e
                       \/ \E c \in Core : e \in Taken(c)

OwnerOf(e) ==
  IF \E c \in Core : e \in Taken(c) THEN CHOOSE c \in Core : e \in Taken(c) ELSE NULL

\* Whatever the cores do at the same time, an element passes from the zone to a
\* core and back, and never from core to core.
Pool == INSTANCE ElementPool WITH Free <- NULL, owner <- [e \in Elem |-> OwnerOf(e)]
PoolKept == Pool!Spec
=============================================================================
