--------------------------- MODULE CvmxRecSpinlock ---------------------------
(***************************************************************************)
(* The recursive spinlock of the Octeon executive (cvmx-spinlock.h):       *)
(* cvmx_spinlock_rec_lock and cvmx_spinlock_rec_unlock, one load or store  *)
(* per step.  An ll/sc pair is one step: a store-conditional that fails    *)
(* changes nothing and goes back to its load.                              *)
(***************************************************************************)
EXTENDS Integers

CONSTANTS
  Core,       \* the cores, by number
  Invalid,    \* pid + 0x80, the number of no core
  MaxDepth,   \* bound on the nesting of one core
  Word        \* value counts modulo Word, 2^32 in the code

\* what is asked of the constants: fewer levels than value can count
RecConstants ==
  /\ Invalid \notin Core
  /\ Word \in Nat /\ MaxDepth \in Nat /\ MaxDepth < Word

VARIABLES
  value,      \* lock->value, the number of lock calls not yet undone
  core_num,   \* lock->core_num
  tmp,        \* the register that carries value to the store, 0 elsewhere
  pc,         \* where each core is
  depth,      \* how often the program of each core holds the lock
  leftover,   \* history: the number core_num still holds from before the init
  slipped     \* history: that number has let its core in beside the holder

vars == <<value, core_num, tmp, pc, depth, leftover, slipped>>

PcValues == {"out", "ll", "lid", "reload", "count", "own", "dec", "restore"}

TypeOK ==
  /\ value \in 0 .. Word - 1
  /\ core_num \in Core \cup {Invalid}
  /\ tmp \in [Core -> 0 .. Word - 1]
  /\ pc \in [Core -> PcValues]
  /\ depth \in [Core -> Nat]
  /\ leftover \in Core \cup {Invalid}
  /\ slipped \in BOOLEAN

\* cvmx_spinlock_rec_init clears the count and leaves core_num as it finds it
\* in memory: any core's number, or none
Init ==
  /\ value = 0
  /\ core_num \in Core \cup {Invalid}
  /\ tmp = [c \in Core |-> 0]
  /\ pc = [c \in Core |-> "out"]
  /\ depth = [c \in Core |-> 0]
  /\ leftover = core_num
  /\ slipped = FALSE

Goto(c, l) == pc' = [pc EXCEPT ![c] = l]

Plus(v, k) == (v + k) % Word

\* a store to core_num
SetOwner(n) ==
  /\ core_num' = n
  /\ leftover' = Invalid

-----------------------------------------------------------------------------
(* cvmx_spinlock_rec_lock *)

Lock(c) ==
  /\ pc[c] = "out"
  /\ depth[c] < MaxDepth
  /\ Goto(c, "ll")
  /\ UNCHANGED <<value, core_num, tmp, depth, leftover, slipped>>

\* the count is zero: 0 -> 1, then on to write core_num
TakeFree(c) ==
  /\ pc[c] = "ll"
  /\ value = 0
  /\ value' = 1
  /\ Goto(c, "own")
  /\ UNCHANGED <<core_num, tmp, depth, leftover, slipped>>

\* the count is not zero: look at core_num
SeeHeld(c) ==
  /\ pc[c] = "ll"
  /\ value # 0
  /\ Goto(c, "lid")
  /\ UNCHANGED <<value, core_num, tmp, depth, leftover, slipped>>

\* core_num is another core's: restart; it is ours: the lock is ours already
CompareOwner(c) ==
  /\ pc[c] = "lid"
  /\ Goto(c, IF core_num = c THEN "reload" ELSE "ll")
  /\ slipped' = (slipped \/ leftover = c)
  /\ UNCHANGED <<value, core_num, tmp, depth, leftover>>

\* faulty: the addu is missing
LoadCount_NoAdd(c) ==
  /\ pc[c] = "reload"
  /\ tmp' = [tmp EXCEPT ![c] = value]
  /\ Goto(c, "count")
  /\ UNCHANGED <<value, core_num, depth, leftover, slipped>>

\* a plain load and a plain store add one level
LoadCount(c) ==
  /\ pc[c] = "reload"
  /\ tmp' = [tmp EXCEPT ![c] = Plus(value, 1)]
  /\ Goto(c, "count")
  /\ UNCHANGED <<value, core_num, depth, leftover, slipped>>

StoreCount(c) ==
  /\ pc[c] = "count"
  /\ value' = tmp[c]
  /\ tmp' = [tmp EXCEPT ![c] = 0]
  /\ Goto(c, "own")
  /\ UNCHANGED <<core_num, depth, leftover, slipped>>

\* faulty: core_num is not stored
StoreOwner_NoStore(c) ==
  /\ pc[c] = "own"
  /\ depth' = [depth EXCEPT ![c] = @ + 1]
  /\ Goto(c, "out")
  /\ UNCHANGED <<value, core_num, tmp, leftover, slipped>>

StoreOwner(c) ==
  /\ pc[c] = "own"
  /\ SetOwner(c)
  /\ depth' = [depth EXCEPT ![c] = @ + 1]
  /\ Goto(c, "out")
  /\ UNCHANGED <<value, tmp, slipped>>

-----------------------------------------------------------------------------
(* cvmx_spinlock_rec_unlock, called by a core that holds the lock *)

\* faulty: core_num is not made invalid before the count drops
Unlock_KeepsOwner(c) ==
  /\ pc[c] = "out"
  /\ depth[c] > 0
  /\ Goto(c, "dec")
  /\ UNCHANGED <<value, core_num, tmp, depth, leftover, slipped>>

Unlock(c) ==
  /\ pc[c] = "out"
  /\ depth[c] > 0
  /\ SetOwner(Invalid)
  /\ Goto(c, "dec")
  /\ UNCHANGED <<value, tmp, depth, slipped>>

\* faulty: core_num stays invalid while the lock is still held
Decrement_NoRestore(c) ==
  /\ pc[c] = "dec"
  /\ value' = Plus(value, -1)
  /\ depth' = [depth EXCEPT ![c] = @ - 1]
  /\ Goto(c, "out")
  /\ UNCHANGED <<core_num, tmp, leftover, slipped>>

Decrement(c) ==
  /\ pc[c] = "dec"
  /\ value' = Plus(value, -1)
  /\ depth' = [depth EXCEPT ![c] = @ - 1]
  /\ Goto(c, IF value = 1 THEN "out" ELSE "restore")
  /\ UNCHANGED <<core_num, tmp, leftover, slipped>>

\* still held: core_num is valid again
RestoreOwner(c) ==
  /\ pc[c] = "restore"
  /\ SetOwner(c)
  /\ Goto(c, "out")
  /\ UNCHANGED <<value, tmp, depth, slipped>>

-----------------------------------------------------------------------------
\* the steps inside a call: a core that entered one keeps running
Step(c) ==
  \/ TakeFree(c) \/ SeeHeld(c) \/ CompareOwner(c) \/ LoadCount(c)
  \/ StoreCount(c) \/ StoreOwner(c) \/ Decrement(c) \/ RestoreOwner(c)

Next == \E c \in Core : Lock(c) \/ Unlock(c) \/ Step(c)

Spec     == Init /\ [][Next]_vars
FairSpec == Spec /\ \A c \in Core : WF_vars(Step(c))

-----------------------------------------------------------------------------
(* Properties *)

Owner(c)  == depth[c] > 0 \/ pc[c] = "own"
Levels(c) == depth[c] + IF pc[c] = "own" THEN 1 ELSE 0

\* "the lock is released only when the corresponding number of unlocks have
\* taken place": two cores are never both inside, for as long as the number
\* that cvmx_spinlock_rec_init left in core_num has let nobody in
Exclusion ==
  slipped \/ \A c, d \in Core : depth[c] > 0 /\ depth[d] > 0 => c = d

\* the number the init left is good for one core only, and only while the
\* very first holder is between its sc and its store of core_num: once any
\* core has stored its own, nobody slips in for the rest of the lock's life
LeftoverShortLived ==
  [][slipped' /\ ~slipped =>
       /\ leftover \in Core /\ pc[leftover] = "lid"
       /\ \A c \in Core : depth[c] = 0
       /\ \E c \in Core \ {leftover} : pc[c] = "own"]_vars

\* until then value counts the levels of the one core that has the lock,
\* core_num names no core that has not, but for what the init left, and a
\* core that found its own number really has the lock
LevelsCounted ==
  slipped \/
  /\ \A c, d \in Core : Owner(c) /\ Owner(d) => c = d
  /\ \A c \in Core : Owner(c) => value = Levels(c)
  /\ (\A c \in Core : ~Owner(c)) => value = 0
  /\ leftover # Invalid => core_num = leftover /\ \A c \in Core : depth[c] = 0
  /\ \A c \in Core :
       /\ core_num = c =>
            \/ leftover = c
            \/ depth[c] > 0 /\ pc[c] \notin {"dec", "restore"}
       /\ pc[c] \in {"reload", "count", "dec", "restore"} => depth[c] > 0
       /\ pc[c] = "count" => tmp[c] = value + 1

\* a core that has the lock and asks for it again gets it, whatever the
\* others do: the window in which core_num is invalid is the holder's own
ReentryNeverBlocks ==
  \A c \in Core :
    pc[c] \in {"ll", "lid"} /\ depth[c] > 0 ~> pc[c] = "own" \/ slipped
=============================================================================
