------------------------------ MODULE MemoryPool ------------------------------
(***************************************************************************)
(* What the users of the boot memory allocator rely on: memory is either   *)
(* free or belongs to exactly one block, and each allocation and each free *)
(* moves one whole block at one instant.                                   *)
(***************************************************************************)
EXTENDS Integers

CONSTANTS
  Arena,   \* the addresses under management
  Block    \* the pairs <<base, size>> that can be handed out

VARIABLES
  free,    \* the free addresses
  blocks   \* the blocks in use

Cells(b) == b[1] .. b[1] + b[2] - 1

Init == free = Arena /\ blocks = {}

Alloc(b) ==
  /\ b[2] > 0
  /\ Cells(b) \subseteq free
  /\ free' = free \ Cells(b)
  /\ blocks' = blocks \cup {b}

Free(b) ==
  /\ b \in blocks
  /\ free' = free \cup Cells(b)
  /\ blocks' = blocks \ {b}

Next == \E b \in Block : Alloc(b) \/ Free(b)

Spec == Init /\ [][Next]_<<free, blocks>>
===============================================================================
