----------------------------- MODULE ElementPool -----------------------------
(***************************************************************************)
(* What a zone promises: each of its elements is free or with one core,    *)
(* and goes from one to the other in one step.                             *)
(***************************************************************************)
CONSTANTS Elem, Core, Free

VARIABLE owner

Init == owner = [e \in Elem |-> Free]

Take(e, c) == owner[e] = Free /\ owner' = [owner EXCEPT ![e] = c]
Give(e)    == owner[e] # Free /\ owner' = [owner EXCEPT ![e] = Free]

Next == \E e \in Elem : Give(e) \/ \E c \in Core : Take(e, c)

Spec == Init /\ [][Next]_owner
==============================================================================
