------------------------------ MODULE PacketFifo ------------------------------
(* What the senders of an output queue rely on: packets leave in the order in  *)
(* which they were handed over, each once; a shutdown drops what has not left.  *)
EXTENDS Sequences

CONSTANT Packet
VARIABLE queue

Init == queue = << >>

Hand(p) == queue' = Append(queue, p)
Leave   == queue # << >> /\ queue' = Tail(queue)

Drop    == queue' = << >>

Next == (\E p \in Packet : Hand(p)) \/ Leave \/ Drop

Spec == Init /\ [][Next]_queue
===============================================================================
