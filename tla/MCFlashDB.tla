------------------------------ MODULE MCFlashDB ------------------------------
(* Instances of FlashDB for TLC.                                           *)
EXTENDS FlashDB

CONSTANTS p1, p2, p3, sys, acl, x, id, v1

MCInitDb   == (sys :> <<Header(sys), Entry(x, v1)>>) @@
              (acl :> <<Header(acl), Entry(id, v1)>>)
MCInitList == <<sys, acl>>

C(o, c, i, v, n) == [op |-> o, cat |-> c, item |-> i, val |-> v, num |-> n]

\* the time stamp of the SYSTEM category
MCStamps == {C("w", sys, x, v1, 1)}

\* an edit of one category and the delete of the other, which succeeds and
\* shortens the image the first time and finds nothing later
MCRequest ==
  MCStamps \cup {C("D", acl, id, v1, 1)}

\* with an edit that succeeds and one that finds nothing
MCRequestEdits ==
  MCStamps \cup {C("w", acl, id, v1, 1), C("w", acl, x, v1, 1)}
=============================================================================
