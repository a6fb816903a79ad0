----------------------------- MODULE MCSysConfig -----------------------------
(* Instances of SysConfig for TLC.                                         *)
EXTENDS SysConfig

CONSTANTS p1, p2, wan, acl, x, id, v1, v2

\* a plain category with one entry and a list category that is absent
MCInitDb   == (wan :> <<Header(wan), Entry(x, v1)>>) @@ (acl :> NoFile)
MCInitList == <<wan>>

C(o, c, i, v, n) == [op |-> o, cat |-> c, item |-> i, val |-> v, num |-> n]

\* every kind of command, on both kinds of category
MCRequest ==
  {C("w", wan, x, v2, 1), C("d", wan, x, v1, 1),
   C("n", wan, x, v2, 1), C("a", wan, x, v1, 1),
   C("n", acl, id, v1, 1), C("w", acl, id, v2, 1), C("m", acl, id, v1, 2),
   C("d", acl, id, v1, 2), C("D", acl, id, v1, 1), C("p", acl, id, v1, 2)}
=============================================================================
