------------------------------ MODULE MCBatchDB ------------------------------
(* Instances of BatchDB for TLC.                                           *)
EXTENDS BatchDB

CONSTANTS p1, p2, acl, sys, id, x, v1

C(o, c, i, v, n) == [op |-> o, cat |-> c, item |-> i, val |-> v, num |-> n]

\* a category that has no file yet, and another
MCInitDb   == (acl :> NoFile) @@ (sys :> <<Header(sys), Entry(x, v1)>>)
MCInitList == <<sys>>

\* what makes the first, empties it and takes entries away; -n beside a late rename gives
\* the file of a batch a second header
MCRequest ==
  {C("n", acl, x, v1, 1), C("D", acl, x, v1, 1), C("d", acl, id, v1, 1)}

MCTargets == {[cat |-> acl, item |-> id]}

\* a category occurs twice, as after a merge that listed it twice
MCImport ==
  <<Header(acl), Entry(id, v1), Header(sys), Entry(x, v1), Header(acl), Entry(x, v1), Trailer>>
=============================================================================
