-------------------------------- MODULE MCNsd --------------------------------
(* Settings of nsd for TLC.                                                *)
EXTENDS Nsd

Setting(t, r, a) == [tests |-> t, retry |-> r, action |-> a]

\* heavy load and two hosts with retries; one host with RETRYCOUNT=0; one
\* host and no action; no test at all
MCConf ==
  {Setting({0, 1, 4}, 2, TRUE), Setting({1}, 0, TRUE),
   Setting({2}, 1, FALSE), Setting({3}, 1, TRUE),
   Setting({}, 1, TRUE)}
=============================================================================
