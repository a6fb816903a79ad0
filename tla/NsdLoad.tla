------------------------------- MODULE NsdLoad -------------------------------
(***************************************************************************)
(* is_interface_busy (nsd/check_io.c): nsd counts a WAN as up, without a   *)
(* ping, when the traffic since its last look is above a share of the      *)
(* bandwidth.  The kernel's byte counters have 64 bits (getlink.h), what   *)
(* nsd keeps of them has 32.                                               *)
(***************************************************************************)
EXTENDS Integers

CONSTANTS
  Word,      \* 2^32: the values of an unsigned int
  Wide,      \* 2^64: the values of an unsigned long long
  Bits,      \* 8
  Kilo,      \* 1000
  RxLimit,   \* downstream_bw * busy_rate / 100
  TxLimit,   \* upstream_bw * busy_rate / 100
  Bursts,    \* the bytes that may pass between two steps
  MaxBytes,  \* bound on each byte counter
  MaxTime    \* bound on the clock

\* what the theorems assume of the constants: positive widths, and a clock that
\* does not overflow its word. A limit may be 0: a small bandwidth (1 * 2 / 100).
LoadConstants ==
  /\ Word \in Nat \ {0} /\ Wide \in Nat \ {0}
  /\ Bits \in Nat \ {0} /\ Kilo \in Nat \ {0}
  /\ RxLimit \in Nat /\ TxLimit \in Nat /\ Bursts \subseteq Nat
  /\ MaxTime \in Nat /\ MaxTime + 1 < Word /\ MaxBytes \in Nat

VARIABLES
  rx, tx,    \* the kernel's counters
  now,       \* gettimeofday
  stats,     \* nsd_stats
  busy,      \* the answer of the last check
  idle       \* history: no byte has passed between the last two checks
             \* or, since the last one, so far

loadVars == <<rx, tx, now, stats, busy, idle>>

LoadTypeOK ==
  /\ rx \in 0 .. MaxBytes /\ tx \in 0 .. MaxBytes
  /\ now \in 0 .. MaxTime
  /\ stats \in [rx : 0 .. Word - 1, tx : 0 .. Word - 1, stamp : 0 .. MaxTime + 1]
  /\ busy \in {"yes", "no", "unknown"}
  /\ idle \in [last : BOOLEAN, sofar : BOOLEAN]

\* the counters and the clock have some value when nsd starts
LoadInit ==
  /\ rx \in 0 .. MaxBytes /\ tx \in 0 .. MaxBytes
  /\ now \in 1 .. MaxTime
  /\ stats = [rx |-> 0, tx |-> 0, stamp |-> 0]
  /\ busy = "unknown"
  /\ idle = [last |-> FALSE, sofar |-> FALSE]

\* bytes pass
Traffic(r, t) ==
  /\ rx + r <= MaxBytes /\ tx + t <= MaxBytes
  /\ rx' = rx + r /\ tx' = tx + t
  /\ idle' = [idle EXCEPT !.sofar = @ /\ r = 0 /\ t = 0]
  /\ UNCHANGED <<now, stats, busy>>

Tick ==
  /\ now < MaxTime
  /\ now' = now + 1
  /\ UNCHANGED <<rx, tx, stats, busy, idle>>

\* the clock is set back
SetBack ==
  /\ now > 1
  /\ now' = now - 1
  /\ UNCHANGED <<rx, tx, stats, busy, idle>>

\* "if (tv.tv_sec == nsd_stats.timeStamp) tv.tv_sec++"
Stamp == IF now = stats.stamp THEN now + 1 ELSE now

\* tv.tv_sec - nsd_stats.timeStamp, unsigned
Elapsed == (Stamp - stats.stamp) % Word

\* rx_bw and tx_bw: the difference in 64 bits, the result in 32
Rate(count, kept) ==
  ((((((count - kept) % Wide) * Bits) % Wide) \div Elapsed) \div Kilo) % Word

Kept == [rx |-> rx % Word, tx |-> tx % Word, stamp |-> Stamp]

\* one condition asks for both directions, the other for either
Loaded(both) ==
  LET r == Rate(rx, stats.rx) >= RxLimit
      t == Rate(tx, stats.tx) >= TxLimit
  IN IF both THEN r /\ t ELSE r \/ t

Check(both) ==
  /\ busy' = IF Loaded(both) THEN "yes" ELSE "no"
  /\ stats' = Kept
  /\ idle' = [last |-> idle.sofar, sofar |-> TRUE]
  /\ UNCHANGED <<rx, tx, now>>

LoadNext ==
  \/ \E r, t \in Bursts : Traffic(r, t)
  \/ Tick \/ SetBack
  \/ \E both \in BOOLEAN : Check(both)

LoadSpec == LoadInit /\ [][LoadNext]_loadVars

-----------------------------------------------------------------------------
\* A check never divides by zero, in the second of the last one and after the
\* clock was set back too.
NeverDividesByZero == Elapsed # 0

\* An interface is busy above a share of its bandwidth ("default 2%"). One that
\* moved no byte since the last check is not, except that any traffic will do for
\* a limit that came out as 0, and that a 64-bit counter past 32 bits always
\* differs from what was kept of it.
BusyNeedsTraffic ==
  busy = "yes" /\ idle.last =>
    RxLimit = 0 \/ TxLimit = 0 \/ rx >= Word \/ tx >= Word
=============================================================================
