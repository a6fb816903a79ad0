----------------------------- MODULE Nsd_proofs -----------------------------
(***************************************************************************)
(* Proofs about nsd: about Nsd, for any settings and any size of webBoot's *)
(* socket buffer, and about NsdLoad, for every width, limit and traffic.   *)
(***************************************************************************)
EXTENDS Nsd, NsdLoad, SequenceTheorems, WellFoundedInduction, TLAPS

(* What webBoot hears *)

\* a non-empty set of positions of a sequence has a last one
LEMMA LastPosition ==
  ASSUME NEW n \in Nat, NEW N, N \subseteq 1 .. n, N # {}
  PROVE  \E k \in N : \A j \in N : j <= k
<1> DEFINE D == {n - k : k \in N}
<1>a. \A k \in N : k \in Nat /\ k <= n
  OBVIOUS
<1>b. D \subseteq Nat
  BY <1>a
<1>c. D # {}
  OBVIOUS
<1>1. PICK d \in D : \A e \in D : ~(<<e, d>> \in OpToRel(<, Nat))
  BY <1>b, <1>c, NatLessThanWellFounded, WFMin, Zenon
<1>2. \A e \in D : d <= e
  <2> SUFFICES ASSUME NEW e \in D, ~(d <= e)
               PROVE  FALSE
    OBVIOUS
  <2>1. d \in Nat /\ e \in Nat /\ e < d
    BY <1>b
  <2>2. <<e, d>> \in {ss \in Nat \X Nat : ss[1] < ss[2]}
    BY <2>1
  <2> QED
    BY <1>1, <2>2 DEF OpToRel
<1>3. PICK k \in N : d = n - k
  OBVIOUS
<1>4. ASSUME NEW j \in N
      PROVE  j <= k
  <2>1. n - j \in D
    OBVIOUS
  <2>2. d <= n - j
    BY <1>2, <2>1
  <2> HIDE DEF D
  <2> QED
    BY <1>a, <1>3, <2>2
<1> QED
  BY <1>4

\* the link state a datagram tells
LinkOf(m) == IF m = "ASH_NSD_OK" THEN 1 ELSE 0

\* the positions of link states in a socket buffer
At(q) == {k \in DOMAIN q : q[k] \in Notices}

\* Heard, of any buffer q and any link state t told before
HeardFrom(q, t) == IF At(q) = {} THEN t ELSE LinkOf(q[Max(At(q))])

\* The last position of a link state is where Heard looks.
LEMMA MaxIsLast ==
  ASSUME NEW q \in Seq(Messages), NEW k \in At(q), \A j \in At(q) : j <= k
  PROVE  Max(At(q)) = k
<1>1. At(q) \subseteq Nat
  BY DEF At
<1>2. \A x \in At(q) : (\A y \in At(q) : x >= y) => x = k
  BY <1>1
<1>3. \A y \in At(q) : k >= y
  BY <1>1
<1> QED
  BY <1>2, <1>3, Zenon DEF Max

\* A datagram that is appended is what is heard if it tells a link state.
LEMMA HeardAppend ==
  ASSUME NEW q \in Seq(Messages), NEW t, NEW m \in Messages
  PROVE  HeardFrom(Append(q, m), t) = IF m \in Notices THEN LinkOf(m) ELSE HeardFrom(q, t)
<1> DEFINE r == Append(q, m)
<1>1. r \in Seq(Messages) /\ Len(r) = Len(q) + 1 /\ r[Len(q) + 1] = m
      /\ \A k \in 1 .. Len(q) : r[k] = q[k]
  OBVIOUS
<1>2. At(q) \subseteq 1 .. Len(q)
  BY DEF At
<1>3. At(r) = At(q) \cup (IF m \in Notices THEN {Len(q) + 1} ELSE {})
  BY <1>1 DEF At
<1>4. CASE m \in Notices
  <2>1. Len(q) + 1 \in At(r) /\ \A j \in At(r) : j <= Len(q) + 1
    BY <1>2, <1>3, <1>4
  <2>2. Max(At(r)) = Len(q) + 1
    BY <1>1, <2>1, MaxIsLast
  <2> QED
    BY <1>1, <1>4, <2>1, <2>2 DEF HeardFrom
<1>5. CASE m \notin Notices
  <2>1. At(r) = At(q)
    BY <1>3, <1>5
  <2>2. CASE At(q) = {}
    BY <1>5, <2>1, <2>2 DEF HeardFrom
  <2>3. CASE At(q) # {}
    <3>1. PICK k \in At(q) : \A j \in At(q) : j <= k
      BY <1>2, <2>3, LastPosition, SMTT(20)
    <3>2. Max(At(q)) = k /\ Max(At(r)) = k
      BY <1>1, <2>1, <3>1, MaxIsLast
    <3>3. r[k] = q[k]
      BY <1>1, <1>2
    <3> QED
      BY <1>5, <2>1, <2>3, <3>2, <3>3 DEF HeardFrom
  <2> QED
    BY <2>2, <2>3
<1> QED
  BY <1>4, <1>5

\* A datagram that webBoot reads leaves what it will have heard in the end.
LEMMA HeardTail ==
  ASSUME NEW q \in Seq(Messages), q # <<>>, NEW t
  PROVE  HeardFrom(Tail(q), IF Head(q) \in Notices THEN LinkOf(Head(q)) ELSE t)
           = HeardFrom(q, t)
<1> DEFINE r == Tail(q)
           u == IF Head(q) \in Notices THEN LinkOf(Head(q)) ELSE t
<1>1. /\ r \in Seq(Messages) /\ Len(r) = Len(q) - 1 /\ Len(q) \in Nat \ {0}
      /\ \A k \in 1 .. Len(r) : r[k] = q[k + 1]
      /\ Head(q) = q[1]
  OBVIOUS
<1>2. At(r) \subseteq 1 .. Len(r) /\ At(q) \subseteq 1 .. Len(q)
  BY DEF At
<1>3. \A k \in 1 .. Len(r) : k \in At(r) <=> k + 1 \in At(q)
  BY <1>1 DEF At
<1>4. CASE At(r) = {}
  <2>1. At(q) \subseteq {1}
    <3> SUFFICES ASSUME NEW k \in At(q), k # 1
                 PROVE  FALSE
      OBVIOUS
    <3>1. k - 1 \in 1 .. Len(r) /\ (k - 1) + 1 = k
      BY <1>1, <1>2
    <3> QED
      BY <1>3, <1>4, <3>1
  <2>2. CASE Head(q) \in Notices
    <3>1. 1 \in At(q) /\ \A j \in At(q) : j <= 1
      BY <1>1, <2>1, <2>2 DEF At
    <3>2. Max(At(q)) = 1
      BY <3>1, MaxIsLast
    <3> QED
      BY <1>1, <1>4, <2>2, <3>1, <3>2 DEF HeardFrom
  <2>3. CASE Head(q) \notin Notices
    <3>1. At(q) = {}
      BY <1>1, <2>1, <2>3 DEF At
    <3> QED
      BY <1>4, <2>3, <3>1 DEF HeardFrom
  <2> QED
    BY <2>2, <2>3
<1>5. CASE At(r) # {}
  <2>1. PICK k \in At(r) : \A j \in At(r) : j <= k
    BY <1>1, <1>2, <1>5, LastPosition
  <2>2. k \in 1 .. Len(r) /\ k + 1 \in At(q)
    BY <1>2, <1>3
  <2>3. ASSUME NEW j \in At(q)
        PROVE  j <= k + 1
    <3>1. CASE j = 1
      BY <2>2, <3>1
    <3>2. CASE j # 1
      <4>1. j - 1 \in 1 .. Len(r) /\ (j - 1) + 1 = j
        BY <1>1, <1>2, <3>2
      <4>2. j - 1 <= k
        BY <1>3, <2>1, <4>1
      <4> QED
        BY <1>2, <2>2, <4>2
    <3> QED
      BY <3>1, <3>2
  <2>4. Max(At(r)) = k
    BY <1>1, <2>1, MaxIsLast
  <2>5. Max(At(q)) = k + 1
    BY <2>2, <2>3, MaxIsLast
  <2> QED
    BY <1>1, <1>5, <2>2, <2>4, <2>5 DEF HeardFrom
<1> QED
  BY <1>4, <1>5

\* Heard is HeardFrom of the buffer as it is.
LEMMA HeardIs == Heard = HeardFrom(inbox, told)
BY DEF Heard, HeardFrom, At, LinkOf

-----------------------------------------------------------------------------
(* The inductive invariant *)

\* nsd's copy of NSDOK is always the database's, since it is read at each start
\* and both are set together; nk_ipsecd has heard unless the history says not,
\* or that a shell left behind by a killed nsd spoke last
CopiesAgree ==
  nsdok = db /\ ("ipsecd" \notin unsaid /\ teller = "nsd" => ipsec = db)

\* Where nsd is in its round says which attempts have failed: all of the tests
\* before state, count of state's own, none of those after it.  Outside the
\* loop a new round has not begun.
RoundKept ==
  /\ pc # "loop" => state = CHECKIO /\ count = 0 /\ tried = NoTries
  /\ state \notin conf.tests => count = 0
  /\ \A t \in conf.tests :
       tried[t] = IF t < state THEN Attempts(t) ELSE IF t = state THEN count ELSE 0

IInv == TypeOK /\ CopiesAgree /\ HeardMatchesDb /\ RoundKept

LEMMA InitInv == Init => IInv
<1> SUFFICES ASSUME Init PROVE IInv
  OBVIOUS
<1> USE DEF Init
<1>1. conf.tests \subseteq Tests /\ conf.retry \in Nat
  BY ConfAssumption
<1>2. TypeOK
  <2>1. inbox \in Seq(Messages) /\ Len(inbox) <= MaxInbox
    BY InboxAssumption
  <2>2. reader \in BOOLEAN
    BY Zenon
  <2>3. tried \in [Tests -> Nat]
    BY DEF NoTries
  <2>4. shells \in [{0, 1} -> 0 .. MaxShells]
    BY InboxAssumption
  <2> QED
    BY <1>1, <2>1, <2>2, <2>3, <2>4 DEF TypeOK, Tests, CHECKIO, PINGLAST
<1>3. CopiesAgree
  BY DEF CopiesAgree
<1>4. HeardMatchesDb
  <2>1. At(inbox) = {}
    BY DEF At
  <2> QED
    BY <2>1, HeardIs DEF HeardMatchesDb, HeardFrom
<1>5. RoundKept
  BY <1>1 DEF RoundKept, NoTries, Tests, CHECKIO, PINGLAST, Attempts
<1> QED
  BY <1>2, <1>3, <1>4, <1>5 DEF IInv

\* a step that leaves buffer, history and database alone leaves what is heard
LEMMA HeardKept ==
  ASSUME HeardMatchesDb, UNCHANGED <<inbox, told, db, unsaid>>
  PROVE  HeardMatchesDb'
BY DEF HeardMatchesDb, Heard

\* the actions of the loop that stay in it
LEMMA TestInv == IInv /\ (Skip \/ Retry \/ GiveUp) => IInv'
<1> SUFFICES ASSUME IInv, Skip \/ Retry \/ GiveUp PROVE IInv'
  OBVIOUS
<1> USE DEF IInv
<1>1. conf \in Conf /\ conf.tests \subseteq Tests /\ conf.retry \in Nat
  BY ConfAssumption DEF TypeOK
<1>2. HeardMatchesDb' /\ CopiesAgree'
  BY HeardKept DEF Skip, Retry, GiveUp, env, fifo, CopiesAgree
<1>3. TypeOK'
  <2>1. UNCHANGED <<inbox, told, reader, up, ipsec, shells, teller, nsdok, db, unsaid,
                    conf, pc>>
    BY DEF Skip, Retry, GiveUp, env, fifo
  <2>a. state \in 0 .. 4 /\ count \in Nat
    BY <1>1, SMTT(20) DEF TypeOK, Skip, Retry, GiveUp, Tests, CHECKIO, PINGLAST
  <2>b. state' \in {state, state + 1} /\ count' \in {count, count + 1, 0}
    BY DEF Skip, Retry, GiveUp
  <2>2. state' \in Tests \cup {PINGLAST} /\ count' \in Nat
    BY <2>a, <2>b DEF Tests, CHECKIO, PINGLAST
  <2>3. tried' \in [Tests -> Nat]
    BY <1>1 DEF TypeOK, Skip, Retry, GiveUp
  <2> QED
    BY <2>1, <2>2, <2>3 DEF TypeOK
<1>4. RoundKept'
  <2>1. CASE Skip
    BY <1>1, <2>1 DEF Skip, RoundKept, TypeOK, Attempts, Tests, CHECKIO, PINGLAST
  <2>2. CASE Retry
    <3>1. state \in Tests /\ count \in Nat /\ tried \in [Tests -> Nat]
      BY <1>1, <2>2 DEF Retry, TypeOK
    <3>2. tried[state] = count
      BY <2>2, <1>1, <3>1 DEF Retry, RoundKept, Tests, CHECKIO, PINGLAST
    <3> QED
      BY <1>1, <2>2, <3>1, <3>2 DEF Retry, RoundKept, Attempts, Tests, CHECKIO, PINGLAST
  <2>3. CASE GiveUp
    BY <1>1, <2>3 DEF GiveUp, RoundKept, TypeOK, Attempts, Tests, CHECKIO, PINGLAST
  <2> QED
    BY <2>1, <2>2, <2>3
<1> QED
  BY <1>2, <1>3, <1>4

\* the end of a round
LEMMA ConcludeInv ==
  ASSUME IInv, NEW ok \in {0, 1}, Conclude(ok)
  PROVE  IInv'
<1> USE DEF IInv
<1>1. conf \in Conf /\ conf.tests \subseteq Tests /\ conf.retry \in Nat
  BY ConfAssumption DEF TypeOK
<1>2. RoundKept'
  <2>1. state' = CHECKIO /\ count' = 0 /\ tried' = NoTries /\ conf' = conf
    BY DEF Conclude
  <2> QED
    BY <1>1, <2>1 DEF RoundKept, NoTries, Attempts, Tests, CHECKIO, PINGLAST
<1>3. TypeOK'
  <2>1. pc' \in {"sleep", "notice", "6to4"}
    BY DEF Conclude
  <2>2. tried' \in [Tests -> Nat]
    BY DEF Conclude, NoTries
  <2>3. UNCHANGED <<inbox, told, reader, up, ipsec, shells, teller, conf>>
    BY DEF Conclude, env, fifo
  <2>4. nsdok' \in {nsdok, ok} /\ db' \in {db, ok}
        /\ unsaid' \in {unsaid, {"webBoot", "ipsecd"}}
    BY DEF Conclude
  <2>5. nsdok' \in {0, 1} /\ db' \in {0, 1} /\ unsaid' \subseteq {"webBoot", "ipsecd"}
    BY <2>4 DEF TypeOK
  <2>6. state' \in Tests /\ count' \in Nat
    BY DEF Conclude, Tests, CHECKIO, PINGLAST
  <2> QED
    BY <2>1, <2>2, <2>3, <2>5, <2>6 DEF TypeOK
<1>4. CopiesAgree'
  BY DEF Conclude, CopiesAgree, fifo
<1>5. HeardMatchesDb'
  <2>1. CASE nsdok = ok
    BY <2>1, HeardKept DEF Conclude, env
  <2>2. CASE nsdok # ok
    BY <2>2 DEF Conclude, HeardMatchesDb
  <2> QED
    BY <2>1, <2>2
<1> QED
  BY <1>2, <1>3, <1>4, <1>5

\* what a send does to the buffer and to what is heard
LEMMA SendHeard ==
  ASSUME TypeOK, NEW m \in Messages, Send(m), told' = told
  PROVE  /\ inbox' \in Seq(Messages) /\ Len(inbox') <= MaxInbox
         /\ Heard' = IF Len(inbox) < MaxInbox /\ m \in Notices THEN LinkOf(m) ELSE Heard
<1>1. inbox \in Seq(Messages) /\ Len(inbox) \in Nat /\ Len(inbox) <= MaxInbox
  BY DEF TypeOK
<1>2. Heard' = HeardFrom(inbox', told)
  BY DEF Heard, HeardFrom, At, LinkOf
<1>3. CASE Len(inbox) < MaxInbox
  <2>1. inbox' = Append(inbox, m)
    BY <1>3 DEF Send
  <2>2. inbox' \in Seq(Messages) /\ Len(inbox') = Len(inbox) + 1
    BY <1>1, <2>1
  <2> QED
    BY <1>1, <1>2, <1>3, <2>1, <2>2, HeardAppend, HeardIs, InboxAssumption
<1>4. CASE ~(Len(inbox) < MaxInbox)
  BY <1>1, <1>2, <1>4, HeardIs DEF Send
<1> QED
  BY <1>3, <1>4

\* the pages and notices, each of which may be lost
LEMMA SayInv == IInv /\ (Page6to4 \/ PageRadvd \/ Notice \/ TellIpsecd \/ Wake) => IInv'
<1> SUFFICES ASSUME IInv, Page6to4 \/ PageRadvd \/ Notice \/ TellIpsecd \/ Wake
             PROVE  IInv'
  OBVIOUS
<1> USE DEF IInv
<1>1. conf \in Conf /\ conf.tests \subseteq Tests /\ conf.retry \in Nat
  BY ConfAssumption DEF TypeOK
<1>2. RoundKept'
  BY <1>1 DEF RoundKept, Page6to4, PageRadvd, Notice, TellIpsecd, Wake, Attempts
<1>3. CASE Page6to4 \/ PageRadvd
  <2>1. PICK m \in Messages \ Notices : Send(m)
    BY <1>3 DEF Page6to4, PageRadvd, Messages, Notices
  <2>2. Heard' = Heard /\ inbox' \in Seq(Messages) /\ Len(inbox') <= MaxInbox
    BY <1>3, <2>1, SendHeard DEF Page6to4, PageRadvd
  <2>3. TypeOK' /\ CopiesAgree'
    BY <1>3, <2>2 DEF Page6to4, PageRadvd, TypeOK, CopiesAgree, fifo
  <2>4. HeardMatchesDb'
    BY <1>3, <2>2 DEF Page6to4, PageRadvd, HeardMatchesDb
  <2> QED
    BY <1>2, <2>3, <2>4
<1>4. CASE Notice
  <2> DEFINE m == IF nsdok = 1 THEN "ASH_NSD_OK" ELSE "ASH_NSD_FAIL"
  <2>1. m \in Messages /\ m \in Notices /\ LinkOf(m) = nsdok
    BY DEF Messages, Notices, LinkOf, TypeOK
  <2>2. /\ inbox' \in Seq(Messages) /\ Len(inbox') <= MaxInbox
        /\ Heard' = IF Len(inbox) < MaxInbox THEN nsdok ELSE Heard
    BY <1>4, <2>1, SendHeard DEF Notice
  <2>3. TypeOK' /\ CopiesAgree'
    BY <1>4, <2>2 DEF Notice, TypeOK, CopiesAgree, fifo
  <2>4. HeardMatchesDb'
    BY <1>4, <2>2 DEF Notice, HeardMatchesDb, CopiesAgree
  <2> QED
    BY <1>2, <2>3, <2>4
<1>5. CASE TellIpsecd \/ Wake
  <2>1. TypeOK' /\ CopiesAgree'
    BY <1>5 DEF TellIpsecd, Wake, TypeOK, CopiesAgree, env, fifo
  <2>2. HeardMatchesDb'
    BY <1>5 DEF TellIpsecd, Wake, HeardMatchesDb, Heard, env
  <2> QED
    BY <1>2, <2>1, <2>2
<1> QED
  BY <1>3, <1>4, <1>5

\* kills, restarts and the environment
\* a shell that outlived its nsd
LEMMA LeftShellInv == ASSUME IInv, NEW v \in {0, 1}, LeftShellWrites(v) PROVE IInv'
<1> USE DEF IInv
<1>1. HeardMatchesDb' /\ CopiesAgree'
  BY HeardKept DEF LeftShellWrites, env, CopiesAgree
<1>2. RoundKept'
  BY DEF LeftShellWrites, RoundKept, Attempts
<1>3. shells' \in [{0, 1} -> 0 .. MaxShells]
  <2>1. shells \in [{0, 1} -> 0 .. MaxShells] /\ shells[v] > 0
    BY DEF LeftShellWrites, TypeOK
  <2>2. shells[v] - 1 \in 0 .. MaxShells
    BY <2>1, InboxAssumption
  <2> QED
    BY <2>1, <2>2 DEF LeftShellWrites
<1>4. ipsec' \in {0, 1} /\ teller' \in {"nsd", "shell"}
  BY DEF LeftShellWrites
<1>5. UNCHANGED <<pc, conf, state, count, nsdok, db, inbox, told, reader, up, tried, unsaid>>
  BY DEF LeftShellWrites, env
<1>6. TypeOK'
  BY <1>3, <1>4, <1>5 DEF TypeOK
<1> QED
  BY <1>1, <1>2, <1>6

LEMMA EnvInv == IInv /\ (Kill \/ Restart \/ Deliver \/ LinkChange \/ IpsecdChange) => IInv'
<1> SUFFICES ASSUME IInv, Kill \/ Restart \/ Deliver \/ LinkChange \/ IpsecdChange
             PROVE  IInv'
  OBVIOUS
<1> USE DEF IInv
<1>1. conf \in Conf /\ \A k \in Conf : k.tests \subseteq Tests /\ k.retry \in Nat
  BY ConfAssumption DEF TypeOK
<1>2. CopiesAgree'
  BY DEF CopiesAgree, Kill, Restart, Deliver, LinkChange, IpsecdChange, env, fifo
<1>3. CASE Deliver
  <2> DEFINE u == IF Head(inbox) \in Notices THEN LinkOf(Head(inbox)) ELSE told
  <2>1. inbox \in Seq(Messages) /\ inbox # <<>> /\ Len(inbox) <= MaxInbox
    BY <1>3 DEF Deliver, TypeOK
  <2>2. Tail(inbox) \in Seq(Messages) /\ Len(Tail(inbox)) = Len(inbox) - 1
    BY <2>1
  <2>3. told' = u
    BY <1>3 DEF Deliver, Notices, LinkOf
  <2>4. Heard' = HeardFrom(Tail(inbox), u)
    BY <1>3, <2>3 DEF Deliver, Heard, HeardFrom, At, LinkOf
  <2>5. Heard' = Heard
    BY <2>1, <2>4, HeardTail, HeardIs
  <2>6. HeardMatchesDb' /\ RoundKept'
    BY <1>3, <2>5 DEF Deliver, HeardMatchesDb, RoundKept, Attempts
  <2>7. told' \in {0, 1}
    BY <2>3 DEF TypeOK, LinkOf
  <2>8. Len(Tail(inbox)) <= MaxInbox
    BY <2>1, <2>2, InboxAssumption
  <2>9. TypeOK'
    BY <1>3, <2>2, <2>7, <2>8 DEF Deliver, TypeOK, fifo
  <2> QED
    BY <1>2, <2>6, <2>9
<1>4. CASE Kill \/ Restart
  <2>1. HeardMatchesDb'
    BY <1>4, HeardKept DEF Kill, Restart, env
  <2>2. TypeOK'
    <3>1. tried' \in [Tests -> Nat]
      BY <1>4 DEF Kill, Restart, NoTries, TypeOK
    <3>2. up' \subseteq Tests
      BY <1>1, <1>4 DEF Kill, Restart, TypeOK, env
    <3>3. UNCHANGED <<inbox, told, reader, ipsec, teller, db, unsaid>>
      BY <1>4 DEF Kill, Restart, env, fifo
    <3>5. shells' \in [{0, 1} -> 0 .. MaxShells]
      <4>1. CASE UNCHANGED shells
        BY <4>1 DEF TypeOK
      <4>2. CASE /\ shells[nsdok] < MaxShells
                 /\ shells' = [shells EXCEPT ![nsdok] = @ + 1]
        <5>1. shells \in [{0, 1} -> 0 .. MaxShells] /\ nsdok \in {0, 1}
          BY DEF TypeOK
        <5>2. shells[nsdok] + 1 \in 0 .. MaxShells
          BY <4>2, <5>1, InboxAssumption
        <5> QED
          BY <4>2, <5>1, <5>2
      <4> QED
        BY <1>4, <4>1, <4>2 DEF Kill, Restart, fifo
    <3>4. /\ state' \in Tests \cup {PINGLAST} /\ count' \in Nat /\ nsdok' \in {0, 1}
          /\ conf' \in Conf /\ pc' \in {"loop", "dead"}
      BY <1>1, <1>4, SMTT(20) DEF Kill, Restart, TypeOK, Tests, CHECKIO, PINGLAST
    <3> QED
      BY <3>1, <3>2, <3>3, <3>4, <3>5 DEF TypeOK
  <2>3. /\ state' = CHECKIO /\ count' = 0 /\ tried' = NoTries
        /\ conf'.tests \subseteq Tests /\ conf'.retry \in Nat
    BY <1>1, <1>4 DEF Kill, Restart, RoundKept
  <2>4. RoundKept'
    BY <2>3 DEF RoundKept, NoTries, Attempts, Tests, CHECKIO, PINGLAST
  <2> QED
    BY <1>2, <2>1, <2>2, <2>4
<1>5. CASE LinkChange \/ IpsecdChange
  <2>1. HeardMatchesDb' /\ RoundKept'
    BY <1>5, HeardKept DEF LinkChange, IpsecdChange, RoundKept, Attempts
  <2>2. reader' \in BOOLEAN
    BY <1>5, Zenon DEF LinkChange, IpsecdChange, TypeOK
  <2>3. up' \subseteq Tests
    BY <1>1, <1>5 DEF LinkChange, IpsecdChange, TypeOK
  <2>4. TypeOK'
    BY <1>5, <2>2, <2>3 DEF LinkChange, IpsecdChange, TypeOK, fifo
  <2> QED
    BY <1>2, <2>1, <2>4
<1> QED
  BY <1>3, <1>4, <1>5

LEMMA NextInv == IInv /\ [Next]_vars => IInv'
<1> SUFFICES ASSUME IInv, [Next]_vars PROVE IInv'
  OBVIOUS
<1>1. CASE Skip \/ Retry \/ GiveUp
  BY <1>1, TestInv
<1>2. CASE Success \/ Failure
  BY <1>2, ConcludeInv DEF Success, Failure
<1>3. CASE Page6to4 \/ PageRadvd \/ Notice \/ TellIpsecd \/ Wake
  BY <1>3, SayInv
<1>4. CASE Kill \/ Restart \/ Deliver \/ LinkChange \/ IpsecdChange
  BY <1>4, EnvInv
<1>6. CASE \E v \in {0, 1} : LeftShellWrites(v)
  BY <1>6, LeftShellInv
<1>5. CASE UNCHANGED vars
  BY <1>5 DEF IInv, vars, TypeOK, CopiesAgree, HeardMatchesDb, Heard, RoundKept, Attempts
<1> QED
  BY <1>1, <1>2, <1>3, <1>4, <1>5, <1>6 DEF Next, Main

LEMMA Invariance == Spec => []IInv
BY InitInv, NextInv, PTL DEF Spec

-----------------------------------------------------------------------------
(* Theorems *)

\* What webBoot hears is NSDOK in the database whenever the last change got as
\* far as its socket: datagrams dropped by a full buffer, kills between the write
\* and the notice and restarts with other settings included.
THEOREM HeardIsDb == Spec => []HeardMatchesDb
BY Invariance, PTL DEF IInv

\* Between rounds nsd, the database and nk_ipsecd agree unless the last change
\* never got as far as the FIFO or the last to write to the FIFO was a shell
\* that outlived its nsd.
THEOREM IpsecdIsDb == Spec => []IpsecdMatchesDb
<1>1. IInv => IpsecdMatchesDb
  BY DEF IInv, CopiesAgree, IpsecdMatchesDb
<1> QED
  BY <1>1, Invariance, PTL

\* NSDOK is set to 0 only at the end of a round in which every enabled test was
\* tried as often as RETRYCOUNT allows, and failed each time.
THEOREM FailNeedsAll == Spec => FailNeedsAllTests
<1>1. ASSUME IInv, [Next]_vars, db = 1, db' = 0
      PROVE  \A t \in conf.tests : tried[t] = Attempts(t)
  <2>1. conf.tests \subseteq Tests
    BY <1>1, ConfAssumption DEF IInv, TypeOK
  <2>2. db' # db
    BY <1>1
  <2>3. Success \/ Failure
    BY <1>1, <2>2 DEF Next, Main, vars, Skip, Retry, GiveUp, Page6to4, PageRadvd, Notice,
          TellIpsecd, Wake, Kill, Restart, Deliver, LinkChange, IpsecdChange,
          LeftShellWrites, env
  <2>4. ~Success
    BY <1>1, <2>2 DEF Success, Conclude
  <2>5. state = PINGLAST
    BY <2>3, <2>4 DEF Failure
  <2> QED
    BY <1>1, <2>1, <2>5 DEF IInv, RoundKept, Tests, CHECKIO, PINGLAST
<1>2. IInv /\ [Next]_vars =>
        [db = 1 /\ db' = 0 => \A t \in conf.tests : tried[t] = Attempts(t)]_vars
  BY <1>1
<1> QED
  BY <1>2, Invariance, PTL DEF Spec, FailNeedsAllTests
-----------------------------------------------------------------------------
(* The load of an interface: NsdLoad *)

LEMMA LoadStampType == ASSUME LoadConstants, LoadTypeOK PROVE Stamp \in 0 .. MaxTime + 1
  BY DEF LoadConstants, LoadTypeOK, Stamp

LEMMA LoadStepType == ASSUME LoadConstants, LoadTypeOK, [LoadNext]_loadVars PROVE LoadTypeOK'
<1> USE DEF LoadConstants
<1>1. ASSUME NEW r \in Bursts, NEW t \in Bursts, Traffic(r, t) PROVE LoadTypeOK'
  <2>1. idle' \in [last : BOOLEAN, sofar : BOOLEAN]
    BY <1>1 DEF Traffic, LoadTypeOK
  <2>2. rx' \in 0 .. MaxBytes /\ tx' \in 0 .. MaxBytes
    BY <1>1 DEF Traffic, LoadTypeOK
  <2> QED
    BY <1>1, <2>1, <2>2 DEF Traffic, LoadTypeOK
<1>2. ASSUME Tick \/ SetBack PROVE LoadTypeOK'
  BY <1>2 DEF Tick, SetBack, LoadTypeOK
<1>3. ASSUME NEW both \in BOOLEAN, Check(both) PROVE LoadTypeOK'
  <2>1. stats' \in [rx : 0 .. Word - 1, tx : 0 .. Word - 1, stamp : 0 .. MaxTime + 1]
    <3>1. rx % Word \in 0 .. Word - 1 /\ tx % Word \in 0 .. Word - 1
      BY DEF LoadTypeOK
    <3> QED
      BY <1>3, <3>1, LoadStampType DEF Check, Kept
  <2>2. busy' \in {"yes", "no", "unknown"}
    BY <1>3 DEF Check
  <2>3. idle' \in [last : BOOLEAN, sofar : BOOLEAN]
    BY <1>3 DEF Check, LoadTypeOK
  <2> QED
    BY <1>3, <2>1, <2>2, <2>3 DEF Check, LoadTypeOK
<1>4. ASSUME UNCHANGED loadVars PROVE LoadTypeOK'
  BY <1>4 DEF loadVars, LoadTypeOK
<1> QED
  BY <1>1, <1>2, <1>3, <1>4 DEF LoadNext

LEMMA LoadTypeInv == ASSUME LoadConstants PROVE LoadSpec => []LoadTypeOK
<1>1. LoadInit => LoadTypeOK
  BY DEF LoadInit, LoadTypeOK, LoadConstants
<1>2. LoadTypeOK /\ [LoadNext]_loadVars => LoadTypeOK'
  BY LoadStepType
<1> QED
  BY <1>1, <1>2, PTL DEF LoadSpec

LEMMA LoadNonZero ==
  ASSUME NEW w \in Nat \ {0}, NEW d \in Int, -w < d, d < w, d # 0 PROVE d % w # 0
  OBVIOUS

LEMMA LoadElapsedPositive == ASSUME LoadConstants, LoadTypeOK PROVE NeverDividesByZero
<1>1. Stamp - stats.stamp \in Int /\ -Word < Stamp - stats.stamp /\ Stamp - stats.stamp < Word
  BY LoadStampType DEF LoadConstants, LoadTypeOK
<1>2. Stamp - stats.stamp # 0
  BY LoadStampType DEF LoadConstants, LoadTypeOK, Stamp
<1>3. Word \in Nat \ {0}
  BY DEF LoadConstants
<1> QED
  BY <1>1, <1>2, <1>3, LoadNonZero DEF Elapsed, NeverDividesByZero

\* is_interface_busy never divides by zero, however often it is called within a
\* second and wherever the clock is set to, as long as the clock fits its word.
THEOREM LoadNeverDividesByZero == ASSUME LoadConstants PROVE LoadSpec => []NeverDividesByZero
<1>1. LoadTypeOK => NeverDividesByZero
  BY LoadElapsedPositive
<1> QED
  BY <1>1, LoadTypeInv, PTL

-----------------------------------------------------------------------------
\* While no byte passes, what nsd keeps stays the counters' low 32 bits.
KeptLow == idle.sofar => stats.rx = rx % Word /\ stats.tx = tx % Word

LEMMA LoadNoTrafficNoRate ==
  ASSUME LoadConstants, LoadTypeOK, KeptLow, idle.sofar,
         rx < Word, tx < Word, RxLimit # 0, TxLimit # 0
  PROVE  \A both \in BOOLEAN : ~Loaded(both)
<1> USE DEF LoadConstants
<1>1. Elapsed \in Nat \ {0}
  <2>1. Elapsed \in Nat
    BY LoadStampType DEF Elapsed, LoadTypeOK
  <2> QED
    BY <2>1, LoadElapsedPositive DEF NeverDividesByZero
<1>2. ASSUME NEW n \in Nat PROVE Rate(n, n) = 0
  <2>1. (n - n) % Wide = 0 /\ (0 * Bits) % Wide = 0
    OBVIOUS
  <2>2. 0 \div Elapsed = 0 /\ 0 \div Kilo = 0 /\ 0 % Word = 0
    BY <1>1
  <2> QED
    BY <2>1, <2>2 DEF Rate
<1>3. Rate(rx, stats.rx) = 0 /\ Rate(tx, stats.tx) = 0
  <2>1. rx % Word = rx /\ tx % Word = tx
    BY DEF LoadTypeOK
  <2> QED
    BY <1>2, <2>1 DEF KeptLow, LoadTypeOK
<1> QED
  BY <1>3 DEF Loaded

LEMMA LoadStepKept ==
  ASSUME LoadConstants, LoadTypeOK, KeptLow, BusyNeedsTraffic, [LoadNext]_loadVars
  PROVE  KeptLow' /\ BusyNeedsTraffic'
<1> USE DEF LoadConstants
<1>1. ASSUME NEW r \in Bursts, NEW t \in Bursts, Traffic(r, t)
      PROVE  KeptLow' /\ BusyNeedsTraffic'
  <2>1. idle' = [idle EXCEPT !.sofar = idle.sofar /\ r = 0 /\ t = 0]
    BY <1>1 DEF Traffic
  <2>2. idle'.last = idle.last /\ (idle'.sofar => idle.sofar /\ r = 0 /\ t = 0)
    BY <2>1 DEF LoadTypeOK
  <2>3. rx' >= rx /\ tx' >= tx
    BY <1>1 DEF Traffic, LoadTypeOK
  <2>4. KeptLow'
    BY <1>1, <2>2 DEF Traffic, KeptLow, LoadTypeOK
  <2>5. BusyNeedsTraffic'
    BY <1>1, <2>2, <2>3 DEF Traffic, BusyNeedsTraffic, LoadTypeOK
  <2> QED
    BY <2>4, <2>5
<1>2. ASSUME Tick \/ SetBack \/ UNCHANGED loadVars PROVE KeptLow' /\ BusyNeedsTraffic'
  BY <1>2 DEF Tick, SetBack, loadVars, KeptLow, BusyNeedsTraffic
<1>3. ASSUME NEW both \in BOOLEAN, Check(both) PROVE KeptLow' /\ BusyNeedsTraffic'
  <2>2. KeptLow'
    BY <1>3 DEF Check, Kept, KeptLow
  <2>3. BusyNeedsTraffic'
    BY <1>3, LoadNoTrafficNoRate DEF Check, BusyNeedsTraffic, LoadTypeOK
  <2> QED
    BY <2>2, <2>3
<1> QED
  BY <1>1, <1>2, <1>3 DEF LoadNext

\* An interface that moved no byte since the last check is taken for busy only
\* when a limit came out as 0 or a counter is past 32 bits, so that the
\* difference with the 32 bits nsd kept of it is 2^32 or more.
THEOREM LoadBusyNeedsTraffic == ASSUME LoadConstants PROVE LoadSpec => []BusyNeedsTraffic
<1>1. LoadInit => KeptLow /\ BusyNeedsTraffic
  BY DEF LoadInit, KeptLow, BusyNeedsTraffic
<1>2. LoadTypeOK /\ KeptLow /\ BusyNeedsTraffic /\ [LoadNext]_loadVars
        => (KeptLow /\ BusyNeedsTraffic)'
  BY LoadStepKept
<1> QED
  BY <1>1, <1>2, LoadTypeInv, PTL DEF LoadSpec
=============================================================================
