-------------------------- MODULE CvmxRwlock_proofs --------------------------
(***************************************************************************)
(* Readers and writers exclude one another for any finite set of cores and *)
(* any width of the ticket counters: the lock word alone sees to it.  That *)
(* writers are served in the order of their tickets and before any reader  *)
(* that asked later takes the counters too, and as many tickets as cores:  *)
(* the second part shows that the lock implements WriterPreference's queue.*)
(* The last part is about the recursive spinlock of the same cores.        *)
(***************************************************************************)
EXTENDS CvmxLocks, FunctionTheorems, FiniteSetTheorems, SequenceTheorems,
        TLAPS

Inv == TypeOK /\ Exclusion /\ WordCounts

\* cores of a set that a predicate selects are finitely many
LEMMA ReadersFinite ==
  /\ IsFiniteSet(Readers) /\ Cardinality(Readers) \in Nat
  /\ IsFiniteSet(Readers)' /\ Cardinality(Readers)' \in Nat
<1>1. Readers \subseteq Core /\ Readers' \subseteq Core
  BY DEF Readers
<1>2. IsFiniteSet(Readers) /\ IsFiniteSet(Readers')
  BY <1>1, CoreAssumption, FS_Subset
<1> QED BY <1>2, FS_CardinalityType

\* bit 0 of the lock word is the writer's, and the word is zero only when
\* no core reads or writes
LEMMA WordFacts ==
  ASSUME Inv
  PROVE  /\ ~WriteFlag => Writers = {}
         /\ lock = 0 => Writers = {} /\ Readers = {}
<1>1. Cardinality(Readers) \in Nat
  BY ReadersFinite
<1>2. ~WriteFlag => Writers = {}
  BY <1>1 DEF Inv, WordCounts, WriteFlag, CVMX_RWLOCK_READ_INC,
              CVMX_RWLOCK_WRITE_FLAG
<1>3. lock = 0 => Writers = {} /\ Cardinality(Readers) = 0
  BY <1>1 DEF Inv, WordCounts, CVMX_RWLOCK_READ_INC, CVMX_RWLOCK_WRITE_FLAG
<1> QED BY <1>2, <1>3, ReadersFinite, FS_EmptySet

LEMMA InitInv == Init => Inv
<1> SUFFICES ASSUME Init PROVE Inv
  OBVIOUS
<1>1. TypeOK /\ Exclusion
  BY WrapAssumption DEF Init, TypeOK, PcValues, Exclusion
<1>2. Readers = {} /\ Writers = {}
  BY DEF Init, Readers, Writers
<1>3. WordCounts
  BY <1>2, FS_EmptySet
  DEF Init, WordCounts, CVMX_RWLOCK_READ_INC, CVMX_RWLOCK_WRITE_FLAG
<1> QED BY <1>1, <1>3 DEF Inv

\* a step that keeps the lock word and moves no core into or out of the
\* readers and the writers
LEMMA QuietStep ==
  ASSUME Inv, lock' = lock, Readers' = Readers, Writers' = Writers
  PROVE  WordCounts'
BY DEF Inv, WordCounts, CVMX_RWLOCK_READ_INC, CVMX_RWLOCK_WRITE_FLAG

LEMMA NextInv ==
  ASSUME Inv, [Next]_vars
  PROVE  Inv'
<1> USE DEF Inv, TypeOK, PcValues, Goto
<1>0. \A n \in Nat : n % Wrap \in 0 .. Wrap - 1
  BY WrapAssumption
<1>z. 0 \in 0 .. Wrap - 1
  BY WrapAssumption
<1>1. CASE UNCHANGED vars
  <2>1. lock' = lock /\ Readers' = Readers /\ Writers' = Writers
    BY <1>1 DEF vars, Readers, Writers
  <2>2. TypeOK' /\ Exclusion'
    BY <1>1 DEF vars, Exclusion
  <2> QED BY <2>1, <2>2, QuietStep
<1>2. ASSUME NEW c \in Core,
             \/ ReadLock(c) \/ LoadReq(c) \/ CompareComp(c)
             \/ WriteLock(c) \/ Turn(c) \/ Complete(c)
      PROVE  Inv'
  <2>1. TypeOK'
    BY <1>0, <1>z, <1>2
    DEF ReadLock, LoadReq, CompareComp, WriteLock, Turn, Complete, Pending
  <2>2. Exclusion'
    BY <1>2 DEF ReadLock, LoadReq, CompareComp, WriteLock, Turn, Complete,
                Exclusion
  <2>3. lock' = lock /\ Readers' = Readers /\ Writers' = Writers
    BY <1>2 DEF ReadLock, LoadReq, CompareComp, WriteLock, Turn, Complete,
                Readers, Writers
  <2> QED BY <2>1, <2>2, <2>3, QuietStep
<1>3. ASSUME NEW c \in Core, AddReader(c)
      PROVE  Inv'
  <2>1. Exclusion'
    BY <1>3 DEF AddReader, Exclusion
  <2>2. Readers' = Readers \cup {c} /\ c \notin Readers /\ Writers' = Writers
    BY <1>3 DEF AddReader, Readers, Writers
  <2>3. Cardinality(Readers') = Cardinality(Readers) + 1
    BY <2>2, ReadersFinite, FS_AddElement
  <2>4. WordCounts'
    BY <1>3, <2>2, <2>3, ReadersFinite
    DEF AddReader, WordCounts, CVMX_RWLOCK_READ_INC, CVMX_RWLOCK_WRITE_FLAG
  <2>5. TypeOK'
    BY <1>3 DEF AddReader, CVMX_RWLOCK_READ_INC
  <2> QED BY <2>1, <2>4, <2>5
<1>4. ASSUME NEW c \in Core, TestFlag(c)
      PROVE  Inv'
  <2>1. TypeOK'
    BY <1>4 DEF TestFlag
  <2>2. Writers = {}
    BY <1>4, WordFacts DEF TestFlag
  <2>3. Exclusion'
    BY <1>4, <2>2 DEF TestFlag, Exclusion, Writers
  <2>4. lock' = lock /\ Readers' = Readers /\ Writers' = Writers
    BY <1>4 DEF TestFlag, Readers, Writers
  <2> QED BY <2>1, <2>3, <2>4, QuietStep
<1>5. ASSUME NEW c \in Core, ReadUnlock(c)
      PROVE  Inv'
  <2>1. Exclusion'
    BY <1>5 DEF ReadUnlock, Exclusion
  <2>2. Readers' = Readers \ {c} /\ c \in Readers /\ Writers' = Writers
    BY <1>5 DEF ReadUnlock, Readers, Writers
  <2>3. Cardinality(Readers') = Cardinality(Readers) - 1
    BY <2>2, ReadersFinite, FS_RemoveElement
  <2>4. WordCounts'
    BY <1>5, <2>2, <2>3, ReadersFinite
    DEF ReadUnlock, WordCounts, CVMX_RWLOCK_READ_INC, CVMX_RWLOCK_WRITE_FLAG
  <2>5. lock' \in Nat
    BY <2>4, ReadersFinite
    DEF WordCounts, CVMX_RWLOCK_READ_INC, CVMX_RWLOCK_WRITE_FLAG
  <2>6. TypeOK'
    BY <1>5, <2>5 DEF ReadUnlock
  <2> QED BY <2>1, <2>4, <2>6
<1>6. ASSUME NEW c \in Core, CompareAndStore(c)
      PROVE  Inv'
  <2>1. TypeOK'
    BY <1>6 DEF CompareAndStore, CVMX_RWLOCK_WRITE_FLAG
  <2>2. Readers = {} /\ Writers = {}
    BY <1>6, WordFacts DEF CompareAndStore
  <2>3. Exclusion'
    BY <1>6, <2>2 DEF CompareAndStore, Exclusion, Readers, Writers
  <2>4. Readers' = {} /\ Writers' = {c}
    BY <1>6, <2>2 DEF CompareAndStore, Readers, Writers
  <2>5. WordCounts'
    BY <1>6, <2>4, FS_EmptySet
    DEF CompareAndStore, WordCounts, CVMX_RWLOCK_READ_INC,
        CVMX_RWLOCK_WRITE_FLAG
  <2> QED BY <2>1, <2>3, <2>5
<1>7. ASSUME NEW c \in Core, ClearFlag(c)
      PROVE  Inv'
  <2>1. Exclusion'
    BY <1>7 DEF ClearFlag, Exclusion
  <2>2. Readers' = Readers /\ Writers # {} /\ Writers' = {}
    BY <1>7 DEF ClearFlag, Exclusion, Readers, Writers
  <2>3. WordCounts'
    BY <1>7, <2>2, ReadersFinite
    DEF ClearFlag, WordCounts, CVMX_RWLOCK_READ_INC, CVMX_RWLOCK_WRITE_FLAG
  <2>4. lock' \in Nat
    BY <2>3, ReadersFinite
    DEF WordCounts, CVMX_RWLOCK_READ_INC, CVMX_RWLOCK_WRITE_FLAG
  <2>5. TypeOK'
    BY <1>7, <2>4 DEF ClearFlag
  <2> QED BY <2>1, <2>3, <2>5
<1> QED
  BY <1>1, <1>2, <1>3, <1>4, <1>5, <1>6, <1>7 DEF Next, Step

LEMMA Invariance == Spec => []Inv
BY InitInv, NextInv, PTL DEF Spec

\* no writer shares the lock with a reader or another writer, on any number
\* of cores and however the ticket counters wrap
THEOREM RwExclusion == Spec => []Exclusion
<1>1. Inv => Exclusion
  BY DEF Inv
<1> QED BY <1>1, Invariance, PTL

\* the lock word always counts the announced readers and the writer
THEOREM RwWordCounts == Spec => []WordCounts
<1>1. Inv => WordCounts
  BY DEF Inv
<1> QED BY <1>1, Invariance, PTL

\* the comment of cvmx_rwlock_wp_read_lock: from the moment a reader has
\* added itself to the lock word until it unlocks, no writer starts
THEOREM RwReaderBarsWriters == Spec => ReaderBarsWriters
<1>1. Inv /\ [Next]_vars =>
        [\A r, w \in Core : pc[r] \in {"flag", "read"} /\ pc'[w] = "write"
                              => pc[w] = "write"]_vars
  <2> SUFFICES ASSUME Inv, Next, NEW r \in Core, NEW w \in Core,
                      pc[r] \in {"flag", "read"}, pc'[w] = "write",
                      pc[w] # "write"
               PROVE  FALSE
    OBVIOUS
  <2>1. PICK c \in Core : ReadLock(c) \/ WriteLock(c) \/ Step(c)
    BY DEF Next
  <2>2. CompareAndStore(c)
    BY <2>1 DEF Inv, TypeOK, Step, Goto, ReadLock, WriteLock, LoadReq,
                CompareComp, AddReader, TestFlag, ReadUnlock, Turn,
                ClearFlag, Complete
  <2>3. Readers = {}
    BY <2>2, WordFacts DEF CompareAndStore
  <2> QED BY <2>3 DEF Readers
<1> QED BY <1>1, Invariance, PTL DEF Spec, ReaderBarsWriters

-----------------------------------------------------------------------------
(* The tickets: a queue modulo Wrap *)

Ticketed == Waiters \cup Holders

\* the tickets that are out follow one another from write_comp to write_req,
\* and whoever is past its turn has the first
TicketsKept ==
  /\ write_req = (write_comp + Cardinality(Ticketed)) % Wrap
  /\ \A c \in Ticketed : Distance(c) < Cardinality(Ticketed)
  /\ \A c, d \in Ticketed : Distance(c) = Distance(d) => c = d
  /\ \A c \in Ticketed : pc[c] # "turn" => Distance(c) = 0

\* a reader that compares has seen a write_req beyond the tickets of all the
\* writers it has to wait for, and when it has compared there are none
ReadersKept ==
  \A r \in Core :
    /\ pc[r] \in {"load", "compare", "add", "flag"} => ahead[r] \subseteq Pending
    /\ pc[r] = "compare" =>
         \A w \in ahead[r] : Distance(w) < (seen[r] - write_comp) % Wrap
    /\ pc[r] \in {"add", "flag"} => ahead[r] = {}

PrefInv == Inv /\ TicketsKept /\ ReadersKept

\* Sums and differences modulo the width of the counters.
LEMMA AddMod ==
  ASSUME NEW W \in Nat \ {0}, NEW a \in 0 .. W - 1, NEW n \in 0 .. W
  PROVE  (a + n) % W = IF a + n < W THEN a + n ELSE a + n - W
OBVIOUS

LEMMA SubMod ==
  ASSUME NEW W \in Nat \ {0}, NEW a \in 0 .. W - 1, NEW b \in 0 .. W - 1
  PROVE  (a - b) % W = IF a >= b THEN a - b ELSE a - b + W
OBVIOUS

\* A ticket taken n places behind w is n releases away from it.
LEMMA TicketMod ==
  ASSUME NEW W \in Nat \ {0}, NEW w \in 0 .. W - 1, NEW n \in 0 .. W - 1
  PROVE  /\ (w + n) % W \in 0 .. W - 1
         /\ (((w + n) % W) - w) % W = n
         /\ (((w + n) % W) + 1) % W = (w + (n + 1)) % W
<1> DEFINE t == (w + n) % W
<1>0. n \in 0 .. W /\ 1 \in 0 .. W
  OBVIOUS
<1>1. t = IF w + n < W THEN w + n ELSE w + n - W
  <2>1. (w + n) % W = IF w + n < W THEN w + n ELSE w + n - W
    BY <1>0, AddMod
  <2> QED BY <2>1
<1>2. t \in 0 .. W - 1
  BY <1>1
<1>3. (w + (n + 1)) % W = IF w + (n + 1) < W THEN w + (n + 1) ELSE w + (n + 1) - W
  <2>1. n + 1 \in 0 .. W
    OBVIOUS
  <2> QED BY <2>1, AddMod
<1> HIDE DEF t
<1>4. (t - w) % W = IF t >= w THEN t - w ELSE t - w + W
  BY <1>2, SubMod
<1>5. (t + 1) % W = IF t + 1 < W THEN t + 1 ELSE t + 1 - W
  BY <1>0, <1>2, AddMod
<1>6. (t - w) % W = n
  BY <1>1, <1>4
<1>7. (t + 1) % W = (w + (n + 1)) % W
  BY <1>1, <1>3, <1>5
<1> QED BY <1>2, <1>6, <1>7 DEF t

\* A release brings every ticket that is not at its turn one nearer.
LEMMA ReleaseMod ==
  ASSUME NEW W \in Nat \ {0}, NEW w \in 0 .. W - 1, NEW t \in 0 .. W - 1
  PROVE  /\ (w + 1) % W \in 0 .. W - 1
         /\ (t - w) % W \in 0 .. W - 1
         /\ (t - w) % W # 0 => (t - ((w + 1) % W)) % W = ((t - w) % W) - 1
         /\ \A n \in 1 .. W : (((w + 1) % W) + (n - 1)) % W = (w + n) % W
<1> DEFINE v == (w + 1) % W
<1>1. v = IF w + 1 < W THEN w + 1 ELSE 0
  <2>1. 1 \in 0 .. W
    OBVIOUS
  <2>2. (w + 1) % W = IF w + 1 < W THEN w + 1 ELSE w + 1 - W
    BY <2>1, AddMod
  <2> QED BY <2>2
<1>2. v \in 0 .. W - 1
  BY <1>1
<1>3. (t - w) % W = IF t >= w THEN t - w ELSE t - w + W
  BY SubMod
<1> HIDE DEF v
<1>4. (t - v) % W = IF t >= v THEN t - v ELSE t - v + W
  BY <1>2, SubMod
<1>5. (t - w) % W \in 0 .. W - 1
  BY <1>3
<1>6. (t - w) % W # 0 => (t - v) % W = ((t - w) % W) - 1
  BY <1>1, <1>3, <1>4
<1>7. ASSUME NEW n \in 1 .. W PROVE (v + (n - 1)) % W = (w + n) % W
  <2>1. n - 1 \in 0 .. W /\ n \in 0 .. W
    OBVIOUS
  <2>2. (v + (n - 1)) % W = IF v + (n - 1) < W THEN v + (n - 1) ELSE v + (n - 1) - W
    BY <1>2, <2>1, AddMod
  <2>3. (w + n) % W = IF w + n < W THEN w + n ELSE w + n - W
    BY <2>1, AddMod
  <2> QED BY <1>1, <2>2, <2>3
<1> QED BY <1>2, <1>5, <1>6, <1>7 DEF v

\* How many writers have tickets.
LEMMA TicketCount ==
  /\ IsFiniteSet(Ticketed) /\ Cardinality(Ticketed) \in Nat
  /\ Cardinality(Ticketed) <= Cardinality(Core) /\ Cardinality(Core) \in Nat
  /\ IsFiniteSet(Waiters) /\ Cardinality(Waiters) \in Nat
  /\ IsFiniteSet(Holders) /\ Cardinality(Holders) \in Nat
  /\ \A c \in Core : c \notin Ticketed => Cardinality(Ticketed) < Cardinality(Core)
<1>1. Ticketed \subseteq Core /\ Waiters \subseteq Core /\ Holders \subseteq Core
  BY DEF Ticketed, Waiters, Holders
<1>2. /\ IsFiniteSet(Ticketed) /\ Cardinality(Ticketed) <= Cardinality(Core)
      /\ IsFiniteSet(Waiters) /\ IsFiniteSet(Holders)
      /\ Cardinality(Core) = Cardinality(Ticketed) => Core = Ticketed
  BY <1>1, CoreAssumption, FS_Subset
<1>3. /\ Cardinality(Ticketed) \in Nat /\ Cardinality(Core) \in Nat
      /\ Cardinality(Waiters) \in Nat /\ Cardinality(Holders) \in Nat
  BY <1>2, CoreAssumption, FS_CardinalityType
<1> QED BY <1>1, <1>2, <1>3

\* there are at least as many tickets as cores: 2^32 in the code
EnoughTickets == Cardinality(Core) <= Wrap

\* What TicketsKept says of the numbers.
LEMMA TicketFacts ==
  ASSUME Inv
  PROVE  /\ \A c \in Core : Distance(c) \in 0 .. Wrap - 1
         /\ \A c \in Core : Distance(c) = 0 <=> ticket[c] = write_comp
         /\ \A r \in Core : (seen[r] - write_comp) % Wrap \in 0 .. Wrap - 1
<1>1. /\ \A c \in Core : ticket[c] \in 0 .. Wrap - 1 /\ seen[c] \in 0 .. Wrap - 1
      /\ write_comp \in 0 .. Wrap - 1
  BY DEF Inv, TypeOK
<1>2. ASSUME NEW t \in 0 .. Wrap - 1
      PROVE  /\ (t - write_comp) % Wrap \in 0 .. Wrap - 1
             /\ (t - write_comp) % Wrap = 0 <=> t = write_comp
  <2>1. (t - write_comp) % Wrap =
          IF t >= write_comp THEN t - write_comp ELSE t - write_comp + Wrap
    BY <1>1, WrapAssumption, SubMod
  <2> QED BY <1>1, <2>1, WrapAssumption
<1> QED BY <1>1, <1>2 DEF Distance

\* A step that gives out no ticket and completes no release.
LEMMA TicketsQuiet ==
  ASSUME TicketsKept, UNCHANGED <<write_req, write_comp, ticket>>,
         Ticketed' = Ticketed,
         \A c \in Ticketed : pc[c] = "turn" /\ pc'[c] # "turn" => ticket[c] = write_comp,
         Inv
  PROVE  TicketsKept' /\ \A c \in Core : Distance(c)' = Distance(c)
<1>1. \A c \in Core : Distance(c)' = Distance(c)
  BY DEF Distance
<1>2. Ticketed \subseteq Core
  BY DEF Ticketed, Waiters, Holders
<1>3. \A c \in Ticketed : pc'[c] # "turn" => Distance(c)' = 0
  BY <1>1, <1>2, TicketFacts DEF TicketsKept
<1>4. Cardinality(Ticketed)' = Cardinality(Ticketed)
  OBVIOUS
<1>5. TicketsKept'
  BY <1>1, <1>2, <1>3, <1>4 DEF TicketsKept
<1> QED BY <1>1, <1>5

\* cvmx_rwlock_wp_read_lock and _unlock do not touch the tickets; a reader
\* knows what it waits for.
LEMMA ReadStepKept ==
  ASSUME EnoughTickets, PrefInv, NEW c \in Core,
         \/ ReadLock(c) \/ LoadReq(c) \/ CompareComp(c) \/ AddReader(c) \/ TestFlag(c)
         \/ ReadUnlock(c)
  PROVE  TicketsKept' /\ ReadersKept'
<1> USE DEF Goto
<1>1. /\ pc \in [Core -> PcValues] /\ ahead \in [Core -> SUBSET Core]
      /\ seen \in [Core -> 0 .. Wrap - 1]
  BY DEF PrefInv, Inv, TypeOK
<1>2. /\ UNCHANGED <<write_req, write_comp, ticket>>
      /\ pc[c] \in {"out", "load", "compare", "add", "flag", "read"}
      /\ pc'[c] \in {"out", "load", "compare", "add", "flag", "read"}
      /\ \A d \in Core \ {c} : pc'[d] = pc[d]
  BY <1>1 DEF ReadLock, LoadReq, CompareComp, AddReader, TestFlag, ReadUnlock
<1>3. Ticketed' = Ticketed /\ Pending' = Pending /\ c \notin Ticketed
      /\ Ticketed \subseteq Core /\ Pending \subseteq Ticketed
  BY <1>2 DEF Ticketed, Waiters, Holders, Pending
<1>4. TicketsKept' /\ \A d \in Core : Distance(d)' = Distance(d)
  BY <1>2, <1>3, TicketsQuiet DEF PrefInv
<1>5. ASSUME NEW r \in Core
      PROVE  /\ pc'[r] \in {"load", "compare", "add", "flag"} => ahead'[r] \subseteq Pending
             /\ pc'[r] = "compare" =>
                  \A w \in ahead'[r] : Distance(w) < (seen'[r] - write_comp) % Wrap
             /\ pc'[r] \in {"add", "flag"} => ahead'[r] = {}
  <2>1. CASE r # c
    <3>1. pc'[r] = pc[r] /\ ahead'[r] = ahead[r] /\ seen'[r] = seen[r]
      BY <1>1, <1>2, <2>1
      DEF ReadLock, LoadReq, CompareComp, AddReader, TestFlag, ReadUnlock
    <3> QED BY <3>1 DEF PrefInv, ReadersKept
  <2>2. CASE r = c /\ ReadLock(c)
    BY <1>1, <2>2 DEF ReadLock
  <2>3. CASE r = c /\ LoadReq(c)
    <3> DEFINE n == Cardinality(Ticketed)
    <3>1. n \in 0 .. Wrap - 1 /\ write_comp \in 0 .. Wrap - 1
      BY <1>3, TicketCount, WrapAssumption DEF EnoughTickets, PrefInv, Inv, TypeOK
    <3>2. write_req = (write_comp + n) % Wrap /\ \A w \in Ticketed : Distance(w) < n
      BY DEF PrefInv, TicketsKept
    <3> HIDE DEF n
    <3>3. (write_req - write_comp) % Wrap = n
      BY <3>1, <3>2, WrapAssumption, TicketMod
    <3>4. pc'[c] = "compare" /\ seen'[c] = write_req /\ ahead'[c] = ahead[c]
          /\ ahead[c] \subseteq Pending
      BY <1>1, <2>3 DEF LoadReq, PrefInv, ReadersKept
    <3> QED BY <1>3, <2>3, <3>2, <3>3, <3>4
  <2>4. CASE r = c /\ CompareComp(c)
    <3>1. /\ ahead'[c] = ahead[c] /\ ahead[c] \subseteq Pending
          /\ pc'[c] \in {"add", "load"}
          /\ pc'[c] = "add" => seen[c] = write_comp
          /\ \A w \in ahead[c] : Distance(w) < (seen[c] - write_comp) % Wrap
      BY <1>1, <2>4 DEF CompareComp, PrefInv, ReadersKept
    <3>2. (write_comp - write_comp) % Wrap = 0
      BY WrapAssumption DEF PrefInv, Inv, TypeOK
    <3>3. \A w \in ahead[c] : Distance(w) \in Nat
      BY <1>3, <3>1, TicketFacts DEF PrefInv
    <3>4. pc'[c] = "add" => ahead[c] = {}
      BY <3>1, <3>2, <3>3
    <3> QED BY <2>4, <3>1, <3>4
  <2>5. CASE r = c /\ AddReader(c)
    BY <1>1, <2>5 DEF AddReader, PrefInv, ReadersKept
  <2>6. CASE r = c /\ TestFlag(c)
    BY <1>1, <2>6 DEF TestFlag
  <2>7. CASE r = c /\ ReadUnlock(c)
    BY <1>1, <2>7 DEF ReadUnlock
  <2> QED BY <2>1, <2>2, <2>3, <2>4, <2>5, <2>6, <2>7
<1>6. \A r \in Core : pc'[r] = "compare" => ahead'[r] \subseteq Core
  BY <1>3, <1>5
<1>7. ReadersKept'
  BY <1>2, <1>3, <1>4, <1>5, <1>6 DEF ReadersKept
<1> QED BY <1>4, <1>7

\* A writer takes the ticket behind all that are out.
LEMMA WriteLockKept ==
  ASSUME EnoughTickets, PrefInv, NEW c \in Core, WriteLock(c)
  PROVE  TicketsKept' /\ ReadersKept'
<1> USE DEF Goto
<1> DEFINE n == Cardinality(Ticketed)
<1>1. /\ pc \in [Core -> PcValues] /\ ticket \in [Core -> 0 .. Wrap - 1]
      /\ write_comp \in 0 .. Wrap - 1
  BY DEF PrefInv, Inv, TypeOK
<1>2. /\ pc[c] = "out" /\ pc' = [pc EXCEPT ![c] = "turn"]
      /\ ticket' = [ticket EXCEPT ![c] = write_req]
      /\ write_req' = (write_req + 1) % Wrap
      /\ UNCHANGED <<write_comp, ahead, seen>>
  BY DEF WriteLock
<1>3. /\ Ticketed' = Ticketed \cup {c} /\ c \notin Ticketed /\ Ticketed \subseteq Core
      /\ Pending' = Pending \cup {c} /\ c \notin Pending /\ Pending \subseteq Ticketed
  BY <1>1, <1>2 DEF Ticketed, Waiters, Holders, Pending
<1>4. Cardinality(Ticketed \cup {c}) = n + 1 /\ n \in 0 .. Wrap - 1
  <2>1. n \in Nat /\ n < Cardinality(Core) /\ Cardinality(Core) \in Nat /\ IsFiniteSet(Ticketed)
    BY <1>3, TicketCount
  <2>2. Cardinality(Ticketed \cup {c}) = n + 1
    BY <1>3, <2>1, FS_AddElement
  <2> HIDE DEF n
  <2>3. n \in 0 .. Wrap - 1
    BY <2>1, WrapAssumption DEF EnoughTickets
  <2> QED BY <2>2, <2>3
<1>5. /\ write_req = (write_comp + n) % Wrap
      /\ \A d \in Ticketed : Distance(d) < n
  BY DEF PrefInv, TicketsKept
<1>6. \A d \in Core \ {c} : Distance(d)' = Distance(d)
  BY <1>1, <1>2 DEF Distance
<1> HIDE DEF n
<1>7. /\ (write_req - write_comp) % Wrap = n
      /\ (write_req + 1) % Wrap = (write_comp + (n + 1)) % Wrap
  BY <1>1, <1>4, <1>5, WrapAssumption, TicketMod
<1>8. Distance(c)' = n
  BY <1>1, <1>2, <1>7 DEF Distance
<1>9. TicketsKept'
  <2>1. Cardinality(Ticketed)' = n + 1
    BY <1>3, <1>4
  <2>2. write_req' = (write_comp' + Cardinality(Ticketed)') % Wrap
    BY <1>2, <1>7, <2>1
  <2>3. \A d \in Ticketed' : Distance(d)' < n + 1
    <3>1. \A d \in Ticketed : Distance(d)' < n /\ Distance(d)' = Distance(d) /\ Distance(d) \in Nat
      BY <1>3, <1>5, <1>6, TicketFacts DEF PrefInv
    <3> QED BY <1>3, <1>4, <1>8, <3>1
  <2>4. \A d, e \in Ticketed' : Distance(d)' = Distance(e)' => d = e
    <3>1. \A d \in Ticketed : Distance(d)' = Distance(d) /\ Distance(d) # n
      BY <1>3, <1>4, <1>5, <1>6, TicketFacts DEF PrefInv
    <3>2. \A d, e \in Ticketed : Distance(d) = Distance(e) => d = e
      BY DEF PrefInv, TicketsKept
    <3> QED BY <1>3, <1>8, <3>1, <3>2
  <2>5. \A d \in Ticketed' : pc'[d] # "turn" => Distance(d)' = 0
    BY <1>1, <1>2, <1>3, <1>6 DEF PrefInv, TicketsKept
  <2> QED BY <2>1, <2>2, <2>3, <2>4, <2>5 DEF TicketsKept
<1>10. ReadersKept'
  <2> SUFFICES ASSUME NEW r \in Core
               PROVE  /\ pc'[r] \in {"load", "compare", "add", "flag"} => ahead'[r] \subseteq Pending'
                      /\ pc'[r] = "compare" =>
                           \A w \in ahead'[r] : Distance(w)' < (seen'[r] - write_comp') % Wrap
                      /\ pc'[r] \in {"add", "flag"} => ahead'[r] = {}
    BY DEF ReadersKept
  <2>1. CASE r = c
    BY <1>1, <1>2, <2>1
  <2>2. CASE r # c
    <3>1. pc'[r] = pc[r] /\ ahead'[r] = ahead[r] /\ seen'[r] = seen[r]
      BY <1>1, <1>2, <2>2
    <3>2. /\ pc[r] \in {"load", "compare", "add", "flag"} => ahead[r] \subseteq Pending
          /\ pc[r] = "compare" =>
               \A w \in ahead[r] : Distance(w) < (seen[r] - write_comp) % Wrap
          /\ pc[r] \in {"add", "flag"} => ahead[r] = {}
      BY DEF PrefInv, ReadersKept
    <3>3. pc[r] = "compare" => \A w \in ahead[r] : Distance(w)' = Distance(w)
      BY <1>3, <1>6, <3>2
    <3> QED BY <1>2, <1>3, <3>1, <3>2, <3>3
  <2> QED BY <2>1, <2>2
<1> QED BY <1>9, <1>10

\* A writer that waits, takes the lock or clears the flag keeps its ticket.
LEMMA WriteStepKept ==
  ASSUME EnoughTickets, PrefInv, NEW c \in Core,
         Turn(c) \/ CompareAndStore(c) \/ ClearFlag(c)
  PROVE  TicketsKept' /\ ReadersKept'
<1> USE DEF Goto
<1>1. /\ pc \in [Core -> PcValues] /\ ahead \in [Core -> SUBSET Core]
  BY DEF PrefInv, Inv, TypeOK
<1>2. /\ UNCHANGED <<write_req, write_comp, ticket, seen>>
      /\ pc[c] \in {"turn", "store", "write"}
      /\ pc'[c] \in {"store", "write", "complete"}
      /\ \A d \in Core \ {c} : pc'[d] = pc[d]
      /\ pc[c] = "turn" => ticket[c] = write_comp
  BY <1>1 DEF Turn, CompareAndStore, ClearFlag
<1>3. Ticketed' = Ticketed /\ Ticketed \subseteq Core
  BY <1>2 DEF Ticketed, Waiters, Holders
<1>4. TicketsKept' /\ \A d \in Core : Distance(d)' = Distance(d)
  <2>1. \A d \in Ticketed : pc[d] = "turn" /\ pc'[d] # "turn" => ticket[d] = write_comp
    BY <1>2, <1>3
  <2> QED BY <1>2, <1>3, <2>1, TicketsQuiet DEF PrefInv
<1>5. \A r \in Core : ahead'[r] \subseteq ahead[r] /\ (ahead[r] \subseteq Pending => ahead'[r] \subseteq Pending')
  <2>1. CASE Turn(c) \/ CompareAndStore(c)
    <3>1. ahead' = ahead /\ pc'[c] \in {"store", "write"}
      BY <1>1, <2>1 DEF Turn, CompareAndStore
    <3>2. Pending' = Pending
      BY <1>2, <3>1 DEF Pending
    <3> QED BY <3>1, <3>2
  <2>2. CASE ClearFlag(c)
    <3>1. ahead' = [r \in Core |-> ahead[r] \ {c}]
      BY <2>2 DEF ClearFlag
    <3>2. Pending \ {c} \subseteq Pending'
      BY <1>2 DEF Pending
    <3> QED BY <3>1, <3>2
  <2> QED BY <2>1, <2>2
<1>6. ReadersKept'
  <2> SUFFICES ASSUME NEW r \in Core
               PROVE  /\ pc'[r] \in {"load", "compare", "add", "flag"} => ahead'[r] \subseteq Pending'
                      /\ pc'[r] = "compare" =>
                           \A w \in ahead'[r] : Distance(w)' < (seen'[r] - write_comp') % Wrap
                      /\ pc'[r] \in {"add", "flag"} => ahead'[r] = {}
    BY DEF ReadersKept
  <2>1. CASE r = c
    BY <1>2, <2>1
  <2>2. CASE r # c
    <3>1. /\ pc[r] \in {"load", "compare", "add", "flag"} => ahead[r] \subseteq Pending
          /\ pc[r] = "compare" =>
               \A w \in ahead[r] : Distance(w) < (seen[r] - write_comp) % Wrap
          /\ pc[r] \in {"add", "flag"} => ahead[r] = {}
      BY DEF PrefInv, ReadersKept
    <3>2. pc'[r] = pc[r] /\ ahead[r] \subseteq Core
      BY <1>1, <1>2, <2>2
    <3> QED BY <1>2, <1>4, <1>5, <3>1, <3>2
  <2> QED BY <2>1, <2>2
<1> QED BY <1>4, <1>6

\* The writer that completes its release has the first ticket: everyone else
\* is one nearer, and so is every reader's bound.
LEMMA CompleteKept ==
  ASSUME EnoughTickets, PrefInv, NEW c \in Core, Complete(c)
  PROVE  TicketsKept' /\ ReadersKept' /\ \A d \in Ticketed' : Distance(d)' = Distance(d) - 1
<1> USE DEF Goto
<1> DEFINE n == Cardinality(Ticketed)
<1>1. /\ pc \in [Core -> PcValues] /\ ticket \in [Core -> 0 .. Wrap - 1]
      /\ seen \in [Core -> 0 .. Wrap - 1] /\ write_comp \in 0 .. Wrap - 1
      /\ Wrap \in Nat \ {0}
  BY WrapAssumption DEF PrefInv, Inv, TypeOK
<1>2. /\ pc[c] = "complete" /\ pc' = [pc EXCEPT ![c] = "out"]
      /\ ticket' = [ticket EXCEPT ![c] = 0]
      /\ write_comp' = (write_comp + 1) % Wrap
      /\ UNCHANGED <<write_req, ahead, seen>>
  BY DEF Complete
<1>3. /\ Ticketed' = Ticketed \ {c} /\ c \in Ticketed /\ Ticketed \subseteq Core
      /\ Pending' = Pending /\ c \notin Pending /\ Pending \subseteq Ticketed
  BY <1>1, <1>2 DEF Ticketed, Waiters, Holders, Pending
<1>4. Cardinality(Ticketed \ {c}) = n - 1 /\ n \in 1 .. Wrap
  <2>1. n \in Nat /\ n <= Cardinality(Core) /\ Cardinality(Core) \in Nat /\ IsFiniteSet(Ticketed)
    BY <1>3, TicketCount
  <2>2. Cardinality(Ticketed \ {c}) = n - 1
    BY <1>3, <2>1, FS_RemoveElement
  <2>3. n # 0
    BY <1>3, <2>1, FS_EmptySet
  <2> HIDE DEF n
  <2>4. n \in 1 .. Wrap
    BY <1>1, <2>1, <2>3 DEF EnoughTickets
  <2> QED BY <2>2, <2>4
<1>5. /\ write_req = (write_comp + n) % Wrap
      /\ \A d \in Ticketed : Distance(d) < n
      /\ \A d, e \in Ticketed : Distance(d) = Distance(e) => d = e
      /\ \A d \in Ticketed : pc[d] # "turn" => Distance(d) = 0
  BY DEF PrefInv, TicketsKept
<1>6. \A d \in Ticketed \ {c} : Distance(d) # 0 /\ Distance(d) \in Nat /\ pc'[d] = "turn"
  <2>1. Distance(c) = 0
    BY <1>2, <1>3, <1>5
  <2>2. \A d \in Ticketed : Distance(d) \in Nat
    BY <1>3, TicketFacts DEF PrefInv
  <2> QED BY <1>1, <1>2, <1>3, <1>5, <2>1, <2>2
<1> HIDE DEF n
<1>7. \A d \in Ticketed \ {c} : Distance(d)' = Distance(d) - 1
  <2> TAKE d \in Ticketed \ {c}
  <2>1. d \in Core /\ ticket[d] \in 0 .. Wrap - 1 /\ ticket'[d] = ticket[d]
    BY <1>1, <1>2, <1>3
  <2>2. (ticket[d] - write_comp) % Wrap # 0
    BY <1>6 DEF Distance
  <2>3. (ticket[d] - ((write_comp + 1) % Wrap)) % Wrap = ((ticket[d] - write_comp) % Wrap) - 1
    BY <1>1, <2>1, <2>2, ReleaseMod
  <2>4. Distance(d)' = (ticket'[d] - write_comp') % Wrap
    BY Zenon DEF Distance
  <2>5. Distance(d)' = (ticket[d] - ((write_comp + 1) % Wrap)) % Wrap
    BY <1>2, <2>1, <2>4, Zenon
  <2> QED BY <2>3, <2>5, Zenon DEF Distance
<1>8. (((write_comp + 1) % Wrap) + (n - 1)) % Wrap = (write_comp + n) % Wrap
  BY <1>1, <1>4, ReleaseMod
<1>9. TicketsKept'
  <2>1. Cardinality(Ticketed)' = n - 1
    BY <1>3, <1>4
  <2>2. write_req' = (write_comp' + Cardinality(Ticketed)') % Wrap
    BY <1>2, <1>5, <1>8, <2>1
  <2>3. \A d \in Ticketed' : Distance(d)' < n - 1
    BY <1>3, <1>4, <1>5, <1>6, <1>7
  <2>4. \A d, e \in Ticketed' : Distance(d)' = Distance(e)' => d = e
    BY <1>3, <1>5, <1>6, <1>7
  <2>5. \A d \in Ticketed' : pc'[d] # "turn" => Distance(d)' = 0
    BY <1>3, <1>6
  <2> QED BY <2>1, <2>2, <2>3, <2>4, <2>5 DEF TicketsKept
<1>10. ReadersKept'
  <2> SUFFICES ASSUME NEW r \in Core
               PROVE  /\ pc'[r] \in {"load", "compare", "add", "flag"} => ahead'[r] \subseteq Pending'
                      /\ pc'[r] = "compare" =>
                           \A w \in ahead'[r] : Distance(w)' < (seen'[r] - write_comp') % Wrap
                      /\ pc'[r] \in {"add", "flag"} => ahead'[r] = {}
    BY DEF ReadersKept
  <2>1. CASE r = c
    BY <1>1, <1>2, <2>1
  <2>2. CASE r # c
    <3>1. pc'[r] = pc[r] /\ ahead'[r] = ahead[r] /\ seen'[r] = seen[r]
      BY <1>1, <1>2, <2>2
    <3>2. /\ pc[r] \in {"load", "compare", "add", "flag"} => ahead[r] \subseteq Pending
          /\ pc[r] = "compare" =>
               \A w \in ahead[r] : Distance(w) < (seen[r] - write_comp) % Wrap
          /\ pc[r] \in {"add", "flag"} => ahead[r] = {}
      BY DEF PrefInv, ReadersKept
    <3>3. ASSUME pc[r] = "compare", NEW w \in ahead[r]
          PROVE  Distance(w)' < (seen[r] - write_comp') % Wrap
      <4>1. w \in Ticketed \ {c} /\ Distance(w) < (seen[r] - write_comp) % Wrap
        BY <1>3, <3>2, <3>3
      <4>2. Distance(w)' = Distance(w) - 1 /\ Distance(w) \in Nat
        BY <1>6, <1>7, <4>1
      <4>3. (seen[r] - write_comp) % Wrap \in Nat /\ seen[r] \in 0 .. Wrap - 1
        BY <1>1, TicketFacts DEF PrefInv
      <4>4. (seen[r] - write_comp) % Wrap # 0
        BY <4>1, <4>2, <4>3
      <4>5. (seen[r] - ((write_comp + 1) % Wrap)) % Wrap = ((seen[r] - write_comp) % Wrap) - 1
        BY <1>1, <4>3, <4>4, ReleaseMod
      <4>6. (seen[r] - write_comp') % Wrap = ((seen[r] - write_comp) % Wrap) - 1
        BY <1>2, <4>5, Zenon
      <4> DEFINE x == Distance(w)
                 y == (seen[r] - write_comp) % Wrap
      <4>7. x \in Nat /\ y \in Nat /\ x < y
        BY <4>1, <4>2, <4>3
      <4> HIDE DEF x, y
      <4>8. x - 1 < y - 1
        BY <4>7
      <4> QED BY <4>2, <4>6, <4>8, Zenon DEF x, y
    <3> QED BY <1>2, <1>3, <3>1, <3>2, <3>3
  <2> QED BY <2>1, <2>2
<1> QED BY <1>3, <1>7, <1>9, <1>10

\* The readers' and writers' steps keep the invariant.
LEMMA PrefStep ==
  ASSUME EnoughTickets, PrefInv, [Next]_vars
  PROVE  PrefInv'
<1>1. Inv'
  BY NextInv DEF PrefInv
<1>2. CASE UNCHANGED vars
  <2>1. /\ TicketsKept'
    BY <1>2 DEF vars, PrefInv, TicketsKept, Ticketed, Waiters, Holders, Distance
  <2>2. ReadersKept'
    BY <1>2 DEF vars, PrefInv, ReadersKept, Pending, Distance
  <2> QED BY <1>1, <2>1, <2>2 DEF PrefInv
<1>3. CASE Next
  <2>1. PICK c \in Core : ReadLock(c) \/ WriteLock(c) \/ Step(c)
    BY <1>3 DEF Next
  <2>2. TicketsKept' /\ ReadersKept'
    BY <2>1, ReadStepKept, WriteLockKept, WriteStepKept, CompleteKept DEF Step
  <2> QED BY <1>1, <2>2 DEF PrefInv
<1> QED BY <1>2, <1>3

LEMMA PrefInit == Init => PrefInv
<1> SUFFICES ASSUME Init PROVE PrefInv
  OBVIOUS
<1>1. Inv
  BY InitInv
<1>2. Ticketed = {} /\ write_req = 0 /\ write_comp = 0 /\ \A r \in Core : pc[r] = "out"
  BY DEF Init, Ticketed, Waiters, Holders
<1>3. Cardinality(Ticketed) = 0 /\ 0 % Wrap = 0
  BY <1>2, FS_EmptySet, WrapAssumption
<1>4. TicketsKept
  BY <1>2, <1>3 DEF TicketsKept
<1>5. ReadersKept
  BY <1>2 DEF ReadersKept
<1> QED BY <1>1, <1>4, <1>5 DEF PrefInv

-----------------------------------------------------------------------------
(* The queue of WriterPreference *)

Queue == [k \in 1 .. Cardinality(Waiters) |-> WriterAt(k)]

\* At most one writer is past its turn and not done, and it has the first
\* ticket.
LEMMA HolderFirst ==
  ASSUME PrefInv
  PROVE  /\ Waiters \cap Holders = {} /\ Ticketed \subseteq Core
         /\ Cardinality(Holders) \in {0, 1} /\ Cardinality(Waiters) \in Nat
         /\ Cardinality(Holders) = 0 <=> Holders = {}
         /\ Cardinality(Ticketed) = Cardinality(Waiters) + Cardinality(Holders)
         /\ \A c \in Holders : Distance(c) = 0
         /\ \A c \in Waiters : Cardinality(Holders) = 1 => Distance(c) # 0
<1>1. Waiters \cap Holders = {} /\ Ticketed \subseteq Core
  BY DEF Waiters, Holders, Ticketed
<1>2. \A c \in Holders : Distance(c) = 0 /\ c \in Ticketed
  BY DEF PrefInv, TicketsKept, Ticketed, Holders
<1>3. \A c, d \in Ticketed : Distance(c) = Distance(d) => c = d
  BY DEF PrefInv, TicketsKept
<1>4. IsFiniteSet(Waiters) /\ Cardinality(Waiters) \in Nat
  BY TicketCount
<1>5. CASE Holders = {}
  <2>1. Cardinality(Holders) = 0 /\ Ticketed = Waiters
    BY <1>5, FS_EmptySet DEF Ticketed
  <2> QED BY <1>1, <1>4, <1>5, <2>1
<1>6. CASE Holders # {}
  <2>1. PICK h \in Holders : TRUE
    BY <1>6
  <2>2. Holders = {h}
    BY <1>2, <1>3, <2>1
  <2>3. Cardinality(Holders) = 1
    BY <2>2, FS_Singleton
  <2>4. Ticketed = Waiters \cup {h} /\ h \notin Waiters
    BY <1>1, <2>2 DEF Ticketed
  <2>5. Cardinality(Ticketed) = Cardinality(Waiters) + 1
    BY <1>4, <2>4, FS_AddElement
  <2>6. \A c \in Waiters : Distance(c) # 0
    BY <1>2, <1>3, <2>1, <2>4
  <2> QED BY <1>1, <1>2, <1>4, <1>6, <2>3, <2>5, <2>6
<1> QED BY <1>5, <1>6

\* The waiting writers have the following tickets, without a gap.
LEMMA QueueFacts ==
  ASSUME PrefInv
  PROVE  /\ \A k \in 1 .. Cardinality(Waiters) :
              WriterAt(k) \in Waiters /\ Distance(WriterAt(k)) = k - 1 + Cardinality(Holders)
         /\ \A c \in Waiters :
              /\ Distance(c) - Cardinality(Holders) + 1 \in 1 .. Cardinality(Waiters)
              /\ WriterAt(Distance(c) - Cardinality(Holders) + 1) = c
<1> DEFINE n == Cardinality(Waiters)
           h == Cardinality(Holders)
           N == Cardinality(Ticketed)
           f == [c \in Ticketed |-> Distance(c)]
<1>1. /\ n \in Nat /\ h \in {0, 1} /\ N = n + h
      /\ h = 0 <=> Holders = {}
      /\ \A c \in Holders : Distance(c) = 0
      /\ \A c \in Waiters : h = 1 => Distance(c) # 0
      /\ Ticketed \subseteq Core
  BY HolderFirst
<1>2. \A c \in Ticketed : Distance(c) \in Nat /\ Distance(c) < N
  BY <1>1, TicketFacts DEF PrefInv, TicketsKept
<1>3. \A c, d \in Ticketed : Distance(c) = Distance(d) => c = d
  BY DEF PrefInv, TicketsKept
<1>4. Waiters \subseteq Ticketed /\ Ticketed \subseteq Waiters \cup Holders
  BY DEF Ticketed
<1> HIDE DEF n, h, N
<1>5. \A j \in 0 .. N - 1 : \E c \in Ticketed : Distance(c) = j
  <2>1. f \in Injection(Ticketed, 0 .. N - 1)
    <3>1. f \in [Ticketed -> 0 .. N - 1]
      BY <1>1, <1>2
    <3>2. \A c, d \in Ticketed : f[c] = f[d] => c = d
      BY <1>3
    <3> QED BY <3>1, <3>2, Fun_IsInj
  <2>2. IsFiniteSet(0 .. N - 1) /\ Cardinality(0 .. N - 1) = N
    BY <1>1, FS_Interval
  <2>3. f \in Surjection(Ticketed, 0 .. N - 1)
    BY <2>1, <2>2, FS_Injection DEF N
  <2> HIDE DEF f
  <2>4. \A j \in 0 .. N - 1 : \E c \in Ticketed : f[c] = j
    BY <2>3, Zenon DEF Surjection
  <2> QED BY <2>4 DEF f
<1>6. ASSUME NEW k \in 1 .. n
      PROVE  WriterAt(k) \in Waiters /\ Distance(WriterAt(k)) = k - 1 + h
  <2>1. k - 1 + h \in 0 .. N - 1 /\ (h = 1 => k - 1 + h # 0)
    BY <1>1
  <2>2. PICK c \in Ticketed : Distance(c) = k - 1 + h
    BY <1>5, <2>1
  <2>3. c \in Waiters
    BY <1>1, <1>4, <2>1, <2>2
  <2> QED BY <2>2, <2>3 DEF WriterAt, h
<1>7. ASSUME NEW c \in Waiters
      PROVE  Distance(c) - h + 1 \in 1 .. n /\ WriterAt(Distance(c) - h + 1) = c
  <2>1. Distance(c) \in Nat /\ Distance(c) < n + h /\ (h = 1 => Distance(c) # 0)
    BY <1>1, <1>2, <1>4
  <2>2. Distance(c) - h + 1 \in 1 .. n /\ (Distance(c) - h + 1) - 1 + h = Distance(c)
    BY <1>1, <2>1
  <2>3. Distance(WriterAt(Distance(c) - h + 1)) = Distance(c) /\ WriterAt(Distance(c) - h + 1) \in Waiters
    BY <1>6, <2>2
  <2> QED BY <1>3, <1>4, <2>2, <2>3
<1> QED BY <1>6, <1>7 DEF n, h

\* Whoever has the k-th of the waiting tickets after the step is the k-th.
LEMMA NextWriter ==
  ASSUME PrefInv', NEW k, NEW x \in Waiters', Distance(x)' = k - 1 + Cardinality(Holders')
  PROVE  WriterAt(k)' = x
<1>1. \A c, d \in Waiters' : Distance(c)' = Distance(d)' => c = d
  BY DEF PrefInv, TicketsKept, Ticketed
<1>2. PICK y \in Waiters' : y = WriterAt(k)' /\ Distance(y)' = k - 1 + Cardinality(Holders')
  BY DEF WriterAt
<1> QED BY <1>1, <1>2

\* The queue is a list of the waiting writers, each once.
LEMMA QueueList ==
  ASSUME PrefInv
  PROVE  /\ Queue \in Seq(Core) /\ Len(Queue) = Cardinality(Waiters)
         /\ {Queue[k] : k \in DOMAIN Queue} = Waiters
<1> DEFINE n == Cardinality(Waiters)
<1>1. n \in Nat /\ Waiters \subseteq Core
  BY TicketCount DEF Waiters
<1>2. \A k \in 1 .. n : WriterAt(k) \in Waiters
  BY QueueFacts
<1>3. \A c \in Waiters : \E k \in 1 .. n : WriterAt(k) = c
  BY QueueFacts
<1>4. Queue = [k \in 1 .. n |-> WriterAt(k)]
  BY DEF Queue
<1> HIDE DEF n
<1>5. Queue \in [1 .. n -> Core]
  BY <1>1, <1>2, <1>4
<1>6. Queue \in Seq(Core) /\ Len(Queue) = n /\ DOMAIN Queue = 1 .. n
  BY <1>1, <1>5
<1>7. {Queue[k] : k \in DOMAIN Queue} = Waiters
  BY <1>2, <1>3, <1>4, <1>6
<1> QED BY <1>6, <1>7 DEF n

\* A step that moves all waiting tickets alike leaves the queue as it is.
LEMMA QueueSame ==
  ASSUME PrefInv, PrefInv', Waiters' = Waiters,
         \A c \in Waiters : Distance(c)' - Cardinality(Holders') = Distance(c) - Cardinality(Holders),
         \A c \in Waiters : Distance(c)' \in Nat,
         Cardinality(Holders') \in Nat
  PROVE  Queue' = Queue
<1> DEFINE n == Cardinality(Waiters)
<1>1. ASSUME NEW k \in 1 .. n PROVE WriterAt(k)' = WriterAt(k)
  <2>1. PICK x \in Waiters : x = WriterAt(k) /\ Distance(x) = k - 1 + Cardinality(Holders)
    BY QueueFacts
  <2>2. Cardinality(Holders) \in Nat /\ k \in Nat
    BY TicketCount
  <2>3. Distance(x)' = k - 1 + Cardinality(Holders')
    BY <2>1, <2>2
  <2>4. WriterAt(k)' = x
    BY <2>1, <2>3, NextWriter
  <2> QED BY <2>1, <2>4
<1>2. Queue' = [k \in 1 .. n |-> WriterAt(k)']
  BY DEF Queue
<1> QED BY <1>1, <1>2 DEF Queue

\* A new writer goes to the end of the queue.
LEMMA QueueAppends ==
  ASSUME EnoughTickets, PrefInv, PrefInv', NEW c \in Core, WriteLock(c)
  PROVE  Queue' = Append(Queue, c)
<1> USE DEF Goto
<1> DEFINE n == Cardinality(Waiters)
           h == Cardinality(Holders)
<1>1. /\ pc \in [Core -> PcValues] /\ ticket \in [Core -> 0 .. Wrap - 1]
      /\ write_comp \in 0 .. Wrap - 1 /\ Wrap \in Nat \ {0}
  BY WrapAssumption DEF PrefInv, Inv, TypeOK
<1>2. /\ pc[c] = "out" /\ pc' = [pc EXCEPT ![c] = "turn"]
      /\ ticket' = [ticket EXCEPT ![c] = write_req] /\ write_comp' = write_comp
  BY DEF WriteLock
<1>3. /\ Waiters' = Waiters \cup {c} /\ c \notin Waiters /\ Holders' = Holders
      /\ c \notin Ticketed /\ Waiters \subseteq Core
  BY <1>1, <1>2 DEF Waiters, Holders, Ticketed
<1>4. IsFiniteSet(Waiters) /\ n \in Nat /\ h \in Nat
  BY TicketCount
<1>5. Cardinality(Waiters') = n + 1 /\ Cardinality(Holders') = h
  BY <1>3, <1>4, FS_AddElement
<1>6. \A d \in Core \ {c} : Distance(d)' = Distance(d)
  BY <1>1, <1>2 DEF Distance
<1>7. Distance(c)' = n + h
  <2> DEFINE N == Cardinality(Ticketed)
  <2>1. N = n + h
    BY HolderFirst
  <2>2. N \in Nat /\ N < Cardinality(Core) /\ Cardinality(Core) \in Nat
    BY <1>3, TicketCount
  <2>3. write_req = (write_comp + N) % Wrap
    BY DEF PrefInv, TicketsKept
  <2> HIDE DEF N
  <2>4. N \in 0 .. Wrap - 1
    BY <1>1, <2>2 DEF EnoughTickets
  <2>5. (write_req - write_comp) % Wrap = N
    BY <1>1, <2>3, <2>4, TicketMod
  <2> QED BY <1>1, <1>2, <2>1, <2>5 DEF Distance
<1>8. \A k \in 1 .. n : WriterAt(k) \in Waiters /\ Distance(WriterAt(k)) = k - 1 + h
  BY QueueFacts
<1> HIDE DEF n, h
<1>9. ASSUME NEW k \in 1 .. n PROVE WriterAt(k)' = WriterAt(k)
  <2>1. PICK x \in Waiters : x = WriterAt(k) /\ Distance(x) = k - 1 + h
    BY <1>8
  <2>2. x \in Waiters' /\ Distance(x)' = k - 1 + Cardinality(Holders')
    BY <1>3, <1>5, <1>6, <2>1
  <2>3. WriterAt(k)' = x
    BY <2>2, NextWriter
  <2> QED BY <2>1, <2>3
<1>0. PICK m \in Nat : m = n
  BY <1>4
<1>10. WriterAt(m + 1)' = c
  <2>1. PICK k \in Nat : k = m + 1
    OBVIOUS
  <2>2. Distance(c)' = k - 1 + Cardinality(Holders') /\ c \in Waiters'
    BY <1>0, <1>3, <1>4, <1>5, <1>7, <2>1
  <2>3. WriterAt(k)' = c
    BY <2>2, NextWriter
  <2> QED BY <2>1, <2>3
<1>11. Queue' = [k \in 1 .. m + 1 |-> WriterAt(k)'] /\ Queue' \in Seq(Core) /\ Len(Queue') = m + 1
  <2>1. Queue' = [k \in 1 .. m + 1 |-> WriterAt(k)']
    BY <1>0, <1>5 DEF Queue
  <2>2. \A k \in 1 .. m + 1 : WriterAt(k)' \in Core
    <3>1. \A k \in 1 .. m : WriterAt(k)' \in Core
      BY <1>0, <1>3, <1>8, <1>9
    <3> QED BY <1>0, <1>10, <3>1
  <2> QED BY <2>1, <2>2
<1>12. Queue = [k \in 1 .. m |-> WriterAt(k)] /\ Queue \in Seq(Core) /\ Len(Queue) = m
  BY <1>0, QueueList DEF Queue, n
<1>13. /\ Append(Queue, c) \in Seq(Core) /\ Len(Append(Queue, c)) = m + 1
       /\ \A k \in 1 .. m : Append(Queue, c)[k] = Queue[k]
       /\ Append(Queue, c)[m + 1] = c
  BY <1>12, AppendProperties
<1>14. \A k \in 1 .. m + 1 : Queue'[k] = Append(Queue, c)[k]
  <2>1. ASSUME NEW k \in 1 .. m PROVE Queue'[k] = Append(Queue, c)[k]
    <3>1. Queue'[k] = WriterAt(k)' /\ Queue[k] = WriterAt(k)
      BY <1>11, <1>12
    <3> QED BY <1>0, <1>9, <1>13, <3>1
  <2>2. Queue'[m + 1] = Append(Queue, c)[m + 1]
    <3>1. Queue'[m + 1] = WriterAt(m + 1)'
      BY <1>11
    <3> QED BY <1>10, <1>13, <3>1
  <2>3. \A k \in 1 .. m + 1 : k \in 1 .. m \/ k = m + 1
    OBVIOUS
  <2> QED BY <2>1, <2>2, <2>3, Zenon
<1> QED BY <1>11, <1>13, <1>14, SeqEqual

\* The writer that takes the lock was the first of the queue.
LEMMA QueueAdvances ==
  ASSUME PrefInv, PrefInv', NEW c \in Core, CompareAndStore(c)
  PROVE  /\ Queue # <<>> /\ Head(Queue) = c /\ Queue' = Tail(Queue)
         /\ Writers = {} /\ Readers = {} /\ Writers' = {c}
<1> USE DEF Goto
<1> DEFINE n == Cardinality(Waiters)
           h == Cardinality(Holders)
<1>1. pc \in [Core -> PcValues]
  BY DEF PrefInv, Inv, TypeOK
<1>2. /\ pc[c] = "store" /\ pc' = [pc EXCEPT ![c] = "write"] /\ lock = 0
      /\ ticket' = ticket /\ write_comp' = write_comp
  BY DEF CompareAndStore
<1>3. Writers = {} /\ Readers = {}
  BY <1>2, WordFacts DEF PrefInv
<1>4. c \in Waiters /\ Distance(c) = 0
  BY <1>2 DEF Waiters, PrefInv, TicketsKept, Ticketed
<1>5. h = 0 /\ Holders = {} /\ n \in Nat /\ IsFiniteSet(Waiters)
  BY <1>4, HolderFirst, TicketCount
<1>6. Waiters' = Waiters \ {c} /\ Holders' = {c} /\ Writers' = {c}
  BY <1>1, <1>2, <1>3, <1>5 DEF Waiters, Holders, Writers
<1>7. Cardinality(Waiters') = n - 1 /\ Cardinality(Holders') = 1
  BY <1>4, <1>5, <1>6, FS_RemoveElement, FS_Singleton
<1>8. \A d \in Core : Distance(d)' = Distance(d)
  BY <1>2 DEF Distance
<1>9. /\ \A k \in 1 .. n : WriterAt(k) \in Waiters /\ Distance(WriterAt(k)) = k - 1
      /\ 1 \in 1 .. n /\ WriterAt(1) = c
  <2>1. \A k \in 1 .. n : WriterAt(k) \in Waiters /\ Distance(WriterAt(k)) = k - 1 + h
    BY QueueFacts
  <2>2. Distance(c) - h + 1 \in 1 .. n /\ WriterAt(Distance(c) - h + 1) = c
    BY <1>4, QueueFacts
  <2>3. Distance(c) - h + 1 = 1
    BY <1>4, <1>5
  <2> HIDE DEF n, h
  <2>4. \A k \in 1 .. n : k - 1 + h = k - 1
    BY <1>5
  <2> QED BY <2>1, <2>2, <2>3, <2>4
<1>10. Queue = [k \in 1 .. n |-> WriterAt(k)] /\ Queue \in Seq(Core) /\ Len(Queue) = n
  BY QueueList DEF Queue
<1> HIDE DEF n, h
<1>11. Queue # <<>> /\ Head(Queue) = c
  BY <1>5, <1>9, <1>10
<1>12. ASSUME NEW k \in 1 .. n - 1 PROVE WriterAt(k)' = WriterAt(k + 1)
  <2>1. k + 1 \in 1 .. n /\ (k + 1) - 1 = k /\ k # 0 /\ k = k - 1 + 1
    BY <1>5
  <2>2. PICK x \in Waiters : x = WriterAt(k + 1) /\ Distance(x) = k
    BY <1>9, <2>1
  <2>3. x # c /\ x \in Core
    BY <1>4, <2>1, <2>2 DEF Waiters
  <2>4. x \in Waiters' /\ Distance(x)' = k - 1 + Cardinality(Holders')
    BY <1>6, <1>7, <1>8, <2>1, <2>2, <2>3
  <2>5. WriterAt(k)' = x
    BY <2>4, NextWriter
  <2> QED BY <2>2, <2>5
<1>0. PICK m \in Nat : m = n
  BY <1>5
<1>13. /\ Queue' = [k \in 1 .. m - 1 |-> WriterAt(k)']
       /\ Queue' \in Seq(Core) /\ Len(Queue') = m - 1
  <2>1. Queue' = [k \in 1 .. m - 1 |-> WriterAt(k)']
    BY <1>0, <1>7 DEF Queue
  <2>2. \A k \in 1 .. m - 1 : WriterAt(k)' \in Core
    <3>1. \A k \in 1 .. m - 1 : k + 1 \in 1 .. m
      OBVIOUS
    <3> QED BY <1>0, <1>9, <1>12, <3>1 DEF Waiters
  <2>3. m - 1 \in Nat
    BY <1>0, <1>9
  <2> QED BY <2>1, <2>2, <2>3
<1>14. /\ Tail(Queue) \in Seq(Core) /\ Len(Tail(Queue)) = m - 1
       /\ \A k \in 1 .. m - 1 : Tail(Queue)[k] = Queue[k + 1]
  BY <1>0, <1>10, <1>11, HeadTailProperties, SMTT(30)
<1>15. \A k \in 1 .. m - 1 : Queue'[k] = Tail(Queue)[k]
  <2> TAKE k \in 1 .. m - 1
  <2>1. Queue'[k] = WriterAt(k)'
    BY <1>13
  <2>2. k + 1 \in 1 .. n
    BY <1>0
  <2>3. Queue[k + 1] = WriterAt(k + 1)
    BY <1>10, <2>2
  <2> QED BY <1>0, <1>12, <1>14, <2>1, <2>3
<1>16. Queue' = Tail(Queue)
  BY <1>13, <1>14, <1>15, SeqEqual
<1> QED BY <1>3, <1>6, <1>11, <1>16

Reading == {c \in Core : pc[c] = "read"}
Wanting == {c \in Core : pc[c] \in {"load", "compare", "add", "flag"}}

\* The refinement mapping by name.
LEMMA Mapping ==
  /\ Lock!avars = <<Reading, Writers, Queue, Wanting, ahead>>
  /\ Lock!Waiting = {Queue[k] : k \in DOMAIN Queue}
BY DEF Lock!avars, Lock!Waiting, Reading, Wanting, Queue

\* A core outside the lock is in none of the abstract sets.
LEMMA OutIsOut ==
  ASSUME PrefInv, NEW c \in Core, pc[c] = "out"
  PROVE  c \notin Reading \cup Writers \cup Wanting \cup Lock!Waiting
<1>1. Lock!Waiting = Waiters
  BY QueueList, Mapping
<1> QED BY <1>1 DEF Reading, Writers, Wanting, Waiters

\* The steps of cvmx_rwlock_wp_read_lock and _unlock.
LEMMA ReadMaps ==
  ASSUME PrefInv, PrefInv', NEW c \in Core,
         \/ ReadLock(c) \/ LoadReq(c) \/ CompareComp(c) \/ AddReader(c) \/ TestFlag(c)
         \/ ReadUnlock(c)
  PROVE  Lock!Next \/ UNCHANGED Lock!avars
<1> USE DEF Goto
<1>1. /\ pc \in [Core -> PcValues] /\ ahead \in [Core -> SUBSET Core]
  BY DEF PrefInv, Inv, TypeOK
<1>2. /\ UNCHANGED <<write_comp, ticket>>
      /\ pc[c] \in {"out", "load", "compare", "add", "flag", "read"}
      /\ pc'[c] \in {"out", "load", "compare", "add", "flag", "read"}
      /\ \A d \in Core \ {c} : pc'[d] = pc[d]
  BY <1>1 DEF ReadLock, LoadReq, CompareComp, AddReader, TestFlag, ReadUnlock
<1>3. Waiters' = Waiters /\ Holders' = Holders /\ Writers' = Writers /\ Waiters \subseteq Core
  BY <1>2 DEF Waiters, Holders, Writers
<1>4. Queue' = Queue
  <2>1. \A d \in Core : Distance(d)' = Distance(d)
    BY <1>2 DEF Distance
  <2>2. \A d \in Core : Distance(d) \in Nat
    BY TicketFacts DEF PrefInv
  <2>3. Cardinality(Holders') \in Nat
    BY <1>3, TicketCount
  <2> QED BY <1>3, <2>1, <2>2, <2>3, QueueSame
<1>5. CASE ReadLock(c)
  <2>1. /\ pc[c] = "out" /\ pc' = [pc EXCEPT ![c] = "load"]
        /\ ahead' = [ahead EXCEPT ![c] = Pending]
    BY <1>5 DEF ReadLock
  <2>2. Reading' = Reading /\ Wanting' = Wanting \cup {c}
    BY <1>1, <2>1 DEF Reading, Wanting
  <2>3. Pending = Lock!Waiting \cup Writers
    <3>1. Lock!Waiting = Waiters
      BY QueueList, Mapping
    <3> QED BY <3>1 DEF Pending, Waiters, Writers
  <2>4. c \notin Reading \cup Writers \cup Wanting \cup Lock!Waiting
    BY <2>1, OutIsOut
  <2>5. Lock!AskRead(c)
    BY <1>3, <1>4, <2>1, <2>2, <2>3, <2>4 DEF Lock!AskRead, Reading, Wanting, Queue
  <2> QED BY <2>5 DEF Lock!Next
<1>6. CASE LoadReq(c) \/ CompareComp(c) \/ AddReader(c)
  <2>1. /\ pc[c] \in {"load", "compare", "add"} /\ pc'[c] \in {"load", "compare", "add", "flag"}
        /\ ahead' = ahead
    BY <1>1, <1>6 DEF LoadReq, CompareComp, AddReader
  <2>2. Reading' = Reading /\ Wanting' = Wanting
    BY <1>2, <2>1 DEF Reading, Wanting
  <2> QED BY <1>3, <1>4, <2>1, <2>2, Mapping DEF Lock!avars, Reading, Wanting, Queue
<1>7. CASE TestFlag(c)
  <2>1. pc[c] = "flag" /\ pc' = [pc EXCEPT ![c] = "read"] /\ ahead' = ahead /\ ~WriteFlag
    BY <1>7 DEF TestFlag
  <2>2. c \in Wanting /\ Reading' = Reading \cup {c} /\ Wanting' = Wanting \ {c}
    BY <1>1, <2>1 DEF Reading, Wanting
  <2>3. ahead[c] = {} /\ Writers = {}
    BY <2>1, WordFacts DEF PrefInv, ReadersKept
  <2>4. Lock!GrantRead(c)
    BY <1>3, <1>4, <2>1, <2>2, <2>3 DEF Lock!GrantRead, Reading, Wanting, Queue
  <2> QED BY <2>4 DEF Lock!Next
<1>8. CASE ReadUnlock(c)
  <2>1. pc[c] = "read" /\ pc' = [pc EXCEPT ![c] = "out"] /\ ahead' = ahead
    BY <1>8 DEF ReadUnlock
  <2>2. c \in Reading /\ Reading' = Reading \ {c} /\ Wanting' = Wanting
    BY <1>1, <2>1 DEF Reading, Wanting
  <2>3. Lock!EndRead(c)
    BY <1>3, <1>4, <2>1, <2>2 DEF Lock!EndRead, Reading, Wanting, Queue
  <2> QED BY <2>3 DEF Lock!Next
<1> QED BY <1>5, <1>6, <1>7, <1>8

\* The steps of cvmx_rwlock_wp_write_lock and _unlock.
LEMMA WriteMaps ==
  ASSUME EnoughTickets, PrefInv, PrefInv', NEW c \in Core,
         WriteLock(c) \/ Turn(c) \/ CompareAndStore(c) \/ ClearFlag(c) \/ Complete(c)
  PROVE  Lock!Next \/ UNCHANGED Lock!avars
<1> USE DEF Goto
<1>1. /\ pc \in [Core -> PcValues] /\ ahead \in [Core -> SUBSET Core]
  BY DEF PrefInv, Inv, TypeOK
<1>2. /\ pc[c] \in {"out", "turn", "store", "write", "complete"}
      /\ pc'[c] \in {"out", "turn", "store", "write", "complete"}
      /\ \A d \in Core \ {c} : pc'[d] = pc[d]
  BY <1>1 DEF WriteLock, Turn, CompareAndStore, ClearFlag, Complete
<1>3. Reading' = Reading /\ Wanting' = Wanting
  BY <1>2 DEF Reading, Wanting
<1>4. CASE WriteLock(c)
  <2>1. pc[c] = "out" /\ pc'[c] = "turn" /\ ahead' = ahead
    BY <1>1, <1>4 DEF WriteLock
  <2>2. Writers' = Writers
    BY <1>2, <2>1 DEF Writers
  <2>3. Queue' = Append(Queue, c)
    BY <1>4, QueueAppends
  <2>4. c \notin Reading \cup Writers \cup Wanting \cup Lock!Waiting
    BY <2>1, OutIsOut
  <2>5. Lock!AskWrite(c)
    BY <1>3, <2>1, <2>2, <2>3, <2>4 DEF Lock!AskWrite, Reading, Wanting, Queue
  <2> QED BY <2>5 DEF Lock!Next
<1>5. CASE CompareAndStore(c)
  <2>1. /\ Queue # <<>> /\ Head(Queue) = c /\ Queue' = Tail(Queue)
        /\ Writers = {} /\ Readers = {} /\ Writers' = {c}
    BY <1>5, QueueAdvances
  <2>2. Reading = {} /\ ahead' = ahead
    BY <1>5, <2>1 DEF Reading, Readers, CompareAndStore
  <2>3. Lock!GrantWrite
    BY <1>3, <2>1, <2>2 DEF Lock!GrantWrite, Reading, Wanting, Queue
  <2> QED BY <2>3 DEF Lock!Next
<1>6. ASSUME Waiters' = Waiters, Holders' = Holders, UNCHANGED <<ticket, write_comp>>
      PROVE  Queue' = Queue
  <2>1. \A d \in Core : Distance(d)' = Distance(d)
    BY <1>6 DEF Distance
  <2>2. \A d \in Core : Distance(d) \in Nat
    BY TicketFacts DEF PrefInv
  <2>3. Cardinality(Holders') \in Nat /\ Waiters \subseteq Core
    BY <1>6, TicketCount DEF Waiters
  <2> QED BY <1>6, <2>1, <2>2, <2>3, QueueSame
<1>7. CASE Turn(c)
  <2>1. /\ pc[c] = "turn" /\ pc'[c] = "store" /\ ahead' = ahead
        /\ UNCHANGED <<ticket, write_comp>>
    BY <1>1, <1>7 DEF Turn
  <2>2. Waiters' = Waiters /\ Holders' = Holders /\ Writers' = Writers
    BY <1>2, <2>1 DEF Waiters, Holders, Writers
  <2>3. Queue' = Queue
    BY <1>6, <2>1, <2>2
  <2> QED BY <1>3, <2>1, <2>2, <2>3 DEF Lock!avars, Reading, Wanting, Queue
<1>8. CASE ClearFlag(c)
  <2>1. /\ pc[c] = "write" /\ pc'[c] = "complete"
        /\ ahead' = [r \in Core |-> ahead[r] \ {c}]
        /\ UNCHANGED <<ticket, write_comp>>
    BY <1>1, <1>8 DEF ClearFlag
  <2>2. Waiters' = Waiters /\ Holders' = Holders
    BY <1>2, <2>1 DEF Waiters, Holders
  <2>3. Writers = {c}
    BY <2>1 DEF Writers, PrefInv, Inv, Exclusion
  <2>4. Writers' = {}
    BY <1>2, <2>1, <2>3 DEF Writers
  <2>5. Queue' = Queue
    BY <1>6, <2>1, <2>2
  <2>6. Lock!EndWrite(c)
    BY <1>3, <2>1, <2>3, <2>4, <2>5 DEF Lock!EndWrite, Reading, Wanting, Queue
  <2> QED BY <2>6 DEF Lock!Next
<1>9. CASE Complete(c)
  <2>1. pc[c] = "complete" /\ pc'[c] = "out" /\ ahead' = ahead
    BY <1>1, <1>9 DEF Complete
  <2>2. /\ Waiters' = Waiters /\ Holders' = Holders \ {c} /\ Writers' = Writers /\ c \in Holders
    BY <1>2, <2>1 DEF Waiters, Holders, Writers
  <2>3. Cardinality(Holders) = 1 /\ Cardinality(Holders') = 0
    <3>1. IsFiniteSet(Holders)
      BY TicketCount
    <3>2. Cardinality(Holders) = 1
      BY <2>2, HolderFirst
    <3>3. Cardinality(Holders \ {c}) = Cardinality(Holders) - 1
      BY <2>2, <3>1, FS_RemoveElement
    <3> QED BY <2>2, <3>2, <3>3
  <2>4. \A d \in Waiters : Distance(d)' = Distance(d) - 1
    BY <1>9, <2>2, CompleteKept DEF Ticketed
  <2>5. \A d \in Waiters : Distance(d) \in Nat /\ Distance(d) # 0
    BY <2>3, HolderFirst, TicketFacts DEF PrefInv, Waiters
  <2>6. \A d \in Waiters : /\ Distance(d)' - 0 = Distance(d) - 1
                           /\ Distance(d)' \in Nat
    BY <2>4, <2>5
  <2>7. /\ \A d \in Waiters : Distance(d)' - Cardinality(Holders') = Distance(d) - Cardinality(Holders)
        /\ \A d \in Waiters : Distance(d)' \in Nat
        /\ Cardinality(Holders') \in Nat
    BY <2>3, <2>6
  <2>8. Waiters' = Waiters
    BY <2>2
  <2>9. Queue' = Queue
    BY <2>7, <2>8, QueueSame
  <2> QED BY <1>3, <2>1, <2>2, <2>9 DEF Lock!avars, Reading, Wanting, Queue
<1> QED BY <1>4, <1>5, <1>7, <1>8, <1>9

LEMMA PrefInitMaps == Init => Lock!Init
<1> SUFFICES ASSUME Init PROVE Lock!Init
  OBVIOUS
<1>1. Reading = {} /\ Writers = {} /\ Wanting = {} /\ Waiters = {}
  BY DEF Init, Reading, Writers, Wanting, Waiters
<1>2. Cardinality(Waiters) = 0
  BY <1>1, FS_EmptySet
<1>3. Queue = <<>>
  BY <1>2 DEF Queue
<1> QED BY <1>1, <1>3 DEF Init, Lock!Init, Reading, Wanting, Queue

\* The lock of cvmx-rwlock.h is a first-come queue of writers that readers wait
\* for, on any number of cores for which the tickets suffice: writers get it in
\* the order of their fetch-and-add, through any wrap-around of the counters,
\* and no reader gets it before every writer that asked earlier.
THEOREM RwPreference == ASSUME EnoughTickets PROVE Spec => PreferenceKept
<1>1. Init => PrefInv /\ Lock!Init
  BY PrefInit, PrefInitMaps
<1>2. PrefInv /\ [Next]_vars => PrefInv'
  BY PrefStep
<1>3. PrefInv /\ PrefInv' /\ [Next]_vars => [Lock!Next]_(Lock!avars)
  <2> SUFFICES ASSUME PrefInv, PrefInv', [Next]_vars PROVE [Lock!Next]_(Lock!avars)
    OBVIOUS
  <2>1. CASE UNCHANGED vars
    BY <2>1 DEF vars, Lock!avars, Writers, Waiters, WriterAt, Distance, Holders
  <2>2. CASE Next
    <3>1. PICK c \in Core : ReadLock(c) \/ WriteLock(c) \/ Step(c)
      BY <2>2 DEF Next
    <3>2. Lock!Next \/ UNCHANGED Lock!avars
      BY <3>1, ReadMaps, WriteMaps DEF Step
    <3> QED BY <3>2
  <2> QED BY <2>1, <2>2
<1> QED
  BY <1>1, <1>2, <1>3, PTL DEF Spec, PreferenceKept, Lock!Spec

-----------------------------------------------------------------------------
(* The recursive spinlock of the same cores (CvmxRecSpinlock), whatever number *)
(* its init leaves in core_num.                                                *)

LevelsHeld ==
  /\ \A c, d \in Core : Rec!Owner(c) /\ Rec!Owner(d) => c = d
  /\ \A c \in Core : Rec!Owner(c) => value = Rec!Levels(c)
  /\ (\A c \in Core : ~Rec!Owner(c)) => value = 0
  /\ leftover # Invalid => core_num = leftover /\ \A c \in Core : depth[c] = 0
  /\ \A c \in Core :
       /\ core_num = c =>
            \/ leftover = c
            \/ depth[c] > 0 /\ recPc[c] \notin {"dec", "restore"}
       /\ recPc[c] \in {"reload", "count", "dec", "restore"} => depth[c] > 0
       /\ recPc[c] = "count" => tmp[c] = value + 1
       /\ leftover # Invalid /\ recPc[c] = "lid" =>
            \E d \in Core \ {c} : recPc[d] = "own"

\* what holds even after a core has slipped in
RecBase ==
  /\ Rec!TypeOK
  /\ \A c \in Core :
       /\ recPc[c] \in {"ll", "lid", "reload", "count", "own"} => depth[c] < MaxDepth
       /\ recPc[c] = "dec" => depth[c] > 0

RecInv == RecBase /\ (slipped \/ LevelsHeld)

LEMMA RecNumbers ==
  /\ Invalid \notin Core /\ Word \in Nat /\ MaxDepth \in Nat /\ MaxDepth < Word
  /\ Word \in Nat \ {0}
BY RecAssumption, SMT DEF Rec!RecConstants

LEMMA RecPlus ==
  ASSUME NEW v \in 0 .. Word - 1
  PROVE  /\ Rec!Plus(v, 1) \in 0 .. Word - 1 /\ Rec!Plus(v, -1) \in 0 .. Word - 1
         /\ v + 1 < Word => Rec!Plus(v, 1) = v + 1
         /\ v > 0 => Rec!Plus(v, -1) = v - 1
<1>1. Rec!Plus(v, 1) = (v + 1) % Word /\ Rec!Plus(v, -1) = (v + (-1)) % Word
  BY DEF Rec!Plus
<1>2. (v + 1) % Word \in 0 .. Word - 1 /\ (v + (-1)) % Word \in 0 .. Word - 1
  BY RecNumbers, SMT
<1>3. ASSUME NEW n \in 0 .. Word - 1 PROVE n % Word = n
  BY <1>3, RecNumbers, SMT
<1>4. ASSUME v + 1 < Word PROVE Rec!Plus(v, 1) = v + 1
  BY <1>1, <1>3, <1>4, RecNumbers
<1>5. ASSUME v > 0 PROVE Rec!Plus(v, -1) = v - 1
  BY <1>1, <1>3, <1>5, RecNumbers
<1> QED BY <1>1, <1>2, <1>4, <1>5

LEMMA RecInitInv ==
  ASSUME Rec!Init
  PROVE  RecInv
<1>1. 0 \in 0 .. Word - 1
  BY RecNumbers
<1>2. RecBase
  BY <1>1 DEF Rec!Init, RecBase, Rec!TypeOK, Rec!PcValues
<1>3. \A c \in Core : ~Rec!Owner(c)
  BY DEF Rec!Init, Rec!Owner
<1>4. LevelsHeld
  BY <1>3 DEF Rec!Init, LevelsHeld
<1> QED BY <1>2, <1>4 DEF RecInv

\* the levels of the one owner, as facts about each core
LEMMA RecOwnerFacts ==
  ASSUME RecBase, LevelsHeld, NEW c \in Core
  PROVE  /\ depth[c] \in Nat /\ value \in Int
         /\ depth[c] > 0 /\ recPc[c] # "own" => value = depth[c]
         /\ recPc[c] = "own" => value = depth[c] + 1
         /\ value = 0 => depth[c] = 0 /\ recPc[c] # "own"
         /\ depth[c] > 0 => \A d \in Core \ {c} : depth[d] = 0 /\ recPc[d] # "own"
         /\ recPc[c] = "own" => \A d \in Core \ {c} : depth[d] = 0 /\ recPc[d] # "own"
BY DEF RecBase, Rec!TypeOK, LevelsHeld, Rec!Owner, Rec!Levels

\* types, the bound on the nesting, and that only a holder unlocks
LEMMA RecBaseNext ==
  ASSUME RecBase, [Rec!Next]_(Rec!vars)
  PROVE  RecBase'
<1> USE DEF RecBase, Rec!TypeOK, Rec!PcValues, Rec!Goto
<1>1. CASE UNCHANGED Rec!vars
  BY <1>1 DEF Rec!vars
<1>2. ASSUME NEW c \in Core,
             Rec!Lock(c) \/ Rec!SeeHeld(c) \/ Rec!CompareOwner(c)
      PROVE  RecBase'
  BY <1>2 DEF Rec!Lock, Rec!SeeHeld, Rec!CompareOwner
<1>3. ASSUME NEW c \in Core, Rec!TakeFree(c)
      PROVE  RecBase'
  <2>1. 1 \in 0 .. Word - 1
    BY <1>3, RecNumbers DEF Rec!TakeFree
  <2> QED BY <1>3, <2>1 DEF Rec!TakeFree
<1>4. ASSUME NEW c \in Core, Rec!LoadCount(c)
      PROVE  RecBase'
  <2>1. Rec!Plus(value, 1) \in 0 .. Word - 1
    BY RecPlus
  <2> QED BY <1>4, <2>1 DEF Rec!LoadCount
<1>5. ASSUME NEW c \in Core, Rec!StoreCount(c)
      PROVE  RecBase'
  <2>1. 0 \in 0 .. Word - 1
    BY RecNumbers
  <2> QED BY <1>5, <2>1 DEF Rec!StoreCount
<1>6. ASSUME NEW c \in Core, Rec!StoreOwner(c)
      PROVE  RecBase'
  BY <1>6 DEF Rec!StoreOwner, Rec!SetOwner
<1>7. ASSUME NEW c \in Core, Rec!Unlock(c) \/ Rec!RestoreOwner(c)
      PROVE  RecBase'
  BY <1>7 DEF Rec!Unlock, Rec!RestoreOwner, Rec!SetOwner
<1>8. ASSUME NEW c \in Core, Rec!Decrement(c)
      PROVE  RecBase'
  <2>1. Rec!Plus(value, -1) \in 0 .. Word - 1
    BY RecPlus
  <2>2. recPc' = [recPc EXCEPT ![c] = IF value = 1 THEN "out" ELSE "restore"]
    BY <1>8 DEF Rec!Decrement
  <2> QED BY <1>8, <2>1, <2>2 DEF Rec!Decrement
<1> QED
  BY <1>1, <1>2, <1>3, <1>4, <1>5, <1>6, <1>7, <1>8 DEF Rec!Next, Rec!Step

\* the levels stay counted through every step that lets nobody slip in
LEMMA RecHeldNext ==
  ASSUME RecBase, LevelsHeld, RecBase', [Rec!Next]_(Rec!vars), ~slipped'
  PROVE  LevelsHeld'
<1> USE DEF RecBase, Rec!TypeOK, Rec!PcValues, Rec!Goto
<1>1. CASE UNCHANGED Rec!vars
  BY <1>1 DEF Rec!vars, LevelsHeld, Rec!Owner, Rec!Levels
<1>2. ASSUME NEW c \in Core,
             Rec!Lock(c) \/ Rec!SeeHeld(c) \/ Rec!CompareOwner(c)
      PROVE  LevelsHeld'
  <2>0. Rec!SeeHeld(c) /\ leftover # Invalid => \E d \in Core \ {c} : recPc[d] = "own"
    BY DEF Rec!SeeHeld, LevelsHeld, Rec!Owner
  <2>1. \A d \in Core : Rec!Owner(d)' = Rec!Owner(d) /\ Rec!Levels(d)' = Rec!Levels(d)
    BY <1>2 DEF Rec!Lock, Rec!SeeHeld, Rec!CompareOwner, Rec!Owner, Rec!Levels
  <2> QED BY <1>2, <2>0, <2>1 DEF Rec!Lock, Rec!SeeHeld, Rec!CompareOwner, LevelsHeld
<1>3. ASSUME NEW c \in Core, Rec!LoadCount(c)
      PROVE  LevelsHeld'
  <2>1. \A d \in Core : Rec!Owner(d)' = Rec!Owner(d) /\ Rec!Levels(d)' = Rec!Levels(d)
    BY <1>3 DEF Rec!LoadCount, Rec!Owner, Rec!Levels
  <2>2. value = depth[c] /\ depth[c] < MaxDepth
    BY <1>3, RecOwnerFacts DEF Rec!LoadCount, LevelsHeld
  <2>3. Rec!Plus(value, 1) = value + 1
    BY <2>2, RecPlus, RecNumbers
  <2> QED BY <1>3, <2>1, <2>3 DEF Rec!LoadCount, LevelsHeld
<1>4. ASSUME NEW c \in Core, Rec!TakeFree(c)
      PROVE  LevelsHeld'
  <2>1. \A d \in Core : depth[d] = 0 /\ recPc[d] # "own"
    BY <1>4, RecOwnerFacts DEF Rec!TakeFree
  <2> QED BY <1>4, <2>1 DEF Rec!TakeFree, LevelsHeld, Rec!Owner, Rec!Levels
<1>5. ASSUME NEW c \in Core, Rec!StoreCount(c)
      PROVE  LevelsHeld'
  <2>1. tmp[c] = value + 1 /\ value = depth[c] /\ depth[c] > 0
    BY <1>5, RecOwnerFacts DEF Rec!StoreCount, LevelsHeld
  <2> QED
    BY <1>5, <2>1, RecOwnerFacts DEF Rec!StoreCount, LevelsHeld, Rec!Owner, Rec!Levels
<1>6. ASSUME NEW c \in Core, Rec!StoreOwner(c)
      PROVE  LevelsHeld'
  BY <1>6, RecOwnerFacts, RecNumbers
  DEF Rec!StoreOwner, Rec!SetOwner, LevelsHeld, Rec!Owner, Rec!Levels
<1>7. ASSUME NEW c \in Core, Rec!Unlock(c)
      PROVE  LevelsHeld'
  BY <1>7, RecNumbers DEF Rec!Unlock, Rec!SetOwner, LevelsHeld, Rec!Owner, Rec!Levels
<1>8. ASSUME NEW c \in Core, Rec!Decrement(c)
      PROVE  LevelsHeld'
  <2>1. value = depth[c] /\ depth[c] > 0 /\ \A d \in Core \ {c} : depth[d] = 0 /\ recPc[d] # "own"
    BY <1>8, RecOwnerFacts DEF Rec!Decrement, LevelsHeld
  <2>2. value' = value - 1
    BY <1>8, <2>1, RecPlus DEF Rec!Decrement
  <2> QED
    BY <1>8, <2>1, <2>2, RecOwnerFacts DEF Rec!Decrement, LevelsHeld, Rec!Owner, Rec!Levels
<1>9. ASSUME NEW c \in Core, Rec!RestoreOwner(c)
      PROVE  LevelsHeld'
  BY <1>9, RecNumbers DEF Rec!RestoreOwner, Rec!SetOwner, LevelsHeld, Rec!Owner, Rec!Levels
<1> QED
  BY <1>1, <1>2, <1>3, <1>4, <1>5, <1>6, <1>7, <1>8, <1>9 DEF Rec!Next, Rec!Step

\* only CompareOwner lets a core slip in
LEMMA RecSlip ==
  ASSUME RecBase, [Rec!Next]_(Rec!vars), slipped' # slipped
  PROVE  /\ ~slipped
         /\ \E c \in Core : recPc[c] = "lid" /\ leftover = c
BY DEF RecBase, Rec!TypeOK, Rec!Next, Rec!Step, Rec!vars, Rec!Lock, Rec!SeeHeld, Rec!CompareOwner, Rec!LoadCount,
       Rec!TakeFree, Rec!StoreCount, Rec!StoreOwner, Rec!Unlock, Rec!Decrement,
       Rec!RestoreOwner

LEMMA RecInvariance == Rec!Spec => []RecInv
<1>1. Rec!Init => RecInv
  BY RecInitInv
<1>2. RecInv /\ [Rec!Next]_(Rec!vars) => RecInv'
  <2> SUFFICES ASSUME RecInv, [Rec!Next]_(Rec!vars) PROVE RecInv'
    OBVIOUS
  <2>1. RecBase'
    BY RecBaseNext DEF RecInv
  <2>2. slipped => slipped'
    BY RecSlip DEF RecInv, RecBase, Rec!TypeOK
  <2>3. ~slipped' => LevelsHeld'
    BY <2>1, <2>2, RecHeldNext DEF RecInv
  <2> QED BY <2>1, <2>3 DEF RecInv
<1> QED BY <1>1, <1>2, PTL DEF Rec!Spec

\* Whatever number cvmx_spinlock_rec_init left in core_num: until that number
\* has let its core in beside the holder, the value word counts the levels of
\* the one core that holds the recursive spinlock, over any interleaving of its
\* plain loads and stores with the others' ll/sc, for any set of cores.
THEOREM Counting == Rec!Spec => []RecLevelsCounted
<1>1. RecInv => RecLevelsCounted
  BY DEF RecInv, LevelsHeld, RecLevelsCounted, Rec!LevelsCounted
<1> QED BY <1>1, RecInvariance, PTL

\* Two cores are never both inside the recursive spinlock unless the number the
\* init left has let one of them in.
THEOREM RecExcludes == Rec!Spec => []RecExclusion
<1>1. RecInv => RecExclusion
  BY DEF RecInv, LevelsHeld, Rec!Owner, RecExclusion, Rec!Exclusion
<1> QED BY <1>1, RecInvariance, PTL

\* The number the init left can let a core in only beside the very first
\* holder, before that one has stored its own number; never again after it.
THEOREM RecLeftoverIsShortLived == Rec!Spec => RecLeftoverShortLived
<1>1. RecInv /\ [Rec!Next]_(Rec!vars) =>
        [slipped' /\ ~slipped =>
           /\ leftover \in Core /\ recPc[leftover] = "lid"
           /\ \A c \in Core : depth[c] = 0
           /\ \E c \in Core \ {leftover} : recPc[c] = "own"]_(Rec!vars)
  PROOF
  <2> SUFFICES ASSUME RecInv, [Rec!Next]_(Rec!vars), slipped', ~slipped
               PROVE  /\ leftover \in Core /\ recPc[leftover] = "lid"
                      /\ \A c \in Core : depth[c] = 0
                      /\ \E c \in Core \ {leftover} : recPc[c] = "own"
    OBVIOUS
  <2>1. leftover \in Core /\ recPc[leftover] = "lid"
    BY RecSlip DEF RecInv
  <2>2. \A c \in Core : depth[c] = 0
    BY <2>1, RecNumbers DEF RecInv, LevelsHeld
  <2>3. \E c \in Core \ {leftover} : recPc[c] = "own"
    BY <2>1, RecNumbers DEF RecInv, LevelsHeld
  <2> QED BY <2>1, <2>2, <2>3
<1> QED BY <1>1, RecInvariance, PTL DEF RecLeftoverShortLived, Rec!LeftoverShortLived, Rec!Spec
=============================================================================
