------------------------------ MODULE CvmxRwlock ------------------------------
(***************************************************************************)
(* The writer-preference reader/writer lock of the Octeon executive        *)
(* (cvmx-rwlock.h), one access to shared memory per step.  The atomic adds *)
(* and compare-and-store are one step each.                                *)
(***************************************************************************)
EXTENDS Integers, Sequences, FiniteSets

CONSTANTS
  Core,    \* the cores
  Wrap     \* write_req and write_comp count modulo Wrap, 2^32 in the code

ASSUME CoreAssumption == IsFiniteSet(Core)
ASSUME WrapAssumption == Wrap \in Nat \ {0}

VARIABLES
  lock,        \* the flag in bit 0, the number of readers above it
  write_req,
  write_comp,
  pc,
  ticket,      \* prev_writers of each writer, 0 outside the call
  seen,        \* the write_req a reader loaded, 0 once compared
  ahead        \* history: writers a reader found pending and not yet done

vars == <<lock, write_req, write_comp, pc, ticket, seen, ahead>>

CVMX_RWLOCK_WRITE_FLAG == 1
CVMX_RWLOCK_READ_INC   == 2

PcValues == {"out", "load", "compare", "add", "flag", "read",
             "turn", "store", "write", "complete"}

TypeOK ==
  /\ lock \in Nat
  /\ write_req \in 0 .. Wrap - 1
  /\ write_comp \in 0 .. Wrap - 1
  /\ pc \in [Core -> PcValues]
  /\ ticket \in [Core -> 0 .. Wrap - 1]
  /\ seen \in [Core -> 0 .. Wrap - 1]
  /\ ahead \in [Core -> SUBSET Core]

\* cvmx_rwlock_wp_init
Init ==
  /\ lock = 0 /\ write_req = 0 /\ write_comp = 0
  /\ pc = [c \in Core |-> "out"]
  /\ ticket = [c \in Core |-> 0]
  /\ seen = [c \in Core |-> 0]
  /\ ahead = [c \in Core |-> {}]

Goto(c, l) == pc' = [pc EXCEPT ![c] = l]

WriteFlag == lock % CVMX_RWLOCK_READ_INC = CVMX_RWLOCK_WRITE_FLAG

\* the writers between taking a ticket and clearing the flag
Pending == {c \in Core : pc[c] \in {"turn", "store", "write"}}

-----------------------------------------------------------------------------
(* cvmx_rwlock_wp_read_lock, cvmx_rwlock_wp_read_unlock *)

ReadLock(c) ==
  /\ pc[c] = "out"
  /\ ahead' = [ahead EXCEPT ![c] = Pending]
  /\ Goto(c, "load")
  /\ UNCHANGED <<lock, write_req, write_comp, ticket, seen>>

\* two loads, left operand first as gcc orders them, and other cores' steps
\* in between
LoadReq(c) ==
  /\ pc[c] = "load"
  /\ seen' = [seen EXCEPT ![c] = write_req]
  /\ Goto(c, "compare")
  /\ UNCHANGED <<lock, write_req, write_comp, ticket, ahead>>

\* faulty: readers do not wait for outstanding write requests
CompareComp_NoWait(c) ==
  /\ pc[c] = "compare"
  /\ Goto(c, "add")
  /\ seen' = [seen EXCEPT ![c] = 0]
  /\ UNCHANGED <<lock, write_req, write_comp, ticket, ahead>>

CompareComp(c) ==
  /\ pc[c] = "compare"
  /\ Goto(c, IF seen[c] = write_comp THEN "add" ELSE "load")
  /\ seen' = [seen EXCEPT ![c] = 0]
  /\ UNCHANGED <<lock, write_req, write_comp, ticket, ahead>>

AddReader(c) ==
  /\ pc[c] = "add"
  /\ lock' = lock + CVMX_RWLOCK_READ_INC
  /\ Goto(c, "flag")
  /\ UNCHANGED <<write_req, write_comp, ticket, seen, ahead>>

\* faulty: no wait for the writer that holds the lock
TestFlag_NoWait(c) ==
  /\ pc[c] = "flag"
  /\ Goto(c, "read")
  /\ UNCHANGED <<lock, write_req, write_comp, ticket, seen, ahead>>

\* spin until the flag is clear
TestFlag(c) ==
  /\ pc[c] = "flag"
  /\ ~WriteFlag
  /\ Goto(c, "read")
  /\ UNCHANGED <<lock, write_req, write_comp, ticket, seen, ahead>>

ReadUnlock(c) ==
  /\ pc[c] = "read"
  /\ lock' = lock - CVMX_RWLOCK_READ_INC
  /\ Goto(c, "out")
  /\ UNCHANGED <<write_req, write_comp, ticket, seen, ahead>>

-----------------------------------------------------------------------------
(* cvmx_rwlock_wp_write_lock, cvmx_rwlock_wp_write_unlock *)

WriteLock(c) ==
  /\ pc[c] = "out"
  /\ ticket' = [ticket EXCEPT ![c] = write_req]
  /\ write_req' = (write_req + 1) % Wrap
  /\ Goto(c, "turn")
  /\ UNCHANGED <<lock, write_comp, seen, ahead>>

\* spin until our turn
Turn(c) ==
  /\ pc[c] = "turn"
  /\ ticket[c] = write_comp
  /\ Goto(c, "store")
  /\ UNCHANGED <<lock, write_req, write_comp, ticket, seen, ahead>>

\* faulty: only the flag is compared, not the readers
CompareAndStore_FlagOnly(c) ==
  /\ pc[c] = "store"
  /\ ~WriteFlag
  /\ lock' = lock + CVMX_RWLOCK_WRITE_FLAG
  /\ Goto(c, "write")
  /\ UNCHANGED <<write_req, write_comp, ticket, seen, ahead>>

\* cvmx_atomic_compare_and_store32(lock, 0, CVMX_RWLOCK_WRITE_FLAG)
CompareAndStore(c) ==
  /\ pc[c] = "store"
  /\ lock = 0
  /\ lock' = CVMX_RWLOCK_WRITE_FLAG
  /\ Goto(c, "write")
  /\ UNCHANGED <<write_req, write_comp, ticket, seen, ahead>>

\* faulty: the flag stays set
ClearFlag_Forgotten(c) ==
  /\ pc[c] = "write"
  /\ ahead' = [r \in Core |-> ahead[r] \ {c}]
  /\ Goto(c, "complete")
  /\ UNCHANGED <<lock, write_req, write_comp, ticket, seen>>

ClearFlag(c) ==
  /\ pc[c] = "write"
  /\ lock' = lock - CVMX_RWLOCK_WRITE_FLAG
  /\ ahead' = [r \in Core |-> ahead[r] \ {c}]
  /\ Goto(c, "complete")
  /\ UNCHANGED <<write_req, write_comp, ticket, seen>>

Complete(c) ==
  /\ pc[c] = "complete"
  /\ write_comp' = (write_comp + 1) % Wrap
  /\ ticket' = [ticket EXCEPT ![c] = 0]
  /\ Goto(c, "out")
  /\ UNCHANGED <<lock, write_req, seen, ahead>>

-----------------------------------------------------------------------------
\* everything but the calls: a core spins on, and gives back what it holds
Step(c) ==
  \/ LoadReq(c) \/ CompareComp(c) \/ AddReader(c) \/ TestFlag(c) \/ ReadUnlock(c)
  \/ Turn(c) \/ CompareAndStore(c) \/ ClearFlag(c) \/ Complete(c)

Next == \E c \in Core : ReadLock(c) \/ WriteLock(c) \/ Step(c)

Spec     == Init /\ [][Next]_vars
FairSpec == Spec /\ \A c \in Core : WF_vars(Step(c))

-----------------------------------------------------------------------------
(* Properties *)

\* a writer inside cvmx_rwlock_wp_write_lock .. unlock is alone
Exclusion ==
  \A c, d \in Core : pc[c] = "write" /\ pc[d] \in {"read", "write"} => c = d

Readers == {c \in Core : pc[c] \in {"flag", "read"}}
Writers == {c \in Core : pc[c] = "write"}

\* the lock word is exactly the flag of a writer and the readers that have
\* announced themselves, over every interleaving of the adds
WordCounts ==
  lock = CVMX_RWLOCK_READ_INC * Cardinality(Readers)
         + IF Writers = {} THEN 0 ELSE CVMX_RWLOCK_WRITE_FLAG

\* "No writer will start again until after we are done since we have
\* already incremented the reader count" (cvmx_rwlock_wp_read_lock)
ReaderBarsWriters ==
  [][\A r, w \in Core :
       pc[r] \in {"flag", "read"} /\ pc'[w] = "write" => pc[w] = "write"]_vars

\* how many releases a ticket is away from its turn
Distance(c) == (ticket[c] - write_comp) % Wrap

Waiters == {c \in Core : pc[c] \in {"turn", "store"}}
Holders == {c \in Core : pc[c] \in {"write", "complete"}}

\* the k-th of the waiting writers: their tickets follow one another, after
\* that of the writer whose release is not complete
WriterAt(k) == CHOOSE c \in Waiters : Distance(c) = k - 1 + Cardinality(Holders)

\* tickets modulo Wrap, two loads of counters that move and a release in two
\* stores implement a first-come queue of writers with the preference the code
\* really gives: a reader waits for the writers that asked before it called.
\* It is less than the comment of the lock says: NoReaderPastWaiter
Lock == INSTANCE WriterPreference WITH
  reading <- {c \in Core : pc[c] = "read"},
  writing <- Writers,
  queue   <- [k \in 1 .. Cardinality(Waiters) |-> WriterAt(k)],
  wanting <- {c \in Core : pc[c] \in {"load", "compare", "add", "flag"}}

PreferenceKept == Lock!Spec


\* a writer with a ticket gets the lock, whatever readers keep coming
WritersServed == \A c \in Core : pc[c] = "turn" ~> pc[c] = "write"

\* "Can be starved by writers": but only by writers that never cease
ReadersServed ==
  <>[](write_req = write_comp) =>
    \A c \in Core : pc[c] = "load" ~> pc[c] = "read"
=============================================================================
