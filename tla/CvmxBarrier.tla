----------------------------- MODULE CvmxBarrier -----------------------------
(***************************************************************************)
(* cvmx_coremask_barrier_sync of the Octeon executive (cvmx-coremask.c): a *)
(* table of barriers, one for each coremask in use, that cores check in to *)
(* under a spinlock and leave by polling a counter without it.             *)
(***************************************************************************)
EXTENDS Integers, FiniteSets

CONSTANTS
  Core,       \* the cores
  Masks,      \* the coremasks the program uses, as sets of cores
  MaxSyncs,   \* CVMX_COREMASK_MAX_SYNCS, the size of the table
  Wrap,       \* exit counts modulo Wrap, 2^32 in the code
  MaxRounds   \* bound on the calls of one core for one coremask

ASSUME MaskAssumption == Masks \subseteq (SUBSET Core) \ {{}}
ASSUME SizeAssumption ==
  MaxSyncs \in Nat /\ Wrap \in Nat \ {0, 1} /\ MaxRounds \in Nat

Slots == 0 .. MaxSyncs - 1
None  == -1

VARIABLES
  lock,       \* state.lock
  coremask,   \* state.s[i].coremask, {} for a free entry
  checkin,    \* state.s[i].checkin
  exit,       \* state.s[i].exit
  pc,
  arg,        \* the coremask a core called with
  slot,       \* its i
  target,     \* its target
  rounds      \* history: the calls of each core for each coremask

table == <<coremask, checkin, exit>>
vars  == <<lock, coremask, checkin, exit, pc, arg, slot, target, rounds>>

PcValues == {"out", "lock", "search", "unlock", "poll", "overflow", "abort"}

TypeOK ==
  /\ lock \in BOOLEAN
  /\ coremask \in [Slots -> Masks \cup {{}}]
  /\ checkin \in [Slots -> SUBSET Core]
  /\ exit \in [Slots -> 0 .. Wrap - 1]
  /\ pc \in [Core -> PcValues]
  /\ arg \in [Core -> Masks \cup {{}}]
  /\ slot \in [Core -> Slots \cup {None}]
  /\ target \in [Core -> 0 .. Wrap - 1]
  /\ rounds \in [Core -> [Masks -> Nat]]

Init ==
  /\ lock = FALSE
  /\ coremask = [i \in Slots |-> {}]
  /\ checkin = [i \in Slots |-> {}]
  /\ exit = [i \in Slots |-> 0]
  /\ pc = [c \in Core |-> "out"]
  /\ arg = [c \in Core |-> {}]
  /\ slot = [c \in Core |-> None]
  /\ target = [c \in Core |-> 0]
  /\ rounds = [c \in Core |-> [m \in Masks |-> 0]]

Goto(c, l) == pc' = [pc EXCEPT ![c] = l]

-----------------------------------------------------------------------------
\* a core of the coremask calls cvmx_coremask_barrier_sync
Call(c, m) ==
  /\ pc[c] = "out" /\ c \in m
  /\ rounds[c][m] < MaxRounds
  /\ arg' = [arg EXCEPT ![c] = m]
  /\ Goto(c, "lock")
  /\ UNCHANGED <<lock, table, slot, target, rounds>>

\* cvmx_spinlock_lock
TakeLock(c) ==
  /\ pc[c] = "lock"
  /\ ~lock
  /\ lock' = TRUE
  /\ Goto(c, "search")
  /\ UNCHANGED <<table, arg, slot, target, rounds>>

\* the first entry that is free or has this coremask
Entry(m, i) ==
  /\ coremask[i] \in {{}, m}
  /\ \A j \in Slots : j < i => coremask[j] \notin {{}, m}

\* target = exit + 1, "wrap-around at 32b"
NextExit(i) == (exit[i] + 1) % Wrap

AllIn(i, c) == checkin[i] \cup {c} = arg[c]

\* faulty: the mask is not cleared for the next round
CheckedIn_NoReset(i, c) == checkin[i] \cup {c}

\* the last core to check in clears the mask ...
CheckedIn(i, c) == IF AllIn(i, c) THEN {} ELSE checkin[i] \cup {c}

\* faulty: the exit is never signalled
ExitOf_Silent(i, c) == exit[i]

\* ... and signals the exit
ExitOf(i, c) == IF AllIn(i, c) THEN NextExit(i) ELSE exit[i]

\* claim the entry and check in
CheckIn(c) ==
  /\ pc[c] = "search"
  /\ \E i \in Slots :
       /\ Entry(arg[c], i)
       /\ coremask' = [coremask EXCEPT ![i] = arg[c]]
       /\ target' = [target EXCEPT ![c] = NextExit(i)]
       /\ slot' = [slot EXCEPT ![c] = i]
       /\ checkin' = [checkin EXCEPT ![i] = CheckedIn(i, c)]
       /\ exit' = [exit EXCEPT ![i] = ExitOf(i, c)]
  /\ rounds' = [rounds EXCEPT ![c][arg[c]] = @ + 1]
  /\ Goto(c, "unlock")
  /\ UNCHANGED <<lock, arg>>

\* the table is full of other coremasks
TableFull(c) ==
  /\ pc[c] = "search"
  /\ \A i \in Slots : ~Entry(arg[c], i)
  /\ Goto(c, "overflow")
  /\ UNCHANGED <<lock, table, arg, slot, target, rounds>>

\* cvmx_spinlock_unlock, and assert(0) after an overflow
DropLock(c) ==
  /\ pc[c] \in {"unlock", "overflow"}
  /\ lock' = FALSE
  /\ Goto(c, IF pc[c] = "unlock" THEN "poll" ELSE "abort")
  /\ UNCHANGED <<table, arg, slot, target, rounds>>

\* spin until the exit is signalled
Leave(c) ==
  /\ pc[c] = "poll"
  /\ exit[slot[c]] = target[c]
  /\ arg' = [arg EXCEPT ![c] = {}]
  /\ slot' = [slot EXCEPT ![c] = None]
  /\ target' = [target EXCEPT ![c] = 0]
  /\ Goto(c, "out")
  /\ UNCHANGED <<lock, table, rounds>>

Step(c) == TakeLock(c) \/ CheckIn(c) \/ TableFull(c) \/ DropLock(c) \/ Leave(c)

Next == \E c \in Core : Step(c) \/ \E m \in Masks : Call(c, m)

Spec     == Init /\ [][Next]_vars
FairSpec == Spec /\ \A c \in Core : WF_vars(Step(c))

-----------------------------------------------------------------------------
(* Properties *)

\* in the barrier of m: it has checked in and not left
Inside(c, m) == pc[c] \in {"unlock", "poll"} /\ arg[c] = m

\* nobody leaves a barrier for the n-th time before all cores of the
\* coremask have reached it n times, also when a fast core comes round again
\* while slow ones still poll
NoEarlyExit ==
  \A m \in Masks : \A c, d \in m :
    ~Inside(c, m) => rounds[d][m] >= rounds[c][m]

\* a core still polling is at most one round behind its exit counter, so
\* that the counter cannot pass the value it waits for, wrap-around included
ExitNotMissed ==
  \A c \in Core : pc[c] \in {"unlock", "poll"} =>
    \/ exit[slot[c]] = target[c]
    \/ (exit[slot[c]] + 1) % Wrap = target[c] /\ c \in checkin[slot[c]]

\* no coremask is ever given two entries, over which its cores would split
OneEntryPerMask ==
  \A i, j \in Slots : coremask[i] # {} /\ coremask[i] = coremask[j] => i = j

\* once every core of the coremask has checked in, all of them get out
BarrierOpens ==
  \A m \in Masks : \A c \in m :
    Inside(c, m) /\ (\A d \in m : rounds[d][m] >= rounds[c][m])
      ~> pc[c] = "out"
=============================================================================
