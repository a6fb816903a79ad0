------------------------------ MODULE AppStart ------------------------------
(***************************************************************************)
(* Start of a simple-executive application under Linux (main of            *)
(* cvmx-app-init-linux.c): the process forks itself once for each CPU it   *)
(* may run on, every process enters its CPU into the shared core_mask,     *)
(* waits until no fork is pending and meets the others in the barrier of   *)
(* cvmx-coremask.c with the mask it then reads.  The application goes on   *)
(* to use the same barrier.                                                *)
(*                                                                         *)
(* CVMX_SHARED data (core_mask, pending_fork, mask_lock and the barrier's  *)
(* table) is one mapping for all processes; a CPU stands for the process   *)
(* that will run on it.                                                    *)
(***************************************************************************)
EXTENDS CvmxBarrier

CONSTANTS
  AppMasks,  \* the coremasks of the application's own barriers
  Faults     \* fork and sched_setaffinity may fail

ASSUME CpuAssumption   == Core \subseteq Nat /\ Core # {} /\ IsFiniteSet(Core)
ASSUME AllMasks        == Masks = (SUBSET Core) \ {{}} /\ AppMasks \subseteq Masks
ASSUME FaultAssumption == Faults \in BOOLEAN

VARIABLES
  cpumask,       \* the CPUs the parent has still to count
  parent,        \* where the parent is: in the loop, or gone on as a process
  forking,       \* the CPU it forks for
  pending_fork,
  core_mask,     \* system_info->core_mask
  mask_lock,
  st             \* where the process of each CPU is

startVars == <<cpumask, parent, forking, pending_fork, core_mask, mask_lock, st>>
allVars   == <<vars, startVars>>

StValues ==
  {"none", "affinity", "lock", "mask", "count", "unlock", "spin", "barrier", "app", "exit"}

StartTypeOK ==
  /\ TypeOK
  /\ cpumask \subseteq Core
  /\ parent \in {"loop", "fork", "done", "exit"}
  /\ forking \in Core
  /\ pending_fork \in 0 .. Cardinality(Core)
  /\ core_mask \subseteq Core
  /\ mask_lock \in BOOLEAN
  /\ st \in [Core -> StValues]

First(S) == CHOOSE c \in S : \A d \in S : c <= d

\* "cvmx_atomic_set32(&pending_fork, 1)": the parent itself
Pending == 1

StartInit ==
  /\ Init
  /\ cpumask = Core
  /\ parent = "loop"
  /\ forking = First(Core)
  /\ pending_fork = Pending
  /\ core_mask = {}
  /\ mask_lock = FALSE
  /\ st = [c \in Core |-> "none"]

Be(c, l) == st' = [st EXCEPT ![c] = l]

-----------------------------------------------------------------------------
(* the loop over the CPUs *)

\* the last CPU is the parent's own
KeepLast ==
  LET c == First(cpumask) IN
  /\ parent = "loop" /\ cpumask = {c}
  /\ cpumask' = {}
  /\ parent' = "done"
  /\ Be(c, "affinity")
  /\ UNCHANGED <<vars, forking, pending_fork, core_mask, mask_lock>>

\* faulty: the count is left to the child
CountFork_Not ==
  LET c == First(cpumask) IN
  /\ parent = "loop" /\ cpumask # {c}
  /\ cpumask' = cpumask \ {c}
  /\ forking' = c
  /\ parent' = "fork"
  /\ UNCHANGED <<vars, pending_fork, core_mask, mask_lock, st>>

\* pending_fork is raised before the fork
CountFork ==
  LET c == First(cpumask) IN
  /\ parent = "loop" /\ cpumask # {c}
  /\ cpumask' = cpumask \ {c}
  /\ forking' = c
  /\ pending_fork' = pending_fork + 1
  /\ parent' = "fork"
  /\ UNCHANGED <<vars, core_mask, mask_lock, st>>

Fork ==
  /\ parent = "fork"
  /\ Be(forking, "affinity")
  /\ parent' = "loop"
  /\ UNCHANGED <<vars, cpumask, forking, pending_fork, core_mask, mask_lock>>

\* "Fork failed": the parent exits, the children stay
ForkFails ==
  /\ Faults
  /\ parent = "fork"
  /\ parent' = "exit"
  /\ UNCHANGED <<vars, cpumask, forking, pending_fork, core_mask, mask_lock, st>>

-----------------------------------------------------------------------------
(* every process, on its CPU *)

SetAffinity(c) ==
  /\ st[c] = "affinity"
  /\ Be(c, "lock")
  /\ UNCHANGED <<vars, cpumask, parent, forking, pending_fork, core_mask, mask_lock>>

\* "sched_setaffinity failed": the process exits
AffinityFails(c) ==
  /\ Faults
  /\ st[c] = "affinity"
  /\ Be(c, "exit")
  /\ UNCHANGED <<vars, cpumask, parent, forking, pending_fork, core_mask, mask_lock>>

LockMask(c) ==
  /\ st[c] = "lock" /\ ~mask_lock
  /\ mask_lock' = TRUE
  /\ Be(c, "mask")
  /\ UNCHANGED <<vars, cpumask, parent, forking, pending_fork, core_mask>>

\* faulty: the CPU is entered by whoever finds the mask empty
EnterMask_First(c) ==
  /\ st[c] = "mask"
  /\ core_mask' = IF core_mask = {} THEN {c} ELSE core_mask
  /\ Be(c, "count")
  /\ UNCHANGED <<vars, cpumask, parent, forking, pending_fork, mask_lock>>

EnterMask(c) ==
  /\ st[c] = "mask"
  /\ core_mask' = core_mask \cup {c}
  /\ Be(c, "count")
  /\ UNCHANGED <<vars, cpumask, parent, forking, pending_fork, mask_lock>>

CountDown(c) ==
  /\ st[c] = "count"
  /\ pending_fork' = pending_fork - 1
  /\ Be(c, "unlock")
  /\ UNCHANGED <<vars, cpumask, parent, forking, core_mask, mask_lock>>

UnlockMask(c) ==
  /\ st[c] = "unlock"
  /\ mask_lock' = FALSE
  /\ Be(c, "spin")
  /\ UNCHANGED <<vars, cpumask, parent, forking, pending_fork, core_mask>>

\* pending_fork is seen to be zero, core_mask is read
EnterBarrier(c) ==
  /\ st[c] = "spin" /\ pending_fork = 0
  /\ Call(c, core_mask)
  /\ Be(c, "barrier")
  /\ UNCHANGED <<cpumask, parent, forking, pending_fork, core_mask, mask_lock>>

\* a step of cvmx_coremask_barrier_sync
InBarrier(c) ==
  /\ st[c] \in {"barrier", "app"}
  /\ Step(c)
  /\ UNCHANGED startVars

AppMain(c) ==
  /\ st[c] = "barrier" /\ pc[c] = "out"
  /\ Be(c, "app")
  /\ UNCHANGED <<vars, cpumask, parent, forking, pending_fork, core_mask, mask_lock>>

\* appmain calls cvmx_coremask_barrier_sync
AppCall(c, m) ==
  /\ st[c] = "app"
  /\ Call(c, m)
  /\ UNCHANGED startVars

-----------------------------------------------------------------------------
Run(c) ==
  \/ SetAffinity(c) \/ LockMask(c) \/ EnterMask(c) \/ CountDown(c) \/ UnlockMask(c)
  \/ EnterBarrier(c) \/ InBarrier(c) \/ AppMain(c)

StartNext ==
  \/ KeepLast \/ CountFork \/ Fork \/ ForkFails
  \/ \E c \in Core : Run(c) \/ AffinityFails(c) \/ \E m \in AppMasks : AppCall(c, m)

\* Linux runs every process; calls are bounded, so that the last one to want
\* either lock finds it free
StartSpec ==
  /\ StartInit /\ [][StartNext]_allVars
  /\ WF_allVars(KeepLast \/ CountFork \/ Fork)
  /\ \A c \in Core : WF_allVars(Run(c))

-----------------------------------------------------------------------------
\* Every process calls the barrier with the same mask, that of all the CPUs of
\* the application: what cvmx_coremask_barrier_sync relies on.
SameMask ==
  \A c \in Core : st[c] = "barrier" /\ pc[c] # "out" => arg[c] = Core

\* No process runs appmain before each of them, on its own CPU, is in the mask
\* and at the barrier, also when a fork or an affinity call failed.
AllOrNone ==
  (\E c \in Core : st[c] = "app") =>
    \A c \in Core : c \in core_mask /\ st[c] \in {"barrier", "app"}

\* pending_fork counts the processes that are not yet in the mask, the parent as
\* one of them until it takes its CPU, so that it is zero only at the end.
PendingCounts ==
  LET coming == {c \in Core : st[c] \in {"affinity", "lock", "mask", "count", "exit"}}
  IN pending_fork = Cardinality(coming)
                    + (IF parent \in {"fork", "exit"} THEN 1 ELSE 0)
                    + (IF parent = "done" THEN 0 ELSE 1)

\* The start is sound, whatever fails and whoever is faster: one mask for all,
\* all or none through the barrier, pending_fork exact, and no coremask with
\* two entries in the barrier's table.
StartSound ==
  StartTypeOK /\ SameMask /\ AllOrNone /\ PendingCounts /\ OneEntryPerMask

Failed == parent = "exit" \/ \E c \in Core : st[c] = "exit"

\* Without a failed fork or affinity call every CPU of the affinity mask comes
\* to run appmain.
AllStart == []~Failed => <>[](\A c \in Core : st[c] = "app")
=============================================================================
