--------------------------- MODULE AppStart_proofs ---------------------------
(***************************************************************************)
(* Proofs about the coremask barrier and the start of an application in    *)
(* front of it, for any number of CPUs and coremasks, any size of the      *)
(* table and any wrap-around of the exit counts.                           *)
(***************************************************************************)
EXTENDS AppStart, FiniteSetTheorems, WellFoundedInduction, TLAPS

(* The barrier *)

Guarded == {"search", "unlock", "overflow"}
In      == {"unlock", "poll"}

\* one core at a time is between cvmx_spinlock_lock and cvmx_spinlock_unlock
LockKept ==
  /\ \A c, d \in Core : pc[c] \in Guarded /\ pc[d] \in Guarded => c = d
  /\ \A c \in Core : pc[c] \in Guarded => lock

\* a core in the call is one of the coremask it called with, and once it has
\* checked in, its slot is that coremask's
CallsKept ==
  \A c \in Core :
    /\ pc[c] # "out" => arg[c] \in Masks /\ c \in arg[c]
    /\ pc[c] \in In => slot[c] \in Slots /\ coremask[slot[c]] = arg[c]

\* entries are claimed from the front of the table, and an entry is never full:
\* the last core to check in empties it
EntriesKept ==
  /\ \A i, j \in Slots : i < j /\ coremask[i] = {} => coremask[j] = {}
  /\ \A i \in Slots : /\ checkin[i] \subseteq coremask[i]
                      /\ coremask[i] # {} => checkin[i] # coremask[i]

\* who is checked in waits for the next value of the counter; whoever is inside
\* and no longer checked in sees the value it waits for
WaitsKept ==
  /\ \A i \in Slots : \A c \in checkin[i] :
       pc[c] \in In /\ slot[c] = i /\ target[c] = NextExit(i)
  /\ \A c \in Core : pc[c] \in In /\ c \notin checkin[slot[c]] => target[c] = exit[slot[c]]

\* all cores of a coremask have called equally often but for those checked in,
\* who are one call ahead
RoundsKept ==
  /\ \A i \in Slots : \A c, d \in coremask[i] :
       /\ (c \in checkin[i] <=> d \in checkin[i])
            => rounds[c][coremask[i]] = rounds[d][coremask[i]]
       /\ c \in checkin[i] /\ d \notin checkin[i]
            => rounds[c][coremask[i]] = rounds[d][coremask[i]] + 1
  /\ \A m \in Masks : (\A i \in Slots : coremask[i] # m) => \A c \in m : rounds[c][m] = 0

\* The invariant of the barrier
BarrierInv ==
  /\ TypeOK /\ LockKept /\ CallsKept /\ EntriesKept /\ OneEntryPerMask
  /\ WaitsKept /\ RoundsKept

LEMMA BarrierInit == Init => BarrierInv
<1> SUFFICES ASSUME Init PROVE BarrierInv
  OBVIOUS
<1> USE SizeAssumption, MaskAssumption DEF Init
<1>1. TypeOK
  <2>1. lock \in BOOLEAN
    BY Zenon
  <2>2. exit \in [Slots -> 0 .. Wrap - 1] /\ target \in [Core -> 0 .. Wrap - 1]
    OBVIOUS
  <2>3. rounds \in [Core -> [Masks -> Nat]]
    OBVIOUS
  <2>4. /\ coremask \in [Slots -> Masks \cup {{}}] /\ checkin \in [Slots -> SUBSET Core]
        /\ arg \in [Core -> Masks \cup {{}}] /\ slot \in [Core -> Slots \cup {None}]
        /\ pc \in [Core -> PcValues]
    BY DEF PcValues
  <2> QED
    BY <2>1, <2>2, <2>3, <2>4 DEF TypeOK
<1>2. LockKept /\ CallsKept /\ EntriesKept /\ OneEntryPerMask
  BY DEF LockKept, CallsKept, EntriesKept, OneEntryPerMask, Guarded, In
<1>3. WaitsKept /\ RoundsKept
  BY DEF WaitsKept, RoundsKept, In
<1> QED
  BY <1>1, <1>2, <1>3 DEF BarrierInv

\* the steps that leave the table alone and those inside it in place
LEMMA OutsideInv ==
  ASSUME BarrierInv, NEW c \in Core,
         TakeLock(c) \/ TableFull(c) \/ \E m \in Masks : Call(c, m)
  PROVE  BarrierInv'
<1> USE DEF BarrierInv
<1>1. /\ UNCHANGED <<coremask, checkin, exit, slot, target, rounds>>
      /\ pc' \in [Core -> PcValues] /\ pc[c] \notin In /\ pc'[c] \notin In \cup {"out"}
      /\ \A d \in Core \ {c} : pc'[d] = pc[d] /\ arg'[d] = arg[d]
  BY ZenonT(30) DEF TakeLock, TableFull, Call, Goto, TypeOK, table, PcValues, In
<1>2. arg' \in [Core -> Masks \cup {{}}] /\ arg'[c] \in Masks /\ c \in arg'[c]
  BY DEF TakeLock, TableFull, Call, TypeOK, CallsKept
<1>3. lock' \in BOOLEAN
  BY Zenon DEF TakeLock, TableFull, Call, TypeOK
<1>4. TypeOK'
  BY <1>1, <1>2, <1>3 DEF TypeOK
<1>5. LockKept'
  <2>1. CASE TakeLock(c)
    BY <2>1 DEF TakeLock, Goto, LockKept, TypeOK, Guarded
  <2>2. CASE ~TakeLock(c)
    BY <2>2 DEF TableFull, Call, Goto, LockKept, TypeOK, Guarded
  <2> QED
    BY <2>1, <2>2
<1>6. CallsKept'
  BY <1>1, <1>2 DEF CallsKept
<1>7. EntriesKept' /\ OneEntryPerMask' /\ RoundsKept'
  BY <1>1 DEF EntriesKept, OneEntryPerMask, RoundsKept
<1>8. WaitsKept'
  BY <1>1, SMTT(20) DEF WaitsKept, NextExit, TypeOK
<1> QED
  BY <1>4, <1>5, <1>6, <1>7, <1>8

LEMMA DropLockInv ==
  ASSUME BarrierInv, NEW c \in Core, DropLock(c)
  PROVE  BarrierInv'
<1> USE DEF BarrierInv
<1>1. /\ UNCHANGED <<coremask, checkin, exit, arg, slot, target, rounds>>
      /\ pc' \in [Core -> PcValues] /\ pc'[c] \in {"poll", "abort"}
      /\ pc[c] \in Guarded
      /\ pc'[c] \in In <=> pc[c] \in In
      /\ \A d \in Core \ {c} : pc'[d] = pc[d]
  BY DEF DropLock, Goto, TypeOK, table, PcValues, In, Guarded
<1>2. lock' \in BOOLEAN
  BY Zenon DEF DropLock
<1>3. TypeOK'
  BY <1>1, <1>2 DEF TypeOK
<1>4. LockKept'
  BY <1>1 DEF LockKept, Guarded
<1>5. CallsKept'
  BY <1>1 DEF CallsKept, Guarded
<1>6. EntriesKept' /\ OneEntryPerMask' /\ RoundsKept'
  BY <1>1 DEF EntriesKept, OneEntryPerMask, RoundsKept
<1>7. WaitsKept'
  <2>1. \A d \in Core : pc'[d] \in In <=> pc[d] \in In
    BY <1>1
  <2> QED
    BY <1>1, <2>1 DEF WaitsKept, NextExit, TypeOK
<1> QED
  BY <1>3, <1>4, <1>5, <1>6, <1>7

\* the counter's next value is another one, also where it wraps around
LEMMA NextExitOther ==
  ASSUME TypeOK, NEW i \in Slots
  PROVE  NextExit(i) \in 0 .. Wrap - 1 /\ NextExit(i) # exit[i]
<1>1. exit[i] \in Nat /\ exit[i] <= Wrap - 1 /\ Wrap \in Nat /\ Wrap >= 2
  BY SizeAssumption DEF TypeOK
<1>2. CASE exit[i] = Wrap - 1
  BY <1>1, <1>2 DEF NextExit
<1>3. CASE exit[i] # Wrap - 1
  <2>1. (exit[i] + 1) % Wrap = exit[i] + 1
    BY <1>1, <1>3
  <2> QED
    BY <1>1, <1>3, <2>1 DEF NextExit
<1> QED
  BY <1>2, <1>3

LEMMA LeaveInv ==
  ASSUME BarrierInv, NEW c \in Core, Leave(c)
  PROVE  BarrierInv'
<1> USE DEF BarrierInv
<1>1. /\ UNCHANGED <<lock, coremask, checkin, exit, rounds>>
      /\ pc' \in [Core -> PcValues] /\ pc'[c] = "out" /\ pc[c] = "poll"
      /\ \A d \in Core \ {c} : /\ pc'[d] = pc[d] /\ arg'[d] = arg[d]
                               /\ slot'[d] = slot[d] /\ target'[d] = target[d]
  BY DEF Leave, Goto, TypeOK, table, PcValues
<1>2. /\ arg' \in [Core -> Masks \cup {{}}] /\ slot' \in [Core -> Slots \cup {None}]
      /\ target' \in [Core -> 0 .. Wrap - 1]
  BY SizeAssumption DEF Leave, TypeOK
<1>3. TypeOK'
  BY <1>1, <1>2 DEF TypeOK
<1>4. \A i \in Slots : c \notin checkin[i]
  <2> SUFFICES ASSUME NEW i \in Slots, c \in checkin[i]
               PROVE  FALSE
    OBVIOUS
  <2>1. slot[c] = i /\ target[c] = NextExit(i)
    BY DEF WaitsKept
  <2>2. exit[i] = target[c]
    BY <2>1 DEF Leave
  <2> QED
    BY <2>1, <2>2, NextExitOther
<1>5. LockKept' /\ CallsKept'
  BY <1>1 DEF LockKept, CallsKept, Guarded, In
<1>6. EntriesKept' /\ OneEntryPerMask' /\ RoundsKept'
  BY <1>1 DEF EntriesKept, OneEntryPerMask, RoundsKept
<1>7. WaitsKept'
  <2>1. ASSUME NEW i \in Slots, NEW d \in checkin'[i]
        PROVE  pc'[d] \in In /\ slot'[d] = i /\ target'[d] = NextExit(i)'
    <3>1. d \in checkin[i] /\ d # c /\ d \in Core
      BY <1>1, <1>4 DEF TypeOK
    <3> QED
      BY <1>1, <3>1 DEF WaitsKept, NextExit
  <2>2. ASSUME NEW d \in Core, pc'[d] \in In, d \notin checkin'[slot'[d]]
        PROVE  target'[d] = exit'[slot'[d]]
    <3>1. d # c
      BY <1>1, <2>2 DEF In
    <3> QED
      BY <1>1, <2>2, <3>1 DEF WaitsKept
  <2> QED
    BY <2>1, <2>2 DEF WaitsKept
<1> QED
  BY <1>3, <1>5, <1>6, <1>7

\* A core checks in: the first entry that is free or its own becomes or stays
\* its coremask's only one; the last to come lets all others out at once.
LEMMA CheckInInv ==
  ASSUME BarrierInv, NEW c \in Core, CheckIn(c)
  PROVE  BarrierInv'
<1> USE DEF BarrierInv
<1> DEFINE m == arg[c]
<1>1. PICK i \in Slots :
        /\ Entry(m, i)
        /\ coremask' = [coremask EXCEPT ![i] = m]
        /\ target' = [target EXCEPT ![c] = NextExit(i)]
        /\ slot' = [slot EXCEPT ![c] = i]
        /\ checkin' = [checkin EXCEPT ![i] = CheckedIn(i, c)]
        /\ exit' = [exit EXCEPT ![i] = ExitOf(i, c)]
  BY DEF CheckIn
<1>2. /\ UNCHANGED <<lock, arg>> /\ pc[c] = "search" /\ pc' = [pc EXCEPT ![c] = "unlock"]
      /\ rounds' = [rounds EXCEPT ![c] = [rounds[c] EXCEPT ![m] = @ + 1]]
  BY DEF CheckIn, Goto
<1>3. m \in Masks /\ c \in m /\ m \subseteq Core
  BY <1>2, MaskAssumption DEF CallsKept
<1>4. \A j \in Slots : c \notin checkin[j]
  BY <1>2 DEF WaitsKept, In
<1>5. /\ coremask[i] = {} \/ coremask[i] = m
      /\ \A j \in Slots : j < i => coremask[j] # {} /\ coremask[j] # m
  BY <1>1 DEF Entry
<1>6. \A j \in Slots \ {i} : coremask[j] # m
  <2> SUFFICES ASSUME NEW j \in Slots \ {i}, coremask[j] = m
               PROVE  FALSE
    OBVIOUS
  <2>1. i < j
    BY <1>5, SizeAssumption DEF Slots
  <2>2. coremask[i] # {}
    BY <1>3, <2>1 DEF EntriesKept
  <2> QED
    BY <1>3, <1>5, <2>2 DEF OneEntryPerMask
<1>7. checkin[i] \subseteq m /\ checkin[i] # m
  BY <1>3, <1>4, <1>5 DEF EntriesKept
<1>8. /\ coremask'[i] = m /\ \A j \in Slots \ {i} : coremask'[j] = coremask[j]
      /\ checkin'[i] = CheckedIn(i, c) /\ \A j \in Slots \ {i} : checkin'[j] = checkin[j]
      /\ exit'[i] = ExitOf(i, c) /\ \A j \in Slots \ {i} : exit'[j] = exit[j]
  BY <1>1 DEF TypeOK
<1>9. /\ target'[c] = NextExit(i) /\ slot'[c] = i /\ pc'[c] = "unlock"
      /\ \A d \in Core \ {c} : target'[d] = target[d] /\ slot'[d] = slot[d] /\ pc'[d] = pc[d]
  BY <1>1, <1>2 DEF TypeOK
<1>10. /\ rounds \in [Core -> [Masks -> Nat]] /\ rounds' \in [Core -> [Masks -> Nat]]
       /\ rounds'[c][m] = rounds[c][m] + 1
       /\ \A d \in Core, n \in Masks : d # c \/ n # m => rounds'[d][n] = rounds[d][n]
  BY <1>2, <1>3 DEF TypeOK
<1>11. TypeOK'
  <2>1. NextExit(i) \in 0 .. Wrap - 1
    BY NextExitOther
  <2>2. ExitOf(i, c) \in 0 .. Wrap - 1 /\ CheckedIn(i, c) \subseteq Core
    BY <1>3, <1>7, <2>1 DEF ExitOf, CheckedIn, TypeOK
  <2>3. exit' \in [Slots -> 0 .. Wrap - 1] /\ target' \in [Core -> 0 .. Wrap - 1]
    BY <1>1, <2>1, <2>2 DEF TypeOK
  <2>4. /\ coremask' \in [Slots -> Masks \cup {{}}] /\ checkin' \in [Slots -> SUBSET Core]
        /\ slot' \in [Core -> Slots \cup {None}] /\ pc' \in [Core -> PcValues]
    BY <1>1, <1>2, <1>3, <2>2 DEF TypeOK, PcValues
  <2> QED
    BY <1>2, <1>10, <2>3, <2>4 DEF TypeOK
<1>12. LockKept'
  BY <1>2, <1>9 DEF LockKept, Guarded
<1>13. CallsKept'
  <2> SUFFICES ASSUME NEW d \in Core
               PROVE  /\ pc'[d] # "out" => arg'[d] \in Masks /\ d \in arg'[d]
                      /\ pc'[d] \in In => slot'[d] \in Slots /\ coremask'[slot'[d]] = arg'[d]
    BY DEF CallsKept
  <2>1. CASE d = c
    BY <1>2, <1>3, <1>8, <1>9, <2>1
  <2>2. CASE d # c
    <3>1. pc'[d] # "out" => arg'[d] \in Masks /\ d \in arg'[d]
      BY <1>2, <1>9, <2>2 DEF CallsKept
    <3>2. ASSUME pc'[d] \in In
          PROVE  slot'[d] \in Slots /\ coremask'[slot'[d]] = arg'[d]
      <4>1. /\ slot'[d] = slot[d] /\ slot[d] \in Slots /\ coremask[slot[d]] = arg[d]
            /\ arg[d] # {} /\ arg'[d] = arg[d]
        BY <1>2, <1>9, <2>2, <3>2, MaskAssumption DEF CallsKept, In
      <4> QED
        BY <1>5, <1>8, <4>1
    <3> QED
      BY <3>1, <3>2
  <2> QED
    BY <2>1, <2>2
<1>14. OneEntryPerMask'
  BY <1>6, <1>8 DEF OneEntryPerMask
<1>15. EntriesKept'
  <2>1. ASSUME NEW j \in Slots, NEW k \in Slots, j < k, coremask'[j] = {}
        PROVE  coremask'[k] = {}
    <3>1. j # i
      BY <1>3, <1>8, <2>1
    <3>2. coremask[j] = {}
      BY <1>8, <2>1, <3>1
    <3>3. k # i
      BY <1>5, <2>1, <3>2
    <3> QED
      BY <1>8, <2>1, <3>2, <3>3 DEF EntriesKept
  <2>2. ASSUME NEW j \in Slots
        PROVE  checkin'[j] \subseteq coremask'[j]
               /\ (coremask'[j] # {} => checkin'[j] # coremask'[j])
    <3>1. CASE j = i
      BY <1>3, <1>7, <1>8, <3>1 DEF CheckedIn, AllIn
    <3>2. CASE j # i
      BY <1>8, <3>2 DEF EntriesKept
    <3> QED
      BY <3>1, <3>2
  <2> QED
    BY <2>1, <2>2 DEF EntriesKept
<1>16. WaitsKept'
  <2>1. ASSUME NEW j \in Slots, NEW d \in checkin'[j]
        PROVE  pc'[d] \in In /\ slot'[d] = j /\ target'[d] = NextExit(j)'
    <3>1. CASE j # i
      <4>1. d \in checkin[j] /\ d # c /\ d \in Core /\ exit'[j] = exit[j]
        BY <1>4, <1>8, <2>1, <3>1 DEF TypeOK
      <4> QED
        BY <1>9, <4>1 DEF WaitsKept, NextExit
    <3>2. CASE j = i
      <4>1. ~AllIn(i, c) /\ d \in checkin[i] \cup {c} /\ exit'[i] = exit[i]
        BY <1>8, <2>1, <3>2 DEF CheckedIn, ExitOf
      <4>2. CASE d = c
        BY <1>9, <3>2, <4>1, <4>2 DEF NextExit, In
      <4>3. CASE d # c
        <5>1. d \in checkin[i] /\ d \in Core
          BY <4>1, <4>3 DEF TypeOK
        <5> QED
          BY <1>9, <3>2, <4>1, <4>3, <5>1 DEF WaitsKept, NextExit
      <4> QED
        BY <4>2, <4>3
    <3> QED
      BY <3>1, <3>2
  <2>2. ASSUME NEW d \in Core, pc'[d] \in In, d \notin checkin'[slot'[d]]
        PROVE  target'[d] = exit'[slot'[d]]
    <3>1. CASE d = c
      <4>1. AllIn(i, c)
        BY <1>8, <1>9, <2>2, <3>1 DEF CheckedIn
      <4> QED
        BY <1>8, <1>9, <3>1, <4>1 DEF ExitOf
    <3>2. CASE d # c
      <4>1. /\ slot'[d] = slot[d] /\ slot[d] \in Slots /\ pc[d] \in In
            /\ coremask[slot[d]] = arg[d] /\ d \in arg[d] /\ target'[d] = target[d]
        BY <1>9, <2>2, <3>2 DEF CallsKept, In
      <4>2. CASE slot[d] # i
        BY <1>8, <2>2, <4>1, <4>2 DEF WaitsKept
      <4>3. CASE slot[d] = i /\ ~AllIn(i, c)
        BY <1>8, <2>2, <4>1, <4>3 DEF WaitsKept, CheckedIn, ExitOf
      <4>4. CASE slot[d] = i /\ AllIn(i, c)
        <5>1. d \in m
          BY <1>5, <4>1, <4>4
        <5>2. d \in checkin[i]
          BY <3>2, <4>4, <5>1 DEF AllIn
        <5>3. target[d] = NextExit(i)
          BY <5>2 DEF WaitsKept
        <5> QED
          BY <1>8, <4>1, <4>4, <5>3 DEF ExitOf
      <4> QED
        BY <4>2, <4>3, <4>4
    <3> QED
      BY <3>1, <3>2
  <2> QED
    BY <2>1, <2>2 DEF WaitsKept
<1>17. RoundsKept'
  <2>1. ASSUME NEW d \in m, NEW e \in m
        PROVE  /\ (d \in checkin[i] <=> e \in checkin[i]) => rounds[d][m] = rounds[e][m]
               /\ d \in checkin[i] /\ e \notin checkin[i] => rounds[d][m] = rounds[e][m] + 1
    <3>1. CASE coremask[i] = m
      BY <3>1 DEF RoundsKept
    <3>2. CASE coremask[i] = {}
      <4>1. \A j \in Slots : coremask[j] # m
        BY <1>3, <1>6, <3>2
      <4>2. rounds[d][m] = 0 /\ rounds[e][m] = 0
        BY <1>3, <4>1 DEF RoundsKept
      <4>3. checkin[i] = {}
        BY <3>2 DEF EntriesKept
      <4> QED
        BY <4>2, <4>3
    <3> QED
      BY <1>5, <3>1, <3>2
  <2>2. ASSUME NEW d \in m, NEW e \in m
        PROVE  /\ (d \in checkin'[i] <=> e \in checkin'[i]) => rounds'[d][m] = rounds'[e][m]
               /\ d \in checkin'[i] /\ e \notin checkin'[i] => rounds'[d][m] = rounds'[e][m] + 1
    <3>1. \A x \in m : x \in Core /\ rounds[x][m] \in Nat
                       /\ (x # c => rounds'[x][m] = rounds[x][m])
      BY <1>3, <1>10
    <3>2. CASE AllIn(i, c)
      <4>1. checkin'[i] = {}
        BY <1>8, <3>2 DEF CheckedIn
      <4>2. ASSUME NEW x \in m, x # c
            PROVE  rounds'[x][m] = rounds'[c][m]
        <5>1. x \in checkin[i]
          BY <3>2, <4>2 DEF AllIn
        <5>2. rounds[x][m] = rounds[c][m] + 1
          BY <1>3, <1>4, <2>1, <5>1
        <5> QED
          BY <1>10, <3>1, <4>2, <5>2
      <4> QED
        BY <4>1, <4>2
    <3>3. CASE ~AllIn(i, c)
      <4>1. checkin'[i] = checkin[i] \cup {c}
        BY <1>8, <3>3 DEF CheckedIn
      <4>2. ASSUME NEW x \in m, x # c
            PROVE  /\ x \in checkin[i] => rounds'[x][m] = rounds'[c][m]
                   /\ x \notin checkin[i] => rounds'[c][m] = rounds'[x][m] + 1
        <5>1. /\ x \in checkin[i] => rounds[x][m] = rounds[c][m] + 1
              /\ x \notin checkin[i] => rounds[x][m] = rounds[c][m]
          BY <1>3, <1>4, <2>1
        <5> QED
          BY <1>10, <3>1, <4>2, <5>1
      <4> QED
        BY <2>1, <3>1, <4>1, <4>2
    <3> QED
      BY <3>2, <3>3
  <2>3. ASSUME NEW j \in Slots \ {i}, NEW d \in coremask'[j], NEW e \in coremask'[j]
        PROVE  /\ (d \in checkin'[j] <=> e \in checkin'[j])
                    => rounds'[d][coremask'[j]] = rounds'[e][coremask'[j]]
               /\ d \in checkin'[j] /\ e \notin checkin'[j]
                    => rounds'[d][coremask'[j]] = rounds'[e][coremask'[j]] + 1
    <3>1. coremask'[j] = coremask[j] /\ checkin'[j] = checkin[j] /\ coremask[j] # m
      BY <1>6, <1>8
    <3>2. coremask[j] \in Masks /\ coremask[j] \subseteq Core
      BY <3>1, MaskAssumption DEF TypeOK
    <3>3. rounds'[d][coremask[j]] = rounds[d][coremask[j]]
          /\ rounds'[e][coremask[j]] = rounds[e][coremask[j]]
      BY <1>10, <3>1, <3>2
    <3> QED
      BY <3>1, <3>3 DEF RoundsKept
  <2>4. ASSUME NEW n \in Masks, \A j \in Slots : coremask'[j] # n, NEW d \in n
        PROVE  rounds'[d][n] = 0
    <3>1. n # m /\ n # {} /\ d \in Core
      BY <1>8, <2>4, MaskAssumption
    <3>2. \A j \in Slots : coremask[j] # n
      BY <1>5, <1>8, <2>4, <3>1
    <3> QED
      BY <1>10, <3>1, <3>2 DEF RoundsKept
  <2> QED
    BY <1>8, <2>2, <2>3, <2>4 DEF RoundsKept
<1> QED
  BY <1>11, <1>12, <1>13, <1>14, <1>15, <1>16, <1>17

\* Every step of a call keeps the invariant.
LEMMA BarrierStep ==
  ASSUME BarrierInv, NEW c \in Core, Step(c) \/ \E m \in Masks : Call(c, m)
  PROVE  BarrierInv'
BY OutsideInv, CheckInInv, DropLockInv, LeaveInv DEF Step

LEMMA BarrierStutter == ASSUME BarrierInv, UNCHANGED vars PROVE BarrierInv'
BY SMTT(20) DEF BarrierInv, vars, TypeOK, LockKept, CallsKept, EntriesKept, OneEntryPerMask,
       WaitsKept, RoundsKept, NextExit

\* The invariant says that nobody leaves early and nobody misses the exit.
LEMMA BarrierSafe == BarrierInv => NoEarlyExit /\ ExitNotMissed
<1> SUFFICES ASSUME BarrierInv PROVE NoEarlyExit /\ ExitNotMissed
  OBVIOUS
<1> USE DEF BarrierInv
<1>1. NoEarlyExit
  <2> SUFFICES ASSUME NEW m \in Masks, NEW c \in m, NEW d \in m, ~Inside(c, m)
               PROVE  rounds[d][m] >= rounds[c][m]
    BY DEF NoEarlyExit
  <2>0. c \in Core /\ d \in Core /\ rounds[c][m] \in Nat /\ rounds[d][m] \in Nat
    BY MaskAssumption DEF TypeOK
  <2>1. CASE \A i \in Slots : coremask[i] # m
    <3>1. rounds[c][m] = 0 /\ rounds[d][m] = 0
      BY <2>1 DEF RoundsKept
    <3> QED
      BY <3>1
  <2>2. ASSUME NEW i \in Slots, coremask[i] = m
        PROVE  rounds[d][m] >= rounds[c][m]
    <3>1. c \notin checkin[i]
      <4> SUFFICES ASSUME c \in checkin[i] PROVE FALSE
        OBVIOUS
      <4>1. pc[c] \in In /\ slot[c] = i
        BY DEF WaitsKept
      <4>2. arg[c] = m
        BY <2>0, <2>2, <4>1 DEF CallsKept
      <4> QED
        BY <4>1, <4>2 DEF Inside, In
    <3>2. \/ rounds[d][m] = rounds[c][m]
          \/ rounds[d][m] = rounds[c][m] + 1
      BY <2>2, <3>1 DEF RoundsKept
    <3> QED
      BY <2>0, <3>2
  <2> QED
    BY <2>1, <2>2
<1>2. ExitNotMissed
  BY DEF ExitNotMissed, WaitsKept, CallsKept, In, NextExit
<1> QED
  BY <1>1, <1>2

-----------------------------------------------------------------------------
(* The start *)

Waiting == {"affinity", "lock", "mask", "count", "exit"}
Present == {"count", "unlock", "spin", "barrier", "app"}
Running == {"barrier", "app"}
Coming  == {c \in Core : st[c] \in Waiting}

\* a CPU without a process is still to be counted or the one the parent forks
\* for, and the parent keeps the last one for itself
ParentKept ==
  /\ parent = "done" <=> cpumask = {}
  /\ parent \in {"fork", "exit"} => st[forking] = "none" /\ forking \notin cpumask
  /\ \A c \in Core :
       st[c] = "none" <=> c \in cpumask \/ (parent \in {"fork", "exit"} /\ c = forking)

\* whoever has entered its CPU finds it in the mask, and whoever got past
\* pending_fork finds all of them there
MaskKept ==
  \A c \in Core : /\ st[c] \in Present => c \in core_mask
                  /\ st[c] \in Running => core_mask = Core

\* only a process past the spin has called the barrier, and one that is through
\* its first call has made it
CallersKept ==
  \A c \in Core :
    /\ st[c] \notin Running => pc[c] = "out" /\ \A m \in Masks : rounds[c][m] = 0
    /\ st[c] = "barrier" /\ pc[c] \in In \cup {"out"} => rounds[c][Core] > 0

\* The invariant of the start
StartInv ==
  /\ BarrierInv /\ StartTypeOK /\ ParentKept /\ MaskKept /\ CallersKept
  /\ SameMask /\ AllOrNone /\ PendingCounts

\* a non-empty set of CPUs has a first one
LEMMA FirstIn == ASSUME NEW S, S \subseteq Core, S # {} PROVE First(S) \in S
<1>0. S \subseteq Nat
  BY CpuAssumption
<1>1. PICK m \in S : \A k \in S : ~(<<k, m>> \in OpToRel(<, Nat))
  BY <1>0, NatLessThanWellFounded, WFMin, Zenon
<1>2. ASSUME NEW k \in S, ~(m <= k)
      PROVE  FALSE
  <2>1. k \in Nat /\ m \in Nat /\ k < m
    BY <1>0, <1>2
  <2>2. <<k, m>> \in {ss \in Nat \X Nat : ss[1] < ss[2]}
    BY <2>1
  <2> QED
    BY <1>1, <2>2 DEF OpToRel
<1> QED
  BY <1>2 DEF First

\* how many CPUs a set leaves out
LEMMA RoomLeft ==
  ASSUME NEW S, S \subseteq Core
  PROVE  /\ IsFiniteSet(S) /\ Cardinality(S) \in Nat /\ Cardinality(Core) \in Nat
         /\ Cardinality(S) <= Cardinality(Core)
         /\ \A x \in Core \ S : Cardinality(S) + 1 <= Cardinality(Core)
         /\ \A x, y \in Core \ S : x # y => Cardinality(S) + 2 <= Cardinality(Core)
<1>1. /\ IsFiniteSet(Core) /\ IsFiniteSet(S) /\ Cardinality(S) \in Nat
      /\ Cardinality(Core) \in Nat /\ Cardinality(S) <= Cardinality(Core)
  BY CpuAssumption, FS_Subset, FS_CardinalityType
<1>2. ASSUME NEW x \in Core \ S
      PROVE  /\ IsFiniteSet(S \cup {x}) /\ S \cup {x} \subseteq Core
             /\ Cardinality(S \cup {x}) = Cardinality(S) + 1
             /\ Cardinality(S \cup {x}) <= Cardinality(Core)
  <2>1. S \cup {x} \subseteq Core
    OBVIOUS
  <2> QED
    BY <1>1, <2>1, FS_AddElement, FS_Subset, CpuAssumption
<1>3. ASSUME NEW x \in Core \ S, NEW y \in Core \ S, x # y
      PROVE  Cardinality(S) + 2 <= Cardinality(Core)
  <2> DEFINE U == S \cup {x}
             V == U \cup {y}
  <2>1. V \subseteq Core /\ y \notin U
    BY <1>3
  <2>2. Cardinality(V) = Cardinality(U) + 1
    BY <1>2, <2>1, FS_AddElement
  <2>3. Cardinality(V) <= Cardinality(Core)
    BY <2>1, FS_Subset, CpuAssumption
  <2>4. Cardinality(U) = Cardinality(S) + 1
    BY <1>2
  <2> HIDE DEF U, V
  <2> QED
    BY <1>1, <2>2, <2>3, <2>4
<1> QED
  BY <1>1, <1>2, <1>3

LEMMA StartsInv == StartInit => StartInv
<1> SUFFICES ASSUME StartInit PROVE StartInv
  OBVIOUS
<1> USE DEF StartInit
<1>1. BarrierInv
  BY BarrierInit
<1>2. First(Core) \in Core
  BY FirstIn, CpuAssumption
<1>3. Coming = {}
  BY DEF Coming, Waiting
<1>4. PendingCounts
  BY <1>3, FS_EmptySet DEF PendingCounts, Coming, Waiting, Pending
<1>5. ParentKept
  BY CpuAssumption DEF ParentKept
<1>6. MaskKept /\ CallersKept /\ SameMask /\ AllOrNone
  BY DEF MaskKept, CallersKept, SameMask, AllOrNone, Present, Running, Init
<1>7. pending_fork \in 0 .. Cardinality(Core)
  <2>1. PICK x \in Core : TRUE
    BY CpuAssumption
  <2>2. Cardinality({}) + 1 <= Cardinality(Core) /\ Cardinality(Core) \in Nat
    BY <2>1, RoomLeft
  <2> QED
    BY <2>2, FS_EmptySet DEF Pending
<1>8. mask_lock \in BOOLEAN
  BY Zenon
<1>9. StartTypeOK
  BY <1>1, <1>2, <1>7, <1>8 DEF StartTypeOK, BarrierInv, StValues
<1> QED
  BY <1>1, <1>4, <1>5, <1>6, <1>9 DEF StartInv

\* pending_fork stays within the CPUs: those not yet in the mask, and while the
\* parent is in its loop it has kept one
LEMMA PendingInRange ==
  ASSUME st' \in [Core -> StValues], cpumask' \subseteq Core, forking' \in Core,
         parent' \in {"loop", "fork", "done", "exit"}, ParentKept', PendingCounts'
  PROVE  pending_fork' \in 0 .. Cardinality(Core)
<1> DEFINE S == {c \in Core : st'[c] \in Waiting}
<1>1. S \subseteq Core
  OBVIOUS
<1>2. pending_fork' = Cardinality(S) + (IF parent' \in {"fork", "exit"} THEN 1 ELSE 0)
                                     + (IF parent' = "done" THEN 0 ELSE 1)
  BY DEF PendingCounts, Waiting
<1>3. \A x \in cpumask' : x \in Core \ S
  BY DEF ParentKept, Waiting
<1>4. parent' \in {"fork", "exit"} => forking' \in Core \ S
  BY DEF ParentKept, Waiting
<1> HIDE DEF S
<1>5. CASE parent' = "done"
  BY <1>1, <1>2, <1>5, RoomLeft
<1>6. CASE parent' = "loop"
  <2>1. PICK x \in cpumask' : TRUE
    BY <1>6 DEF ParentKept
  <2>2. Cardinality(S) + 1 <= Cardinality(Core)
    BY <1>1, <1>3, <2>1, RoomLeft
  <2> QED
    BY <1>1, <1>2, <1>6, <2>2, RoomLeft
<1>7. CASE parent' \in {"fork", "exit"}
  <2>1. PICK x \in cpumask' : TRUE
    BY <1>7 DEF ParentKept
  <2>2. x # forking'
    BY <1>7, <2>1 DEF ParentKept
  <2>3. Cardinality(S) + 2 <= Cardinality(Core)
    BY <1>1, <1>3, <1>4, <1>7, <2>1, <2>2, RoomLeft
  <2> QED
    BY <1>1, <1>2, <1>7, <2>3, RoomLeft
<1> QED
  BY <1>5, <1>6, <1>7

\* what the move of one process does to the number of those that are coming
LEMMA ComingMoves ==
  ASSUME st \in [Core -> StValues], NEW c \in Core, NEW l \in StValues, Be(c, l)
  PROVE  /\ Cardinality(Coming) \in Nat
         /\ (st[c] \in Waiting <=> l \in Waiting) => Coming' = Coming
         /\ st[c] \notin Waiting /\ l \in Waiting
              => Cardinality(Coming') = Cardinality(Coming) + 1
         /\ st[c] \in Waiting /\ l \notin Waiting
              => Cardinality(Coming') = Cardinality(Coming) - 1
<1>1. IsFiniteSet(Coming) /\ Cardinality(Coming) \in Nat
  BY RoomLeft DEF Coming
<1>2. st'[c] = l /\ \A d \in Core : d # c => st'[d] = st[d]
  BY DEF Be
<1>3. (st[c] \in Waiting <=> l \in Waiting) => Coming' = Coming
  BY <1>2 DEF Coming
<1>4. ASSUME st[c] \notin Waiting, l \in Waiting
      PROVE  Cardinality(Coming') = Cardinality(Coming) + 1
  <2>1. Coming' = Coming \cup {c} /\ c \notin Coming
    BY <1>2, <1>4 DEF Coming
  <2> QED
    BY <1>1, <2>1, FS_AddElement
<1>5. ASSUME st[c] \in Waiting, l \notin Waiting
      PROVE  Cardinality(Coming') = Cardinality(Coming) - 1
  <2>1. Coming' = Coming \ {c} /\ c \in Coming
    BY <1>2, <1>5 DEF Coming
  <2> QED
    BY <1>1, <2>1, FS_RemoveElement
<1> QED
  BY <1>1, <1>3, <1>4, <1>5

\* pending_fork as StartSound has it, of the processes that are coming
LEMMA CountOf ==
  PendingCounts <=> pending_fork = Cardinality(Coming)
                                   + (IF parent \in {"fork", "exit"} THEN 1 ELSE 0)
                                   + (IF parent = "done" THEN 0 ELSE 1)
BY DEF PendingCounts, Coming, Waiting

\* The steps of the parent's loop keep the invariant.
LEMMA LoopInv ==
  ASSUME StartInv, KeepLast \/ CountFork \/ Fork \/ ForkFails
  PROVE  StartInv'
<1> USE DEF StartInv
<1>0. UNCHANGED vars /\ UNCHANGED <<core_mask, mask_lock>>
  BY DEF KeepLast, CountFork, Fork, ForkFails
<1>1. BarrierInv' /\ TypeOK' /\ mask_lock' \in BOOLEAN /\ core_mask' \subseteq Core
  BY <1>0, BarrierStutter DEF StartTypeOK, BarrierInv
<1>2. /\ st \in [Core -> StValues] /\ cpumask \subseteq Core /\ forking \in Core
      /\ pending_fork \in Nat /\ parent \in {"loop", "fork", "done", "exit"}
  BY DEF StartTypeOK
<1>3. UNCHANGED <<pc, arg, rounds, core_mask>>
  BY <1>0 DEF vars
<1> SUFFICES /\ st' \in [Core -> StValues] /\ cpumask' \subseteq Core /\ forking' \in Core
             /\ parent' \in {"loop", "fork", "done", "exit"}
             /\ ParentKept' /\ PendingCounts'
             /\ \A c \in Core : /\ st'[c] # st[c] => st[c] = "none" /\ st'[c] = "affinity"
  <2>1. ASSUME /\ st' \in [Core -> StValues] /\ cpumask' \subseteq Core /\ forking' \in Core
               /\ parent' \in {"loop", "fork", "done", "exit"}
               /\ ParentKept' /\ PendingCounts'
               /\ \A c \in Core : /\ st'[c] # st[c] => st[c] = "none" /\ st'[c] = "affinity"
        PROVE  StartInv'
    <3>1. StartTypeOK'
      BY <1>1, <2>1, PendingInRange DEF StartTypeOK
    <3>2. MaskKept' /\ CallersKept' /\ SameMask' /\ AllOrNone'
      BY <1>3, <2>1 DEF MaskKept, CallersKept, SameMask, AllOrNone, Present, Running
    <3> QED
      BY <1>1, <2>1, <3>1, <3>2
  <2> QED
    BY <2>1
<1>4. CASE KeepLast
  <2> DEFINE c == First(cpumask)
  <2>1. /\ parent = "loop" /\ cpumask = {c} /\ cpumask' = {} /\ parent' = "done"
        /\ Be(c, "affinity") /\ UNCHANGED <<forking, pending_fork>>
    BY <1>4 DEF KeepLast
  <2>2. c \in Core /\ st[c] = "none"
    BY <1>2, <2>1 DEF ParentKept
  <2> HIDE DEF c
  <2>3. st' \in [Core -> StValues] /\ st'[c] = "affinity"
        /\ \A d \in Core : d # c => st'[d] = st[d]
    BY <1>2, <2>1, <2>2 DEF Be, StValues
  <2>4. ParentKept'
    BY <2>1, <2>2, <2>3 DEF ParentKept
  <2>5. Cardinality(Coming') = Cardinality(Coming) + 1 /\ Cardinality(Coming) \in Nat
    BY <1>2, <2>1, <2>2, ComingMoves DEF Waiting, StValues
  <2>6. PendingCounts'
    BY <2>1, <2>5, CountOf DEF PendingCounts, Coming, Waiting
  <2> QED
    BY <1>2, <2>1, <2>2, <2>3, <2>4, <2>6
<1>5. CASE CountFork
  <2> DEFINE c == First(cpumask)
  <2>1. /\ parent = "loop" /\ cpumask # {c} /\ cpumask' = cpumask \ {c} /\ parent' = "fork"
        /\ forking' = c /\ pending_fork' = pending_fork + 1 /\ st' = st
    BY <1>5 DEF CountFork
  <2>2. c \in cpumask /\ c \in Core
    BY <1>2, <2>1, FirstIn DEF ParentKept
  <2> HIDE DEF c
  <2>3. ParentKept'
    BY <2>1, <2>2 DEF ParentKept
  <2>4. Coming' = Coming /\ Cardinality(Coming) \in Nat
    BY <2>1, RoomLeft DEF Coming
  <2>5. PendingCounts'
    BY <2>1, <2>4, CountOf DEF PendingCounts, Coming, Waiting
  <2> QED
    BY <1>2, <2>1, <2>2, <2>3, <2>5
<1>6. CASE Fork
  <2>1. /\ parent = "fork" /\ parent' = "loop" /\ Be(forking, "affinity")
        /\ UNCHANGED <<cpumask, forking, pending_fork>>
    BY <1>6 DEF Fork
  <2>2. st[forking] = "none"
    BY <2>1 DEF ParentKept
  <2>3. st' \in [Core -> StValues] /\ st'[forking] = "affinity"
        /\ \A d \in Core : d # forking => st'[d] = st[d]
    BY <1>2, <2>1 DEF Be, StValues
  <2>4. ParentKept'
    BY <2>1, <2>2, <2>3 DEF ParentKept
  <2>5. Cardinality(Coming') = Cardinality(Coming) + 1 /\ Cardinality(Coming) \in Nat
    BY <1>2, <2>1, <2>2, ComingMoves DEF Waiting, StValues
  <2>6. PendingCounts'
    BY <2>1, <2>5, CountOf DEF PendingCounts, Coming, Waiting
  <2> QED
    BY <1>2, <2>1, <2>2, <2>3, <2>4, <2>6
<1>7. CASE ForkFails
  <2>1. /\ parent = "fork" /\ parent' = "exit"
        /\ UNCHANGED <<cpumask, forking, pending_fork, st>>
    BY <1>7 DEF ForkFails
  <2>2. ParentKept'
    BY <2>1 DEF ParentKept
  <2>3. PendingCounts'
    BY <2>1 DEF PendingCounts
  <2> QED
    BY <1>2, <2>1, <2>2, <2>3
<1> QED
  BY <1>4, <1>5, <1>6, <1>7

\* The steps of a process up to the spin on pending_fork keep the invariant.
LEMMA EnterInv ==
  ASSUME StartInv, NEW c \in Core,
         \/ SetAffinity(c) \/ AffinityFails(c) \/ LockMask(c) \/ EnterMask(c)
         \/ CountDown(c) \/ UnlockMask(c)
  PROVE  StartInv'
<1> USE DEF StartInv
<1>0. UNCHANGED vars /\ UNCHANGED <<cpumask, parent, forking>>
  BY DEF SetAffinity, AffinityFails, LockMask, EnterMask, CountDown, UnlockMask
<1>1. BarrierInv' /\ TypeOK'
  BY <1>0, BarrierStutter DEF BarrierInv
<1>2. UNCHANGED <<pc, arg, rounds>>
  BY <1>0 DEF vars
<1>3. mask_lock' \in BOOLEAN
  BY Zenon DEF SetAffinity, AffinityFails, LockMask, EnterMask, CountDown, UnlockMask,
               StartTypeOK
<1>4. /\ st \in [Core -> StValues] /\ cpumask \subseteq Core /\ forking \in Core
      /\ pending_fork \in Nat /\ parent \in {"loop", "fork", "done", "exit"}
  BY DEF StartTypeOK
<1>5. PICK l \in {"lock", "mask", "count", "unlock", "spin", "exit"} :
        /\ Be(c, l) /\ st[c] \in (Waiting \cup {"unlock"}) \ {"exit"}
        /\ core_mask' = IF l = "count" THEN core_mask \cup {c} ELSE core_mask
        /\ l \in {"unlock", "spin"} => st[c] \in Present
        /\ pending_fork' = IF l = "unlock" THEN pending_fork - 1 ELSE pending_fork
        /\ l = "spin" <=> st[c] = "unlock"
  BY DEF SetAffinity, AffinityFails, LockMask, EnterMask, CountDown, UnlockMask,
         Waiting, Present
<1>6. /\ st' \in [Core -> StValues] /\ st'[c] = l
      /\ \A d \in Core : d # c => st'[d] = st[d]
  BY <1>4, <1>5 DEF Be, StValues
<1>7. core_mask' \subseteq Core /\ core_mask \subseteq core_mask'
  BY <1>5 DEF StartTypeOK
<1>8. ParentKept'
  BY <1>0, <1>4, <1>5, <1>6 DEF ParentKept, Waiting
<1>9. PendingCounts'
  <2>1. l \in StValues
    BY <1>5 DEF StValues
  <2>2. /\ Cardinality(Coming) \in Nat
        /\ (l = "unlock" => Cardinality(Coming') = Cardinality(Coming) - 1)
        /\ (l # "unlock" => Coming' = Coming)
    BY <1>4, <1>5, <2>1, ComingMoves DEF Waiting
  <2> QED
    BY <1>0, <1>4, <1>5, <2>2, CountOf DEF PendingCounts, Coming, Waiting
<1>10. StartTypeOK'
  BY <1>0, <1>1, <1>3, <1>4, <1>6, <1>7, <1>8, <1>9, PendingInRange DEF StartTypeOK
<1>11. MaskKept'
  <2>1. ASSUME NEW d \in Core, st'[d] \in Present
        PROVE  d \in core_mask'
    BY <1>5, <1>6, <1>7, <2>1 DEF MaskKept, Present
  <2>2. ASSUME NEW d \in Core, st'[d] \in Running
        PROVE  core_mask' = Core
    BY <1>5, <1>6, <1>7, <2>2 DEF MaskKept, Running
  <2> QED
    BY <2>1, <2>2 DEF MaskKept
<1>12. CallersKept' /\ SameMask'
  BY <1>2, <1>5, <1>6 DEF CallersKept, SameMask, Running, Waiting
<1>13. AllOrNone'
  BY <1>5, <1>6, <1>7 DEF AllOrNone, Waiting
<1> QED
  BY <1>1, <1>8, <1>9, <1>10, <1>11, <1>12, <1>13

\* pending_fork at zero with the process of c past its own count: all of them are
LEMMA AllPresent ==
  ASSUME StartInv, NEW c \in Core, st[c] = "spin", pending_fork = 0
  PROVE  core_mask = Core
<1> USE DEF StartInv
<1>1. /\ Cardinality(Coming) \in Nat /\ IsFiniteSet(Coming)
      /\ parent \in {"loop", "fork", "done", "exit"}
  BY RoomLeft DEF Coming, StartTypeOK
<1>2. Cardinality(Coming) = 0 /\ parent = "done"
  BY <1>1, CountOf
<1>3. Coming = {}
  BY <1>1, <1>2, FS_EmptySet
<1>4. cpumask = {}
  BY <1>2 DEF ParentKept
<1>5. ASSUME NEW d \in Core
      PROVE  d \in core_mask
  <2>1. st[d] # "none"
    BY <1>2, <1>4 DEF ParentKept
  <2>2. st[d] \notin Waiting
    BY <1>3 DEF Coming
  <2> QED
    BY <2>1, <2>2 DEF MaskKept, Present, Waiting, StartTypeOK, StValues
<1> QED
  BY <1>5 DEF StartTypeOK

\* what a step of the barrier's call does to the variables the start looks at
LEMMA CallEffect ==
  ASSUME BarrierInv, NEW c \in Core, Step(c) \/ \E m \in Masks : Call(c, m)
  PROVE  /\ \A d \in Core : d # c => pc'[d] = pc[d] /\ arg'[d] = arg[d]
         /\ \A d \in Core, n \in Masks : d # c => rounds'[d][n] = rounds[d][n]
         /\ \A n \in Masks : rounds'[c][n] >= rounds[c][n]
         /\ Step(c) => /\ pc[c] # "out"
                       /\ arg'[c] = IF pc'[c] = "out" THEN {} ELSE arg[c]
                       /\ pc'[c] = "out" => pc[c] = "poll"
                       /\ pc'[c] = "poll" => pc[c] = "unlock"
                       /\ pc'[c] = "unlock" => rounds'[c][arg[c]] > 0
<1> USE DEF BarrierInv
<1>1. /\ pc \in [Core -> PcValues] /\ arg \in [Core -> Masks \cup {{}}]
      /\ rounds \in [Core -> [Masks -> Nat]]
  BY DEF TypeOK
<1>2. CASE CheckIn(c)
  <2>1. /\ pc[c] = "search" /\ rounds' = [rounds EXCEPT ![c][arg[c]] = @ + 1]
        /\ pc' = [pc EXCEPT ![c] = "unlock"] /\ arg' = arg
    BY <1>2 DEF CheckIn, Goto
  <2>2. arg[c] \in Masks
    BY <2>1 DEF CallsKept
  <2>3. /\ rounds'[c][arg[c]] = rounds[c][arg[c]] + 1 /\ rounds[c][arg[c]] \in Nat
        /\ \A n \in Masks : n # arg[c] => rounds'[c][n] = rounds[c][n]
        /\ \A n \in Masks : rounds[c][n] \in Nat
        /\ \A d \in Core, n \in Masks : d # c => rounds'[d][n] = rounds[d][n]
    BY <1>1, <2>1, <2>2
  <2>4. \A n \in Masks : rounds'[c][n] >= rounds[c][n]
    BY <2>3
  <2>5. rounds'[c][arg[c]] > 0
    BY <2>3
  <2>6. /\ pc'[c] = "unlock" /\ arg'[c] = arg[c]
        /\ \A d \in Core : d # c => pc'[d] = pc[d] /\ arg'[d] = arg[d]
    BY <1>1, <2>1
  <2> QED
    BY <2>1, <2>3, <2>4, <2>5, <2>6
<1>3. CASE TakeLock(c) \/ TableFull(c) \/ DropLock(c)
  <2>1. PICK l \in {"search", "overflow", "poll", "abort"} :
          /\ pc' = [pc EXCEPT ![c] = l] /\ arg' = arg /\ rounds' = rounds
          /\ pc[c] \notin {"out"} /\ (l = "poll" => pc[c] = "unlock")
    BY <1>3 DEF TakeLock, TableFull, DropLock, Goto
  <2>2. pc'[c] = l /\ arg'[c] = arg[c] /\ \A d \in Core : d # c => pc'[d] = pc[d]
    BY <1>1, <2>1
  <2>3. \A n \in Masks : rounds'[c][n] >= rounds[c][n]
    BY <1>1, <2>1
  <2> QED
    BY <2>1, <2>2, <2>3
<1>4. CASE Leave(c)
  <2>1. /\ pc[c] = "poll" /\ pc' = [pc EXCEPT ![c] = "out"]
        /\ arg' = [arg EXCEPT ![c] = {}] /\ rounds' = rounds
    BY <1>4 DEF Leave, Goto
  <2>2. \A n \in Masks : rounds'[c][n] >= rounds[c][n]
    BY <1>1, <2>1
  <2> QED
    BY <1>1, <2>1, <2>2
<1>5. CASE ~Step(c) /\ \E m \in Masks : Call(c, m)
  <2>1. PICK m \in Masks : /\ pc' = [pc EXCEPT ![c] = "lock"]
                           /\ arg' = [arg EXCEPT ![c] = m] /\ rounds' = rounds
    BY <1>5 DEF Call, Goto
  <2>2. \A n \in Masks : rounds'[c][n] >= rounds[c][n]
    BY <1>1, <2>1
  <2> QED
    BY <1>1, <1>5, <2>1, <2>2
<1> QED
  BY <1>2, <1>3, <1>4, <1>5 DEF Step

\* The steps of a process from the spin on keep the invariant: it calls the
\* barrier with all CPUs, and has appmain only after all have called it.
LEMMA BarrierUseInv ==
  ASSUME StartInv, NEW c \in Core,
         \/ EnterBarrier(c) \/ InBarrier(c) \/ AppMain(c)
         \/ \E m \in AppMasks : AppCall(c, m)
  PROVE  StartInv'
<1> USE DEF StartInv
<1>0. Core \in Masks /\ Core # {}
  <2>1. Core # {} /\ Core \in (SUBSET Core) \ {{}}
    BY CpuAssumption
  <2>2. Masks = (SUBSET Core) \ {{}}
    BY AllMasks
  <2> QED
    BY <2>1, <2>2, Zenon
<1>1. UNCHANGED <<cpumask, parent, forking, pending_fork, core_mask, mask_lock>>
  BY DEF EnterBarrier, InBarrier, AppMain, AppCall, startVars
<1>2. /\ st \in [Core -> StValues] /\ cpumask \subseteq Core /\ forking \in Core
      /\ pc \in [Core -> PcValues] /\ rounds \in [Core -> [Masks -> Nat]]
  BY DEF StartTypeOK, TypeOK
<1>3. PICK l \in Running :
        /\ Be(c, l) /\ (st[c] \in Running \/ (st[c] = "spin" /\ EnterBarrier(c)))
        /\ (l = "app" /\ st[c] # "app") => AppMain(c)
        /\ l = "barrier" => \/ st[c] = "spin" /\ Call(c, Core) /\ core_mask = Core
                            \/ st[c] = "barrier" /\ Step(c)
        /\ l = "app" => \/ st[c] = "barrier" /\ pc[c] = "out" /\ UNCHANGED vars
                        \/ st[c] = "app" /\ (Step(c) \/ \E m \in Masks : Call(c, m))
  <2>1. CASE EnterBarrier(c)
    BY <2>1, AllPresent DEF EnterBarrier, Running
  <2>2. CASE InBarrier(c)
    <3>1. st[c] \in Running /\ Step(c) /\ st' = st
      BY <2>2 DEF InBarrier, Running, startVars
    <3>2. Be(c, st[c])
      BY <1>2, <3>1 DEF Be
    <3> QED
      BY <3>1, <3>2 DEF Running
  <2>3. CASE AppMain(c)
    BY <2>3 DEF AppMain, Running
  <2>4. CASE \E m \in AppMasks : AppCall(c, m)
    <3>1. st[c] = "app" /\ (\E m \in Masks : Call(c, m)) /\ st' = st
      BY <2>4, AllMasks DEF AppCall, startVars
    <3>2. Be(c, st[c])
      BY <1>2, <3>1 DEF Be
    <3> QED
      BY <3>1, <3>2 DEF Running
  <2> QED
    BY <2>1, <2>2, <2>3, <2>4
<1>4. UNCHANGED vars \/ Step(c) \/ \E m \in Masks : Call(c, m)
  BY <1>0, <1>3 DEF Running
<1>5. BarrierInv' /\ TypeOK'
  <2>1. BarrierInv'
    BY <1>4, BarrierStep, BarrierStutter
  <2> QED
    BY <2>1 DEF BarrierInv
<1>6. /\ st' \in [Core -> StValues] /\ st'[c] = l
      /\ \A d \in Core : d # c => st'[d] = st[d]
  BY <1>2, <1>3 DEF Be, StValues, Running
<1>7. core_mask = Core
  BY <1>3, AllPresent DEF MaskKept, EnterBarrier
<1>8. ParentKept'
  <2>1. \A d \in Core : st'[d] = "none" <=> st[d] = "none"
    BY <1>3, <1>6 DEF Running
  <2> QED
    BY <1>1, <1>2, <2>1 DEF ParentKept
<1>9. PendingCounts'
  <2>1. Coming' = Coming
    BY <1>3, <1>6 DEF Coming, Waiting, Running
  <2> QED
    BY <1>1, <2>1, CountOf DEF PendingCounts, Coming, Waiting
<1>10. StartTypeOK'
  BY <1>1, <1>5, <1>6 DEF StartTypeOK
<1>11. MaskKept'
  BY <1>1, <1>7 DEF MaskKept
<1>12. /\ \A d \in Core : d # c => pc'[d] = pc[d] /\ arg'[d] = arg[d]
       /\ \A d \in Core, n \in Masks : d # c => rounds'[d][n] = rounds[d][n]
       /\ \A n \in Masks : rounds'[c][n] >= rounds[c][n]
  <2>1. CASE UNCHANGED vars
    BY <1>2, <2>1 DEF vars
  <2>2. CASE Step(c) \/ \E m \in Masks : Call(c, m)
    BY <2>2, CallEffect
  <2> QED
    BY <1>4, <2>1, <2>2
<1>13. CASE l = "app"
  <2>1. CallersKept' /\ SameMask'
    BY <1>0, <1>6, <1>12, <1>13 DEF CallersKept, SameMask, Running
  <2>2. ASSUME NEW d \in Core
        PROVE  st'[d] \in Running
    <3>1. CASE st[c] = "app"
      BY <1>6, <1>13, <3>1 DEF AllOrNone, Running
    <3>2. CASE st[c] = "barrier" /\ pc[c] = "out"
      <4>1. rounds[c][Core] > 0 /\ rounds[c][Core] \in Nat /\ rounds[d][Core] \in Nat
        BY <1>0, <1>2, <3>2 DEF CallersKept
      <4>2. rounds[d][Core] >= rounds[c][Core]
        BY <1>0, <3>2, BarrierSafe DEF NoEarlyExit, Inside
      <4>3. rounds[d][Core] # 0
        BY <4>1, <4>2
      <4> QED
        BY <1>0, <1>6, <1>13, <4>3 DEF CallersKept, Running
    <3> QED
      BY <1>3, <1>13, <3>1, <3>2
  <2>3. AllOrNone'
    BY <1>1, <1>7, <2>2 DEF AllOrNone, Running
  <2> QED
    BY <1>5, <1>8, <1>9, <1>10, <1>11, <2>1, <2>3
<1>14. CASE l = "barrier" /\ st[c] = "spin"
  <2>1. Call(c, Core)
    BY <1>3, <1>14
  <2>2. pc'[c] = "lock" /\ arg'[c] = Core
    BY <1>2, <2>1 DEF Call, Goto, StartTypeOK, TypeOK
  <2>3. CallersKept'
    BY <1>6, <1>12, <1>14, <1>0, <2>2 DEF CallersKept, Running, In
  <2>4. SameMask'
    BY <1>6, <1>12, <1>14, <2>2 DEF SameMask
  <2>5. AllOrNone'
    BY <1>1, <1>6, <1>7, <1>14 DEF AllOrNone, Running
  <2> QED
    BY <1>5, <1>8, <1>9, <1>10, <1>11, <2>3, <2>4, <2>5
<1>15. CASE l = "barrier" /\ st[c] = "barrier"
  <2>1. Step(c)
    BY <1>3, <1>15
  <2>2. /\ pc[c] # "out" /\ (pc'[c] # "out" => arg'[c] = arg[c])
        /\ pc'[c] = "out" => pc[c] = "poll"
        /\ pc'[c] = "poll" => pc[c] = "unlock"
        /\ pc'[c] = "unlock" => rounds'[c][arg[c]] > 0
    BY <2>1, CallEffect
  <2>3. arg[c] = Core
    BY <1>15, <2>2 DEF SameMask
  <2>4. pc'[c] \in In \cup {"out"} => rounds'[c][Core] > 0
    <3>1. CASE pc'[c] = "unlock"
      BY <2>2, <2>3, <3>1
    <3>2. CASE pc'[c] \in {"poll", "out"}
      <4>1. rounds[c][Core] > 0
        BY <1>15, <2>2, <3>2 DEF CallersKept, In
      <4>2. rounds'[c][Core] >= rounds[c][Core] /\ rounds[c][Core] \in Nat
        BY <1>0, <1>2, <1>12
      <4>3. rounds'[c][Core] \in Nat
        BY <1>0, <1>5 DEF TypeOK
      <4> QED
        BY <4>1, <4>2, <4>3
    <3> QED
      BY <3>1, <3>2 DEF In
  <2>5. CallersKept'
    BY <1>0, <1>6, <1>12, <1>15, <2>4 DEF CallersKept, Running
  <2>6. SameMask'
    BY <1>6, <1>12, <1>15, <2>2, <2>3 DEF SameMask
  <2>7. AllOrNone'
    BY <1>1, <1>6, <1>7, <1>15 DEF AllOrNone, Running
  <2> QED
    BY <1>5, <1>8, <1>9, <1>10, <1>11, <2>5, <2>6, <2>7
<1> QED
  BY <1>3, <1>13, <1>14, <1>15 DEF Running

\* Every step of the start keeps its invariant.
LEMMA StartStep == StartInv /\ [StartNext]_allVars => StartInv'
<1> SUFFICES ASSUME StartInv, [StartNext]_allVars PROVE StartInv'
  OBVIOUS
<1>1. CASE UNCHANGED allVars
  <2>1. UNCHANGED vars /\ UNCHANGED startVars
    BY <1>1 DEF allVars
  <2>2. UNCHANGED <<pc, arg, rounds>>
    BY <2>1 DEF vars
  <2>3. BarrierInv' /\ TypeOK'
    BY <2>1, BarrierStutter DEF StartInv, BarrierInv
  <2>4. StartTypeOK'
    BY <2>1, <2>3 DEF startVars, StartInv, StartTypeOK
  <2>5. ParentKept' /\ MaskKept' /\ CallersKept' /\ SameMask' /\ AllOrNone' /\ PendingCounts'
    BY <2>1, <2>2 DEF startVars, StartInv, ParentKept, MaskKept, CallersKept, SameMask,
                      AllOrNone, PendingCounts
  <2> QED
    BY <2>3, <2>4, <2>5 DEF StartInv
<1>2. CASE KeepLast \/ CountFork \/ Fork \/ ForkFails
  BY <1>2, LoopInv
<1>3. ASSUME NEW c \in Core, Run(c) \/ AffinityFails(c) \/ \E m \in AppMasks : AppCall(c, m)
      PROVE  StartInv'
  BY <1>3, EnterInv, BarrierUseInv DEF Run
<1> QED
  BY <1>1, <1>2, <1>3 DEF StartNext

-----------------------------------------------------------------------------
\* The barrier alone, whoever calls it with whatever coremasks: nobody leaves
\* before all cores of its coremask have come, nobody misses the exit however
\* often the others come round, and no coremask has two entries.
THEOREM BarrierCorrect == Spec => [](NoEarlyExit /\ ExitNotMissed /\ OneEntryPerMask)
<1>1. ASSUME BarrierInv, [Next]_vars
      PROVE  BarrierInv'
  BY <1>1, BarrierStep, BarrierStutter DEF Next
<1>2. BarrierInv => NoEarlyExit /\ ExitNotMissed /\ OneEntryPerMask
  BY BarrierSafe DEF BarrierInv
<1> QED
  BY BarrierInit, <1>1, <1>2, PTL DEF Spec

\* The start of an application keeps its invariant.
LEMMA StartInvariant == StartSpec => []StartInv
BY StartsInv, StartStep, PTL DEF StartSpec

\* No process of an application leaves a barrier, the one of the start
\* included, before all cores of the coremask have reached it.
THEOREM NobodyEarly == StartSpec => []NoEarlyExit
<1>1. StartInv => NoEarlyExit
  BY BarrierSafe DEF StartInv
<1> QED
  BY StartInvariant, <1>1, PTL

\* A polling process sees its exit or is still checked in, so that the counter
\* cannot pass the value it waits for, whatever the wrap-around.
THEOREM NobodyMissed == StartSpec => []ExitNotMissed
<1>1. StartInv => ExitNotMissed
  BY BarrierSafe DEF StartInv
<1> QED
  BY StartInvariant, <1>1, PTL

\* For any number of CPUs, whichever fork or affinity call fails and whoever is
\* faster: every process meets the others with the mask of all CPUs, all or none
\* come to appmain, and pending_fork counts those not yet in the mask.
THEOREM SoundStart == StartSpec => []StartSound
<1>1. StartInv => StartSound
  BY DEF StartInv, StartSound, BarrierInv
<1> QED
  BY StartInvariant, <1>1, PTL
=============================================================================
