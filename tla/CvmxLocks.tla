------------------------------ MODULE CvmxLocks ------------------------------
(***************************************************************************)
(* The two locks of the executive that keep more than one word: the        *)
(* reader/writer lock (CvmxRwlock) and the recursive spinlock              *)
(* (CvmxRecSpinlock), on the same cores.  They share no memory, so a       *)
(* behaviour uses one of them.                                             *)
(***************************************************************************)
EXTENDS CvmxRwlock

CONSTANTS Invalid, MaxDepth, Word

VARIABLES value, core_num, tmp, recPc, depth, leftover, slipped,
          which    \* the lock that the behaviour uses

Rec == INSTANCE CvmxRecSpinlock WITH pc <- recPc

ASSUME RecAssumption == Rec!RecConstants

recVars == <<value, core_num, tmp, recPc, depth, leftover, slipped>>

\* the number in a spinlock that nobody uses does not matter
LocksInit ==
  /\ which \in {"rwlock", "spinlock"} /\ Init /\ Rec!Init
  /\ which = "rwlock" => core_num = Invalid

LocksNext ==
  \/ which = "rwlock" /\ Next /\ UNCHANGED <<recVars, which>>
  \/ which = "spinlock" /\ Rec!Next /\ UNCHANGED <<vars, which>>

\* a core that has entered a call of either lock keeps running
LocksSpec ==
  /\ LocksInit /\ [][LocksNext]_<<vars, recVars, which>>
  /\ \A c \in Core : WF_vars(Step(c)) /\ WF_recVars(Rec!Step(c))

-----------------------------------------------------------------------------
(* The properties of the spinlock, by the names of its module *)

\* CvmxRecSpinlock's Exclusion: two cores hold the recursive spinlock at once
\* only after the number that its init left in core_num has let one in
RecExclusion == Rec!Exclusion

\* CvmxRecSpinlock's LevelsCounted: value counts the levels of the one holder
RecLevelsCounted == Rec!LevelsCounted

\* CvmxRecSpinlock's LeftoverShortLived: that can happen only once, before
\* the first holder has stored its number
RecLeftoverShortLived == Rec!LeftoverShortLived

\* CvmxRecSpinlock's ReentryNeverBlocks: a holder that asks again gets in
RecReentryNeverBlocks == Rec!ReentryNeverBlocks
=============================================================================
