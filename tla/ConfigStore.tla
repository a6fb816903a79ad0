----------------------------- MODULE ConfigStore -----------------------------
(***************************************************************************)
(* What the configuration database promises its users: every command takes *)
(* effect at one instant between its call and its return, on its category  *)
(* as it is at that instant, and the effect is the one its routine has     *)
(* when nobody else runs.  A command whose process is killed has its       *)
(* effect or none.  Lock file, scratch file and renames are not part of    *)
(* it.                                                                     *)
(***************************************************************************)
CONSTANTS
  Proc, Request,
  Effect(_, _),   \* what a command makes of its category
  Answer(_, _),   \* what it answers
  Nothing,        \* the answer of a command that prints nothing
  InitStore

VARIABLES
  store,   \* the text of each category
  phase,   \* "idle" or "pending" for each process
  req,     \* the command of a pending process
  ans      \* the value its last print found

storeVars == <<store, phase, req, ans>>

NoReq == CHOOSE r \in Request : TRUE

Init ==
  /\ store = InitStore
  /\ phase = [p \in Proc |-> "idle"]
  /\ req = [p \in Proc |-> NoReq]
  /\ ans = [p \in Proc |-> Nothing]

Begin(p, r) ==
  /\ phase[p] = "idle"
  /\ phase' = [phase EXCEPT ![p] = "pending"]
  /\ req' = [req EXCEPT ![p] = r]
  /\ ans' = [ans EXCEPT ![p] = Nothing]
  /\ UNCHANGED store

Commit(p) ==
  LET r == req[p] IN
  /\ phase[p] = "pending"
  /\ store' = [store EXCEPT ![r.cat] = Effect(@, r)]
  /\ ans' = [ans EXCEPT ![p] = Answer(store[r.cat], r)]
  /\ phase' = [phase EXCEPT ![p] = "idle"]
  /\ req' = [req EXCEPT ![p] = NoReq]

\* the process is killed before its command took effect
Abort(p) ==
  /\ phase[p] = "pending"
  /\ phase' = [phase EXCEPT ![p] = "idle"]
  /\ req' = [req EXCEPT ![p] = NoReq]
  /\ UNCHANGED <<store, ans>>

Next == \E p \in Proc : Commit(p) \/ Abort(p) \/ \E r \in Request : Begin(p, r)

Spec == Init /\ [][Next]_storeVars
=============================================================================
