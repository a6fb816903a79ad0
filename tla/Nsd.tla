--------------------------------- MODULE Nsd ---------------------------------
(***************************************************************************)
(* The network service detection daemon of one WAN port (nsd/nsd.c).  It   *)
(* runs through the enabled tests until one succeeds, keeps NSD<n> NSDOK   *)
(* in the configuration database, and on a change tells webBoot (a UDP     *)
(* datagram of kd_doCommand) and nk_ipsecd (a FIFO).  webBoot, nk_ipsecd   *)
(* and the hosts the tests reach are the environment.                      *)
(***************************************************************************)
EXTENDS Integers, SequencesExt

CONSTANTS
  Conf,        \* the settings nsd may find: [tests, retry, action]
  MaxInbox,    \* datagrams that fit in webBoot's socket buffer
  MaxShells    \* bound on the shells of one text a killed nsd leaves behind

\* enum pingstate, and PINGLAST after the last one
CHECKIO  == 0
PINGLAST == 5
Tests    == CHECKIO .. PINGLAST - 1

ASSUME ConfAssumption ==
  \A k \in Conf : /\ k.tests \subseteq Tests /\ k.retry \in Nat
                  /\ k.action \in BOOLEAN
ASSUME InboxAssumption == MaxInbox \in Nat /\ MaxShells \in Nat

VARIABLES
  pc,       \* where nsd is
  conf,     \* the settings it read at its start
  state,    \* the test it is at
  count,    \* failed attempts of this test
  nsdok,    \* its local copy of NSDOK
  db,       \* NSD<n> NSDOK in the database
  inbox,    \* datagrams webBoot has not read
  told,     \* the link state webBoot was last told
  ipsec,    \* the link state nk_ipsecd was last told
  shells,   \* the shells of killed nsds that still wait to write 0 and 1
  reader,   \* nk_ipsecd has the FIFO open
  up,       \* the tests that succeed now
  tried,    \* history: failed attempts of each test in this round
  unsaid,   \* history: who the last change of db was not passed on to
  teller    \* history: nsd's own shell or a left one wrote to the FIFO last

fifo == <<ipsec, shells, teller>>
env  == <<inbox, told, reader, up>>
vars == <<pc, conf, state, count, nsdok, db, inbox, told, ipsec, shells,
          reader, up, tried, unsaid, teller>>

Notices  == {"ASH_NSD_OK", "ASH_NSD_FAIL"}
Messages == Notices \cup {"ASH_PAGE_6TO4", "ASH_PAGE_RADVD"}
NoTries  == [t \in Tests |-> 0]

TypeOK ==
  /\ pc \in {"loop", "6to4", "radvd", "notice", "fifo", "sleep", "dead"}
  /\ conf \in Conf
  /\ state \in Tests \cup {PINGLAST}
  /\ count \in Nat
  /\ nsdok \in {0, 1} /\ db \in {0, 1} /\ told \in {0, 1} /\ ipsec \in {0, 1}
  /\ inbox \in Seq(Messages) /\ Len(inbox) <= MaxInbox
  /\ reader \in BOOLEAN /\ unsaid \subseteq {"webBoot", "ipsecd"}
  /\ up \subseteq Tests
  /\ tried \in [Tests -> Nat]
  /\ shells \in [{0, 1} -> 0 .. MaxShells] /\ teller \in {"nsd", "shell"}

Init ==
  /\ pc = "loop"
  /\ conf \in Conf
  /\ state = CHECKIO /\ count = 0
  /\ db \in {0, 1} /\ nsdok = db /\ told = db /\ ipsec = db
  /\ inbox = <<>>
  /\ reader = TRUE
  /\ up \in SUBSET conf.tests
  /\ tried = NoTries
  /\ unsaid = {}
  /\ shells = [v \in {0, 1} |-> 0] /\ teller = "nsd"

-----------------------------------------------------------------------------
(* The loop of main() *)

\* a test that is not enabled, or has no host, is passed over
Skip ==
  /\ pc = "loop" /\ state # PINGLAST
  /\ state \notin conf.tests
  /\ state' = state + 1
  /\ UNCHANGED <<pc, conf, count, nsdok, db, fifo, env, tried, unsaid>>

\* the number of attempts: is_interface_busy is asked once
Attempts(t) == IF t = CHECKIO THEN 1 ELSE conf.retry

\* an attempt fails, and sleeps before the next
Retry ==
  /\ pc = "loop" /\ state \in conf.tests
  /\ count < Attempts(state)
  /\ state \notin up
  /\ count' = count + 1
  /\ tried' = [tried EXCEPT ![state] = @ + 1]
  /\ UNCHANGED <<pc, conf, state, nsdok, db, fifo, env, unsaid>>

\* count == retrycount: on to the next test
GiveUp ==
  /\ pc = "loop" /\ state \in conf.tests
  /\ count = Attempts(state)
  /\ count' = 0
  /\ state' = state + 1
  /\ UNCHANGED <<pc, conf, nsdok, db, fifo, env, tried, unsaid>>

\* faulty: the next round starts at the test of this one
Conclude_NoReset(ok) ==
  /\ count' = 0
  /\ tried' = NoTries
  /\ IF nsdok = ok
     THEN pc' = "sleep" /\ UNCHANGED <<nsdok, db, unsaid>>
     ELSE /\ nsdok' = ok
          /\ db' = ok
          /\ unsaid' = {"webBoot", "ipsecd"}
          /\ pc' = IF conf.action THEN "notice" ELSE "sleep"
  /\ UNCHANGED <<conf, state, fifo, env>>

\* the end of a round: state = PINGSTART. A change is written to the
\* database before anyone hears of it. On a failure TUNNEL_6TO4 INTERFACE is
\* read there and then, and may name this port or not.
Conclude(ok) ==
  /\ state' = CHECKIO /\ count' = 0
  /\ tried' = NoTries
  /\ IF nsdok = ok
     THEN pc' = "sleep" /\ UNCHANGED <<nsdok, db, unsaid>>
     ELSE /\ nsdok' = ok
          /\ db' = ok
          /\ unsaid' = {"webBoot", "ipsecd"}
          /\ pc' \in {IF conf.action THEN "notice" ELSE "sleep"}
                    \cup IF ok = 0 THEN {"6to4"} ELSE {}
  /\ UNCHANGED <<conf, fifo, env>>

\* res == NSD_SUCCESS
Success ==
  /\ pc = "loop" /\ state \in conf.tests \cap up
  /\ count < Attempts(state)
  /\ Conclude(1)

\* state == PINGLAST
Failure ==
  /\ pc = "loop" /\ state = PINGLAST
  /\ Conclude(0)

\* sendto of kd_doCommand: a full socket buffer drops the datagram and the
\* error is only logged
Send(m) == inbox' = IF Len(inbox) < MaxInbox THEN Append(inbox, m) ELSE inbox

\* a failure on the port of the 6to4 tunnel restarts tunnel and radvd
Page6to4 ==
  /\ pc = "6to4"
  /\ Send("ASH_PAGE_6TO4")
  /\ pc' = "radvd"
  /\ UNCHANGED <<conf, state, count, nsdok, db, told, fifo, reader, up,
                 tried, unsaid>>

PageRadvd ==
  /\ pc = "radvd"
  /\ Send("ASH_PAGE_RADVD")
  /\ pc' = IF conf.action THEN "notice" ELSE "sleep"
  /\ UNCHANGED <<conf, state, count, nsdok, db, told, fifo, reader, up,
                 tried, unsaid>>

\* faulty: the two notices are mixed up
Notice_Swapped ==
  /\ pc = "notice"
  /\ Send(IF nsdok = 0 THEN "ASH_NSD_OK" ELSE "ASH_NSD_FAIL")
  /\ unsaid' = IF Len(inbox) < MaxInbox THEN unsaid \ {"webBoot"} ELSE unsaid
  /\ pc' = "fifo"
  /\ UNCHANGED <<conf, state, count, nsdok, db, told, fifo, reader, up,
                 tried>>

\* kd_doCommand("WAN<n>", NULL, ASH_NSD_OK / ASH_NSD_FAIL, NULL)
Notice ==
  /\ pc = "notice"
  /\ Send(IF nsdok = 1 THEN "ASH_NSD_OK" ELSE "ASH_NSD_FAIL")
  /\ unsaid' = IF Len(inbox) < MaxInbox THEN unsaid \ {"webBoot"} ELSE unsaid
  /\ pc' = "fifo"
  /\ UNCHANGED <<conf, state, count, nsdok, db, told, fifo, reader, up,
                 tried>>

\* echo CMD=LINKUP / LINKDOWN > NKIPSECD_IPC: the shell's open of the FIFO
\* waits for a reader
TellIpsecd ==
  /\ pc = "fifo"
  /\ reader
  /\ ipsec' = nsdok /\ teller' = "nsd"
  /\ unsaid' = unsaid \ {"ipsecd"}
  /\ pc' = "sleep"
  /\ UNCHANGED <<conf, state, count, nsdok, db, shells, env, tried>>

\* sleep(retrytimeout)
Wake ==
  /\ pc = "sleep"
  /\ pc' = "loop"
  /\ UNCHANGED <<conf, state, count, nsdok, db, fifo, env, tried, unsaid>>

-----------------------------------------------------------------------------
(* nsd is killed and started again when its settings change *)

\* The shell that system() started for the echo is not killed with nsd: it
\* stays in its open of the FIFO, if it had been started at all.
Kill ==
  /\ pc # "dead"
  /\ pc' = "dead"
  /\ state' = CHECKIO /\ count' = 0 /\ tried' = NoTries
  /\ \/ UNCHANGED shells
     \/ /\ pc = "fifo" /\ shells[nsdok] < MaxShells
        /\ shells' = [shells EXCEPT ![nsdok] = @ + 1]
  /\ UNCHANGED <<conf, nsdok, db, ipsec, teller, env, unsaid>>

\* a shell that outlived its nsd gets its reader, whatever was written since
LeftShellWrites(v) ==
  /\ shells[v] > 0
  /\ reader
  /\ shells' = [shells EXCEPT ![v] = @ - 1]
  /\ ipsec' = v /\ teller' = "shell"
  /\ UNCHANGED <<pc, conf, state, count, nsdok, db, env, tried, unsaid>>

\* faulty: NSDOK is taken for 1, as nsdok is initialised
Restart_AssumeOk ==
  /\ pc = "dead"
  /\ pc' = "loop"
  /\ conf' \in Conf
  /\ up' \in SUBSET conf'.tests
  /\ nsdok' = 1
  /\ UNCHANGED <<state, count, db, inbox, told, fifo, reader, tried, unsaid>>

\* faulty: NSDOK cannot be read and counts as 0
Restart_AssumeFail ==
  /\ pc = "dead"
  /\ pc' = "loop"
  /\ conf' \in Conf
  /\ up' \in SUBSET conf'.tests
  /\ nsdok' = 0
  /\ UNCHANGED <<state, count, db, inbox, told, fifo, reader, tried, unsaid>>

\* main() reads the settings and NSDOK
Restart ==
  /\ pc = "dead"
  /\ pc' = "loop"
  /\ conf' \in Conf
  /\ up' \in SUBSET conf'.tests
  /\ nsdok' = db
  /\ UNCHANGED <<state, count, db, inbox, told, fifo, reader, tried, unsaid>>

(* The environment *)

\* webBoot reads a datagram
Deliver ==
  /\ inbox # <<>>
  /\ inbox' = Tail(inbox)
  /\ told' = CASE Head(inbox) = "ASH_NSD_OK" -> 1
               [] Head(inbox) = "ASH_NSD_FAIL" -> 0
               [] OTHER -> told
  /\ UNCHANGED <<pc, conf, state, count, nsdok, db, fifo, reader, up, tried,
                 unsaid>>

\* hosts and links come and go
LinkChange ==
  /\ up' \in SUBSET conf.tests
  /\ up' # up
  /\ UNCHANGED <<pc, conf, state, count, nsdok, db, inbox, told, fifo,
                 reader, tried, unsaid>>

\* nk_ipsecd stops or starts
IpsecdChange ==
  /\ reader' = ~reader
  /\ UNCHANGED <<pc, conf, state, count, nsdok, db, inbox, told, fifo, up,
                 tried, unsaid>>

-----------------------------------------------------------------------------
Main ==
  \/ Skip \/ Retry \/ GiveUp \/ Success \/ Failure \/ Page6to4 \/ PageRadvd
  \/ Notice \/ TellIpsecd \/ Wake

Next ==
  Main \/ Kill \/ Restart \/ Deliver \/ LinkChange \/ IpsecdChange
  \/ \E v \in {0, 1} : LeftShellWrites(v)

Spec == Init /\ [][Next]_vars

\* nsd runs and webBoot reads its socket; kills do not go on for ever
FairSpec ==
  Spec /\ WF_vars(Main) /\ WF_vars(Restart) /\ WF_vars(Deliver)

-----------------------------------------------------------------------------
(* Properties *)

\* the last link state on its way to webBoot
Heard ==
  LET N == {k \in DOMAIN inbox : inbox[k] \in Notices}
  IN IF N = {} THEN told
     ELSE IF inbox[Max(N)] = "ASH_NSD_OK" THEN 1 ELSE 0

\* what webBoot hears agrees with NSDOK in the database whenever the last
\* change got as far as the socket: a kill after the write, ACTION=0 and a
\* full socket buffer are the only ways to part them
HeardMatchesDb == "webBoot" \notin unsaid => Heard = db

\* between two rounds nsd and the database agree, and nk_ipsecd with them unless
\* the last change never reached the FIFO or what reached it last was the stale
\* text of a shell whose nsd was killed: the only two ways to part them
IpsecdMatchesDb ==
  pc \in {"loop", "sleep"} =>
    /\ nsdok = db
    /\ "ipsecd" \notin unsaid /\ teller = "nsd" => ipsec = db

\* NSDOK drops to 0 only when every enabled test has failed as often as it
\* may in this very round
FailNeedsAllTests ==
  [][db = 1 /\ db' = 0 =>
       \A t \in conf.tests : tried[t] = Attempts(t)]_vars

\* a WAN all of whose tests fail for good is set to NSDOK=0
Quiet == pc # "dead" /\ reader
DownDetected ==
  (<>[](up = {}) /\ <>[]Quiet) => <>[](db = 0)

\* a WAN with a test that succeeds for good, and is attempted at all, is set
\* to NSDOK=1
UpDetected ==
  (<>[](\E t \in up : Attempts(t) > 0) /\ <>[][UNCHANGED up]_up /\ <>[]Quiet)
    => <>[](db = 1)
=============================================================================
