------------------------------ MODULE SysConfig ------------------------------
(***************************************************************************)
(* Concurrent use of the nku configuration database.  Every daemon of the  *)
(* router links libnku and runs kd_doCommand -> nk_sysconfig in its own    *)
(* process.  The processes share the lock file /tmp/test.txt, one scratch  *)
(* file /tmp/stemp for all edits, the category files /tmp/splitDB/<cat>    *)
(* and /tmp/category_list.                                                 *)
(*                                                                         *)
(* An edit copies the category file to /tmp/stemp with the change applied  *)
(* and renames /tmp/stemp over the category file.  Names are not the files *)
(* they name: fd[p] says which file the stream that p has open refers to,  *)
(* and a rename moves the file under the feet of everyone who has it open. *)
(***************************************************************************)
EXTENDS DbFile

CONSTANTS
  Proc,        \* processes linked with libnku
  Request,     \* the commands they issue
  InitDb,      \* the category files splitDB left at boot
  InitList,    \* the category_list splitDB left at boot
  MaxLines     \* bound on the lines of a file and of category_list

ASSUME RequestAssumption == Request \subseteq Command /\ Request # {}
ASSUME InitDbAssumption ==
  /\ InitDb \in [Cats -> File]
  /\ \A c \in Cats : WellFormed(c, InitDb[c])
  /\ InitList \in Seq(Cats)
\* splitDB lists each category it has made a file for, and no other
ASSUME InitListAssumption ==
  \A c \in Cats : InitDb[c] # NoFile <=> \E k \in DOMAIN InitList : InitList[k] = c
ASSUME BoundAssumption == MaxLines \in Nat

VARIABLES
  lock,     \* /tmp/test.txt exists
  db,       \* /tmp/splitDB/<cat>
  stemp,    \* /tmp/stemp
  catlist,  \* /tmp/category_list
  pc,       \* where each process is
  cmd,      \* the command it runs
  buf,      \* what it writes to its stream, NoFile if it opened none
  fd,       \* the file its stream refers to
  masked,   \* signals 1..18 are ignored
  ret,      \* the value its last print command returned
  left      \* history: where a process was killed with the lock file in place

files == <<db, stemp, catlist>>
vars  == <<lock, db, stemp, catlist, pc, cmd, buf, fd, masked, ret, left>>

Critical == {"cs", "write", "rename", "append", "list", "unlock"}
Busy     == Critical \cup {"spin", "nolock"}
PcValues == Busy \cup {"idle", "dead"}
FdValues == {"none", "stemp", "gone"} \cup Cats

ASSUME FdAssumption == Cats \cap {"none", "stemp", "gone"} = {}

TypeOK ==
  /\ lock \in BOOLEAN
  /\ db \in [Cats -> File]
  /\ stemp \in File
  /\ catlist \in Seq(Cats)
  /\ pc \in [Proc -> PcValues]
  /\ cmd \in [Proc -> Request]
  /\ buf \in [Proc -> File]
  /\ fd \in [Proc -> FdValues]
  /\ masked \in [Proc -> BOOLEAN]
  /\ ret \in [Proc -> Values \cup {NoFile}]
  /\ left \in Critical \cup {"nowhere"}

NoCmd == CHOOSE r \in Request : TRUE

\* splitDB has written the category files and their names
Init ==
  /\ lock = FALSE
  /\ db = InitDb
  /\ stemp = NoFile
  /\ catlist = InitList
  /\ pc = [p \in Proc |-> "idle"]
  /\ cmd = [p \in Proc |-> NoCmd]
  /\ buf = [p \in Proc |-> NoFile]
  /\ fd = [p \in Proc |-> "none"]
  /\ masked = [p \in Proc |-> FALSE]
  /\ ret = [p \in Proc |-> NoFile]
  /\ left = "nowhere"

Goto(p, l) == pc' = [pc EXCEPT ![p] = l]

-----------------------------------------------------------------------------
(* nk_sysconfig *)

\* faulty: signals 1..18 keep their handlers
Start_Unmasked(p, r) ==
  /\ pc[p] = "idle"
  /\ \A c \in Cats : db[c] # NoFile => Len(db[c]) <= MaxLines
  /\ Len(catlist) <= MaxLines
  /\ cmd' = [cmd EXCEPT ![p] = r]
  /\ ret' = [ret EXCEPT ![p] = NoFile]
  /\ Goto(p, IF r.op = "a" THEN "nolock" ELSE "spin")
  /\ UNCHANGED <<lock, files, buf, fd, masked, left>>

\* kd_doCommand calls nk_sysconfig, which ignores signals 1..18 before
\* anything else. "-a" never touches the lock file.
Start(p, r) ==
  /\ pc[p] = "idle"
  /\ \A c \in Cats : db[c] # NoFile => Len(db[c]) <= MaxLines
  /\ Len(catlist) <= MaxLines
  /\ masked' = [masked EXCEPT ![p] = TRUE]
  /\ cmd' = [cmd EXCEPT ![p] = r]
  /\ ret' = [ret EXCEPT ![p] = NoFile]
  /\ Goto(p, IF r.op = "a" THEN "nolock" ELSE "spin")
  /\ UNCHANGED <<lock, files, buf, fd, left>>

\* faulty: open without O_EXCL
Acquire_Shared(p) ==
  /\ pc[p] = "spin"
  /\ lock' = TRUE
  /\ Goto(p, "cs")
  /\ UNCHANGED <<files, cmd, buf, fd, masked, ret, left>>

\* open(O_CREAT | O_EXCL) succeeds; while the file exists the loop retries
Acquire(p) ==
  /\ pc[p] = "spin"
  /\ ~lock
  /\ lock' = TRUE
  /\ Goto(p, "cs")
  /\ UNCHANGED <<files, cmd, buf, fd, masked, ret, left>>

\* unlink(/tmp/test.txt), whoever created it, and the handlers come back
Unlock(p) ==
  /\ pc[p] = "unlock"
  /\ lock' = FALSE
  /\ masked' = [masked EXCEPT ![p] = FALSE]
  /\ cmd' = [cmd EXCEPT ![p] = NoCmd]
  /\ buf' = [buf EXCEPT ![p] = NoFile]
  /\ Goto(p, "idle")
  /\ UNCHANGED <<files, fd, ret, left>>

\* nk_print_setting under "-a": the file is read whatever others do to it
PrintNoFlag(p) ==
  /\ pc[p] = "nolock"
  /\ ret' = [ret EXCEPT ![p] = print_config(db[cmd[p].cat], cmd[p])]
  /\ masked' = [masked EXCEPT ![p] = FALSE]
  /\ cmd' = [cmd EXCEPT ![p] = NoCmd]
  /\ Goto(p, "idle")
  /\ UNCHANGED <<lock, files, buf, fd, left>>

-----------------------------------------------------------------------------
(* nk_process_comd, in the critical section *)

\* nk_print_setting
PrintSetting(p) ==
  /\ pc[p] = "cs"
  /\ cmd[p].op = "p"
  /\ ret' = [ret EXCEPT ![p] = print_config(db[cmd[p].cat], cmd[p])]
  /\ Goto(p, "unlock")
  /\ UNCHANGED <<lock, files, cmd, buf, fd, masked, left>>

\* fopen of the category file fails: -w, -m and -d return FAIL_TO_OPEN
EditNoFile(p) ==
  /\ pc[p] = "cs"
  /\ cmd[p].op \in EditOps \ {"n"}
  /\ db[cmd[p].cat] = NoFile
  /\ Goto(p, "unlock")
  /\ UNCHANGED <<lock, files, cmd, buf, fd, masked, ret, left>>

\* the commands that look for something to edit in an existing file
Edits(p) ==
  LET f == db[cmd[p].cat] IN
  /\ pc[p] = "cs"
  /\ cmd[p].op \in EditOps
  /\ f # NoFile
  /\ cmd[p].op = "n" => find_category(f, cmd[p].cat) # 0

\* insert_item, remove_item or remove_category: fopen(/tmp/stemp, "w+")
\* empties the scratch file and the stream collects the edited text
EditOpen(p) ==
  LET new == Edit(db[cmd[p].cat], cmd[p]) IN
  /\ Edits(p)
  /\ new # NoFile
  /\ stemp' = <<>>
  /\ fd' = [fd EXCEPT ![p] = "stemp"]
  /\ buf' = [buf EXCEPT ![p] = new]
  /\ Goto(p, "write")
  /\ UNCHANGED <<lock, db, catlist, cmd, masked, ret, left>>

\* nothing to edit: most routines go on to the rename, some return
EditNothing(p) ==
  LET f == db[cmd[p].cat] IN
  /\ Edits(p)
  /\ Edit(f, cmd[p]) = NoFile
  /\ Goto(p, IF RenamesAnyway(f, cmd[p]) THEN "rename" ELSE "unlock")
  /\ UNCHANGED <<lock, files, cmd, buf, fd, masked, ret, left>>

\* faulty: return after the fclose, without the rename
EditClose_NoRename(p) ==
  /\ pc[p] = "write"
  /\ fd[p] = "stemp"
  /\ stemp' = Overlay(stemp, buf[p])
  /\ fd' = [fd EXCEPT ![p] = "none"]
  /\ Goto(p, "unlock")
  /\ UNCHANGED <<lock, db, catlist, cmd, buf, masked, ret, left>>

\* fclose: the text reaches the file the stream refers to
EditClose(p) ==
  /\ pc[p] = "write"
  /\ IF fd[p] = "stemp"
     THEN stemp' = Overlay(stemp, buf[p]) /\ UNCHANGED db
     ELSE /\ db' = IF fd[p] \in Cats
                   THEN [db EXCEPT ![fd[p]] = Overlay(@, buf[p])]
                   ELSE db
          /\ UNCHANGED stemp
  /\ fd' = [fd EXCEPT ![p] = "none"]
  /\ Goto(p, "rename")
  /\ UNCHANGED <<lock, catlist, cmd, buf, masked, ret, left>>

\* rename(/tmp/stemp, /tmp/splitDB/<cat>); it fails when there is no
\* /tmp/stemp. Streams open on either file follow the file, not the name.
Rename(p) ==
  LET c == cmd[p].cat IN
  /\ pc[p] = "rename"
  /\ IF stemp = NoFile
     THEN UNCHANGED <<db, stemp, fd>>
     ELSE /\ db' = [db EXCEPT ![c] = stemp]
          /\ stemp' = NoFile
          /\ fd' = [q \in Proc |-> IF fd[q] = "stemp" THEN c
                                   ELSE IF fd[q] = c THEN "gone" ELSE fd[q]]
  /\ Goto(p, "unlock")
  /\ UNCHANGED <<lock, catlist, cmd, buf, masked, ret, left>>

\* faulty: the category is created without looking for it
NewCategory_NoSearch(p) ==
  LET c == cmd[p].cat IN
  /\ pc[p] = "cs"
  /\ cmd[p].op = "n"
  /\ db' = [db EXCEPT ![c] = IF @ = NoFile THEN <<>> ELSE @]
  /\ Goto(p, "append")
  /\ UNCHANGED <<lock, stemp, catlist, cmd, buf, fd, masked, ret, left>>

\* nk_new_setting without the category: the file is created if need be ...
NewCategory(p) ==
  LET c == cmd[p].cat IN
  /\ pc[p] = "cs"
  /\ cmd[p].op = "n"
  /\ db[c] # NoFile => find_category(db[c], c) = 0
  /\ db' = [db EXCEPT ![c] = IF @ = NoFile THEN <<>> ELSE @]
  /\ Goto(p, "append")
  /\ UNCHANGED <<lock, stemp, catlist, cmd, buf, fd, masked, ret, left>>

\* ... the section is appended to it in place ...
AppendCategory(p) ==
  LET r == cmd[p] IN
  /\ pc[p] = "append"
  /\ db' = [db EXCEPT ![r.cat] = @ \o <<Header(r.cat), Entry(r.item, r.val)>>]
  /\ Goto(p, "list")
  /\ UNCHANGED <<lock, stemp, catlist, cmd, buf, fd, masked, ret, left>>

\* faulty: the new category is not put on the list
AppendList_Forgotten(p) ==
  /\ pc[p] = "list"
  /\ Goto(p, "unlock")
  /\ UNCHANGED <<lock, files, cmd, buf, fd, masked, ret, left>>

\* ... and its name to /tmp/category_list
AppendList(p) ==
  /\ pc[p] = "list"
  /\ catlist' = Append(catlist, cmd[p].cat)
  /\ Goto(p, "unlock")
  /\ UNCHANGED <<lock, db, stemp, cmd, buf, fd, masked, ret, left>>

-----------------------------------------------------------------------------
(* Signals *)

\* SIGTERM (killall from a script) ends a process that does not ignore it
Terminate(p) ==
  /\ pc[p] # "dead"
  /\ ~masked[p]
  /\ Goto(p, "dead")
  /\ fd' = [fd EXCEPT ![p] = "none"]
  /\ UNCHANGED <<lock, files, cmd, buf, masked, ret, left>>

\* SIGKILL (killall -9 dnsmasq) cannot be ignored: the process is gone wherever
\* it is in nk_sysconfig. Its stream is not flushed, its lock file and what it
\* made of /tmp/stemp stay.
Sigkill(p) ==
  /\ pc[p] \in Busy
  /\ Goto(p, "dead")
  /\ fd' = [fd EXCEPT ![p] = "none"]
  /\ buf' = [buf EXCEPT ![p] = NoFile]
  /\ left' = IF pc[p] \in Critical THEN pc[p] ELSE left
  /\ UNCHANGED <<lock, files, cmd, masked, ret>>

\* the daemon is started again
Respawn(p) ==
  /\ pc[p] = "dead"
  /\ masked' = [masked EXCEPT ![p] = FALSE]
  /\ cmd' = [cmd EXCEPT ![p] = NoCmd]
  /\ buf' = [buf EXCEPT ![p] = NoFile]
  /\ Goto(p, "idle")
  /\ UNCHANGED <<lock, files, fd, ret, left>>

-----------------------------------------------------------------------------
\* a step of a command that has started
Step(p) ==
  \/ Acquire(p) \/ Unlock(p) \/ PrintNoFlag(p) \/ PrintSetting(p)
  \/ EditNoFile(p) \/ EditOpen(p) \/ EditNothing(p) \/ EditClose(p)
  \/ Rename(p) \/ NewCategory(p) \/ AppendCategory(p) \/ AppendList(p)

Next ==
  \E p \in Proc :
    \/ \E r \in Request : Start(p, r)
    \/ Step(p)
    \/ Terminate(p)
    \/ Sigkill(p)
    \/ Respawn(p)

Spec == Init /\ [][Next]_vars

\* a process inside nk_sysconfig that is not killed keeps running: the signals
\* it ignores do not stop it and it waits for nothing but the lock file
FairSpec == Spec /\ \A p \in Proc : WF_vars(Step(p))

-----------------------------------------------------------------------------
(* Safety *)

\* nk_sysconfig's lock file keeps two processes out of nk_process_comd
MutualExclusion ==
  \A p, q \in Proc : pc[p] \in Critical /\ pc[q] \in Critical => p = q

\* the unconditional rename of set_config, add_config and nk_delete_setting
\* only ever installs what this very command wrote: when the item was not
\* found no /tmp/stemp of anyone is left for it to pick up
RenameInstallsOwnEdit ==
  \A p \in Proc : pc[p] = "rename" => stemp = buf[p]

\* whatever order commands run in, a category file holds its own category,
\* with one header and nothing of another category
CategoryFilesIntact ==
  \A c \in Cats : WellFormed(c, db[c])

(***************************************************************************)
(* What makes these invariants inductive: the lock file exists exactly     *)
(* while a process is in nk_process_comd or after one was killed there,    *)
(* signals are ignored all along, and /tmp/stemp exists only while the     *)
(* process that opened it goes on to its rename, or was killed on the way. *)
(***************************************************************************)
LockHeld ==
  /\ lock = (left # "nowhere" \/ \E p \in Proc : pc[p] \in Critical)
  /\ left # "nowhere" => \A p \in Proc : pc[p] \notin Critical

ScratchOwned(p) ==
  /\ pc[p] \in Busy => masked[p]
  /\ pc[p] = "write" => fd[p] = "stemp" /\ stemp = <<>> /\ buf[p] # NoFile
  /\ pc[p] # "write" => fd[p] = "none"
  /\ pc[p] \notin {"write", "rename", "unlock"} => buf[p] = NoFile
  /\ pc[p] \in {"write", "rename"} => WellFormed(cmd[p].cat, buf[p])
  /\ pc[p] = "append" => db[cmd[p].cat] = <<>>

\* one process at a time owns the lock file, the scratch file and whatever
\* it is about to install, from open(O_EXCL) to unlink in nk_sysconfig; after
\* a kill with SIGKILL in between nobody ever owns them again
OneOwner ==
  /\ LockHeld
  /\ \A p \in Proc : ScratchOwned(p)
  /\ stemp # NoFile => \/ left \in {"write", "rename"}
                       \/ \E p \in Proc : pc[p] \in {"write", "rename"}

InductiveInv ==
  TypeOK /\ MutualExclusion /\ RenameInstallsOwnEdit /\ CategoryFilesIntact
         /\ OneOwner

(* Refinement *)

\* what a reader finds of a category: a file with nothing in it is no file
Text(f) == IF f = <<>> THEN NoFile ELSE f

\* what the routines of nk_process_comd make of a category when they run alone
CommandEffect(f, r) ==
  Text(IF r.op \notin EditOps THEN f
       ELSE IF r.op = "n" /\ (f = NoFile \/ find_category(f, r.cat) = 0)
       THEN <<Header(r.cat), Entry(r.item, r.val)>>
       ELSE IF f = NoFile \/ Edit(f, r) = NoFile THEN f ELSE Edit(f, r))

CommandAnswer(f, r) == IF r.op \in EditOps THEN NoFile ELSE print_config(f, r)

Pending(p) == pc[p] \in Busy \ {"list", "unlock"}

Store == INSTANCE ConfigStore WITH
  Effect    <- CommandEffect,
  Answer    <- CommandAnswer,
  Nothing   <- NoFile,
  InitStore <- [c \in Cats |-> Text(InitDb[c])],
  store     <- [c \in Cats |-> Text(db[c])],
  phase     <- [p \in Proc |-> IF Pending(p) THEN "pending" ELSE "idle"],
  req       <- [p \in Proc |-> IF Pending(p) THEN cmd[p] ELSE NoCmd],
  ans       <- ret

\* the lock file, the scratch file and the rename make every command of
\* nk_sysconfig, "-a" included, one atomic operation on its category, with the
\* effect it has alone or, if its process is killed, with that or none
Linearizable == Store!Spec

\* the entries of a category, without its header
SectionOf(f, c) ==
  LET h == IF f = NoFile THEN 0 ELSE find_category(f, c)
  IN IF h = 0 THEN NoFile
     ELSE [k \in 1 .. section_end(f, h) - h |->
             [item |-> f[h + k].item, val |-> f[h + k].val]]

\* MergeToRAM of the category files followed by splitDB of the image gives
\* every category its entries back, after deletes that leave an empty file
\* and news that list a category twice; nk_new_setting is not between its
\* append to the file and its append to /tmp/category_list, and was not killed
\* there
SaveLosesNothing ==
  left # "list" /\ (\A p \in Proc : pc[p] # "list") =>
    \A c \in Cats :
      SectionOf(SplitFile(Merged(catlist, db), c), c) = SectionOf(db[c], c)

(* Liveness *)

\* the lock file never stays behind: SIGTERM cannot strike while it exists, and
\* a SIGKILL then is the only way to keep it
LockReleased == lock ~> (~lock \/ left # "nowhere")
=============================================================================
