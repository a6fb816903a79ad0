------------------------------- MODULE FlashDB -------------------------------
(***************************************************************************)
(* kd_updateFlash (nku/flash.c) beside the commands of SysConfig: merge    *)
(* the category files into one image, install it as /tmp/nk_sysconfig and  *)
(* copy it to the flash.  Any process linked with libnku may call it, with *)
(* no lock around the whole: two calls share /tmp/new_one and the .temp.   *)
(*                                                                         *)
(* MergeToRAM takes the lock file and gives it back before it starts to    *)
(* merge, and unlinks it once more when it is done.                        *)
(***************************************************************************)
EXTENDS SysConfig

CONSTANTS
  Savers,   \* the processes that call kd_updateFlash
  Stamps    \* the CONFIG_TIME_STAMP writes that a user's save starts with

VARIABLES
  job,       \* where each process is in kd_updateFlash
  mlist,     \* the categories its merge has still to read
  mbuf,      \* the text of its stream on /tmp/new_one
  mfd,       \* the file that stream refers to
  newone,    \* /tmp/new_one
  cfd,       \* the file its cp has open in the flash
  ram,       \* /tmp/nk_sysconfig
  flashtmp,  \* /etc/flash/etc/nk_sysconfig.temp
  flash,     \* /etc/flash/etc/nk_sysconfig
  overlapped \* history: a save began before another was over

mergeVars == <<mlist, mbuf, mfd, newone>>
imageVars == <<ram, cfd, flashtmp, flash>>
flashVars == <<job, mergeVars, imageVars, overlapped>>
saveVars  == <<vars, flashVars>>

Merging == {"locked", "open", "merge", "install", "unlink"}
Shell   == {"cp", "cpwrite", "mv"}
Jobs    == Merging \cup Shell \cup {"none", "stamp", "spin"}

FlashTypeOK ==
  /\ TypeOK
  /\ job \in [Proc -> Jobs]
  /\ mlist \in [Proc -> Seq(Cats)]
  /\ mbuf \in [Proc -> Seq(ImageLine)]
  /\ mfd \in [Proc -> {"none", "new_one", "ram", "gone"}]
  /\ cfd \in [Proc -> {"none", "temp", "flash", "gone"}]
  /\ {newone, ram, flashtmp, flash} \subseteq Image
  /\ overlapped \in {"no", "yes"}

-----------------------------------------------------------------------------
FlashInit ==
  /\ Init
  /\ job = [p \in Proc |-> "none"]
  /\ mlist = [p \in Proc |-> <<>>]
  /\ mbuf = [p \in Proc |-> <<>>]
  /\ mfd = [p \in Proc |-> "none"]
  /\ newone = NoFile
  /\ cfd = [p \in Proc |-> "none"]
  /\ ram = Merged(InitList, InitDb)
  /\ flashtmp = NoFile
  /\ flash = Merged(InitList, InitDb)
  /\ overlapped = "no"

GoJob(p, l) == job' = [job EXCEPT ![p] = l]

\* kd_updateFlash is called: nothing keeps the calls of two processes apart
BeginSave(p, l) ==
  /\ p \in Savers
  /\ job[p] = "none"
  /\ GoJob(p, l)
  /\ overlapped' = IF \E q \in Proc : job[q] # "none" THEN "yes" ELSE overlapped
  /\ UNCHANGED <<mergeVars, imageVars>>

\* kd_updateFlash(USER_CHANGE_DB) writes the time stamp first ...
UpdateFlashUser(p, r) ==
  /\ r \in Stamps
  /\ Start(p, r)
  /\ BeginSave(p, "stamp")

StampDone(p) ==
  /\ job[p] = "stamp"
  /\ pc[p] = "idle"
  /\ GoJob(p, "spin")
  /\ UNCHANGED <<vars, mergeVars, imageVars, overlapped>>

\* ... any other flag goes straight to MergeToRAM
UpdateFlash(p) ==
  /\ pc[p] = "idle"
  /\ BeginSave(p, "spin")
  /\ UNCHANGED vars

MergeAcquire(p) ==
  /\ job[p] = "spin"
  /\ ~lock
  /\ lock' = TRUE
  /\ GoJob(p, "locked")
  /\ UNCHANGED <<files, pc, cmd, buf, fd, masked, ret, left, mergeVars, imageVars,
                 overlapped>>

\* close and unlink right after the open
MergeRelease(p) ==
  /\ job[p] = "locked"
  /\ lock' = FALSE
  /\ GoJob(p, "open")
  /\ UNCHANGED <<files, pc, cmd, buf, fd, masked, ret, left, mergeVars, imageVars,
                 overlapped>>

MergeOpen(p) ==
  /\ job[p] = "open"
  /\ newone' = <<>>
  /\ mfd' = [mfd EXCEPT ![p] = "new_one"]
  /\ mbuf' = [mbuf EXCEPT ![p] = <<>>]
  /\ mlist' = [mlist EXCEPT ![p] = catlist]
  /\ GoJob(p, "merge")
  /\ UNCHANGED <<vars, imageVars, overlapped>>

MergeRead(p) ==
  LET c == Head(mlist[p]) IN
  /\ job[p] = "merge"
  /\ mlist[p] # <<>>
  /\ db[c] # NoFile
  /\ mbuf' = [mbuf EXCEPT ![p] = @ \o db[c]]
  /\ mlist' = [mlist EXCEPT ![p] = Tail(@)]
  /\ UNCHANGED <<vars, job, mfd, newone, imageVars, overlapped>>

\* fclose of the stream on /tmp/new_one
FlushMerge(p, text) ==
  /\ newone' = IF mfd[p] = "new_one" THEN Overlay(newone, text) ELSE newone
  /\ ram' = IF mfd[p] = "ram" THEN Overlay(ram, text) ELSE ram
  /\ mfd' = [mfd EXCEPT ![p] = "none"]
  /\ mbuf' = [mbuf EXCEPT ![p] = <<>>]

MergeClose(p) ==
  /\ job[p] = "merge"
  /\ mlist[p] = <<>>
  /\ FlushMerge(p, Append(mbuf[p], Trailer))
  /\ GoJob(p, "install")
  /\ UNCHANGED <<vars, mlist, cfd, flashtmp, flash, overlapped>>

\* fopen of /tmp/new_one, of the list or of a category file fails (the
\* process is out of descriptors): MergeToRAM closes what it has open and
\* returns 0, which kd_updateFlash ignores
MergeFail(p) ==
  /\ job[p] \in {"open", "merge"}
  /\ FlushMerge(p, mbuf[p])
  /\ mlist' = [mlist EXCEPT ![p] = <<>>]
  /\ GoJob(p, "cp")
  /\ UNCHANGED <<vars, cfd, flashtmp, flash, overlapped>>

\* rename(/tmp/new_one, /tmp/nk_sysconfig)
MergeInstall(p) ==
  /\ job[p] = "install"
  /\ IF newone = NoFile
     THEN UNCHANGED <<newone, ram, mfd>>
     ELSE /\ ram' = newone
          /\ newone' = NoFile
          /\ mfd' = [q \in Proc |-> IF mfd[q] = "new_one" THEN "ram"
                                    ELSE IF mfd[q] = "ram" THEN "gone" ELSE mfd[q]]
  /\ GoJob(p, "unlink")
  /\ UNCHANGED <<vars, mlist, mbuf, cfd, flashtmp, flash, overlapped>>

\* the second unlink of the lock file, whoever holds it by now
MergeUnlink(p) ==
  /\ job[p] = "unlink"
  /\ lock' = FALSE
  /\ GoJob(p, "cp")
  /\ UNCHANGED <<files, pc, cmd, buf, fd, masked, ret, left, mergeVars, imageVars,
                 overlapped>>

\* cp -f /tmp/nk_sysconfig nk_sysconfig.temp; mv nk_sysconfig.temp
\* nk_sysconfig: cp empties its target, writes it, mv renames it
CopyOpen(p) ==
  /\ job[p] = "cp"
  /\ flashtmp' = <<>>
  /\ cfd' = [cfd EXCEPT ![p] = "temp"]
  /\ GoJob(p, "cpwrite")
  /\ UNCHANGED <<vars, mergeVars, ram, flash, overlapped>>

CopyWrite(p) ==
  /\ job[p] = "cpwrite"
  /\ flashtmp' = IF cfd[p] = "temp" THEN Overlay(flashtmp, ram) ELSE flashtmp
  /\ flash' = IF cfd[p] = "flash" THEN Overlay(flash, ram) ELSE flash
  /\ cfd' = [cfd EXCEPT ![p] = "none"]
  /\ GoJob(p, "mv")
  /\ UNCHANGED <<vars, mergeVars, ram, overlapped>>

Move(p) ==
  /\ job[p] = "mv"
  /\ IF flashtmp = NoFile
     THEN UNCHANGED <<flash, flashtmp, cfd>>
     ELSE /\ flash' = flashtmp
          /\ flashtmp' = NoFile
          /\ cfd' = [q \in Proc |-> IF cfd[q] = "temp" THEN "flash"
                                    ELSE IF cfd[q] = "flash" THEN "gone" ELSE cfd[q]]
  /\ GoJob(p, "none")
  /\ UNCHANGED <<vars, mergeVars, ram, overlapped>>

-----------------------------------------------------------------------------
(* SIGKILL, or SIGTERM while nothing is masked, in the middle of something:*)
(* the process is gone, its lock file and half-written files stay.  The    *)
(* shell that system("cp ...; mv ...") started goes on without it; the     *)
(* daemon that is started again meanwhile is another process of Proc.      *)
Kill(p) ==
  /\ pc[p] # "dead"
  /\ pc[p] \in Busy \/ job[p] # "none"
  /\ Goto(p, "dead")
  /\ fd' = [fd EXCEPT ![p] = "none"]
  /\ buf' = [buf EXCEPT ![p] = NoFile]
  /\ cmd' = [cmd EXCEPT ![p] = NoCmd]
  /\ masked' = [masked EXCEPT ![p] = FALSE]
  /\ \/ job[p] \in Shell /\ UNCHANGED job
     \/ job[p] \notin Shell \ {"cp"} /\ GoJob(p, "none")
  /\ mfd' = [mfd EXCEPT ![p] = "none"]
  /\ mbuf' = [mbuf EXCEPT ![p] = <<>>]
  /\ mlist' = [mlist EXCEPT ![p] = <<>>]
  /\ UNCHANGED <<lock, files, ret, left, newone, imageVars, overlapped>>

\* a command of a process that is not in kd_updateFlash, or its time stamp
RunCommand(p) ==
  /\ \/ job[p] = "none" /\ (Respawn(p) \/ \E r \in Request : Start(p, r))
     \/ job[p] \in {"none", "stamp"} /\ Step(p)
  /\ UNCHANGED flashVars

SaveStep(p) ==
  \/ StampDone(p) \/ MergeAcquire(p) \/ MergeRelease(p) \/ MergeOpen(p)
  \/ MergeRead(p) \/ MergeClose(p) \/ MergeFail(p) \/ MergeInstall(p)
  \/ MergeUnlink(p) \/ CopyOpen(p) \/ CopyWrite(p) \/ Move(p)

SaveNext ==
  \E p \in Proc :
    \/ RunCommand(p) \/ SaveStep(p) \/ UpdateFlash(p)
    \/ \E r \in Request : UpdateFlashUser(p, r)

KillNext == SaveNext \/ \E p \in Proc : Kill(p)

\* no process is killed
SaveSpec == FlashInit /\ [][SaveNext]_saveVars

\* processes may be killed at any time
KillSpec == FlashInit /\ [][KillNext]_saveVars

-----------------------------------------------------------------------------
(* Properties *)

CompleteImage(im) ==
  /\ im # NoFile
  /\ SelectInSeq(im, LAMBDA l : l = Trailer) = Len(im)
  /\ im # <<>>

\* "protect merge process": what a merge or a copy to the flash has not
\* finished is never seen as /tmp/nk_sysconfig or in the flash
ImagesComplete == CompleteImage(ram) /\ CompleteImage(flash)

\* new_one + rename and nk_sysconfig.temp + mv: until two saves overlap
\* neither image is ever partial, wherever a process is killed and whatever
\* the commands do to the category files
ImagesKept == overlapped = "no" => ImagesComplete
=============================================================================
