------------------------------ MODULE BootFlash ------------------------------
(***************************************************************************)
(* Which configuration the router starts with: the boot script (sbin/rc),  *)
(* the mirror daemon (sbin/configd.sh), kd_updateFlash's copy to the flash *)
(* and kd_eraseFlash, with power lost between any two file operations.     *)
(*                                                                         *)
(* The startup configuration is /etc/flash/etc: nk_sysconfig and the two   *)
(* EasyAccess files.  /etc/flash/mirror holds a copy of it.  Contents of   *)
(* the EasyAccess files are not told apart, only whether they are there.   *)
(* How /tmp/nk_sysconfig is merged is in FlashDB; here it is one step.     *)
(***************************************************************************)
EXTENDS Naturals, Sequences

CONSTANTS
  MaxSaves,  \* bound on the saves
  Looks      \* 24: the hourly looks without a change before a mirror is made

ASSUME BoundAssumption == MaxSaves \in Nat /\ Looks \in Nat

Sys   == "nk_sysconfig"
Confs == {"smm.conf", "firebase.conf"}

\* an nk_sysconfig: none, a part of one, or the one of save number ver with the
\* time stamp of save number stamp
Img(ver, stamp) == [st |-> "whole", ver |-> ver, stamp |-> stamp]
None    == [st |-> "none", ver |-> 0, stamp |-> 0]
Part    == [st |-> "part", ver |-> 0, stamp |-> 0]
Factory == Img(0, 0)        \* /etc/nk_sysconfig of the firmware

Image == {None, Part} \cup {Img(v, s) : v \in 0 .. MaxSaves, s \in 0 .. MaxSaves}
Dir   == [sys : Image, confs : SUBSET Confs]
Empty == [sys |-> None, confs |-> {}]
Tar   == [there : BOOLEAN, dir : Dir]
NoTar == [there |-> FALSE, dir |-> Empty]

VARIABLES
  etcdir,   \* whether /etc/flash/etc exists
  etc,      \* what is in it
  temp,     \* nk_sysconfig.temp in it
  tgz,      \* mirror_config.tgz
  tgztemp,  \* mirror_config_temp.tgz
  mir,      \* what was unpacked from the mirror
  flag,     \* use_mirror_flag
  pc,       \* where the router is: in rc or up
  todo,     \* the files rc has still to move or copy
  ram,      \* /tmp/nk_sysconfig
  job,      \* where kd_updateFlash is
  conf,     \* where configd.sh is, what it remembers
  saves,    \* history: the number of saves
  saved,    \* history: the configuration the user saved or asked for last
  reset,    \* history: factory settings: not asked for, asked for, the erase is
            \* done, saved again since
  looks     \* history: looks since the startup file changed

disk    == <<etcdir, etc, temp, tgz, tgztemp, mir, flag>>
running == <<pc, todo, ram, job, conf>>
history == <<saves, saved, reset, looks>>
vars    == <<disk, running, history>>

Asleep == [at |-> "sleep", stamp |-> 0, count |-> 0, done |-> FALSE]

TypeOK ==
  /\ etcdir \in BOOLEAN /\ etc \in Dir /\ temp \in Image
  /\ tgz \in Tar /\ tgztemp \in Tar /\ mir \in Dir /\ flag \in BOOLEAN
  /\ pc \in {"off", "choose", "recover", "adopt", "factory", "fill", "confs", "up"}
  /\ todo \in Seq({Sys} \cup Confs) /\ Len(todo) <= 3
  /\ ram \in Image
  /\ job \in {"none", "cp", "write", "mv", "confs", "rm"}
  /\ conf \in [at : {"sleep", "tar", "write", "mv"}, stamp : 0 .. MaxSaves,
               count : 0 .. Looks, done : BOOLEAN]
  /\ saves \in 0 .. MaxSaves /\ saved \in Image /\ reset \in {"no", "asked", "done", "past"}
  /\ looks \in 0 .. Looks + 1
  /\ ~etcdir => etc = Empty /\ temp = None

\* a new router
Init ==
  /\ etcdir = FALSE /\ etc = Empty /\ temp = None
  /\ tgz = NoTar /\ tgztemp = NoTar /\ mir = Empty /\ flag = FALSE
  /\ pc = "off" /\ todo = <<>> /\ ram = None /\ job = "none" /\ conf = Asleep
  /\ saves = 0 /\ saved = Factory /\ reset = "no" /\ looks = 0

-----------------------------------------------------------------------------
(* rc *)

\* what an interrupted boot unpacked is removed
Boot ==
  /\ pc = "off"
  /\ mir' = Empty
  /\ pc' = "choose"
  /\ UNCHANGED <<etcdir, etc, temp, tgz, tgztemp, flag, todo, ram, job, conf, history>>

\* rc starts configd.sh, which looks at the time stamp and removes its
\* temporary file
Up ==
  /\ pc' = "up"
  /\ conf' = [Asleep EXCEPT !.stamp = etc.sys.stamp]
  /\ tgztemp' = NoTar
  /\ todo' = <<>>
  /\ looks' = 0

\* the three files of the startup configuration are there
Startup == etcdir /\ etc.sys # None /\ etc.confs = Confs

ChooseStartup ==
  /\ pc = "choose"
  /\ Startup /\ ~flag
  /\ ram' = etc.sys
  /\ Up
  /\ UNCHANGED <<etcdir, etc, temp, tgz, mir, flag, job, saves, saved, reset>>

\* a file is missing and there is a mirror: unpack it and move the files
ChooseRecover ==
  /\ pc = "choose"
  /\ etcdir /\ ~Startup /\ tgz.there
  /\ mir' = tgz.dir
  /\ todo' = <<Sys, "smm.conf", "firebase.conf">>
  /\ pc' = "recover"
  /\ UNCHANGED <<etcdir, etc, temp, tgz, tgztemp, flag, ram, job, conf, history>>

\* the user asked for the mirror
ChooseAdopt ==
  /\ pc = "choose"
  /\ Startup /\ flag
  /\ mir' = tgz.dir
  /\ ram' = tgz.dir.sys
  /\ todo' = <<Sys, "smm.conf", "firebase.conf">>
  /\ pc' = "adopt"
  /\ UNCHANGED <<etcdir, etc, temp, tgz, tgztemp, flag, job, conf, history>>

\* no startup configuration and no mirror, or no directory at all
ChooseFactory ==
  /\ pc = "choose"
  /\ ~etcdir \/ (~Startup /\ ~tgz.there)
  /\ etcdir' = TRUE
  /\ ram' = Factory
  /\ pc' = "factory"
  /\ UNCHANGED <<etc, temp, tgz, tgztemp, mir, flag, todo, job, conf, history>>

Has(d, f) == IF f = Sys THEN d.sys # None ELSE f \in d.confs

\* directory d with file f of directory s put into it
With(d, s, f) == IF f = Sys THEN [d EXCEPT !.sys = s.sys]
                 ELSE [d EXCEPT !.confs = @ \cup {f}]

Without(d, f) == IF f = Sys THEN [d EXCEPT !.sys = None]
                 ELSE [d EXCEPT !.confs = @ \ {f}]

\* one mv from the mirror to the startup directory; it fails if the mirror has
\* no such file
MoveFile ==
  LET f == Head(todo)
  IN /\ pc \in {"recover", "adopt"} /\ todo # <<>>
     /\ IF Has(mir, f)
        THEN /\ etc' = With(etc, mir, f)
             /\ mir' = Without(mir, f)
             /\ saved' = IF pc = "adopt" /\ f = Sys THEN mir.sys ELSE saved
        ELSE UNCHANGED <<etc, mir, saved>>
     /\ todo' = Tail(todo)
     /\ UNCHANGED <<etcdir, temp, tgz, tgztemp, flag, pc, ram, job, conf,
                    saves, reset, looks>>

Recovered ==
  /\ pc = "recover" /\ todo = <<>>
  /\ ram' = etc.sys
  /\ Up
  /\ UNCHANGED <<etcdir, etc, temp, tgz, mir, flag, job, saves, saved, reset>>

Adopted ==
  /\ pc = "adopt" /\ todo = <<>>
  /\ flag' = FALSE
  /\ Up
  /\ UNCHANGED <<etcdir, etc, temp, tgz, mir, ram, job, saves, saved, reset>>

\* cp of the factory file straight into the flash: emptied, then written
FactoryOpen ==
  /\ pc = "factory"
  /\ etc' = [etc EXCEPT !.sys = Part]
  /\ pc' = "fill"
  /\ UNCHANGED <<etcdir, temp, tgz, tgztemp, mir, flag, todo, ram, job, conf, history>>

FactoryWrite ==
  /\ pc = "fill"
  /\ etc' = [etc EXCEPT !.sys = Factory]
  /\ todo' = <<"firebase.conf", "smm.conf">>
  /\ pc' = "confs"
  /\ UNCHANGED <<etcdir, temp, tgz, tgztemp, mir, flag, ram, job, conf, history>>

FactoryConf ==
  /\ pc = "confs" /\ todo # <<>>
  /\ etc' = [etc EXCEPT !.confs = @ \cup {Head(todo)}]
  /\ todo' = Tail(todo)
  /\ UNCHANGED <<etcdir, temp, tgz, tgztemp, mir, flag, pc, ram, job, conf, history>>

FactoryDone ==
  /\ pc = "confs" /\ todo = <<>>
  /\ Up
  /\ UNCHANGED <<etcdir, etc, temp, tgz, mir, flag, ram, job, saves, saved, reset>>

-----------------------------------------------------------------------------
(* kd_updateFlash, by one process at a time and not during a reset; only a *)
(* user's save changes CONFIG_TIME_STAMP                                   *)

Save(user) ==
  /\ pc = "up" /\ job = "none" /\ ram.st = "whole"
  /\ saves < MaxSaves
  /\ saves' = saves + 1
  /\ ram' = Img(saves + 1, IF user THEN saves + 1 ELSE ram.stamp)
  /\ job' = "cp"
  /\ reset' = IF reset = "no" THEN "no" ELSE "past"
  /\ UNCHANGED <<disk, pc, todo, conf, saved, looks>>

\* faulty: cp over the startup file itself
CopyOpen_InPlace ==
  /\ pc = "up" /\ job = "cp"
  /\ etc' = IF etcdir THEN [etc EXCEPT !.sys = Part] ELSE etc
  /\ job' = "write"
  /\ UNCHANGED <<etcdir, temp, tgz, tgztemp, mir, flag, pc, todo, ram, conf, history>>

CopyOpen ==
  /\ pc = "up" /\ job = "cp"
  /\ temp' = IF etcdir THEN Part ELSE None
  /\ job' = "write"
  /\ UNCHANGED <<etcdir, etc, tgz, tgztemp, mir, flag, pc, todo, ram, conf, history>>

CopyWrite ==
  /\ pc = "up" /\ job = "write"
  /\ temp' = IF temp = None THEN None ELSE ram
  /\ job' = "mv"
  /\ UNCHANGED <<etcdir, etc, tgz, tgztemp, mir, flag, pc, todo, ram, conf, history>>

\* the flash is full: cp writes a part and fails, "; mv" runs all the same
CopyShort ==
  /\ pc = "up" /\ job = "write"
  /\ job' = "mv"
  /\ UNCHANGED <<disk, pc, todo, ram, conf, history>>

Move ==
  /\ pc = "up" /\ job = "mv"
  /\ IF temp = None THEN UNCHANGED <<etc, temp, saved, looks>>
     ELSE /\ etc' = [etc EXCEPT !.sys = temp]
          /\ temp' = None
          /\ saved' = IF reset # "no" \/ flag THEN saved ELSE ram
          /\ looks' = 0
  /\ job' = "confs"
  /\ UNCHANGED <<etcdir, tgz, tgztemp, mir, flag, pc, todo, ram, conf, saves, reset>>

\* cp -f /usr/local/EasyAccess/var/conf/* /etc/flash/etc
CopyConfs ==
  /\ pc = "up" /\ job = "confs"
  /\ etc' = IF etcdir THEN [etc EXCEPT !.confs = Confs] ELSE etc
  /\ job' = "none"
  /\ UNCHANGED <<etcdir, temp, tgz, tgztemp, mir, flag, pc, todo, ram, conf, history>>

-----------------------------------------------------------------------------
(* configd.sh *)

\* faulty: a changed time stamp does not ask for a new mirror
Look_KeepDone ==
  LET now == etc.sys.stamp
  IN /\ pc = "up" /\ conf.at = "sleep"
     /\ looks' = IF looks > Looks THEN looks ELSE looks + 1
     /\ conf' = IF conf.stamp # now THEN [conf EXCEPT !.stamp = now, !.count = 0]
                ELSE IF conf.count # Looks THEN [conf EXCEPT !.count = @ + 1]
                ELSE IF ~conf.done THEN [conf EXCEPT !.at = "tar"]
                ELSE conf
     /\ UNCHANGED <<disk, pc, todo, ram, job, saves, saved, reset>>

\* one turn of the loop, up to the tar
Look ==
  LET now == etc.sys.stamp
  IN /\ pc = "up" /\ conf.at = "sleep"
     /\ looks' = IF looks > Looks THEN looks ELSE looks + 1
     /\ conf' = IF conf.stamp # now
                THEN [conf EXCEPT !.stamp = now, !.count = 0, !.done = FALSE]
                ELSE IF conf.count # Looks THEN [conf EXCEPT !.count = @ + 1]
                ELSE IF ~conf.done THEN [conf EXCEPT !.at = "tar"]
                ELSE conf
     /\ UNCHANGED <<disk, pc, todo, ram, job, saves, saved, reset>>

\* faulty: the mirror itself is overwritten
TarOpen_InPlace ==
  /\ pc = "up" /\ conf.at = "tar"
  /\ tgz' = [there |-> TRUE, dir |-> [sys |-> Part, confs |-> {}]]
  /\ conf' = [conf EXCEPT !.at = "write"]
  /\ UNCHANGED <<etcdir, etc, temp, tgztemp, mir, flag, pc, todo, ram, job, history>>

TarOpen ==
  /\ pc = "up" /\ conf.at = "tar"
  /\ tgztemp' = [there |-> TRUE, dir |-> [sys |-> Part, confs |-> {}]]
  /\ conf' = [conf EXCEPT !.at = "write"]
  /\ UNCHANGED <<etcdir, etc, temp, tgz, mir, flag, pc, todo, ram, job, history>>

TarWrite ==
  /\ pc = "up" /\ conf.at = "write"
  /\ tgztemp' = [there |-> TRUE, dir |-> etc]
  /\ conf' = [conf EXCEPT !.at = "mv"]
  /\ UNCHANGED <<etcdir, etc, temp, tgz, mir, flag, pc, todo, ram, job, history>>

TarMove ==
  /\ pc = "up" /\ conf.at = "mv"
  /\ tgz' = tgztemp
  /\ tgztemp' = NoTar
  /\ conf' = [conf EXCEPT !.at = "sleep", !.done = TRUE]
  /\ UNCHANGED <<etcdir, etc, temp, mir, flag, pc, todo, ram, job, history>>

-----------------------------------------------------------------------------
(* The user, and the power *)

\* the web interface asks for the mirror at the next boot (external)
AskMirror ==
  /\ pc = "up" /\ tgz.there /\ ~flag /\ reset = "no"
  /\ flag' = TRUE
  /\ UNCHANGED <<etcdir, etc, temp, tgz, tgztemp, mir, running, history>>

\* kd_eraseFlash: rm -rf /etc/flash/etc, file by file in any order
Erase ==
  /\ pc = "up" /\ job = "none" /\ reset = "no"
  /\ job' = "rm"
  /\ reset' = "asked"
  /\ saved' = Factory
  /\ UNCHANGED <<disk, pc, todo, ram, conf, saves, looks>>

EraseFile(f) ==
  /\ pc = "up" /\ job = "rm"
  /\ Has(etc, f)
  /\ etc' = Without(etc, f)
  /\ UNCHANGED <<etcdir, temp, tgz, tgztemp, mir, flag, running, history>>

EraseDir ==
  /\ pc = "up" /\ job = "rm"
  /\ etc = Empty
  /\ etcdir' = FALSE /\ temp' = None
  /\ job' = "none"
  /\ reset' = "done"
  /\ UNCHANGED <<etc, tgz, tgztemp, mir, flag, pc, todo, ram, conf, saves, saved, looks>>

\* the router is rebooted or loses power; what is in the flash stays
PowerLoss ==
  /\ pc # "off"
  /\ pc' = "off" /\ todo' = <<>> /\ ram' = None /\ job' = "none" /\ conf' = Asleep
  /\ looks' = 0
  /\ UNCHANGED <<disk, saves, saved, reset>>

-----------------------------------------------------------------------------
Rc == \/ Boot \/ ChooseStartup \/ ChooseRecover \/ ChooseAdopt \/ ChooseFactory
      \/ MoveFile \/ Recovered \/ Adopted
      \/ FactoryOpen \/ FactoryWrite \/ FactoryConf \/ FactoryDone

UpdateFlash == CopyOpen \/ CopyWrite \/ Move \/ CopyConfs

Configd == Look \/ TarOpen \/ TarWrite \/ TarMove

EraseFlash == Erase \/ EraseDir \/ \E f \in {Sys} \cup Confs : EraseFile(f)

Next == \/ Rc \/ UpdateFlash \/ Configd \/ AskMirror \/ EraseFlash \/ PowerLoss
        \/ \E user \in BOOLEAN : Save(user)

Spec == Init /\ [][Next]_vars

\* while there is power the scripts and the copy run on
FairSpec == Spec /\ WF_vars(Rc) /\ WF_vars(UpdateFlash) /\ WF_vars(Configd)

\* with a flash that can be full
FullSpec == Init /\ [][Next \/ CopyShort]_vars

-----------------------------------------------------------------------------
Booted == pc # "up" /\ pc' = "up"

\* "The router will load the startup configuration file when it boots up":
\* wherever power was lost, in a save, in a boot or in the making of a mirror,
\* the router comes up with the configuration whose save was completed last, or
\* with the mirror the user asked for.  (After a factory reset see ResetHolds.)
BootsSaved == [][Booted /\ reset = "no" => ram' = saved']_vars

\* The mirror is a whole configuration at all times, before a factory reset.
MirrorWhole ==
  tgz.there /\ reset = "no" => tgz.dir.sys.st = "whole" /\ tgz.dir.confs = Confs

\* "The startup configuration will be copied to mirror configuration
\* automatically": if the router is left on, the mirror gets the time stamp of
\* the startup configuration.
MirrorFollows ==
  <>[](pc = "up" /\ reset = "no") =>
    <>[](tgz.there /\ tgz.dir.sys.stamp = etc.sys.stamp)

\* "If the router operates for 24 hours without reboot or configuration
\* changed": what is packed for the mirror has been the startup configuration for the
\* looks of a day.
MirrorSettled ==
  [][conf.at = "write" /\ conf'.at = "mv" /\ reset = "no" => looks > Looks]_vars

\* "Click Factory Default if you want to restore the router to its factory
\* default settings": after the erase the router comes up with them.
ResetHolds == [][Booted /\ reset = "done" => ram' = Factory]_vars

\* "If the Startup configuration file fails, the Mirror configuration file will
\* be adopted": the router does not come up with a part of a configuration.
MirrorAdopted == [][Booted /\ tgz.there => ram'.st = "whole"]_vars
==============================================================================
