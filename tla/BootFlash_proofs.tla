--------------------------- MODULE BootFlash_proofs ---------------------------
(***************************************************************************)
(* Proofs about the configuration the router starts with, for any number   *)
(* of saves and any number of looks before a mirror is made.               *)
(***************************************************************************)
EXTENDS BootFlash, TLAPS

MoveList == <<Sys, "smm.conf", "firebase.conf">>

ConfdState ==
  [at : {"sleep", "tar", "write", "mv"}, stamp : 0 .. MaxSaves, count : 0 .. Looks,
   done : BOOLEAN]

Whole(d) == d.sys.st = "whole" /\ d.confs = Confs

\* rc has made the directory it works in, and what it has still to do is the
\* rest of its list
ListKept ==
  /\ pc \in {"recover", "adopt", "factory", "fill", "confs"} => etcdir
  /\ pc = "confs" => todo \in {<<"firebase.conf", "smm.conf">>, <<"smm.conf">>, <<>>}
  /\ pc \in {"recover", "adopt"} =>
       todo \in {MoveList, <<"smm.conf", "firebase.conf">>, <<"firebase.conf">>, <<>>}

\* before a factory reset: a finished archive is whole, and the mirror is asked
\* for only when there is one
MirrorKept ==
  reset = "no" =>
    /\ tgz.there => Whole(tgz.dir)
    /\ flag => tgz.there
    /\ conf.at = "mv" => tgztemp.there /\ Whole(tgztemp.dir)

\* before a factory reset: with both EasyAccess files there, the startup file is
\* the one saved last or about to be replaced by the mirror; without them the
\* router has never been up
StartupKept ==
  reset = "no" =>
    /\ etc.confs = Confs => etcdir /\ etc.sys.st = "whole" /\ (flag \/ etc.sys = saved)
    /\ etc.confs # Confs => saved = Factory /\ ~tgz.there /\ ~flag

\* where rc is
RcKept ==
  reset = "no" =>
    /\ pc # "recover"
    /\ pc \in {"up", "adopt"} => etc.confs = Confs
    /\ pc \in {"factory", "fill"} => etc.confs # Confs /\ ram = Factory
    /\ pc = "confs" => /\ etc.sys = Factory /\ ram = Factory /\ saved = Factory /\ ~flag
                       /\ todo = <<"smm.conf">> => "firebase.conf" \in etc.confs
                       /\ todo = <<>> => etc.confs = Confs
    /\ pc = "adopt" => /\ flag /\ ram.st = "whole"
                       /\ IF todo = MoveList THEN mir.sys = ram
                          ELSE etc.sys = ram /\ saved = ram

\* where kd_updateFlash is
JobKept ==
  /\ pc # "up" => job = "none"
  /\ reset = "no" =>
       /\ job # "rm"
       /\ job \in {"cp", "write", "mv"} => ram.st = "whole"
       /\ job = "mv" => temp \in {None, ram}

\* The inductive invariant
BootInv == TypeOK /\ ListKept /\ MirrorKept /\ StartupKept /\ RcKept /\ JobKept

\* what the files can be
LEMMA Images ==
  /\ None \in Image /\ Part \in Image /\ Factory \in Image
  /\ \A v, s \in 0 .. MaxSaves : Img(v, s) \in Image
  /\ \A i \in Image : i.stamp \in 0 .. MaxSaves
  /\ None.st = "none" /\ Part.st = "part" /\ Factory.st = "whole"
  /\ \A v, s : Img(v, s).st = "whole"
<1>1. None \in Image /\ Part \in Image
  BY DEF Image
<1>2. \A v, s \in 0 .. MaxSaves : Img(v, s) \in Image
  BY DEF Image
<1>3. Factory \in Image
  BY <1>2, BoundAssumption DEF Factory
<1>4. /\ None.st = "none" /\ Part.st = "part"
      /\ None.stamp = 0 /\ Part.stamp = 0
      /\ \A v, s : Img(v, s).st = "whole" /\ Img(v, s).stamp = s
  BY DEF None, Part, Img
<1>5. Factory.st = "whole"
  BY <1>4 DEF Factory
<1>6. ASSUME NEW i \in Image
      PROVE  i.stamp \in 0 .. MaxSaves
  <2>1. i \in {None, Part} \/ \E v, s \in 0 .. MaxSaves : i = Img(v, s)
    BY DEF Image
  <2> QED
    BY <1>4, <2>1, BoundAssumption
<1> QED
  BY <1>1, <1>2, <1>3, <1>4, <1>5, <1>6

\* a file moved into or out of a directory leaves a directory
LEMMA Dirs ==
  ASSUME NEW d \in Dir
  PROVE  /\ Empty \in Dir /\ NoTar \in Tar
         /\ d = [sys |-> d.sys, confs |-> d.confs] /\ d.sys \in Image /\ d.confs \subseteq Confs
         /\ \A i \in Image : [d EXCEPT !.sys = i] \in Dir
         /\ \A S \in SUBSET Confs : [d EXCEPT !.confs = S] \in Dir
         /\ \A f \in {Sys} \cup Confs : Without(d, f) \in Dir
         /\ \A e \in Dir, f \in {Sys} \cup Confs : With(d, e, f) \in Dir
<1>1. /\ d = [sys |-> d.sys, confs |-> d.confs] /\ d.sys \in Image /\ d.confs \subseteq Confs
      /\ Empty \in Dir
  BY Images DEF Dir, Empty
<1>2. NoTar \in Tar
  BY <1>1 DEF NoTar, Tar
<1>3. /\ \A i \in Image : [d EXCEPT !.sys = i] \in Dir
      /\ \A S \in SUBSET Confs : [d EXCEPT !.confs = S] \in Dir
  BY DEF Dir
<1>4. \A f \in {Sys} \cup Confs : Without(d, f) \in Dir
  BY <1>3, Images DEF Without, Dir
<1>5. \A e \in Dir, f \in {Sys} \cup Confs : With(d, e, f) \in Dir
  BY <1>3, Images DEF With, Dir
<1> QED
  BY <1>1, <1>2, <1>3, <1>4, <1>5

\* what configd.sh remembers
LEMMA Confds ==
  ASSUME NEW k \in ConfdState
  PROVE  /\ Asleep \in ConfdState
         /\ \A s \in 0 .. MaxSaves :
              /\ [Asleep EXCEPT !.stamp = s] \in ConfdState
              /\ [k EXCEPT !.stamp = s, !.count = 0, !.done = FALSE] \in ConfdState
         /\ k.count # Looks => [k EXCEPT !.count = @ + 1] \in ConfdState
         /\ \A a \in {"sleep", "tar", "write", "mv"} :
              /\ [k EXCEPT !.at = a] \in ConfdState
              /\ [k EXCEPT !.at = a, !.done = TRUE] \in ConfdState
<1>1. Asleep \in ConfdState
  <2>1. 0 \in 0 .. MaxSaves /\ 0 \in 0 .. Looks
    BY BoundAssumption
  <2> QED
    BY <2>1, Zenon DEF Asleep, ConfdState
<1>2. ASSUME NEW s \in 0 .. MaxSaves
      PROVE  [Asleep EXCEPT !.stamp = s] \in ConfdState
  BY <1>1 DEF ConfdState
<1>3. ASSUME NEW s \in 0 .. MaxSaves
      PROVE  [k EXCEPT !.stamp = s, !.count = 0, !.done = FALSE] \in ConfdState
  <2>1. 0 \in 0 .. Looks
    BY BoundAssumption
  <2> QED
    BY <2>1 DEF ConfdState
<1>4. ASSUME k.count # Looks
      PROVE  [k EXCEPT !.count = @ + 1] \in ConfdState
  <2>1. k.count + 1 \in 0 .. Looks
    BY <1>4, BoundAssumption DEF ConfdState
  <2> QED
    BY <2>1 DEF ConfdState
<1>5. ASSUME NEW a \in {"sleep", "tar", "write", "mv"}
      PROVE  [k EXCEPT !.at = a] \in ConfdState
             /\ [k EXCEPT !.at = a, !.done = TRUE] \in ConfdState
  BY DEF ConfdState
<1> QED
  BY <1>1, <1>2, <1>3, <1>4, <1>5

\* the head and the rest of a list of at most three
LEMMA ShortLists ==
  ASSUME NEW S, NEW a \in S, NEW b \in S, NEW c \in S
  PROVE  /\ Head(<<a, b, c>>) = a /\ Tail(<<a, b, c>>) = <<b, c>> /\ Len(<<a, b, c>>) = 3
         /\ Head(<<a, b>>) = a /\ Tail(<<a, b>>) = <<b>> /\ Len(<<a, b>>) = 2
         /\ Head(<<a>>) = a /\ Tail(<<a>>) = <<>> /\ Len(<<a>>) = 1 /\ Len(<<>>) = 0
         /\ <<a, b, c>> \in Seq(S) /\ <<a, b>> \in Seq(S) /\ <<a>> \in Seq(S) /\ <<>> \in Seq(S)
OBVIOUS

\* rc's lists
LEMMA RcLists ==
  LET smm == "smm.conf"  fb == "firebase.conf"  File == {Sys} \cup Confs
  IN /\ Head(MoveList) = Sys /\ Tail(MoveList) = <<smm, fb>>
     /\ Head(<<smm, fb>>) = smm /\ Tail(<<smm, fb>>) = <<fb>>
     /\ Head(<<fb, smm>>) = fb /\ Tail(<<fb, smm>>) = <<smm>>
     /\ Head(<<fb>>) = fb /\ Tail(<<fb>>) = <<>> /\ Head(<<smm>>) = smm /\ Tail(<<smm>>) = <<>>
     /\ \A l \in {MoveList, <<smm, fb>>, <<fb, smm>>, <<fb>>, <<smm>>, <<>>} :
          l \in Seq(File) /\ Len(l) <= 3
     /\ Len(MoveList) = 3 /\ Len(<<smm, fb>>) = 2 /\ Len(<<fb>>) = 1 /\ Len(<<>>) = 0
     /\ Len(<<fb, smm>>) = 2 /\ Len(<<smm>>) = 1
<1> DEFINE smm == "smm.conf"  fb == "firebase.conf"  File == {Sys} \cup Confs
<1>1. Sys \in File /\ smm \in File /\ fb \in File
  BY DEF Confs
<1> HIDE DEF smm, fb, File
<1>2. /\ Head(MoveList) = Sys /\ Tail(MoveList) = <<smm, fb>> /\ Len(MoveList) = 3
      /\ MoveList = <<Sys, smm, fb>> /\ MoveList \in Seq(File)
  BY <1>1, ShortLists DEF MoveList, smm, fb
<1>3. /\ Head(<<smm, fb>>) = smm /\ Tail(<<smm, fb>>) = <<fb>> /\ Len(<<smm, fb>>) = 2
      /\ <<smm, fb>> \in Seq(File)
  BY <1>1, ShortLists
<1>4. /\ Head(<<fb, smm>>) = fb /\ Tail(<<fb, smm>>) = <<smm>> /\ Len(<<fb, smm>>) = 2
      /\ <<fb, smm>> \in Seq(File)
  BY <1>1, ShortLists
<1>5. /\ Head(<<fb>>) = fb /\ Tail(<<fb>>) = <<>> /\ Head(<<smm>>) = smm /\ Tail(<<smm>>) = <<>>
      /\ <<fb>> \in Seq(File) /\ <<smm>> \in Seq(File) /\ <<>> \in Seq(File)
      /\ Len(<<fb>>) = 1 /\ Len(<<smm>>) = 1 /\ Len(<<>>) = 0
  BY <1>1, ShortLists
<1>6. \A l \in {MoveList, <<smm, fb>>, <<fb, smm>>, <<fb>>, <<smm>>, <<>>} :
        l \in Seq(File) /\ Len(l) <= 3
  <2>1. \A l \in {MoveList, <<smm, fb>>, <<fb, smm>>, <<fb>>, <<smm>>, <<>>} : l \in Seq(File)
    BY <1>2, <1>3, <1>4, <1>5, Zenon
  <2>2. \A l \in {MoveList, <<smm, fb>>, <<fb, smm>>, <<fb>>, <<smm>>, <<>>} :
          Len(l) \in {0, 1, 2, 3}
    BY <1>2, <1>3, <1>4, <1>5, Zenon
  <2>3. \A n \in {0, 1, 2, 3} : n <= 3
    OBVIOUS
  <2> QED
    BY <2>1, <2>2, <2>3, Zenon
<1> QED
  BY <1>2, <1>3, <1>4, <1>5, <1>6 DEF smm, fb, File

\* rc comes to its end
LEMMA UpType ==
  ASSUME TypeOK, Up
  PROVE  /\ pc' = "up" /\ todo' = <<>> /\ tgztemp' \in Tar /\ conf' \in ConfdState
         /\ looks' \in 0 .. Looks + 1
<1>1. etc.sys.stamp \in 0 .. MaxSaves /\ NoTar \in Tar
  BY Dirs, Images, SMTT(40) DEF TypeOK
<1>2. conf \in ConfdState
  BY DEF TypeOK, ConfdState
<1>3. conf' \in ConfdState
  BY <1>1, <1>2, Confds DEF Up
<1> QED
  BY <1>1, <1>3, BoundAssumption DEF Up

\* The steps of rc keep the types and its list.
LEMMA RcType ==
  ASSUME TypeOK, ListKept, Rc
  PROVE  TypeOK' /\ ListKept'
<1>1. /\ etcdir \in BOOLEAN /\ etc \in Dir /\ temp \in Image
      /\ tgz \in Tar /\ tgztemp \in Tar /\ mir \in Dir /\ flag \in BOOLEAN
      /\ todo \in Seq({Sys} \cup Confs) /\ Len(todo) <= 3
      /\ ram \in Image /\ conf \in ConfdState /\ saved \in Image
      /\ looks \in 0 .. Looks + 1 /\ (~etcdir => etc = Empty /\ temp = None)
  BY DEF TypeOK, ConfdState
<1>2. /\ tgz.dir \in Dir /\ tgz.dir.sys \in Image /\ mir.sys \in Image /\ etc.sys \in Image
      /\ etc.confs \subseteq Confs /\ Empty \in Dir /\ NoTar \in Tar
  BY <1>1, Dirs DEF Tar
<1>3. etcdir' \in BOOLEAN /\ flag' \in BOOLEAN
  BY <1>1, Zenon DEF Rc, Boot, ChooseStartup, ChooseRecover, ChooseAdopt, ChooseFactory, MoveFile,
                     Recovered, Adopted, FactoryOpen, FactoryWrite, FactoryConf, FactoryDone
<1>4. UNCHANGED <<temp, tgz, job, saves, reset>>
  BY DEF Rc, Boot, ChooseStartup, ChooseRecover, ChooseAdopt, ChooseFactory, MoveFile,
         Recovered, Adopted, FactoryOpen, FactoryWrite, FactoryConf, FactoryDone, history
<1> SUFFICES /\ etc' \in Dir /\ tgztemp' \in Tar /\ mir' \in Dir
             /\ pc' \in {"off", "choose", "recover", "adopt", "factory", "fill", "confs", "up"}
             /\ todo' \in Seq({Sys} \cup Confs) /\ Len(todo') <= 3
             /\ ram' \in Image /\ conf' \in ConfdState /\ saved' \in Image
             /\ looks' \in 0 .. Looks + 1
             /\ ~etcdir' => etc' = Empty /\ temp' = None
             /\ ListKept'
  BY <1>1, <1>3, <1>4 DEF TypeOK, ConfdState
<1>5. CASE Boot
  BY <1>1, <1>2, <1>5 DEF Boot, ListKept, history
<1>6. CASE ChooseStartup
  BY <1>1, <1>2, <1>6, UpType DEF ChooseStartup, ListKept
<1>7. CASE ChooseRecover
  BY <1>1, <1>2, <1>7, RcLists DEF ChooseRecover, ListKept, history, MoveList
<1>8. CASE ChooseAdopt
  BY <1>1, <1>2, <1>8, RcLists DEF ChooseAdopt, ListKept, history, MoveList, Startup
<1>9. CASE ChooseFactory
  BY <1>1, <1>2, <1>9, Images DEF ChooseFactory, ListKept, history
<1>10. CASE MoveFile
  <2>1. /\ pc \in {"recover", "adopt"} /\ todo # <<>> /\ etcdir /\ todo' = Tail(todo)
        /\ UNCHANGED <<etcdir, temp, tgztemp, pc, ram, conf, looks>>
    BY <1>10 DEF MoveFile, ListKept
  <2>2. todo \in {MoveList, <<"smm.conf", "firebase.conf">>, <<"firebase.conf">>}
    BY <2>1 DEF ListKept
  <2>3. todo' \in {<<"smm.conf", "firebase.conf">>, <<"firebase.conf">>, <<>>}
        /\ Head(todo) \in {Sys} \cup Confs
    BY <2>1, <2>2, RcLists DEF Confs
  <2>4. etc' \in Dir /\ mir' \in Dir /\ saved' \in Image
    BY <1>1, <1>2, <1>10, <2>3, Dirs DEF MoveFile
  <2>5. todo' \in Seq({Sys} \cup Confs) /\ Len(todo') <= 3
    BY <2>3, RcLists
  <2>6. ListKept'
    BY <2>1, <2>3 DEF ListKept
  <2> QED
    BY <1>1, <2>1, <2>4, <2>5, <2>6
<1>11. CASE Recovered
  BY <1>1, <1>2, <1>11, UpType DEF Recovered, ListKept
<1>12. CASE Adopted
  BY <1>1, <1>2, <1>12, UpType DEF Adopted, ListKept
<1>13. CASE FactoryOpen
  BY <1>1, <1>2, <1>13, Images, Dirs DEF FactoryOpen, ListKept, history
<1>14. CASE FactoryWrite
  BY <1>1, <1>2, <1>14, Images, Dirs, RcLists DEF FactoryWrite, ListKept, history
<1>15. CASE FactoryConf
  <2>1. /\ pc = "confs" /\ todo # <<>> /\ etcdir /\ todo' = Tail(todo)
        /\ etc' = [etc EXCEPT !.confs = @ \cup {Head(todo)}]
        /\ UNCHANGED <<etcdir, temp, tgztemp, mir, pc, ram, conf, saved, looks>>
    BY <1>15 DEF FactoryConf, ListKept, history
  <2>2. todo \in {<<"firebase.conf", "smm.conf">>, <<"smm.conf">>}
    BY <2>1 DEF ListKept
  <2>3. todo' \in {<<"smm.conf">>, <<>>} /\ Head(todo) \in Confs
    BY <2>1, <2>2, RcLists DEF Confs
  <2>4. etc' \in Dir
    BY <1>1, <1>2, <2>1, <2>3, Dirs
  <2>5. todo' \in Seq({Sys} \cup Confs) /\ Len(todo') <= 3
    BY <2>3, RcLists
  <2>6. ListKept'
    BY <2>1, <2>3 DEF ListKept
  <2> QED
    BY <1>1, <2>1, <2>4, <2>5, <2>6
<1>16. CASE FactoryDone
  BY <1>1, <1>2, <1>16, UpType DEF FactoryDone, ListKept
<1> QED
  BY <1>5, <1>6, <1>7, <1>8, <1>9, <1>10, <1>11, <1>12, <1>13, <1>14, <1>15, <1>16 DEF Rc

\* So do the steps of a router that is up, and the loss of power.
LEMMA UpTypes ==
  ASSUME TypeOK, ListKept,
         \/ UpdateFlash \/ Configd \/ AskMirror \/ EraseFlash \/ PowerLoss
         \/ \E user \in BOOLEAN : Save(user)
  PROVE  TypeOK' /\ ListKept'
<1>1. /\ etcdir \in BOOLEAN /\ etc \in Dir /\ temp \in Image
      /\ tgz \in Tar /\ tgztemp \in Tar /\ mir \in Dir /\ flag \in BOOLEAN
      /\ todo \in Seq({Sys} \cup Confs) /\ Len(todo) <= 3
      /\ ram \in Image /\ conf \in ConfdState /\ saved \in Image /\ saves \in 0 .. MaxSaves
      /\ looks \in 0 .. Looks + 1 /\ (~etcdir => etc = Empty /\ temp = None)
  BY DEF TypeOK, ConfdState
<1>2. /\ etc.sys \in Image /\ etc.sys.stamp \in 0 .. MaxSaves
      /\ etc.confs \subseteq Confs /\ Empty \in Dir /\ NoTar \in Tar
  BY <1>1, Dirs, Images
<1>3. etcdir' \in BOOLEAN /\ flag' \in BOOLEAN
  BY <1>1, Zenon DEF UpdateFlash, CopyOpen, CopyWrite, Move, CopyConfs,
                     Configd, Look, TarOpen, TarWrite, TarMove,
                     AskMirror, EraseFlash, Erase, EraseFile, EraseDir, PowerLoss, Save, disk
<1>4. UNCHANGED mir /\ (pc' = pc \/ pc' = "off") /\ (todo' = todo \/ todo' = <<>>)
  BY DEF UpdateFlash, CopyOpen, CopyWrite, Move, CopyConfs,
         Configd, Look, TarOpen, TarWrite, TarMove,
         AskMirror, EraseFlash, Erase, EraseFile, EraseDir, PowerLoss, Save, disk, running
<1>5. pc = "up" \/ pc' = "off"
  BY DEF UpdateFlash, CopyOpen, CopyWrite, Move, CopyConfs,
         Configd, Look, TarOpen, TarWrite, TarMove,
         AskMirror, EraseFlash, Erase, EraseFile, EraseDir, PowerLoss, Save
<1>6. ListKept'
  BY <1>4, <1>5 DEF ListKept
<1>7. /\ pc' \in {"off", "choose", "recover", "adopt", "factory", "fill", "confs", "up"}
      /\ todo' \in Seq({Sys} \cup Confs) /\ Len(todo') <= 3
  BY <1>1, <1>4, RcLists DEF TypeOK
<1> SUFFICES /\ etc' \in Dir /\ temp' \in Image /\ tgz' \in Tar /\ tgztemp' \in Tar
             /\ ram' \in Image /\ conf' \in ConfdState
             /\ job' \in {"none", "cp", "write", "mv", "confs", "rm"}
             /\ saves' \in 0 .. MaxSaves /\ saved' \in Image
             /\ reset' \in {"no", "asked", "done", "past"} /\ looks' \in 0 .. Looks + 1
             /\ ~etcdir' => etc' = Empty /\ temp' = None
  BY <1>1, <1>3, <1>4, <1>6, <1>7 DEF TypeOK, ConfdState
<1>8. CASE CopyOpen \/ CopyWrite \/ CopyConfs
  <2>1. /\ UNCHANGED <<etcdir, tgz, tgztemp, ram, conf, history>>
        /\ job' \in {"write", "mv", "none"}
    BY <1>8 DEF CopyOpen, CopyWrite, CopyConfs
  <2>2. UNCHANGED <<saves, saved, reset, looks>>
    BY <2>1 DEF history
  <2>3. temp' \in Image /\ (~etcdir => temp' = None)
    BY <1>1, <1>8, Images DEF CopyOpen, CopyWrite, CopyConfs
  <2>4. etc' \in Dir /\ (~etcdir => etc' = Empty)
    BY <1>1, <1>8, Dirs DEF CopyOpen, CopyWrite, CopyConfs
  <2> QED
    BY <1>1, <2>1, <2>2, <2>3, <2>4 DEF TypeOK
<1>9. CASE Move
  <2>1. /\ UNCHANGED <<etcdir, tgz, tgztemp, ram, conf, saves, reset>> /\ job' = "confs"
    BY <1>9 DEF Move
  <2>2. /\ temp' \in Image /\ (~etcdir => temp' = None /\ etc' = Empty) /\ saved' \in Image
        /\ etc' \in Dir
    BY <1>1, <1>9, Images, Dirs DEF Move
  <2>3. looks' \in 0 .. Looks + 1
    BY <1>1, <1>9, BoundAssumption DEF Move
  <2> QED
    BY <1>1, <2>1, <2>2, <2>3 DEF TypeOK
<1>10. CASE Look
  <2>1. conf' \in ConfdState
    BY <1>1, <1>2, <1>10, Confds DEF Look
  <2>2. looks' \in 0 .. Looks + 1
    BY <1>1, <1>10, BoundAssumption, SMTT(30) DEF Look
  <2> QED
    BY <1>1, <1>10, <2>1, <2>2 DEF Look, disk, TypeOK
<1>11. CASE TarOpen \/ TarWrite \/ TarMove
  <2>1. conf' \in ConfdState
    BY <1>1, <1>11, Confds DEF TarOpen, TarWrite, TarMove
  <2>2. tgztemp' \in Tar
    <3>1. [sys |-> Part, confs |-> {}] \in Dir
      BY Images DEF Dir
    <3>2. \A d \in Dir : [there |-> TRUE, dir |-> d] \in Tar
      BY Zenon DEF Tar
    <3> QED
      BY <1>1, <1>2, <1>11, <3>1, <3>2 DEF TarOpen, TarWrite, TarMove
  <2> QED
    BY <1>1, <1>11, <2>1, <2>2 DEF TarOpen, TarWrite, TarMove, history, TypeOK
<1>12. CASE AskMirror
  BY <1>1, <1>12 DEF AskMirror, running, history, TypeOK
<1>13. CASE Erase \/ EraseDir
  <2>1. CASE Erase
    BY <1>1, <2>1, Images DEF Erase, disk, TypeOK
  <2>2. CASE EraseDir
    BY <1>1, <2>2, Images DEF EraseDir, TypeOK
  <2> QED
    BY <1>13, <2>1, <2>2
<1>14. ASSUME NEW f \in {Sys} \cup Confs, EraseFile(f)
       PROVE  /\ etc' \in Dir /\ UNCHANGED <<temp, tgz, tgztemp, running, history>>
              /\ ~etcdir' => etc' = Empty /\ temp' = None
  BY <1>1, <1>14, Dirs, SMTT(40) DEF EraseFile, Has, Empty
<1>15. CASE PowerLoss
  <2>1. conf' \in ConfdState /\ ram' \in Image /\ job' = "none"
    BY <1>1, <1>15, Images, Confds DEF PowerLoss
  <2>2. looks' \in 0 .. Looks + 1
    BY <1>15, BoundAssumption DEF PowerLoss
  <2> QED
    BY <1>1, <1>15, <2>1, <2>2 DEF PowerLoss, disk, TypeOK
<1>16. ASSUME NEW user \in BOOLEAN, Save(user)
       PROVE  /\ ram' \in Image /\ saves' \in 0 .. MaxSaves /\ job' = "cp"
              /\ reset' \in {"no", "past"} /\ UNCHANGED <<disk, conf, saved, looks>>
  <2>1. /\ ram' = Img(saves + 1, IF user THEN saves + 1 ELSE ram.stamp)
        /\ saves < MaxSaves /\ saves' = saves + 1 /\ job' = "cp"
        /\ reset' \in {"no", "past"} /\ UNCHANGED <<disk, conf, saved, looks>>
    BY <1>16 DEF Save
  <2>2. saves + 1 \in 0 .. MaxSaves /\ ram.stamp \in 0 .. MaxSaves
    BY <1>1, <2>1, Images, BoundAssumption
  <2> QED
    BY <2>1, <2>2, Images
<1> QED
  BY <1>1, <1>8, <1>9, <1>10, <1>11, <1>12, <1>13, <1>14, <1>15, <1>16
     DEF UpdateFlash, Configd, EraseFlash, disk, running, history, TypeOK

\* Once factory settings were asked for, they stay asked for, and only a router
\* that is up saves or erases.
LEMMA ResetStays ==
  ASSUME TypeOK, JobKept, Next
  PROVE  /\ reset # "no" => reset' # "no"
         /\ pc' # "up" => job' = "none"
<1>1. CASE Rc
  <2>1. UNCHANGED <<job, reset>> /\ pc # "up"
    BY <1>1 DEF Rc, Boot, ChooseStartup, ChooseRecover, ChooseAdopt, ChooseFactory, MoveFile,
         Recovered, Adopted, FactoryOpen, FactoryWrite, FactoryConf, FactoryDone, history
  <2> QED
    BY <2>1 DEF JobKept
<1>2. CASE PowerLoss
  BY <1>2 DEF PowerLoss
<1>3. CASE UpdateFlash \/ Configd
  <2>1. UNCHANGED reset /\ pc = "up" /\ pc' = pc
    BY <1>3 DEF UpdateFlash, CopyOpen, CopyWrite, Move, CopyConfs,
                Configd, Look, TarOpen, TarWrite, TarMove, history
  <2> QED
    BY <2>1
<1>4. CASE AskMirror \/ EraseFlash \/ \E user \in BOOLEAN : Save(user)
  <2>1. pc = "up" /\ pc' = pc /\ (reset # "no" => reset' # "no")
    BY <1>4 DEF AskMirror, EraseFlash, Erase, EraseFile, EraseDir, Save, running, history
  <2> QED
    BY <2>1
<1> QED
  BY <1>1, <1>2, <1>3, <1>4 DEF Next

\* what holds before a factory reset
Before == MirrorKept /\ StartupKept /\ RcKept /\ JobKept

\* The steps of rc keep it.
LEMMA RcSafe ==
  ASSUME BootInv, Rc, reset = "no"
  PROVE  Before'
<1> USE DEF BootInv
<1>0. UNCHANGED <<temp, tgz, job, saves, reset>> /\ pc # "up" /\ job = "none"
  <2>1. UNCHANGED <<temp, tgz, job, saves, reset>> /\ pc # "up"
    BY DEF Rc, Boot, ChooseStartup, ChooseRecover, ChooseAdopt, ChooseFactory, MoveFile,
         Recovered, Adopted, FactoryOpen, FactoryWrite, FactoryConf, FactoryDone, history
  <2> QED
    BY <2>1 DEF JobKept
<1>1. JobKept'
  BY <1>0 DEF JobKept
<1>2. /\ etc \in Dir /\ mir \in Dir /\ etc.sys \in Image /\ etc.confs \subseteq Confs
      /\ etc = [sys |-> etc.sys, confs |-> etc.confs]
      /\ ~etcdir => etc = Empty
  BY Dirs DEF TypeOK
<1>3. Confs # {} /\ None.st # "whole" /\ Part.st # "whole" /\ Factory.st = "whole"
  BY Images DEF Confs
<1>4. pc = "choose" => /\ (Startup => etc.confs = Confs)
                       /\ (~Startup => etc.confs # Confs /\ ~tgz.there)
  BY <1>3 DEF Startup, StartupKept
<1>5. CASE Boot
  BY <1>0, <1>1, <1>5 DEF Boot, history, Before, MirrorKept, StartupKept, RcKept
<1>6. CASE ChooseStartup
  <2>1. /\ pc' = "up" /\ conf'.at = "sleep" /\ UNCHANGED <<etcdir, etc, flag, saved>>
    BY <1>6 DEF ChooseStartup, Up, Asleep
  <2> QED
    BY <1>0, <1>1, <1>4, <1>6, <2>1
       DEF ChooseStartup, Before, MirrorKept, StartupKept, RcKept
<1>7. CASE ChooseRecover
  BY <1>4, <1>7 DEF ChooseRecover
<1>8. CASE ChooseAdopt
  <2>1. /\ pc' = "adopt" /\ UNCHANGED <<etcdir, etc, flag, saved, conf, tgztemp>>
        /\ mir' = tgz.dir /\ ram' = tgz.dir.sys /\ todo' = MoveList /\ flag /\ Startup
    BY <1>8 DEF ChooseAdopt, history, MoveList
  <2>2. ram'.st = "whole" /\ mir'.sys = ram'
    BY <2>1 DEF MirrorKept, Whole
  <2> QED
    BY <1>0, <1>1, <1>4, <1>8, <2>1, <2>2
       DEF ChooseAdopt, Before, MirrorKept, StartupKept, RcKept
<1>9. CASE ChooseFactory
  <2>1. /\ pc' = "factory" /\ etcdir' /\ ram' = Factory
        /\ UNCHANGED <<etc, flag, saved, conf, tgztemp>>
    BY <1>9 DEF ChooseFactory, history
  <2>2. etc.confs # Confs
    BY <1>2, <1>3, <1>4, <1>9 DEF ChooseFactory, Empty
  <2> QED
    BY <1>0, <1>1, <2>1, <2>2 DEF Before, MirrorKept, StartupKept, RcKept
<1>10. CASE MoveFile
  <2>1. /\ pc = "adopt" /\ pc' = pc /\ todo # <<>> /\ todo' = Tail(todo)
        /\ UNCHANGED <<etcdir, tgztemp, flag, ram, conf>>
        /\ etc.confs = Confs /\ flag /\ ram.st = "whole"
    BY <1>10 DEF MoveFile, RcKept
  <2>2. CASE todo = MoveList
    <3>1. Head(todo) = Sys /\ todo' = <<"smm.conf", "firebase.conf">> /\ todo' # MoveList
      BY <2>1, <2>2, RcLists
    <3>2. mir.sys = ram /\ Has(mir, Sys)
      BY <1>3, <2>1, <2>2 DEF RcKept, Has
    <3>3. etc' = [etc EXCEPT !.sys = mir.sys] /\ saved' = mir.sys
      BY <1>10, <2>1, <3>1, <3>2 DEF MoveFile, With
    <3>4. etc'.sys = ram /\ etc'.confs = Confs /\ saved' = ram
      BY <1>2, <2>1, <3>2, <3>3 DEF Dir
    <3> QED
      BY <1>0, <1>1, <2>1, <3>1, <3>4 DEF Before, MirrorKept, StartupKept, RcKept
  <2>3. CASE todo # MoveList
    <3>1. /\ Head(todo) \in Confs /\ Head(todo) # Sys /\ todo' # MoveList
      <4>1. todo \in {<<"smm.conf", "firebase.conf">>, <<"firebase.conf">>}
        BY <2>1, <2>3 DEF ListKept
      <4>2. Head(todo) \in {"smm.conf", "firebase.conf"}
            /\ todo' \in {<<"firebase.conf">>, <<>>}
        BY <2>1, <4>1, RcLists
      <4>3. todo' # MoveList
        <5>1. Len(<<"firebase.conf">>) # Len(MoveList) /\ Len(<<>>) # Len(MoveList)
          BY RcLists
        <5> QED
          BY <4>2, <5>1, Zenon
      <4> QED
        BY <4>2, <4>3 DEF Confs, Sys
    <3>2. etc' \in {etc, [etc EXCEPT !.confs = @ \cup {Head(todo)}]} /\ saved' = saved
      BY <1>10, <2>1, <3>1 DEF MoveFile, With
    <3>3. etc'.sys = etc.sys /\ etc'.confs = Confs
      BY <1>2, <2>1, <3>1, <3>2 DEF Dir
    <3>4. etc.sys = ram /\ saved = ram
      BY <2>1, <2>3 DEF RcKept
    <3> QED
      BY <1>0, <1>1, <2>1, <3>1, <3>2, <3>3, <3>4
         DEF Before, MirrorKept, StartupKept, RcKept
  <2> QED
    BY <2>2, <2>3
<1>11. CASE Recovered
  BY <1>11 DEF Recovered, RcKept
<1>12. CASE Adopted
  <2>1. /\ pc = "adopt" /\ todo = <<>> /\ pc' = "up" /\ conf'.at = "sleep"
        /\ UNCHANGED <<etcdir, etc, saved, ram>>
        /\ ~flag'
    BY <1>12 DEF Adopted, Up, Asleep
  <2>2. etc.confs = Confs /\ etc.sys = ram /\ saved = ram /\ ram.st = "whole"
    BY <2>1, RcLists DEF RcKept
  <2> QED
    BY <1>0, <1>1, <2>1, <2>2 DEF Before, MirrorKept, StartupKept, RcKept
<1>13. CASE FactoryOpen
  <2>1. /\ pc = "factory" /\ pc' = "fill" /\ UNCHANGED <<etcdir, ram, flag, saved, conf, tgztemp>>
        /\ etc' = [etc EXCEPT !.sys = Part]
    BY <1>13 DEF FactoryOpen, history
  <2>2. etc'.confs = etc.confs
    BY <1>2, <2>1 DEF Dir
  <2> QED
    BY <1>0, <1>1, <2>1, <2>2 DEF Before, MirrorKept, StartupKept, RcKept
<1>14. CASE FactoryWrite
  <2>1. /\ pc = "fill" /\ pc' = "confs" /\ UNCHANGED <<etcdir, ram, flag, saved, conf, tgztemp>>
        /\ etc' = [etc EXCEPT !.sys = Factory] /\ todo' = <<"firebase.conf", "smm.conf">>
    BY <1>14 DEF FactoryWrite, history
  <2>2. etc'.confs = etc.confs /\ etc'.sys = Factory
    BY <1>2, <2>1 DEF Dir
  <2>3. todo' # <<>> /\ todo' # <<"smm.conf">>
    BY <2>1, RcLists
  <2> QED
    BY <1>0, <1>1, <1>3, <2>1, <2>2, <2>3 DEF Before, MirrorKept, StartupKept, RcKept
<1>15. CASE FactoryConf
  <2>1. /\ pc = "confs" /\ pc' = pc /\ todo # <<>> /\ todo' = Tail(todo)
        /\ etc' = [etc EXCEPT !.confs = @ \cup {Head(todo)}]
        /\ UNCHANGED <<etcdir, ram, flag, saved, conf, tgztemp>>
    BY <1>15 DEF FactoryConf, history
  <2>2. /\ etc'.sys = etc.sys /\ etc'.confs = etc.confs \cup {Head(todo)}
        /\ etcdir /\ etc.sys = Factory /\ ram = Factory /\ saved = Factory /\ ~flag
    BY <1>2, <2>1 DEF Dir, RcKept, ListKept
  <2>3. /\ todo' = <<"smm.conf">> => "firebase.conf" \in etc'.confs
        /\ todo' = <<>> => etc'.confs = Confs
    <3>1. CASE todo = <<"firebase.conf", "smm.conf">>
      BY <2>1, <2>2, <3>1, RcLists
    <3>2. CASE todo = <<"smm.conf">>
      BY <1>2, <2>1, <2>2, <3>2, RcLists DEF RcKept, Confs
    <3> QED
      BY <2>1, <3>1, <3>2 DEF ListKept
  <2>4. tgz.there => etc'.confs = Confs
    <3>1. tgz.there => etc.confs = Confs
      BY DEF StartupKept
    <3>2. Head(todo) \in Confs
      BY <2>1, RcLists DEF ListKept, Confs
    <3> QED
      BY <2>2, <3>1, <3>2
  <2> QED
    BY <1>0, <1>1, <1>3, <2>1, <2>2, <2>3, <2>4 DEF Before, MirrorKept, StartupKept, RcKept
<1>16. CASE FactoryDone
  <2>1. /\ pc = "confs" /\ todo = <<>> /\ pc' = "up" /\ conf'.at = "sleep"
        /\ UNCHANGED <<etcdir, etc, saved, ram, flag>>
    BY <1>16 DEF FactoryDone, Up, Asleep
  <2> QED
    BY <1>0, <1>1, <2>1 DEF Before, MirrorKept, StartupKept, RcKept
<1> QED
  BY <1>5, <1>6, <1>7, <1>8, <1>9, <1>10, <1>11, <1>12, <1>13, <1>14, <1>15, <1>16 DEF Rc

\* So do the steps of a router that is up, and the loss of power.
LEMMA UpSafe ==
  ASSUME BootInv, reset = "no", reset' = "no",
         \/ UpdateFlash \/ Configd \/ AskMirror \/ EraseFlash \/ PowerLoss
         \/ \E user \in BOOLEAN : Save(user)
  PROVE  Before'
<1> USE DEF BootInv
<1>1. /\ etc \in Dir /\ tgz \in Tar /\ conf \in ConfdState
      /\ etc.sys \in Image /\ etc.confs \subseteq Confs
      /\ etc = [sys |-> etc.sys, confs |-> etc.confs]
  BY Dirs DEF TypeOK, ConfdState
<1>2. None.st = "none" /\ Part.st = "part" /\ \A v, s : Img(v, s).st = "whole"
  BY Images
<1>3. CASE PowerLoss
  <2>1. /\ pc' = "off" /\ job' = "none" /\ conf'.at = "sleep" /\ ~(pc' = "up")
        /\ UNCHANGED <<etcdir, etc, temp, tgz, tgztemp, flag, saved>>
    BY <1>3 DEF PowerLoss, Asleep, disk
  <2> QED
    BY <2>1 DEF Before, MirrorKept, StartupKept, RcKept, JobKept
<1>4. CASE ~PowerLoss
  <2>1. pc = "up" /\ pc' = "up"
    BY <1>4 DEF UpdateFlash, CopyOpen, CopyWrite, Move, CopyConfs,
                Configd, Look, TarOpen, TarWrite, TarMove,
                AskMirror, EraseFlash, Erase, EraseFile, EraseDir, Save, running
  <2>2. etc.confs = Confs /\ etcdir /\ etc.sys.st = "whole" /\ (flag \/ etc.sys = saved)
    BY <2>1 DEF RcKept, StartupKept
  <2> SUFFICES /\ etc'.confs = Confs /\ etcdir' /\ etc'.sys.st = "whole"
               /\ flag' \/ etc'.sys = saved'
               /\ MirrorKept'
               /\ job' # "rm" /\ (job' \in {"cp", "write", "mv"} => ram'.st = "whole")
               /\ job' = "mv" => temp' \in {None, ram'}
    BY <2>1 DEF Before, StartupKept, RcKept, JobKept
  <2>3. CASE CopyOpen
    BY <2>2, <2>3 DEF CopyOpen, MirrorKept, JobKept, history
  <2>4. CASE CopyWrite
    BY <2>2, <2>4 DEF CopyWrite, MirrorKept, JobKept, history
  <2>5. CASE Move
    <3>1. /\ UNCHANGED <<etcdir, tgz, tgztemp, flag, conf>> /\ job' = "confs"
      BY <2>5 DEF Move
    <3>2. CASE temp = None
      BY <2>2, <2>5, <3>1, <3>2 DEF Move, MirrorKept
    <3>3. CASE temp # None
      <4>1. /\ temp = ram /\ ram.st = "whole"
            /\ etc' = [etc EXCEPT !.sys = temp] /\ saved' = IF flag THEN saved ELSE ram
        BY <2>5, <3>3 DEF Move, JobKept
      <4>2. etc'.sys = ram /\ etc'.confs = Confs
        BY <1>1, <2>2, <4>1 DEF Dir
      <4> QED
        BY <2>2, <3>1, <4>1, <4>2 DEF MirrorKept
    <3> QED
      BY <3>2, <3>3
  <2>6. CASE CopyConfs
    <3>1. etc'.confs = Confs /\ etc'.sys = etc.sys
      BY <1>1, <2>2, <2>6 DEF CopyConfs, Dir
    <3> QED
      BY <2>2, <2>6, <3>1 DEF CopyConfs, MirrorKept, history
  <2>7. CASE Look
    <3>1. conf'.at # "mv" /\ UNCHANGED <<disk, ram, job, saved>>
      BY <1>1, <2>7 DEF Look, ConfdState
    <3> QED
      BY <2>2, <3>1 DEF disk, MirrorKept, JobKept
  <2>8. CASE TarOpen
    <3>1. conf'.at = "write" /\ UNCHANGED <<etcdir, etc, temp, tgz, flag, ram, job, saved>>
      BY <1>1, <2>8 DEF TarOpen, ConfdState, history
    <3> QED
      BY <2>2, <3>1 DEF MirrorKept, JobKept
  <2>9. CASE TarWrite
    <3>1. /\ tgztemp'.there /\ tgztemp'.dir = etc
          /\ UNCHANGED <<etcdir, etc, temp, tgz, flag, ram, job, saved>>
      BY <2>9 DEF TarWrite, history
    <3> QED
      BY <2>2, <3>1 DEF MirrorKept, JobKept, Whole
  <2>10. CASE TarMove
    <3>1. /\ conf'.at = "sleep" /\ conf.at = "mv" /\ tgz' = tgztemp
          /\ UNCHANGED <<etcdir, etc, temp, flag, ram, job, saved>>
      BY <1>1, <2>10 DEF TarMove, ConfdState, history
    <3> QED
      BY <2>2, <3>1 DEF MirrorKept, JobKept
  <2>11. CASE AskMirror
    BY <2>2, <2>11 DEF AskMirror, running, history, MirrorKept, JobKept
  <2>12. CASE Erase \/ EraseDir \/ \E f \in {Sys} \cup Confs : EraseFile(f)
    BY <2>12 DEF Erase, EraseDir, EraseFile, JobKept
  <2>13. ASSUME NEW user \in BOOLEAN, Save(user)
         PROVE  /\ job' = "cp" /\ ram'.st = "whole" /\ UNCHANGED <<disk, conf, saved>>
    BY <1>2, <2>13 DEF Save
  <2>14. CASE \E user \in BOOLEAN : Save(user)
    BY <2>2, <2>13, <2>14 DEF disk, MirrorKept
  <2> QED
    BY <1>4, <2>3, <2>4, <2>5, <2>6, <2>7, <2>8, <2>9, <2>10, <2>11, <2>12, <2>14
       DEF UpdateFlash, Configd, EraseFlash
<1> QED
  BY <1>3, <1>4

-----------------------------------------------------------------------------
LEMMA BootInit == Init => BootInv
<1> SUFFICES ASSUME Init PROVE BootInv
  OBVIOUS
<1> USE DEF Init
<1>1. TypeOK
  <2>1. etcdir \in BOOLEAN /\ flag \in BOOLEAN
    BY Zenon
  <2>2. Empty \in Dir /\ NoTar \in Tar
    <3>1. Empty \in Dir
      BY Images DEF Empty, Dir
    <3> QED
      BY <3>1, Dirs
  <2>3. conf \in ConfdState
    <3>1. 0 \in 0 .. MaxSaves /\ 0 \in 0 .. Looks
      BY BoundAssumption
    <3> QED
      BY <3>1, Zenon DEF Asleep, ConfdState
  <2>4. saves \in 0 .. MaxSaves /\ looks \in 0 .. Looks + 1
    BY BoundAssumption
  <2> QED
    BY <2>1, <2>2, <2>3, <2>4, Images, RcLists DEF TypeOK, ConfdState
<1>2. Empty.confs # Confs
  BY DEF Empty, Confs
<1> QED
  BY <1>1, <1>2 DEF BootInv, ListKept, MirrorKept, StartupKept, RcKept, JobKept, NoTar, Asleep

LEMMA BootStep == BootInv /\ [Next]_vars => BootInv'
<1> SUFFICES ASSUME BootInv, [Next]_vars PROVE BootInv'
  OBVIOUS
<1>1. CASE UNCHANGED vars
  BY <1>1 DEF vars, disk, running, history, BootInv, TypeOK, ListKept, MirrorKept,
              StartupKept, RcKept, JobKept
<1>2. CASE Next
  <2>1. TypeOK' /\ ListKept'
    BY <1>2, RcType, UpTypes DEF Next, BootInv
  <2>2. /\ reset # "no" => reset' # "no"
        /\ pc' # "up" => job' = "none"
    BY <1>2, ResetStays DEF BootInv
  <2>3. CASE reset' # "no"
    BY <2>1, <2>2, <2>3 DEF BootInv, MirrorKept, StartupKept, RcKept, JobKept
  <2>4. CASE reset = "no" /\ reset' = "no"
    <3>1. Before'
      BY <1>2, <2>4, RcSafe, UpSafe DEF Next
    <3> QED
      BY <2>1, <3>1 DEF BootInv, Before
  <2> QED
    BY <2>2, <2>3, <2>4
<1> QED
  BY <1>1, <1>2

LEMMA BootInvariant == Spec => []BootInv
BY BootInit, BootStep, PTL DEF Spec

\* Wherever power is lost, in a save, in a boot or while configd.sh packs: until a
\* factory reset the mirror is a whole configuration.
THEOREM MirrorIsWhole == Spec => []MirrorWhole
<1>1. BootInv => MirrorWhole
  BY DEF BootInv, MirrorKept, MirrorWhole, Whole
<1> QED
  BY BootInvariant, <1>1, PTL

\* Wherever power was lost, rc brings the router up with the configuration whose
\* save was completed last, or with the mirror the user asked for.
THEOREM BootsTheSaved == Spec => BootsSaved
<1>1. ASSUME BootInv, [Next]_vars
      PROVE  [Booted /\ reset = "no" => ram' = saved']_vars
  <2> SUFFICES ASSUME Next, Booted, reset = "no" PROVE ram' = saved'
    BY <1>1
  <2> USE <1>1 DEF BootInv
  <2>1. CASE ChooseStartup
    BY <2>1, Images DEF ChooseStartup, Startup, StartupKept
  <2>2. CASE Recovered
    BY <2>2 DEF Recovered, RcKept
  <2>3. CASE Adopted
    BY <2>3, RcLists DEF Adopted, RcKept
  <2>4. CASE FactoryDone
    BY <2>4 DEF FactoryDone, RcKept
  <2>5. CASE Boot \/ ChooseRecover \/ ChooseAdopt \/ ChooseFactory \/ MoveFile
             \/ FactoryOpen \/ FactoryWrite \/ FactoryConf
    BY <2>5 DEF Booted, Boot, ChooseRecover, ChooseAdopt, ChooseFactory, MoveFile,
                FactoryOpen, FactoryWrite, FactoryConf
  <2>6. CASE ~Rc
    <3>1. pc = "up" \/ pc' = "off"
      BY <2>6 DEF Next, UpdateFlash, CopyOpen, CopyWrite, Move, CopyConfs,
                  Configd, Look, TarOpen, TarWrite, TarMove,
                  AskMirror, EraseFlash, Erase, EraseFile, EraseDir, PowerLoss, Save
    <3> QED
      BY <3>1 DEF Booted
  <2> QED
    BY <2>1, <2>2, <2>3, <2>4, <2>5, <2>6 DEF Rc
<1> QED
  BY BootInvariant, <1>1, PTL DEF Spec, BootsSaved
=============================================================================
