------------------------------- MODULE BatchDB -------------------------------
(***************************************************************************)
(* The other users of the lock file and of the category files: the batch   *)
(* update of the web pages (kd_batch, kdBatchUpdateDB, BatchGet_config_m)  *)
(* and splitDB, which cuts an imported image into category files, beside   *)
(* the commands of SysConfig.                                              *)
(*                                                                         *)
(* A batch collects the new entries of one item in /tmp/kd_batch and then  *)
(* rewrites the category file through /tmp/kd_batch_backup.  None of these *)
(* routines ignores signals.                                               *)
(***************************************************************************)
EXTENDS SysConfig

CONSTANTS
  Batchers,   \* processes that run batches
  Splitters,  \* processes that run splitDB
  Targets,    \* what a batch is about: a category and an item
  Import,     \* the image in /tmp/nk_sysconfig when splitDB is called
  MaxBatch,   \* bound on the lines of /tmp/kd_batch
  Faults      \* processes are killed and fopen fails

ASSUME UserAssumption == Batchers \subseteq Proc /\ Splitters \subseteq Proc
ASSUME TargetAssumption ==
  Targets \subseteq [cat : Cats, item : Items] /\ Targets # {}
ASSUME ImportAssumption ==
  /\ Import \in Seq(ImageLine)
  /\ Import # <<>> => Import[1].kind # "entry"
ASSUME FaultsAssumption == MaxBatch \in Nat /\ Faults \in BOOLEAN

VARIABLES
  task,      \* where each process is in one of these routines
  target,    \* the category and item it works on
  batch,     \* /tmp/kd_batch
  backup,    \* /tmp/kd_batch_backup
  text,      \* what it writes to its stream: a category file
  bfd,       \* the file its stream on /tmp/kd_batch_backup refers to
  rest,      \* the lines of the image splitDB has still to read
  names,     \* the names it wrote to its stream on /tmp/category_list
  got,       \* what BatchGet_config_m stored in the caller's list
  orphaned,  \* a process died, or returned, with the lock file in place
  late       \* history: the lock file was taken before a batch's late rename

batchVars == <<task, target, batch, backup, text, bfd, rest, names, got, orphaned>>
allVars   == <<vars, batchVars, late>>

BatchHeld == {"open", "write", "unlock"}
GetHeld   == {"read", "done"}
SplitHeld == {"list", "next", "section", "finish"}
Holding   == BatchHeld \cup GetHeld \cup SplitHeld
Tasks     == Holding \cup {"none", "spin", "getspin", "splitspin", "rename", "remove"}

AnyTarget == CHOOSE t \in Targets : TRUE

BatchTypeOK ==
  /\ TypeOK
  /\ task \in [Proc -> Tasks]
  /\ target \in [Proc -> [cat : Cats, item : Items]]
  /\ {batch, backup} \subseteq File
  /\ text \in [Proc -> Content]
  /\ bfd \in [Proc -> {"none", "backup", "gone"} \cup Cats]
  /\ rest \in [Proc -> Seq(ImageLine)]
  /\ names \in [Proc -> Seq(Cats)]
  /\ got \in [Proc -> Seq(Values)]
  /\ orphaned \in BOOLEAN
  /\ late \in {"no", "yes"}

BatchInit ==
  /\ Init
  /\ task = [p \in Proc |-> "none"]
  /\ target = [p \in Proc |-> AnyTarget]
  /\ batch = NoFile /\ backup = NoFile
  /\ text = [p \in Proc |-> <<>>]
  /\ bfd = [p \in Proc |-> "none"]
  /\ rest = [p \in Proc |-> <<>>]
  /\ names = [p \in Proc |-> <<>>]
  /\ got = [p \in Proc |-> <<>>]
  /\ orphaned = FALSE
  /\ late = "no"

Do(p, l) == task' = [task EXCEPT ![p] = l]
Free(p)  == pc[p] = "idle" /\ task[p] = "none"

-----------------------------------------------------------------------------
(* kd_batch and kdBatchUpdateDB *)

\* NK_db_write_new -> kd_batch appends a line, with no lock
Collect(p, t, v) ==
  /\ p \in Batchers /\ Free(p)
  /\ batch # NoFile => Len(batch) < MaxBatch
  /\ batch' = IF batch = NoFile THEN <<Entry(t.item, v)>>
              ELSE Append(batch, Entry(t.item, v))
  /\ UNCHANGED <<vars, task, target, backup, text, bfd, rest, names, got, orphaned>>

BatchUpdate(p, t) ==
  /\ p \in Batchers /\ Free(p)
  /\ db[t.cat] # NoFile => Len(db[t.cat]) <= MaxLines
  /\ target' = [target EXCEPT ![p] = t]
  /\ Do(p, "spin")
  /\ UNCHANGED <<vars, batch, backup, text, bfd, rest, names, got, orphaned>>

\* the same loop as in nk_sysconfig: open(O_CREAT | O_EXCL) until it succeeds
Lock(p, from, to) ==
  /\ task[p] = from
  /\ ~lock
  /\ lock' = TRUE
  /\ Do(p, to)
  /\ UNCHANGED <<files, pc, cmd, buf, fd, masked, ret, left, target, batch, backup, text, bfd,
                 rest, names, got, orphaned>>

\* faulty: entries of every item are dropped
Batch_config_DropAll(f, c, i, lines) ==
  LET h == find_category(f, c)
  IN IF h = 0 THEN f ELSE SubSeq(f, 1, h) \o lines \o SubSeq(f, section_end(f, h) + 1, Len(f))

\* the lines of a file when the entries of an item are about to be dropped:
\* the empty lines after those come after the line before them
Spread(f, i) ==
  [k \in DOMAIN f |-> [f[k] EXCEPT !.gap =
     \E j \in k .. Len(f) : f[j].gap /\ \A m \in (k + 1) .. j : IsEntry(f[m], i)]]

\* Batch_config: the lines up to the header are copied, the batch follows it,
\* then the section without the entries of the item and all that comes after.
\* Without the header the file is copied and the batch is not.
Batch_config(f, c, i, lines) ==
  LET h == find_category(f, c)
      e == section_end(f, h)
      g == Spread(f, i)
      top == <<[f[h] EXCEPT !.gap = FALSE]>> \o lines
  IN IF h = 0 THEN f
     ELSE SubSeq(f, 1, h - 1) \o Front(top) \o <<[Last(top) EXCEPT !.gap = g[h].gap]>>
          \o SelectSeq(SubSeq(g, h + 1, e), LAMBDA l : l.item # i)
          \o SubSeq(f, e + 1, Len(f))

BatchOpen(p) ==
  LET t == target[p] IN
  /\ task[p] = "open"
  /\ db[t.cat] # NoFile
  /\ backup' = <<>>
  /\ bfd' = [bfd EXCEPT ![p] = "backup"]
  /\ text' = [text EXCEPT ![p] =
       Batch_config(db[t.cat], t.cat, t.item, IF batch = NoFile THEN <<>> ELSE batch)]
  /\ Do(p, "write")
  /\ UNCHANGED <<vars, target, batch, rest, names, got, orphaned>>

\* fclose: the text reaches the file, under whatever name it has by now
BatchClose(p) ==
  /\ task[p] = "write"
  /\ backup' = IF bfd[p] = "backup" THEN Overlay(backup, text[p]) ELSE backup
  /\ db' = IF bfd[p] \in Cats THEN [db EXCEPT ![bfd[p]] = Overlay(@, text[p])] ELSE db
  /\ bfd' = [bfd EXCEPT ![p] = "none"]
  /\ Do(p, "unlock")
  /\ UNCHANGED <<lock, stemp, catlist, pc, cmd, buf, fd, masked, ret, left, target, batch,
                 text, rest, names, got, orphaned>>

\* faulty: close without the unlink
BatchUnlock_Forgotten(p) ==
  /\ task[p] = "unlock"
  /\ Do(p, "rename")
  /\ UNCHANGED <<vars, target, batch, backup, text, bfd, rest, names, got, orphaned>>

\* the lock file goes before the rename
BatchUnlock(p) ==
  /\ task[p] = "unlock"
  /\ lock' = FALSE
  /\ Do(p, "rename")
  /\ UNCHANGED <<files, pc, cmd, buf, fd, masked, ret, left, target, batch, backup, text, bfd,
                 rest, names, got, orphaned>>

\* rename(/tmp/kd_batch_backup, /tmp/splitDB/<cat>); Batch_config always
\* returns 1
BatchRename(p) ==
  LET c == target[p].cat IN
  /\ task[p] = "rename"
  /\ db' = IF backup = NoFile THEN db ELSE [db EXCEPT ![c] = backup]
  /\ fd' = [q \in Proc |-> IF backup # NoFile /\ fd[q] = c THEN "gone" ELSE fd[q]]
  /\ bfd' = [q \in Proc |-> IF backup # NoFile /\ bfd[q] = c THEN "gone"
                            ELSE IF bfd[q] = "backup" THEN c ELSE bfd[q]]
  /\ backup' = NoFile
  /\ Do(p, "remove")
  /\ UNCHANGED <<lock, stemp, catlist, pc, cmd, buf, masked, ret, left, target, batch,
                 text, rest, names, got, orphaned>>

\* rm -f /tmp/kd_batch
BatchRemove(p) ==
  /\ task[p] = "remove"
  /\ batch' = NoFile
  /\ text' = [text EXCEPT ![p] = <<>>]
  /\ target' = [target EXCEPT ![p] = AnyTarget]
  /\ Do(p, "none")
  /\ UNCHANGED <<vars, backup, bfd, rest, names, got, orphaned>>

-----------------------------------------------------------------------------
(* BatchGet_config_m *)

BatchGet(p, t) ==
  /\ p \in Batchers /\ Free(p)
  /\ target' = [target EXCEPT ![p] = t]
  /\ Do(p, "getspin")
  /\ UNCHANGED <<vars, batch, backup, text, bfd, rest, names, got, orphaned>>

\* the values of the item in the section of the category, in file order
EntriesOf(f, c, i) ==
  LET h == find_category(f, c)
      s == SubSeq(f, h + 1, section_end(f, h))
      e == SelectSeq(s, LAMBDA l : l.item = i)
  IN IF h = 0 THEN <<>> ELSE [k \in DOMAIN e |-> e[k].val]

BatchGetRead(p) ==
  LET t == target[p] IN
  /\ task[p] = "read"
  /\ db[t.cat] # NoFile
  /\ got' = [got EXCEPT ![p] = EntriesOf(db[t.cat], t.cat, t.item)]
  /\ Do(p, "done")
  /\ UNCHANGED <<vars, target, batch, backup, text, bfd, rest, names, orphaned>>

BatchGetUnlock(p) ==
  /\ task[p] = "done"
  /\ lock' = FALSE
  /\ got' = [got EXCEPT ![p] = <<>>]
  /\ target' = [target EXCEPT ![p] = AnyTarget]
  /\ Do(p, "none")
  /\ UNCHANGED <<files, pc, cmd, buf, fd, masked, ret, left, batch, backup, text, bfd,
                 rest, names, orphaned>>

-----------------------------------------------------------------------------
(* splitDB *)

Split(p) ==
  /\ p \in Splitters /\ Free(p)
  /\ Do(p, "splitspin")
  /\ UNCHANGED <<vars, target, batch, backup, text, bfd, rest, names, got, orphaned>>

\* fopen(/tmp/category_list, "w+") empties the list
SplitList(p) ==
  /\ task[p] = "list"
  /\ catlist' = <<>>
  /\ rest' = [rest EXCEPT ![p] = Import]
  /\ names' = [names EXCEPT ![p] = <<>>]
  /\ Do(p, "next")
  /\ UNCHANGED <<lock, db, stemp, pc, cmd, buf, fd, masked, ret, left, target, batch, backup,
                 text, bfd, got, orphaned>>

\* the lines of an image before its next header
UpToHeader(image) ==
  LET H == {k \in DOMAIN image : image[k].kind # "entry"}
  IN SubSeq(image, 1, IF H = {} THEN Len(image) ELSE Min(H) - 1)

\* a header: its name goes to the list, its file is emptied; the lines that
\* follow are its text
SplitOpen(p) ==
  LET r == rest[p]
      s == UpToHeader(Tail(r))
  IN /\ task[p] = "next"
     /\ r # <<>>
     /\ r[1].kind = "header"
     /\ names' = [names EXCEPT ![p] = Append(@, r[1].cat)]
     /\ db' = [db EXCEPT ![r[1].cat] = <<>>]
     /\ target' = [target EXCEPT ![p] = [cat |-> r[1].cat, item |-> @.item]]
     /\ text' = [text EXCEPT ![p] = Tight(<<r[1]>> \o s)]
     /\ rest' = [rest EXCEPT ![p] = SubSeq(r, Len(s) + 2, Len(r))]
     /\ Do(p, "section")
     /\ UNCHANGED <<lock, stemp, catlist, pc, cmd, buf, fd, masked, ret, left, batch, backup,
                    bfd, got, orphaned>>

\* the [CHECKSUM] section gets a file nobody reads (see DbFile)
SplitTrailer(p) ==
  /\ task[p] = "next"
  /\ rest[p] # <<>>
  /\ rest[p][1] = Trailer
  /\ rest' = [rest EXCEPT ![p] = Tail(@)]
  /\ UNCHANGED <<vars, task, target, batch, backup, text, bfd, names, got, orphaned>>

\* faulty: the file is closed before the section's last line
SplitSection_Short(p) ==
  /\ task[p] = "section"
  /\ db' = [db EXCEPT ![target[p].cat] = Front(text[p])]
  /\ text' = [text EXCEPT ![p] = <<>>]
  /\ Do(p, "next")
  /\ UNCHANGED <<lock, stemp, catlist, pc, cmd, buf, fd, masked, ret, left, target, batch, backup,
                 bfd, rest, names, got, orphaned>>

\* fclose of the category file
SplitSection(p) ==
  /\ task[p] = "section"
  /\ db' = [db EXCEPT ![target[p].cat] = text[p]]
  /\ text' = [text EXCEPT ![p] = <<>>]
  /\ Do(p, "next")
  /\ UNCHANGED <<lock, stemp, catlist, pc, cmd, buf, fd, masked, ret, left, target, batch, backup,
                 bfd, rest, names, got, orphaned>>

\* fclose of the list at the end of the image
SplitNames(p) ==
  /\ task[p] = "next"
  /\ rest[p] = <<>>
  /\ catlist' = names[p]
  /\ Do(p, "finish")
  /\ UNCHANGED <<lock, db, stemp, pc, cmd, buf, fd, masked, ret, left, target, batch, backup,
                 text, bfd, rest, names, got, orphaned>>

SplitUnlock(p) ==
  /\ task[p] = "finish"
  /\ lock' = FALSE
  /\ rest' = [rest EXCEPT ![p] = <<>>]
  /\ names' = [names EXCEPT ![p] = <<>>]
  /\ target' = [target EXCEPT ![p] = AnyTarget]
  /\ Do(p, "none")
  /\ UNCHANGED <<files, pc, cmd, buf, fd, masked, ret, left, batch, backup, text,
                 bfd, got, orphaned>>

-----------------------------------------------------------------------------
(* Faults *)

\* the process is gone: its streams are not flushed and its lock file stays
Die(p) ==
  /\ Goto(p, "dead")
  /\ Do(p, "none")
  /\ text' = [text EXCEPT ![p] = <<>>]
  /\ bfd' = [bfd EXCEPT ![p] = "none"]
  /\ rest' = [rest EXCEPT ![p] = <<>>]
  /\ names' = [names EXCEPT ![p] = <<>>]
  /\ got' = [got EXCEPT ![p] = <<>>]
  /\ target' = [target EXCEPT ![p] = AnyTarget]
  /\ orphaned' = (orphaned \/ task[p] \in Holding)
  /\ UNCHANGED <<lock, files, cmd, buf, fd, masked, ret, left, batch, backup>>

\* Batch_config calls fclose(NULL) for a category that has no file
BatchCrash(p) ==
  /\ task[p] = "open"
  /\ db[target[p].cat] = NoFile
  /\ Die(p)

\* BatchGet_config_m does so too, after it removed the lock file
BatchGetCrash(p) ==
  /\ task[p] = "read"
  /\ db[target[p].cat] = NoFile
  /\ lock' = FALSE
  /\ Goto(p, "dead")
  /\ target' = [target EXCEPT ![p] = AnyTarget]
  /\ Do(p, "none")
  /\ UNCHANGED <<files, cmd, buf, fd, masked, ret, left, batch, backup, text, bfd, rest, names,
                 got, orphaned>>

\* SIGTERM or SIGKILL
Killed(p) ==
  /\ Faults
  /\ task[p] # "none"
  /\ Die(p)

\* splitDB returns when /tmp/nk_sysconfig or the list does not open
SplitFail(p) ==
  /\ Faults
  /\ task[p] = "list"
  /\ Do(p, "none")
  /\ orphaned' = TRUE
  /\ UNCHANGED <<vars, target, batch, backup, text, bfd, rest, names, got>>

\* fopen of a category file fails: the rest of the image is left out, and the
\* name is on the list
SplitStop(p) ==
  LET r == rest[p] IN
  /\ Faults
  /\ task[p] = "next"
  /\ r # <<>>
  /\ r[1].kind = "header"
  /\ catlist' = Append(names[p], r[1].cat)
  /\ Do(p, "finish")
  /\ UNCHANGED <<lock, db, stemp, pc, cmd, buf, fd, masked, ret, left, target, batch, backup,
                 text, bfd, rest, names, got, orphaned>>

-----------------------------------------------------------------------------
CommandStep(p) ==
  /\ task[p] = "none"
  /\ Respawn(p) \/ (\E r \in Request : Start(p, r)) \/ Step(p) \/ (Faults /\ Sigkill(p))
  /\ UNCHANGED batchVars

Locks(p) ==
  Lock(p, "spin", "open") \/ Lock(p, "getspin", "read") \/ Lock(p, "splitspin", "list")

TaskStep(p) ==
  \/ Locks(p) \/ BatchOpen(p) \/ BatchClose(p) \/ BatchUnlock(p)
  \/ BatchRename(p) \/ BatchRemove(p) \/ BatchGetRead(p) \/ BatchGetUnlock(p)
  \/ SplitList(p) \/ SplitOpen(p) \/ SplitTrailer(p) \/ SplitSection(p)
  \/ SplitNames(p) \/ SplitUnlock(p) \/ BatchCrash(p) \/ BatchGetCrash(p)

\* somebody takes the lock file between a batch's unlink of it and its rename
TakesEarly == ~lock /\ lock' /\ \E p \in Proc : task[p] = "rename"

BatchNext ==
  /\ \E p \in Proc :
       \/ CommandStep(p) \/ TaskStep(p)
       \/ \E t \in Targets : \/ \E v \in Values : Collect(p, t, v)
                             \/ BatchUpdate(p, t) \/ BatchGet(p, t)
       \/ Split(p) \/ Killed(p) \/ SplitFail(p) \/ SplitStop(p)
  /\ late' = IF TakesEarly THEN "yes" ELSE late

BatchSpec == BatchInit /\ [][BatchNext]_allVars

-----------------------------------------------------------------------------
(* Properties *)

InCritical(p) == pc[p] \in Critical \/ task[p] \in Holding

\* Between an open(O_EXCL) and its unlink nobody else is between theirs, batch,
\* split and command alike; and a lock file without an owner was left by a
\* process that died with it or by splitDB's early return, by nothing else.
LockDiscipline ==
  /\ \A p, q \in Proc : InCritical(p) /\ InCritical(q) => p = q
  /\ lock = (orphaned \/ left # "nowhere" \/ \E p \in Proc : InCritical(p))

\* A batch takes away only what it is about, up to its rename: the category's
\* other entries stay, in their order, after whatever an abandoned batch left in
\* /tmp/kd_batch, and the file it renames is the one it wrote.
BatchKeepsOthers ==
  \A p \in Proc : task[p] \in {"write", "unlock", "rename"} =>
    LET t == target[p] IN
    /\ task[p] # "write" => backup = text[p]
    /\ \A i \in Items \ {t.item} :
         IsSuffix(EntriesOf(db[t.cat], t.cat, i), EntriesOf(text[p], t.cat, i))

\* What BatchGet_config_m returns is what the file says when it lets go of it.
GetIsCurrent ==
  \A p \in Proc : task[p] = "done" =>
    LET t == target[p] IN got[p] = EntriesOf(db[t.cat], t.cat, t.item)

\* The rename that kdBatchUpdateDB does after its unlink of the lock file is the
\* only way in which these routines cost a category anything: until somebody
\* takes the lock file in between, the files stay well formed, a batch keeps the
\* entries it is not about, and what the pages are shown is what the file says.
FilesKept ==
  /\ BatchTypeOK
  /\ late = "no" => CategoryFilesIntact /\ BatchKeepsOthers /\ GetIsCurrent

\* An image that was read to its end is split: each of its categories has the
\* file SplitFile says, and the list names them all, whatever batches, reads and
\* commands ran before and whoever was killed; until a late rename.
SplitComplete ==
  late = "no" =>
    \A p \in Proc : task[p] = "finish" /\ rest[p] = <<>> =>
      \A c \in Cats :
        SplitFile(Import, c) # NoFile =>
          db[c] = SplitFile(Import, c) /\ c \in Range(catlist)
=============================================================================
