------------------------------- MODULE DbFile -------------------------------
(***************************************************************************)
(* The text files of the nku configuration database and what each          *)
(* sysconfig command writes into them (nku/kd_sys.c).                       *)
(*                                                                         *)
(* A file is the sequence of its lines.  A line is the header "[cat]" of a *)
(* category or an entry "item=value"; its gap says that empty lines follow *)
(* it, which remove_item leaves behind and find_postion trips over (those  *)
(* before the first header matter to nobody and are left out).  A position *)
(* in a file is the number of lines before the file pointer, so the line   *)
(* after header k starts at position k.                                    *)
(***************************************************************************)
EXTENDS Naturals, SequencesExt

CONSTANTS
  Cats,        \* categories: the names of the files under /tmp/splitDB
  ListCats,    \* categories of ID lists (STATIC_ROUTE, PORT_FORWARDING...)
  Items,       \* item names
  IdItem,      \* the item "ID" of the list categories
  Values,      \* item values
  MaxNum,      \* bound on the ordinal of the -m, -p and -d commands
  NoFile       \* fopen() of a file that does not exist

ASSUME CatsAssumption == ListCats \subseteq Cats
ASSUME ItemAssumption == IdItem \in Items
ASSUME NumAssumption  == MaxNum \in Nat \ {0}

Line ==
  [kind : {"header"}, cat : Cats, gap : BOOLEAN] \cup
  [kind : {"entry"}, item : Items, val : Values, gap : BOOLEAN]

ASSUME NoFileAssumption == NoFile \notin Seq(Line)

Content == Seq(Line)
File    == Content \cup {NoFile}

\* lines as they are written
Header(c)   == [kind |-> "header", cat |-> c, gap |-> FALSE]
Entry(i, v) == [kind |-> "entry", item |-> i, val |-> v, gap |-> FALSE]

IsHeader(l, c) == l.kind = "header" /\ l.cat = c
IsEntry(l, i)  == l.kind = "entry" /\ l.item = i

-----------------------------------------------------------------------------
(* Searching a file. Every search answers a line number, 0 when it fails.  *)

\* find_category: the first header of the category
find_category(f, c) ==
  SelectInSeq(f, LAMBDA l : IsHeader(l, c))

\* the n-th of a set of lines
nth(K, n) ==
  LET N == {k \in K : Cardinality({j \in K : j <= k}) = n}
  IN IF N = {} THEN 0 ELSE CHOOSE k \in N : TRUE

\* find_item, called n times: the n-th entry of the item after a position.
\* Built without CONFIG_NK_USE_ORIGINAL_DB, find_item does not stop at the
\* next header.
nth_item(f, pos, i, n) ==
  IF n = 0 \/ pos = 0 THEN pos
  ELSE nth({k \in (pos + 1) .. Len(f) : IsEntry(f[k], i)}, n)

\* Where the section that starts at a position ends: before the next header
section_end(f, pos) ==
  LET next == SelectInSubSeq(f, pos + 1, Len(f),
                             LAMBDA l : l.kind = "header")
  IN IF next = 0 THEN Len(f) ELSE next - 1

\* find_last_category_item: an entry of the item before the next header
find_last_category_item(f, pos, i) ==
  SelectInSubSeq(f, pos + 1, section_end(f, pos),
                 LAMBDA l : IsEntry(l, i))

\* find_last_item: the position after the last entry of the item in the
\* section, the position itself when there is none
find_last_item(f, pos, i) ==
  LET S == {k \in (pos + 1) .. section_end(f, pos) : IsEntry(f[k], i)}
  IN IF S = {} THEN pos ELSE Max(S)

\* find_postion: the n-th entry of the item in the section. It reads an entry
\* after an empty line as "\nitem" and does not know it.
find_postion(f, pos, i, n) ==
  nth({k \in (pos + 1) .. section_end(f, pos) :
         IsEntry(f[k], i) /\ ~f[k - 1].gap}, n)

move_to_item(f, c, i, n) ==
  LET pos == find_category(f, c)
  IN IF pos = 0 THEN 0 ELSE find_postion(f, pos, i, n)

-----------------------------------------------------------------------------
(* The files that the edit routines leave in /tmp/stemp                    *)

\* the copy of line k and what follows it, which drops empty lines
Closed(f, k) ==
  [j \in DOMAIN f |-> IF j >= k THEN [f[j] EXCEPT !.gap = FALSE] ELSE f[j]]

\* insert_item(.., flag = 1): the text after the "=" of line k is replaced
replace_item(f, k, v) == ReplaceAt(Closed(f, k), k, Entry(f[k].item, v))

\* insert_item(.., flag = 0): a new line at a position
insert_item(f, pos, i, v) == InsertAt(Closed(f, pos + 1), pos + 1, Entry(i, v))

\* remove_item: everything but line k. What follows it at once is copied as it
\* is, an empty line too; at the end of the file the last fread() fails and
\* the newline of the removed line is written once more.
remove_item(f, k) ==
  LET left == [f[k - 1] EXCEPT !.gap = f[k].gap \/ k = Len(f)]
  IN RemoveAt(ReplaceAt(Closed(f, k), k - 1, left), k)

\* remove_category: everything but the section whose header is line k
remove_category(f, k) ==
  SubSeq(f, 1, k - 1) \o SubSeq(f, section_end(f, k) + 1, Len(f))

-----------------------------------------------------------------------------
(* The commands. "w" write, "m" modify the n-th, "n" new, "d" delete the   *)
(* n-th, "D" delete the category (-d with no parameter), "p" print, "a"    *)
(* print without the lock.                                                 *)

EditOps == {"w", "m", "n", "d", "D"}
Ops     == EditOps \cup {"p", "a"}

Command ==
  [op : Ops, cat : Cats, item : Items, val : Values, num : 1 .. MaxNum]

\* nk_set_configuration: -w of ID in a list category adds an entry
IsAdd(cmd) == cmd.op = "w" /\ cmd.cat \in ListCats /\ cmd.item = IdItem

\* nk_mod_configuration hands the ordinal on, nk_set_configuration passes 1
Ordinal(cmd) == IF cmd.op = "m" THEN cmd.num ELSE 1

\* set_config: skip num - 1 entries, then replace the value of the next one
set_config(f, cmd) ==
  LET pos == find_category(f, cmd.cat)
      k   == nth_item(f, pos, cmd.item, Ordinal(cmd))
  IN IF pos = 0 \/ k = 0 THEN NoFile ELSE replace_item(f, k, cmd.val)

\* add_config: a new entry right after the last one of the item
add_config(f, cmd) ==
  LET pos == find_category(f, cmd.cat)
  IN IF pos = 0 THEN NoFile
     ELSE LET at == find_last_item(f, pos, cmd.item)
          IN insert_item(Closed(f, at), at, cmd.item, cmd.val)

\* nk_new_setting, category found: a new entry at the end of the section,
\* after any empty line there
new_config(f, cmd) ==
  LET pos == find_category(f, cmd.cat)
  IN IF find_last_category_item(f, pos, cmd.item) # 0 THEN NoFile
     ELSE insert_item(f, section_end(f, pos), cmd.item, cmd.val)

\* nk_delete_setting: the n-th entry, or the whole category
delete_config(f, cmd) ==
  IF cmd.op = "D"
  THEN LET k == find_category(f, cmd.cat)
       IN IF k = 0 THEN NoFile ELSE remove_category(f, k)
  ELSE LET i == IF cmd.cat \in ListCats THEN IdItem ELSE cmd.item
           k == move_to_item(f, cmd.cat, i, cmd.num)
       IN IF k = 0 THEN NoFile ELSE remove_item(f, k)

\* What an edit command writes to /tmp/stemp, NoFile when it writes nothing.
\* The file f exists and, for "n", holds the category.
Edit(f, cmd) ==
  CASE IsAdd(cmd)                       -> add_config(f, cmd)
    [] cmd.op \in {"w", "m"} /\ ~IsAdd(cmd) -> set_config(f, cmd)
    [] cmd.op = "n"                     -> new_config(f, cmd)
    [] cmd.op \in {"d", "D"}            -> delete_config(f, cmd)

\* The routines that rename /tmp/stemp over the file whatever happened.
\* set_config returns before the rename when one of the num - 1 entries to
\* skip is missing, nk_new_setting when the entry is there already.
RenamesAnyway(f, cmd) ==
  \/ cmd.op \in {"w", "d", "D"}
  \/ /\ cmd.op = "m"
     /\ LET pos == find_category(f, cmd.cat)
        IN pos = 0 \/ nth_item(f, pos, cmd.item, cmd.num - 1) # 0

\* print_config: the value of the n-th entry of the item, NoFile for "END"
print_config(f, cmd) ==
  IF f = NoFile THEN NoFile
  ELSE LET pos == find_category(f, cmd.cat)
           k   == nth_item(f, pos, cmd.item, cmd.num)
       IN IF pos = 0 \/ k = 0 THEN NoFile ELSE f[k].val

-----------------------------------------------------------------------------
(* Merging and splitting an image *)

\* "[CHECKSUM]" and its SUM line, written last; the merge skips the
\* category file of that name, so nothing else depends on them
Trailer == [kind |-> "checksum"]

ImageLine == Line \cup {Trailer}
Image     == Seq(ImageLine) \cup {NoFile}

\* a file that does not exist is no image either
ASSUME ImageAssumption == NoFile \notin Seq(ImageLine)

\* the text MergeToRAM writes: the category files in the order of the list
\* (the empty line it puts after each is dropped by splitDB again)
Merged(list, files_of) ==
  FlattenSeq([k \in DOMAIN list |-> files_of[list[k]]]) \o <<Trailer>>

\* splitDB writes no empty line
Tight(f) == Closed(f, 1)

\* splitDB: the file of a category is rewritten for every section of it in
\* the image, so the last one counts
SplitFile(image, c) ==
  LET H == {k \in DOMAIN image : IsHeader(image[k], c)}
      h == Max(H)
      e == Min({k \in (h + 1) .. Len(image) : image[k].kind # "entry"}
               \cup {Len(image) + 1})
  IN IF H = {} THEN NoFile ELSE Tight(SubSeq(image, h, e - 1))

-----------------------------------------------------------------------------
(* fclose() of a stream opened with "w+": the buffered lines overwrite the *)
(* start of the file the descriptor refers to, and what was there beyond   *)
(* them stays.                                                             *)
Overlay(old, new) == new \o SubSeq(old, Len(new) + 1, Len(old))

\* A file of the category: empty, or its header and then entries only
WellFormed(c, f) ==
  f # NoFile =>
    f = <<>> \/ /\ IsHeader(f[1], c)
                /\ \A k \in 2 .. Len(f) : f[k].kind = "entry"
=============================================================================
