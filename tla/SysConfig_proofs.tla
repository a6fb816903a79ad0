--------------------------- MODULE SysConfig_proofs ---------------------------
(***************************************************************************)
(* Proofs about SysConfig, about the lock file and splitDB of BatchDB, and *)
(* about the images of FlashDB, for any set of processes, categories,      *)
(* items and values, any commands, any image to import and any initial     *)
(* database.                                                               *)
(***************************************************************************)
EXTENDS BatchDB, FlashDB, SequenceTheorems, FiniteSetTheorems, WellFoundedInduction,
        TLAPS

(* Lemmas about the searches *)

\* a non-empty set of naturals has a least element
LEMMA LeastNat ==
  ASSUME NEW T, T \subseteq Nat, T # {}
  PROVE  \E m \in T : \A k \in T : m <= k
<1>1. PICK m \in T : \A k \in T : ~(<<k, m>> \in OpToRel(<, Nat))
  BY NatLessThanWellFounded, WFMin, Zenon
<1>2. ASSUME NEW k \in T, ~(m <= k)
      PROVE  FALSE
  <2>1. k \in Nat /\ m \in Nat /\ k < m
    BY <1>2
  <2>2. <<k, m>> \in {ss \in Nat \X Nat : ss[1] < ss[2]}
    BY <2>1
  <2>3. QED
    BY <1>1, <2>2 DEF OpToRel
<1>3. QED
  BY <1>2

LEMMA MinType ==
  ASSUME NEW T, T \subseteq Nat, T # {}
  PROVE  Min(T) \in T
BY LeastNat DEF Min

LEMMA MaxType ==
  ASSUME NEW b \in Nat, NEW T, T \subseteq 0 .. b, T # {}
  PROVE  Max(T) \in T /\ \A k \in T : Max(T) >= k
<1> DEFINE U == {b - k : k \in T}
<1>1. \A k \in T : k \in Nat /\ k <= b
  OBVIOUS
<1>a. U \subseteq Nat
  BY <1>1
<1>b. U # {}
  OBVIOUS
<1>2. PICK m \in U : \A k \in U : m <= k
  <2> HIDE DEF U
  <2> QED BY <1>a, <1>b, LeastNat
<1>3. PICK t \in T : m = b - t
  OBVIOUS
<1>4. \A k \in T : t >= k
  <2> TAKE k \in T
  <2>1. b - k \in U
    OBVIOUS
  <2>2. b - t <= b - k
    BY <1>2, <1>3, <2>1
  <2> QED
    BY <1>1, <2>2
<1>5. QED
  BY <1>4 DEF Max

(* Lemmas about lists of lines *)

LEMMA InsertAtLemma ==
  ASSUME NEW S, NEW s \in Seq(S), NEW i \in 1 .. Len(s) + 1, NEW e \in S
  PROVE  /\ InsertAt(s, i, e) \in Seq(S)
         /\ Len(InsertAt(s, i, e)) = Len(s) + 1
         /\ \A k \in 1 .. Len(s) + 1 :
              InsertAt(s, i, e)[k] =
                IF k < i THEN s[k] ELSE IF k = i THEN e ELSE s[k - 1]
<1> DEFINE a == SubSeq(s, 1, i - 1)
           b == SubSeq(s, i, Len(s))
<1>0. Len(s) \in Nat /\ i \in Nat /\ i >= 1
  OBVIOUS
<1>1. /\ a \in Seq(S) /\ Len(a) = i - 1
      /\ \A k \in 1 .. i - 1 : a[k] = s[k]
  BY SubSeqProperties
<1>2. /\ b \in Seq(S) /\ Len(b) = Len(s) - i + 1
      /\ \A k \in 1 .. Len(s) - i + 1 : b[k] = s[i + k - 1]
  BY SubSeqProperties
<1>3. /\ a \o <<e>> \in Seq(S) /\ Len(a \o <<e>>) = i
      /\ \A k \in 1 .. i : (a \o <<e>>)[k] = IF k < i THEN s[k] ELSE e
  <2> HIDE DEF a
  <2>1. <<e>> \in Seq(S) /\ Len(<<e>>) = 1 /\ <<e>>[1] = e
    OBVIOUS
  <2>2. a \o <<e>> \in Seq(S) /\ Len(a \o <<e>>) = i
    BY <1>0, <1>1, <2>1, ConcatProperties
  <2>3. \A k \in 1 .. i : (a \o <<e>>)[k] = IF k <= Len(a) THEN a[k] ELSE <<e>>[k - Len(a)]
    BY <1>0, <1>1, <2>1, ConcatProperties
  <2>4. ASSUME NEW k \in 1 .. i PROVE (a \o <<e>>)[k] = IF k < i THEN s[k] ELSE e
    <3>1. CASE k < i
      BY <1>0, <1>1, <2>3, <3>1
    <3>2. CASE ~(k < i)
      <4>1. k - Len(a) = 1 /\ ~(k <= Len(a))
        BY <1>0, <1>1, <3>2
      <4> QED BY <2>1, <2>3, <3>2, <4>1
    <3> QED BY <3>1, <3>2
  <2> QED BY <2>2, <2>4
<1> DEFINE ae == a \o <<e>>
<1>4. InsertAt(s, i, e) = ae \o b
  BY DEF InsertAt
<1>5. ae \in Seq(S) /\ Len(ae) = i
  BY <1>3
<1>6. \A k \in 1 .. i : ae[k] = IF k < i THEN s[k] ELSE e
  BY <1>3
<1> HIDE DEF ae, a, b
<1>7. /\ ae \o b \in Seq(S) /\ Len(ae \o b) = Len(s) + 1
      /\ \A k \in 1 .. Len(s) + 1 :
           (ae \o b)[k] = IF k <= i THEN ae[k] ELSE b[k - i]
  BY <1>0, <1>2, <1>5, ConcatProperties
<1>8. ASSUME NEW k \in 1 .. Len(s) + 1
      PROVE  (ae \o b)[k] =
               IF k < i THEN s[k] ELSE IF k = i THEN e ELSE s[k - 1]
  <2>1. CASE k <= i
    BY <1>6, <1>7, <2>1
  <2>2. CASE k > i
    <3>1. (ae \o b)[k] = b[k - i]
      BY <1>7, <2>2
    <3>2. k - i \in 1 .. Len(s) - i + 1 /\ i + (k - i) - 1 = k - 1
      BY <2>2
    <3>3. b[k - i] = s[i + (k - i) - 1]
      BY <1>2, <3>2
    <3> QED
      BY <2>2, <3>1, <3>2, <3>3
  <2> QED
    <3>1. k <= i \/ k > i
      BY <1>0
    <3> QED BY <2>1, <2>2, <3>1
<1>9. QED
  BY <1>4, <1>7, <1>8

LEMMA RemoveAtLemma ==
  ASSUME NEW S, NEW s \in Seq(S), NEW i \in 1 .. Len(s)
  PROVE  /\ RemoveAt(s, i) \in Seq(S)
         /\ Len(RemoveAt(s, i)) = Len(s) - 1
         /\ \A k \in 1 .. Len(s) - 1 :
              RemoveAt(s, i)[k] = IF k < i THEN s[k] ELSE s[k + 1]
<1> DEFINE a == SubSeq(s, 1, i - 1)
           b == SubSeq(s, i + 1, Len(s))
<1>0. Len(s) \in Nat /\ i \in Nat /\ i >= 1
  OBVIOUS
<1>1. /\ a \in Seq(S) /\ Len(a) = i - 1
      /\ \A k \in 1 .. i - 1 : a[k] = s[k]
  BY SubSeqProperties
<1>2. /\ b \in Seq(S) /\ Len(b) = Len(s) - i
      /\ \A k \in 1 .. Len(s) - i : b[k] = s[i + k]
  BY SubSeqProperties
<1>3. RemoveAt(s, i) = a \o b
  BY DEF RemoveAt
<1> HIDE DEF a, b
<1>a. /\ a \o b \in Seq(S) /\ Len(a \o b) = Len(a) + Len(b)
      /\ \A k \in 1 .. Len(a) + Len(b) :
           (a \o b)[k] = IF k <= Len(a) THEN a[k] ELSE b[k - Len(a)]
  BY <1>1, <1>2, ConcatProperties
<1>b. Len(a) + Len(b) = Len(s) - 1 /\ \A k \in Nat : k <= Len(a) <=> k < i
  BY <1>0, <1>1, <1>2
<1>4. /\ a \o b \in Seq(S) /\ Len(a \o b) = Len(s) - 1
      /\ \A k \in 1 .. Len(s) - 1 :
           (a \o b)[k] = IF k < i THEN a[k] ELSE b[k - (i - 1)]
  BY <1>1, <1>a, <1>b
<1>5. ASSUME NEW k \in 1 .. Len(s) - 1
      PROVE  (a \o b)[k] = IF k < i THEN s[k] ELSE s[k + 1]
  <2>1. CASE k < i
    BY <1>1, <1>4, <2>1
  <2>2. CASE k >= i
    <3>1. k - (i - 1) \in 1 .. Len(s) - i /\ i + (k - (i - 1)) = k + 1
      BY <2>2
    <3> QED
      BY <1>2, <1>4, <2>2, <3>1
  <2> QED
    <3>1. k < i \/ k >= i
      BY <1>0
    <3> QED BY <2>1, <2>2, <3>1
<1>6. QED
  BY <1>3, <1>4, <1>5

\* two lines that differ at most in the empty lines after them
Alike(k, l) ==
  /\ k.kind = l.kind
  /\ \A c \in Cats : IsHeader(k, c) <=> IsHeader(l, c)
  /\ \A i \in Items : IsEntry(k, i) <=> IsEntry(l, i)
  /\ l.kind = "entry" => k.item = l.item /\ k.val = l.val

LEMMA GapAlike ==
  ASSUME NEW l \in Line, NEW g \in BOOLEAN
  PROVE  [l EXCEPT !.gap = g] \in Line /\ Alike([l EXCEPT !.gap = g], l)
<1>1. CASE l \in [kind : {"header"}, cat : Cats, gap : BOOLEAN]
  <2> DEFINE k == [l EXCEPT !.gap = g]
  <2>1. k \in [kind : {"header"}, cat : Cats, gap : BOOLEAN] /\ k.cat = l.cat
    BY <1>1
  <2>2. k.kind = "header" /\ l.kind = "header"
    BY <1>1, <2>1
  <2> HIDE DEF k
  <2>3. k \in Line
    BY <2>1 DEF Line
  <2>4. Alike(k, l)
    BY <2>1, <2>2 DEF Alike, IsHeader, IsEntry
  <2> QED BY <2>3, <2>4 DEF k
<1>2. CASE l \in [kind : {"entry"}, item : Items, val : Values, gap : BOOLEAN]
  <2> DEFINE k == [l EXCEPT !.gap = g]
  <2>1. /\ k \in [kind : {"entry"}, item : Items, val : Values, gap : BOOLEAN]
        /\ k.item = l.item /\ k.val = l.val
    BY <1>2
  <2>2. k.kind = "entry" /\ l.kind = "entry"
    BY <1>2, <2>1
  <2> HIDE DEF k
  <2>3. k \in Line
    BY <2>1 DEF Line
  <2>4. Alike(k, l)
    BY <2>1, <2>2 DEF Alike, IsHeader, IsEntry
  <2> QED BY <2>3, <2>4 DEF k
<1> QED BY <1>1, <1>2 DEF Line

\* dropping empty lines changes nothing else
LEMMA ClosedLemma ==
  ASSUME NEW f \in Content, NEW k
  PROVE  /\ Closed(f, k) \in Content
         /\ Len(Closed(f, k)) = Len(f)
         /\ \A j \in 1 .. Len(f) : Alike(Closed(f, k)[j], f[j])
<1> DEFINE g == Closed(f, k)
<1>1. /\ f \in [1 .. Len(f) -> Line] /\ Len(f) \in Nat /\ DOMAIN f = 1 .. Len(f)
  BY DEF Content
<1>2. ASSUME NEW j \in 1 .. Len(f)
      PROVE  g[j] \in Line /\ Alike(g[j], f[j])
  <2>1. f[j] \in Line
    BY <1>1
  <2>2. [f[j] EXCEPT !.gap = FALSE] \in Line /\ Alike([f[j] EXCEPT !.gap = FALSE], f[j])
    BY <2>1, GapAlike
  <2>3. Alike(f[j], f[j])
    BY DEF Alike
  <2>4. g[j] = IF j >= k THEN [f[j] EXCEPT !.gap = FALSE] ELSE f[j]
    BY <1>1 DEF Closed
  <2> QED BY <2>1, <2>2, <2>3, <2>4, Zenon
<1>3. g = [j \in 1 .. Len(f) |-> g[j]]
  BY <1>1 DEF Closed
<1> HIDE DEF g
<1>4. g \in [1 .. Len(f) -> Line]
  BY <1>2, <1>3, Zenon
<1>5. g \in Seq(Line) /\ Len(g) = Len(f)
  BY <1>1, <1>4
<1> QED BY <1>2, <1>5 DEF Content, g

\* a file that differs from a well-formed one at most in its empty lines
LEMMA AlikeWF ==
  ASSUME NEW c \in Cats, NEW f \in Content, NEW g \in Content, WellFormed(c, f),
         Len(g) = Len(f), \A j \in 1 .. Len(f) : Alike(g[j], f[j])
  PROVE  WellFormed(c, g)
<1>1. f # NoFile /\ Len(f) \in Nat /\ (f = <<>> => g = <<>>) /\ (f # <<>> => 1 \in 1 .. Len(f))
  BY NoFileAssumption DEF Content
<1>2. CASE f = <<>>
  BY <1>1, <1>2 DEF WellFormed
<1>3. CASE f # <<>>
  <2>1. IsHeader(f[1], c) /\ \A k \in 2 .. Len(f) : f[k].kind = "entry"
    BY <1>1, <1>3 DEF WellFormed
  <2>2. IsHeader(g[1], c)
    BY <1>1, <1>3, <2>1 DEF Alike
  <2>3. \A k \in 2 .. Len(g) : g[k].kind = "entry"
    BY <1>1, <2>1 DEF Alike
  <2> QED BY <2>2, <2>3 DEF WellFormed
<1> QED BY <1>2, <1>3

LEMMA ClosedWF ==
  ASSUME NEW c \in Cats, NEW f \in Content, WellFormed(c, f), NEW k
  PROVE  /\ Closed(f, k) \in Content
         /\ WellFormed(c, Closed(f, k))
         /\ Len(Closed(f, k)) = Len(f)
         /\ f # <<>> => Closed(f, k) # <<>>
<1>1. /\ Closed(f, k) \in Content
      /\ Len(Closed(f, k)) = Len(f)
      /\ \A j \in 1 .. Len(f) : Alike(Closed(f, k)[j], f[j])
  BY ClosedLemma
<1>2. f # <<>> => Closed(f, k) # <<>>
  BY <1>1 DEF Content
<1> QED BY <1>1, <1>2, AlikeWF

\* the header of a well-formed file is its first line
LEMMA FindCategoryLemma ==
  ASSUME NEW c \in Cats, NEW f \in Content, WellFormed(c, f)
  PROVE  /\ f = <<>> => find_category(f, c) = 0
         /\ f # <<>> => /\ find_category(f, c) = 1
                        /\ section_end(f, 1) = Len(f)
<1> DEFINE H == {k \in 1 .. Len(f) : IsHeader(f[k], c)}
<1>1. find_category(f, c) = IF H # {} THEN Min(H) ELSE 0
  BY DEF find_category, SelectInSeq
<1>2. f # NoFile
  BY NoFileAssumption DEF Content
<1>3. ASSUME f = <<>> PROVE find_category(f, c) = 0
  BY <1>1, <1>3
<1>4. ASSUME f # <<>> PROVE find_category(f, c) = 1
  <2>1. IsHeader(f[1], c) /\ \A k \in 2 .. Len(f) : f[k].kind = "entry"
    BY <1>2, <1>4 DEF WellFormed
  <2>2. 1 \in H
    BY <1>4, <2>1 DEF Content
  <2>3. \A k \in H : k = 1
    BY <2>1 DEF IsHeader
  <2>a. H \subseteq Nat /\ H # {}
    BY <2>2
  <2>4. Min(H) \in H
    <3> HIDE DEF H
    <3> QED BY <2>a, MinType
  <2>5. QED
    BY <1>1, <2>2, <2>3, <2>4
<1>5. ASSUME f # <<>> PROVE section_end(f, 1) = Len(f)
  <2>1. \A k \in 2 .. Len(f) : f[k].kind # "header"
    BY <1>2, <1>5 DEF WellFormed
  <2>2. {k \in 1 + 1 .. Len(f) : f[k].kind = "header"} = {}
    BY <2>1
  <2>3. QED
    BY <2>2 DEF section_end, SelectInSubSeq
<1>6. QED
  BY <1>3, <1>4, <1>5

\* nth answers nothing or a member of the set
LEMMA NthLemma ==
  ASSUME NEW K, NEW n, nth(K, n) # 0
  PROVE  nth(K, n) \in K
<1> DEFINE N == {k \in K : Cardinality({j \in K : j <= k}) = n}
<1>1. nth(K, n) = IF N = {} THEN 0 ELSE CHOOSE k \in N : TRUE
  BY DEF nth
<1>2. N # {}
  BY <1>1
<1>3. nth(K, n) \in N
  <2> HIDE DEF N
  <2> QED BY <1>1, <1>2
<1> QED BY <1>3

\* nth_item answers nothing or an entry of the item after the header
LEMMA NthItemLemma ==
  ASSUME NEW f \in Content, NEW i \in Items, NEW n \in Nat \ {0},
         nth_item(f, 1, i, n) # 0
  PROVE  /\ nth_item(f, 1, i, n) \in 2 .. Len(f)
         /\ f[nth_item(f, 1, i, n)].kind = "entry"
         /\ f[nth_item(f, 1, i, n)].item = i
<1> DEFINE K == {k \in 1 + 1 .. Len(f) : IsEntry(f[k], i)}
<1>1. nth_item(f, 1, i, n) = nth(K, n)
  BY DEF nth_item
<1>2. nth(K, n) \in K
  <2> HIDE DEF K
  <2> QED BY <1>1, NthLemma
<1> QED BY <1>1, <1>2 DEF IsEntry

\* a file that is not empty: the header and then entries
LEMMA InsertAtWF ==
  ASSUME NEW c \in Cats, NEW f \in Content, f # <<>>, WellFormed(c, f),
         NEW pos \in 1 .. Len(f), NEW i \in Items, NEW v \in Values
  PROVE  /\ InsertAt(f, pos + 1, Entry(i, v)) \in Content
         /\ WellFormed(c, InsertAt(f, pos + 1, Entry(i, v)))
<1> DEFINE e == Entry(i, v)
           g == InsertAt(f, pos + 1, e)
<1>1. e \in Line /\ e.kind = "entry"
  BY DEF Entry, Line
<1>2. Len(f) \in Nat /\ pos \in Nat /\ 1 <= pos /\ pos <= Len(f)
  BY DEF Content
<1>3. pos + 1 \in 1 .. Len(f) + 1
  BY <1>2
<1>4. /\ g \in Seq(Line) /\ Len(g) = Len(f) + 1
      /\ \A k \in 1 .. Len(f) + 1 :
           g[k] = IF k < pos + 1 THEN f[k]
                  ELSE IF k = pos + 1 THEN e ELSE f[k - 1]
  <2> HIDE DEF e
  <2>1. f \in Seq(Line)
    BY DEF Content
  <2> DEFINE q == pos + 1
  <2>2. q \in 1 .. Len(f) + 1
    BY <1>3
  <2> HIDE DEF q
  <2>3. /\ InsertAt(f, q, e) \in Seq(Line)
        /\ Len(InsertAt(f, q, e)) = Len(f) + 1
        /\ \A k \in 1 .. Len(f) + 1 :
             InsertAt(f, q, e)[k] =
               IF k < q THEN f[k] ELSE IF k = q THEN e ELSE f[k - 1]
    BY <1>1, <2>1, <2>2, InsertAtLemma
  <2> QED BY <2>3 DEF q
<1>5. IsHeader(f[1], c) /\ \A k \in 2 .. Len(f) : f[k].kind = "entry"
  BY NoFileAssumption DEF WellFormed, Content
<1> HIDE DEF g, e
<1>6. IsHeader(g[1], c)
  BY <1>2, <1>4, <1>5
<1>7. ASSUME NEW k \in 2 .. Len(g) PROVE g[k].kind = "entry"
  <2>1. k \in Nat /\ 2 <= k /\ k <= Len(f) + 1
    BY <1>2, <1>4
  <2>2. CASE k < pos + 1
    BY <1>2, <1>4, <1>5, <2>1, <2>2
  <2>3. CASE k = pos + 1
    BY <1>1, <1>2, <1>4, <2>1, <2>3
  <2>4. CASE k > pos + 1
    <3>1. g[k] = f[k - 1] /\ k - 1 \in 2 .. Len(f)
      BY <1>2, <1>4, <2>1, <2>4
    <3> QED BY <1>5, <3>1
  <2> QED BY <1>2, <2>1, <2>2, <2>3, <2>4
<1>8. QED
  BY <1>4, <1>6, <1>7 DEF WellFormed, Content, g, e

LEMMA InsertWF ==
  ASSUME NEW c \in Cats, NEW f \in Content, f # <<>>, WellFormed(c, f),
         NEW pos \in 1 .. Len(f), NEW i \in Items, NEW v \in Values
  PROVE  /\ insert_item(f, pos, i, v) \in Content
         /\ WellFormed(c, insert_item(f, pos, i, v))
<1> DEFINE h == Closed(f, pos + 1)
<1>1. h \in Content /\ Len(h) = Len(f) /\ h # <<>> /\ WellFormed(c, h)
  BY ClosedWF
<1> HIDE DEF h
<1>2. pos \in 1 .. Len(h)
  BY <1>1
<1>3. /\ InsertAt(h, pos + 1, Entry(i, v)) \in Content
      /\ WellFormed(c, InsertAt(h, pos + 1, Entry(i, v)))
  BY <1>1, <1>2, InsertAtWF
<1> QED BY <1>3 DEF insert_item, h


LEMMA ReplaceWF ==
  ASSUME NEW c \in Cats, NEW f \in Content, f # <<>>, WellFormed(c, f),
         NEW k \in 2 .. Len(f), f[k].item \in Items, NEW v \in Values
  PROVE  /\ replace_item(f, k, v) \in Content
         /\ WellFormed(c, replace_item(f, k, v))
<1> DEFINE e == Entry(f[k].item, v)
           h == Closed(f, k)
           g == [h EXCEPT ![k] = e]
<1>0. h \in Content /\ Len(h) = Len(f) /\ h # <<>> /\ WellFormed(c, h)
  BY ClosedWF
<1>1. e \in Line /\ e.kind = "entry"
  BY DEF Entry, Line
<1>2. Len(f) \in Nat /\ k \in 1 .. Len(f) /\ k # 1
  BY DEF Content
<1>7. replace_item(f, k, v) = g
  BY <1>0 DEF replace_item, ReplaceAt, Content
<1> HIDE DEF e, h
<1>3. /\ g \in Seq(Line) /\ Len(g) = Len(f)
      /\ \A j \in 1 .. Len(f) : g[j] = IF j = k THEN e ELSE h[j]
  BY <1>0, <1>1, <1>2 DEF Content
<1>4. IsHeader(h[1], c) /\ \A j \in 2 .. Len(f) : h[j].kind = "entry"
  BY <1>0, NoFileAssumption DEF WellFormed, Content
<1>5. IsHeader(g[1], c)
  BY <1>2, <1>3, <1>4
<1>6. \A j \in 2 .. Len(g) : g[j].kind = "entry"
  BY <1>1, <1>2, <1>3, <1>4
<1>8. QED
  BY <1>3, <1>5, <1>6, <1>7 DEF WellFormed, Content

\* the line before a removed one takes over its empty lines
LEMMA LeftLine ==
  ASSUME NEW f \in Content, NEW k \in 2 .. Len(f)
  PROVE  LET h == Closed(f, k)
             l == [f[k - 1] EXCEPT !.gap = f[k].gap \/ k = Len(f)]
             w == ReplaceAt(h, k - 1, l)
         IN /\ l \in Line /\ Alike(l, f[k - 1])
            /\ w \in Content /\ Len(w) = Len(f)
            /\ \A j \in 1 .. Len(f) : Alike(w[j], f[j])
<1> DEFINE h == Closed(f, k)
           b == f[k].gap \/ k = Len(f)
           l == [f[k - 1] EXCEPT !.gap = b]
           w == [h EXCEPT ![k - 1] = l]
<1>1. /\ h \in Content /\ Len(h) = Len(f)
      /\ \A j \in 1 .. Len(f) : Alike(h[j], f[j])
  BY ClosedLemma
<1>2. Len(f) \in Nat /\ k - 1 \in 1 .. Len(f) /\ f[k - 1] \in Line
  BY DEF Content
<1>3. b \in BOOLEAN
  OBVIOUS
<1>4. ReplaceAt(h, k - 1, l) = w
  BY <1>1 DEF ReplaceAt, Content
<1> HIDE DEF h, b
<1>5. l \in Line /\ Alike(l, f[k - 1])
  BY <1>2, <1>3, GapAlike
<1> HIDE DEF l
<1>6. /\ w \in Seq(Line) /\ Len(w) = Len(f)
      /\ \A j \in 1 .. Len(f) : w[j] = IF j = k - 1 THEN l ELSE h[j]
  BY <1>1, <1>2, <1>5 DEF Content
<1>7. \A j \in 1 .. Len(f) : Alike(w[j], f[j])
  <2> TAKE j \in 1 .. Len(f)
  <2>1. CASE j = k - 1
    BY <1>5, <1>6, <2>1
  <2>2. CASE j # k - 1
    <3>1. w[j] = h[j]
      BY <1>6, <2>2
    <3> QED BY <1>1, <3>1
  <2> QED BY <2>1, <2>2
<1> HIDE DEF w
<1> QED BY <1>4, <1>5, <1>6, <1>7 DEF Content, h, b, l

LEMMA RemoveWF ==
  ASSUME NEW c \in Cats, NEW f \in Content, f # <<>>, WellFormed(c, f),
         NEW k \in 2 .. Len(f)
  PROVE  /\ remove_item(f, k) \in Content
         /\ WellFormed(c, remove_item(f, k))
<1> DEFINE l == [f[k - 1] EXCEPT !.gap = f[k].gap \/ k = Len(f)]
           w == ReplaceAt(Closed(f, k), k - 1, l)
           g == RemoveAt(w, k)
<1>0. /\ w \in Content /\ Len(w) = Len(f)
      /\ \A j \in 1 .. Len(f) : Alike(w[j], f[j])
  BY LeftLine
<1>a. remove_item(f, k) = g
  BY DEF remove_item
<1> HIDE DEF w
<1>b. WellFormed(c, w)
  BY <1>0, AlikeWF
<1>1. Len(f) \in Nat /\ k \in 1 .. Len(f) /\ 2 <= k /\ k <= Len(f) /\ w # <<>>
  BY <1>0 DEF Content
<1>2. /\ g \in Seq(Line) /\ Len(g) = Len(f) - 1
      /\ \A j \in 1 .. Len(f) - 1 : g[j] = IF j < k THEN w[j] ELSE w[j + 1]
  BY <1>0, <1>1, RemoveAtLemma DEF Content
<1>3. IsHeader(w[1], c) /\ \A j \in 2 .. Len(f) : w[j].kind = "entry"
  BY <1>0, <1>1, <1>b, NoFileAssumption DEF WellFormed, Content
<1> HIDE DEF g
<1>4. IsHeader(g[1], c)
  BY <1>1, <1>2, <1>3
<1>5. \A j \in 2 .. Len(g) : g[j].kind = "entry"
  BY <1>1, <1>2, <1>3
<1>6. QED
  BY <1>2, <1>4, <1>5, <1>a DEF WellFormed, Content

LEMMA RemoveCategoryWF ==
  ASSUME NEW c \in Cats, NEW f \in Content, f # <<>>, WellFormed(c, f)
  PROVE  remove_category(f, 1) = <<>>
<1>1. section_end(f, 1) = Len(f)
  BY FindCategoryLemma
<1>2. SubSeq(f, 1, 1 - 1) = <<>> /\ SubSeq(f, Len(f) + 1, Len(f)) = <<>>
  BY SubSeqEmpty DEF Content
<1>3. QED
  BY <1>1, <1>2 DEF remove_category

LEMMA FindLastItemLemma ==
  ASSUME NEW c \in Cats, NEW f \in Content, f # <<>>, WellFormed(c, f),
         NEW i \in Items
  PROVE  find_last_item(f, 1, i) \in 1 .. Len(f)
<1> DEFINE S == {k \in 1 + 1 .. Len(f) : IsEntry(f[k], i)}
<1>1. section_end(f, 1) = Len(f)
  BY FindCategoryLemma
<1>2. find_last_item(f, 1, i) = IF S = {} THEN 1 ELSE Max(S)
  BY <1>1 DEF find_last_item
<1>3. Len(f) \in Nat /\ Len(f) >= 1
  BY DEF Content
<1>4. S \subseteq 0 .. Len(f)
  BY <1>3
<1>5. S # {} => Max(S) \in S
  <2> HIDE DEF S
  <2> QED BY <1>3, <1>4, MaxType
<1>6. QED
  BY <1>2, <1>3, <1>5

(***************************************************************************)
(* What an edit of nk_process_comd writes to /tmp/stemp is again a file of *)
(* the category.                                                           *)
(***************************************************************************)
LEMMA EditWF ==
  ASSUME NEW r \in Command, NEW f \in Content, WellFormed(r.cat, f),
         r.op \in EditOps, r.op = "n" => f # <<>>,
         Edit(f, r) # NoFile
  PROVE  Edit(f, r) \in Content /\ WellFormed(r.cat, Edit(f, r))
<1>1. /\ r.cat \in Cats /\ r.item \in Items /\ r.val \in Values
      /\ r.num \in Nat \ {0} /\ IdItem \in Items
  BY NumAssumption, ItemAssumption DEF Command
<1>2. find_category(f, r.cat) = IF f = <<>> THEN 0 ELSE 1
  BY <1>1, FindCategoryLemma
<1>3. CASE IsAdd(r)
  <2>1. Edit(f, r) = add_config(f, r)
    BY <1>3 DEF Edit, IsAdd
  <2>2. f # <<>>
    BY <1>2, <2>1 DEF add_config
  <2>3. find_last_item(f, 1, r.item) \in 1 .. Len(f)
    BY <1>1, <2>2, FindLastItemLemma
  <2> DEFINE at == find_last_item(f, 1, r.item)
  <2>4. Edit(f, r) = insert_item(Closed(f, at), at, r.item, r.val)
    BY <1>2, <2>1, <2>2 DEF add_config
  <2> HIDE DEF at
  <2>5. /\ Closed(f, at) \in Content /\ Closed(f, at) # <<>>
        /\ WellFormed(r.cat, Closed(f, at)) /\ Len(Closed(f, at)) = Len(f)
    BY <1>1, <2>2, ClosedWF
  <2>6. at \in 1 .. Len(Closed(f, at))
    BY <2>3, <2>5 DEF at
  <2> QED BY <1>1, <2>4, <2>5, <2>6, InsertWF
<1>4. CASE r.op \in {"w", "m"} /\ ~IsAdd(r)
  <2> DEFINE n == Ordinal(r)
             k == nth_item(f, 1, r.item, n)
  <2>1. Edit(f, r) = set_config(f, r)
    BY <1>4 DEF Edit
  <2>2. f # <<>> /\ k # 0 /\ Edit(f, r) = replace_item(f, k, r.val)
    BY <1>2, <2>1 DEF set_config
  <2>3. n \in Nat \ {0}
    BY <1>1 DEF Ordinal
  <2>4. k \in 2 .. Len(f) /\ f[k].item = r.item
    <3> HIDE DEF n
    <3> QED BY <1>1, <2>2, <2>3, NthItemLemma
  <2> HIDE DEF k
  <2> QED BY <1>1, <2>2, <2>4, ReplaceWF
<1>5. CASE r.op = "n"
  <2>1. Edit(f, r) = new_config(f, r)
    BY <1>5 DEF Edit, IsAdd
  <2>2. f # <<>> /\ Edit(f, r) = insert_item(f, section_end(f, 1), r.item, r.val)
    BY <1>2, <1>5, <2>1 DEF new_config
  <2>3. section_end(f, 1) = Len(f) /\ Len(f) \in 1 .. Len(f)
    BY <1>1, <2>2, FindCategoryLemma DEF Content
  <2> QED BY <1>1, <2>2, <2>3, InsertWF
<1>6. CASE r.op = "D"
  <2>1. Edit(f, r) = delete_config(f, r)
    BY <1>6 DEF Edit, IsAdd
  <2>2. f # <<>> /\ Edit(f, r) = remove_category(f, 1)
    BY <1>2, <1>6, <2>1 DEF delete_config
  <2>3. Edit(f, r) = <<>>
    BY <1>1, <2>2, RemoveCategoryWF
  <2> QED BY <2>3 DEF WellFormed, Content
<1>7. CASE r.op = "d"
  <2> DEFINE i == IF r.cat \in ListCats THEN IdItem ELSE r.item
             K == {j \in (1 + 1) .. section_end(f, 1) : IsEntry(f[j], i) /\ ~f[j - 1].gap}
             k == nth(K, r.num)
  <2>1. Edit(f, r) = delete_config(f, r)
    BY <1>7 DEF Edit, IsAdd
  <2>2. /\ move_to_item(f, r.cat, i, r.num) # 0
        /\ Edit(f, r) = remove_item(f, move_to_item(f, r.cat, i, r.num))
    BY <1>7, <2>1 DEF delete_config
  <2>3. f # <<>> /\ k # 0 /\ move_to_item(f, r.cat, i, r.num) = k
    BY <1>2, <2>2 DEF move_to_item, find_postion
  <2>4. section_end(f, 1) = Len(f)
    BY <1>1, <2>3, FindCategoryLemma
  <2>5. k \in 2 .. Len(f)
    <3>1. k \in K
      <4> HIDE DEF K
      <4> QED BY <2>3, NthLemma
    <3> QED BY <2>4, <3>1
  <2> HIDE DEF k, i
  <2> QED BY <1>1, <2>2, <2>3, <2>5, RemoveWF
<1>8. QED
  BY <1>3, <1>4, <1>5, <1>6, <1>7 DEF EditOps

(* The inductive invariant *)

LEMMA RequestType ==
  ASSUME NEW r \in Request
  PROVE  /\ r \in Command /\ r.op \in Ops /\ r.cat \in Cats
         /\ r.item \in Items /\ r.val \in Values /\ r.num \in Nat \ {0}
BY RequestAssumption, NumAssumption DEF Command

LEMMA NoCmdType == NoCmd \in Request
BY RequestAssumption DEF NoCmd

\* print_config answers a value or "END"
LEMMA PrintType ==
  ASSUME NEW r \in Request, NEW f \in File, WellFormed(r.cat, f)
  PROVE  print_config(f, r) \in Values \cup {NoFile}
<1>1. CASE f = NoFile
  BY <1>1 DEF print_config
<1>2. CASE f # NoFile
  <2> DEFINE k == nth_item(f, 1, r.item, r.num)
  <2>1. f \in Content
    BY <1>2 DEF File
  <2>2. CASE f = <<>>
    BY <1>2, <2>1, <2>2, RequestType, FindCategoryLemma DEF print_config
  <2>3. CASE f # <<>> /\ k = 0
    BY <1>2, <2>1, <2>3, RequestType, FindCategoryLemma DEF print_config
  <2>4. CASE f # <<>> /\ k # 0
    <3>1. k \in 2 .. Len(f) /\ f[k].kind = "entry"
      BY <2>1, <2>4, RequestType, NthItemLemma
    <3> HIDE DEF k
    <3>2. f[k] \in Line
      BY <2>1, <3>1 DEF Content
    <3>3. f[k].val \in Values
      BY <3>1, <3>2 DEF Line
    <3>4. print_config(f, r) = f[k].val
      BY <1>2, <2>1, <2>4, RequestType, FindCategoryLemma DEF print_config, k
    <3> QED BY <3>3, <3>4
  <2> QED BY <2>2, <2>3, <2>4
<1> QED BY <1>1, <1>2

\* fclose on an empty file leaves what the stream collected
LEMMA OverlayEmpty ==
  ASSUME NEW f \in Content
  PROVE  Overlay(<<>>, f) = f
<1>1. Len(f) \in Nat /\ <<>> \in Seq(Line) /\ Len(<<>>) = 0
  BY DEF Content
<1>2. SubSeq(<<>>, Len(f) + 1, 0) = <<>>
  BY <1>1, SubSeqEmpty
<1>3. f \o <<>> = f
  BY ConcatEmptySeq DEF Content
<1> QED BY <1>1, <1>2, <1>3 DEF Overlay

LEMMA InitInv == Init => InductiveInv
<1> SUFFICES ASSUME Init PROVE InductiveInv
  OBVIOUS
<1>1. TypeOK
  BY InitDbAssumption, NoCmdType
  DEF Init, TypeOK, File, FdValues, PcValues, Busy
<1>2. CategoryFilesIntact
  BY InitDbAssumption DEF Init, CategoryFilesIntact
<1>3. OneOwner
  BY DEF Init, OneOwner, LockHeld, ScratchOwned, Critical, Busy
<1>4. MutualExclusion /\ RenameInstallsOwnEdit
  BY DEF Init, MutualExclusion, RenameInstallsOwnEdit, Critical
<1> QED BY <1>1, <1>2, <1>3, <1>4 DEF InductiveInv

LEMMA StartInv ==
  ASSUME InductiveInv, NEW p \in Proc, NEW r \in Request, Start(p, r)
  PROVE  InductiveInv'
<1> USE DEF files
<1>1. TypeOK'
  BY DEF Start, InductiveInv, TypeOK, Goto, PcValues, Busy, Critical,
     FdValues, File
<1>2. MutualExclusion'
  BY DEF Start, InductiveInv, TypeOK, MutualExclusion, OneOwner, LockHeld,
     Goto, Critical
<1>3. RenameInstallsOwnEdit'
  BY DEF Start, InductiveInv, TypeOK, MutualExclusion,
     RenameInstallsOwnEdit, OneOwner, ScratchOwned, Goto, Critical
<1>4. CategoryFilesIntact'
  BY DEF Start, InductiveInv, TypeOK, CategoryFilesIntact,
     RenameInstallsOwnEdit, OneOwner, ScratchOwned
<1>5. LockHeld'
  BY DEF Start, InductiveInv, TypeOK, MutualExclusion, OneOwner, LockHeld,
     Goto, Critical
<1>6. \A q \in Proc : ScratchOwned(q)'
  BY DEF Start, InductiveInv, TypeOK, MutualExclusion, OneOwner,
     ScratchOwned, Goto, Critical, Busy
<1>7. (stemp # NoFile => \/ left \in {"write", "rename"}
                      \/ \E q \in Proc : pc[q] \in {"write", "rename"})'
  BY DEF Start, InductiveInv, TypeOK, MutualExclusion, OneOwner, Goto,
     Critical
<1> QED BY <1>1, <1>2, <1>3, <1>4, <1>5, <1>6, <1>7
     DEF InductiveInv, OneOwner

LEMMA AcquireInv ==
  ASSUME InductiveInv, NEW p \in Proc, Acquire(p)
  PROVE  InductiveInv'
<1> USE DEF files
<1>1. TypeOK'
  BY DEF Acquire, InductiveInv, TypeOK, Goto, PcValues, Busy, Critical,
     FdValues, File
<1>2. MutualExclusion'
  BY DEF Acquire, InductiveInv, TypeOK, MutualExclusion, OneOwner,
     LockHeld, Goto, Critical
<1>3. RenameInstallsOwnEdit'
  BY DEF Acquire, InductiveInv, TypeOK, MutualExclusion,
     RenameInstallsOwnEdit, OneOwner, ScratchOwned, Goto, Critical
<1>4. CategoryFilesIntact'
  BY DEF Acquire, InductiveInv, TypeOK, CategoryFilesIntact,
     RenameInstallsOwnEdit, OneOwner, ScratchOwned
<1>5. LockHeld'
  BY DEF Acquire, InductiveInv, TypeOK, MutualExclusion, OneOwner,
     LockHeld, Goto, Critical
<1>6. \A q \in Proc : ScratchOwned(q)'
  BY DEF Acquire, InductiveInv, TypeOK, MutualExclusion, OneOwner,
     ScratchOwned, Goto, Critical, Busy
<1>7. (stemp # NoFile => \/ left \in {"write", "rename"}
                      \/ \E q \in Proc : pc[q] \in {"write", "rename"})'
  BY DEF Acquire, InductiveInv, TypeOK, MutualExclusion, OneOwner, Goto,
     Critical
<1> QED BY <1>1, <1>2, <1>3, <1>4, <1>5, <1>6, <1>7
     DEF InductiveInv, OneOwner

LEMMA UnlockInv ==
  ASSUME InductiveInv, NEW p \in Proc, Unlock(p)
  PROVE  InductiveInv'
<1> USE DEF files
<1>1. TypeOK'
  BY NoCmdType DEF Unlock, InductiveInv, TypeOK, Goto, PcValues, Busy,
     Critical, FdValues, File
<1>2. MutualExclusion'
  BY DEF Unlock, InductiveInv, TypeOK, MutualExclusion, OneOwner,
     LockHeld, Goto, Critical
<1>3. RenameInstallsOwnEdit'
  BY DEF Unlock, InductiveInv, TypeOK, MutualExclusion,
     RenameInstallsOwnEdit, OneOwner, ScratchOwned, Goto, Critical
<1>4. CategoryFilesIntact'
  BY DEF Unlock, InductiveInv, TypeOK, CategoryFilesIntact,
     RenameInstallsOwnEdit, OneOwner, ScratchOwned
<1>5. LockHeld'
  BY DEF Unlock, InductiveInv, TypeOK, MutualExclusion, OneOwner,
     LockHeld, Goto, Critical
<1>6. \A q \in Proc : ScratchOwned(q)'
  BY DEF Unlock, InductiveInv, TypeOK, MutualExclusion, OneOwner,
     ScratchOwned, Goto, Critical, Busy
<1>7. (stemp # NoFile => \/ left \in {"write", "rename"}
                      \/ \E q \in Proc : pc[q] \in {"write", "rename"})'
  BY DEF Unlock, InductiveInv, TypeOK, MutualExclusion, OneOwner, Goto,
     Critical
<1> QED BY <1>1, <1>2, <1>3, <1>4, <1>5, <1>6, <1>7
     DEF InductiveInv, OneOwner

LEMMA PrintNoFlagInv ==
  ASSUME InductiveInv, NEW p \in Proc, PrintNoFlag(p)
  PROVE  InductiveInv'
<1> USE DEF files
<1>a1. cmd[p] \in Request /\ cmd[p].cat \in Cats
  BY RequestType DEF InductiveInv, TypeOK
<1>a2. print_config(db[cmd[p].cat], cmd[p]) \in Values \cup {NoFile}
  <2>1. db[cmd[p].cat] \in File /\ WellFormed(cmd[p].cat, db[cmd[p].cat])
    BY <1>a1 DEF InductiveInv, TypeOK, CategoryFilesIntact
  <2> QED BY <1>a1, <2>1, PrintType
<1>1. TypeOK'
  BY NoCmdType, <1>a2 DEF PrintNoFlag, InductiveInv, TypeOK, Goto,
     PcValues, Busy, Critical, FdValues, File
<1>2. MutualExclusion'
  BY DEF PrintNoFlag, InductiveInv, TypeOK, MutualExclusion, OneOwner,
     LockHeld, Goto, Critical
<1>3. RenameInstallsOwnEdit'
  BY DEF PrintNoFlag, InductiveInv, TypeOK, MutualExclusion,
     RenameInstallsOwnEdit, OneOwner, ScratchOwned, Goto, Critical
<1>4. CategoryFilesIntact'
  BY DEF PrintNoFlag, InductiveInv, TypeOK, CategoryFilesIntact,
     RenameInstallsOwnEdit, OneOwner, ScratchOwned
<1>5. LockHeld'
  BY DEF PrintNoFlag, InductiveInv, TypeOK, MutualExclusion, OneOwner,
     LockHeld, Goto, Critical
<1>6. \A q \in Proc : ScratchOwned(q)'
  BY DEF PrintNoFlag, InductiveInv, TypeOK, MutualExclusion, OneOwner,
     ScratchOwned, Goto, Critical, Busy
<1>7. (stemp # NoFile => \/ left \in {"write", "rename"}
                      \/ \E q \in Proc : pc[q] \in {"write", "rename"})'
  BY DEF PrintNoFlag, InductiveInv, TypeOK, MutualExclusion, OneOwner,
     Goto, Critical
<1> QED BY <1>1, <1>2, <1>3, <1>4, <1>5, <1>6, <1>7
     DEF InductiveInv, OneOwner

LEMMA PrintSettingInv ==
  ASSUME InductiveInv, NEW p \in Proc, PrintSetting(p)
  PROVE  InductiveInv'
<1> USE DEF files
<1>a1. cmd[p] \in Request /\ cmd[p].cat \in Cats
  BY RequestType DEF InductiveInv, TypeOK
<1>a2. print_config(db[cmd[p].cat], cmd[p]) \in Values \cup {NoFile}
  <2>1. db[cmd[p].cat] \in File /\ WellFormed(cmd[p].cat, db[cmd[p].cat])
    BY <1>a1 DEF InductiveInv, TypeOK, CategoryFilesIntact
  <2> QED BY <1>a1, <2>1, PrintType
<1>1. TypeOK'
  BY <1>a2 DEF PrintSetting, InductiveInv, TypeOK, Goto, PcValues, Busy,
     Critical, FdValues, File
<1>2. MutualExclusion'
  BY DEF PrintSetting, InductiveInv, TypeOK, MutualExclusion, OneOwner,
     LockHeld, Goto, Critical
<1>3. RenameInstallsOwnEdit'
  BY DEF PrintSetting, InductiveInv, TypeOK, MutualExclusion,
     RenameInstallsOwnEdit, OneOwner, ScratchOwned, Goto, Critical
<1>4. CategoryFilesIntact'
  BY DEF PrintSetting, InductiveInv, TypeOK, CategoryFilesIntact,
     RenameInstallsOwnEdit, OneOwner, ScratchOwned
<1>5. LockHeld'
  BY DEF PrintSetting, InductiveInv, TypeOK, MutualExclusion, OneOwner,
     LockHeld, Goto, Critical
<1>6. \A q \in Proc : ScratchOwned(q)'
  BY DEF PrintSetting, InductiveInv, TypeOK, MutualExclusion, OneOwner,
     ScratchOwned, Goto, Critical, Busy
<1>7. (stemp # NoFile => \/ left \in {"write", "rename"}
                      \/ \E q \in Proc : pc[q] \in {"write", "rename"})'
  BY DEF PrintSetting, InductiveInv, TypeOK, MutualExclusion, OneOwner,
     Goto, Critical
<1> QED BY <1>1, <1>2, <1>3, <1>4, <1>5, <1>6, <1>7
     DEF InductiveInv, OneOwner

LEMMA EditNoFileInv ==
  ASSUME InductiveInv, NEW p \in Proc, EditNoFile(p)
  PROVE  InductiveInv'
<1> USE DEF files
<1>1. TypeOK'
  BY DEF EditNoFile, InductiveInv, TypeOK, Goto, PcValues, Busy, Critical,
     FdValues, File
<1>2. MutualExclusion'
  BY DEF EditNoFile, InductiveInv, TypeOK, MutualExclusion, OneOwner,
     LockHeld, Goto, Critical
<1>3. RenameInstallsOwnEdit'
  BY DEF EditNoFile, InductiveInv, TypeOK, MutualExclusion,
     RenameInstallsOwnEdit, OneOwner, ScratchOwned, Goto, Critical
<1>4. CategoryFilesIntact'
  BY DEF EditNoFile, InductiveInv, TypeOK, CategoryFilesIntact,
     RenameInstallsOwnEdit, OneOwner, ScratchOwned
<1>5. LockHeld'
  BY DEF EditNoFile, InductiveInv, TypeOK, MutualExclusion, OneOwner,
     LockHeld, Goto, Critical
<1>6. \A q \in Proc : ScratchOwned(q)'
  BY DEF EditNoFile, InductiveInv, TypeOK, MutualExclusion, OneOwner,
     ScratchOwned, Goto, Critical, Busy
<1>7. (stemp # NoFile => \/ left \in {"write", "rename"}
                      \/ \E q \in Proc : pc[q] \in {"write", "rename"})'
  BY DEF EditNoFile, InductiveInv, TypeOK, MutualExclusion, OneOwner,
     Goto, Critical
<1> QED BY <1>1, <1>2, <1>3, <1>4, <1>5, <1>6, <1>7
     DEF InductiveInv, OneOwner

LEMMA EditOpenInv ==
  ASSUME InductiveInv, NEW p \in Proc, EditOpen(p)
  PROVE  InductiveInv'
<1> USE DEF files
<1>a1. cmd[p] \in Request /\ cmd[p].cat \in Cats
  BY RequestType DEF InductiveInv, TypeOK
<1>a2. /\ pc[p] = "cs"
      /\ Edit(db[cmd[p].cat], cmd[p]) \in Content
      /\ WellFormed(cmd[p].cat, Edit(db[cmd[p].cat], cmd[p]))
  <2> DEFINE f == db[cmd[p].cat]
  <2>1. f \in Content /\ WellFormed(cmd[p].cat, f)
    BY <1>a1 DEF InductiveInv, TypeOK, CategoryFilesIntact, EditOpen, Edits, File
  <2>2. cmd[p].op = "n" => f # <<>>
    BY <1>a1, <2>1, FindCategoryLemma DEF EditOpen, Edits
  <2>3. pc[p] = "cs" /\ cmd[p].op \in EditOps /\ Edit(f, cmd[p]) # NoFile
    BY DEF EditOpen, Edits
  <2> QED BY <1>a1, <2>1, <2>2, <2>3, RequestType, EditWF
<1>a3. Edit(db[cmd[p].cat], cmd[p]) # NoFile /\ <<>> \in Content
  BY DEF EditOpen, Content
<1>1. TypeOK'
  BY <1>a2, <1>a3 DEF EditOpen, InductiveInv, TypeOK, Goto, PcValues,
     Busy, Critical, FdValues, File
<1>2. MutualExclusion'
  BY <1>a2 DEF EditOpen, InductiveInv, TypeOK, MutualExclusion, OneOwner,
     LockHeld, Goto, Critical
<1>3. RenameInstallsOwnEdit'
  BY <1>a2 DEF EditOpen, InductiveInv, TypeOK, MutualExclusion,
     RenameInstallsOwnEdit, OneOwner, ScratchOwned, Goto, Critical
<1>4. CategoryFilesIntact'
  BY DEF EditOpen, InductiveInv, TypeOK, CategoryFilesIntact,
     RenameInstallsOwnEdit, OneOwner, ScratchOwned
<1>5. LockHeld'
  BY <1>a2 DEF EditOpen, InductiveInv, TypeOK, MutualExclusion, OneOwner,
     LockHeld, Goto, Critical
<1>6. \A q \in Proc : ScratchOwned(q)'
  BY <1>a2, <1>a3 DEF EditOpen, InductiveInv, TypeOK, MutualExclusion,
     OneOwner, ScratchOwned, Goto, Critical, Busy
<1>7. (stemp # NoFile => \/ left \in {"write", "rename"}
                      \/ \E q \in Proc : pc[q] \in {"write", "rename"})'
  BY <1>a2 DEF EditOpen, InductiveInv, TypeOK, MutualExclusion, OneOwner,
     Goto, Critical
<1> QED BY <1>1, <1>2, <1>3, <1>4, <1>5, <1>6, <1>7
     DEF InductiveInv, OneOwner

LEMMA EditNothingInv ==
  ASSUME InductiveInv, NEW p \in Proc, EditNothing(p)
  PROVE  InductiveInv'
<1> USE DEF files
<1>a1. pc[p] = "cs"
  BY DEF EditNothing, Edits
<1>a2. \A c : WellFormed(c, NoFile)
  BY DEF WellFormed
<1>1. TypeOK'
  BY <1>a1 DEF EditNothing, InductiveInv, TypeOK, Goto, PcValues, Busy,
     Critical, FdValues, File
<1>2. MutualExclusion'
  BY <1>a1 DEF EditNothing, InductiveInv, TypeOK, MutualExclusion,
     OneOwner, LockHeld, Goto, Critical
<1>3. RenameInstallsOwnEdit'
  BY <1>a1 DEF EditNothing, InductiveInv, TypeOK, MutualExclusion,
     RenameInstallsOwnEdit, OneOwner, LockHeld, ScratchOwned, Goto, Critical
<1>4. CategoryFilesIntact'
  BY <1>a1 DEF EditNothing, InductiveInv, TypeOK, CategoryFilesIntact,
     RenameInstallsOwnEdit, OneOwner, ScratchOwned
<1>5. LockHeld'
  BY <1>a1 DEF EditNothing, InductiveInv, TypeOK, MutualExclusion,
     OneOwner, LockHeld, Goto, Critical
<1>6. \A q \in Proc : ScratchOwned(q)'
  BY <1>a1, <1>a2 DEF EditNothing, InductiveInv, TypeOK, MutualExclusion,
     OneOwner, ScratchOwned, Goto, Critical, Busy
<1>7. (stemp # NoFile => \/ left \in {"write", "rename"}
                      \/ \E q \in Proc : pc[q] \in {"write", "rename"})'
  BY <1>a1 DEF EditNothing, InductiveInv, TypeOK, MutualExclusion,
     OneOwner, Goto, Critical
<1> QED BY <1>1, <1>2, <1>3, <1>4, <1>5, <1>6, <1>7
     DEF InductiveInv, OneOwner

LEMMA EditCloseInv ==
  ASSUME InductiveInv, NEW p \in Proc, EditClose(p)
  PROVE  InductiveInv'
<1> USE DEF files
<1>a1. /\ pc[p] = "write" /\ stemp' = buf[p] /\ db' = db
      /\ buf[p] \in Content /\ buf' = buf
  <2>1. fd[p] = "stemp" /\ stemp = <<>> /\ buf[p] \in Content
    BY DEF InductiveInv, TypeOK, OneOwner, ScratchOwned, EditClose, File
  <2> QED BY <2>1, OverlayEmpty DEF EditClose
<1>1. TypeOK'
  BY <1>a1 DEF EditClose, InductiveInv, TypeOK, Goto, PcValues, Busy,
     Critical, FdValues, File
<1>2. MutualExclusion'
  BY <1>a1 DEF EditClose, InductiveInv, TypeOK, MutualExclusion, OneOwner,
     LockHeld, Goto, Critical
<1>3. RenameInstallsOwnEdit'
  BY <1>a1 DEF EditClose, InductiveInv, TypeOK, MutualExclusion,
     RenameInstallsOwnEdit, OneOwner, ScratchOwned, Goto, Critical
<1>4. CategoryFilesIntact'
  BY <1>a1 DEF EditClose, InductiveInv, TypeOK, CategoryFilesIntact,
     RenameInstallsOwnEdit, OneOwner, ScratchOwned
<1>5. LockHeld'
  BY <1>a1 DEF EditClose, InductiveInv, TypeOK, MutualExclusion, OneOwner,
     LockHeld, Goto, Critical
<1>6. \A q \in Proc : ScratchOwned(q)'
  BY <1>a1 DEF EditClose, InductiveInv, TypeOK, MutualExclusion, OneOwner,
     ScratchOwned, Goto, Critical, Busy
<1>7. (stemp # NoFile => \/ left \in {"write", "rename"}
                      \/ \E q \in Proc : pc[q] \in {"write", "rename"})'
  BY <1>a1 DEF EditClose, InductiveInv, TypeOK, MutualExclusion, OneOwner,
     Goto, Critical
<1> QED BY <1>1, <1>2, <1>3, <1>4, <1>5, <1>6, <1>7
     DEF InductiveInv, OneOwner

LEMMA RenameInv ==
  ASSUME InductiveInv, NEW p \in Proc, Rename(p)
  PROVE  InductiveInv'
<1> USE DEF files
<1>a1. cmd[p] \in Request /\ cmd[p].cat \in Cats
  BY RequestType DEF InductiveInv, TypeOK
<1>a2. /\ pc[p] = "rename" /\ stemp = buf[p] /\ fd' = fd /\ stemp' = NoFile
      /\ WellFormed(cmd[p].cat, stemp)
  <2>1. /\ pc[p] = "rename" /\ stemp = buf[p]
        /\ WellFormed(cmd[p].cat, stemp)
    BY DEF InductiveInv, RenameInstallsOwnEdit, OneOwner, ScratchOwned, Rename
  <2>2. \A q \in Proc : fd[q] = "none"
    BY <2>1 DEF InductiveInv, MutualExclusion, OneOwner, ScratchOwned, Critical
  <2>3. CASE stemp = NoFile
    BY <2>1, <2>3 DEF Rename
  <2>4. CASE stemp # NoFile
    <3>1. \A q \in Proc : fd'[q] = fd[q]
      BY <2>2, <2>4, <1>a1, FdAssumption DEF Rename
    <3>2. fd' = fd
      BY <2>4, <3>1 DEF Rename, InductiveInv, TypeOK
    <3> QED BY <2>1, <2>4, <3>2 DEF Rename
  <2> QED BY <2>3, <2>4
<1>1. TypeOK'
  BY <1>a1, <1>a2 DEF Rename, InductiveInv, TypeOK, Goto, PcValues, Busy,
     Critical, FdValues, File
<1>2. MutualExclusion'
  BY <1>a1, <1>a2 DEF Rename, InductiveInv, TypeOK, MutualExclusion,
     OneOwner, LockHeld, Goto, Critical
<1>3. RenameInstallsOwnEdit'
  BY <1>a1, <1>a2 DEF Rename, InductiveInv, TypeOK, MutualExclusion,
     RenameInstallsOwnEdit, OneOwner, ScratchOwned, Goto, Critical
<1>4. CategoryFilesIntact'
  BY <1>a1, <1>a2 DEF Rename, InductiveInv, TypeOK, CategoryFilesIntact,
     RenameInstallsOwnEdit, OneOwner, ScratchOwned
<1>5. LockHeld'
  BY <1>a1, <1>a2 DEF Rename, InductiveInv, TypeOK, MutualExclusion,
     OneOwner, LockHeld, Goto, Critical
<1>6. \A q \in Proc : ScratchOwned(q)'
  BY <1>a1, <1>a2 DEF Rename, InductiveInv, TypeOK, MutualExclusion,
     OneOwner, ScratchOwned, Goto, Critical, Busy
<1>7. (stemp # NoFile => \/ left \in {"write", "rename"}
                      \/ \E q \in Proc : pc[q] \in {"write", "rename"})'
  BY <1>a1, <1>a2 DEF Rename, InductiveInv, TypeOK, MutualExclusion,
     OneOwner, Goto, Critical
<1> QED BY <1>1, <1>2, <1>3, <1>4, <1>5, <1>6, <1>7
     DEF InductiveInv, OneOwner

LEMMA NewCategoryInv ==
  ASSUME InductiveInv, NEW p \in Proc, NewCategory(p)
  PROVE  InductiveInv'
<1> USE DEF files
<1>a1. cmd[p] \in Request /\ cmd[p].cat \in Cats
  BY RequestType DEF InductiveInv, TypeOK
<1>a2. /\ db' = [db EXCEPT ![cmd[p].cat] = <<>>] /\ <<>> \in Content
  <2> DEFINE f == db[cmd[p].cat]
  <2>1. CASE f = NoFile
    BY <2>1 DEF NewCategory, Content
  <2>2. CASE f # NoFile
    <3>1. f \in Content /\ WellFormed(cmd[p].cat, f)
      BY <1>a1, <2>2 DEF InductiveInv, TypeOK, CategoryFilesIntact, File
    <3>2. f = <<>>
      BY <1>a1, <2>2, <3>1, FindCategoryLemma DEF NewCategory
    <3> QED BY <2>2, <3>2 DEF NewCategory, Content
  <2> QED BY <2>1, <2>2
<1>a3. \A c \in Cats : WellFormed(c, <<>>)
  BY DEF WellFormed
<1>1. TypeOK'
  BY <1>a1, <1>a2, <1>a3 DEF NewCategory, InductiveInv, TypeOK, Goto,
     PcValues, Busy, Critical, FdValues, File
<1>2. MutualExclusion'
  BY <1>a1, <1>a2, <1>a3 DEF NewCategory, InductiveInv, TypeOK,
     MutualExclusion, OneOwner, LockHeld, Goto, Critical
<1>3. RenameInstallsOwnEdit'
  BY <1>a1, <1>a2, <1>a3 DEF NewCategory, InductiveInv, TypeOK,
     MutualExclusion, RenameInstallsOwnEdit, OneOwner, ScratchOwned, Goto,
     Critical
<1>4. CategoryFilesIntact'
  BY <1>a1, <1>a2, <1>a3 DEF NewCategory, InductiveInv, TypeOK,
     CategoryFilesIntact, RenameInstallsOwnEdit, OneOwner, ScratchOwned
<1>5. LockHeld'
  BY <1>a1, <1>a2, <1>a3 DEF NewCategory, InductiveInv, TypeOK,
     MutualExclusion, OneOwner, LockHeld, Goto, Critical
<1>6. \A q \in Proc : ScratchOwned(q)'
  BY <1>a1, <1>a2, <1>a3 DEF NewCategory, InductiveInv, TypeOK,
     MutualExclusion, OneOwner, ScratchOwned, Goto, Critical, Busy
<1>7. (stemp # NoFile => \/ left \in {"write", "rename"}
                      \/ \E q \in Proc : pc[q] \in {"write", "rename"})'
  BY <1>a1, <1>a2, <1>a3 DEF NewCategory, InductiveInv, TypeOK,
     MutualExclusion, OneOwner, Goto, Critical
<1> QED BY <1>1, <1>2, <1>3, <1>4, <1>5, <1>6, <1>7
     DEF InductiveInv, OneOwner

LEMMA AppendCategoryInv ==
  ASSUME InductiveInv, NEW p \in Proc, AppendCategory(p)
  PROVE  InductiveInv'
<1> USE DEF files
<1>a1. cmd[p] \in Request /\ cmd[p].cat \in Cats
  BY RequestType DEF InductiveInv, TypeOK
<1>a2. PICK f \in Content : /\ WellFormed(cmd[p].cat, f)
                          /\ db' = [db EXCEPT ![cmd[p].cat] = f]
  <2> DEFINE e == Entry(cmd[p].item, cmd[p].val)
             f == <<Header(cmd[p].cat), e>>
  <2>1. e \in Line /\ e.kind = "entry" /\ Header(cmd[p].cat) \in Line
    BY <1>a1, RequestType DEF Line, Header, Entry
  <2> HIDE DEF e
  <2>2. f \in Content /\ WellFormed(cmd[p].cat, f)
    BY <2>1 DEF Content, WellFormed, IsHeader, Header
  <2>3. db[cmd[p].cat] = <<>>
    BY DEF AppendCategory, InductiveInv, OneOwner, ScratchOwned
  <2>4. <<>> \o f = f
    <3> HIDE DEF f
    <3> QED BY <2>2, ConcatEmptySeq DEF Content
  <2> QED BY <2>2, <2>3, <2>4 DEF AppendCategory, e
<1>a3. db' \in [Cats -> File]
  BY <1>a1, <1>a2 DEF InductiveInv, TypeOK, File
<1>a4. /\ pc' \in [Proc -> PcValues]
       /\ UNCHANGED <<lock, stemp, catlist, cmd, buf, fd, masked, ret, left>>
  BY DEF AppendCategory, Goto, InductiveInv, TypeOK, PcValues, Busy, Critical
<1>1. TypeOK'
  BY <1>a3, <1>a4 DEF InductiveInv, TypeOK
<1>2. MutualExclusion'
  BY <1>a1, <1>a2 DEF AppendCategory, InductiveInv, TypeOK,
     MutualExclusion, OneOwner, LockHeld, Goto, Critical
<1>3. RenameInstallsOwnEdit'
  BY <1>a1, <1>a2 DEF AppendCategory, InductiveInv, TypeOK,
     MutualExclusion, RenameInstallsOwnEdit, OneOwner, ScratchOwned, Goto,
     Critical
<1>4. CategoryFilesIntact'
  BY <1>a1, <1>a2 DEF AppendCategory, InductiveInv, TypeOK,
     CategoryFilesIntact, RenameInstallsOwnEdit, OneOwner, ScratchOwned
<1>5. LockHeld'
  BY <1>a1, <1>a2 DEF AppendCategory, InductiveInv, TypeOK,
     MutualExclusion, OneOwner, LockHeld, Goto, Critical
<1>6. \A q \in Proc : ScratchOwned(q)'
  BY <1>a1, <1>a2 DEF AppendCategory, InductiveInv, TypeOK,
     MutualExclusion, OneOwner, ScratchOwned, Goto, Critical, Busy
<1>7. (stemp # NoFile => \/ left \in {"write", "rename"}
                      \/ \E q \in Proc : pc[q] \in {"write", "rename"})'
  BY <1>a1, <1>a2 DEF AppendCategory, InductiveInv, TypeOK,
     MutualExclusion, OneOwner, Goto, Critical
<1> QED BY <1>1, <1>2, <1>3, <1>4, <1>5, <1>6, <1>7
     DEF InductiveInv, OneOwner

LEMMA AppendListInv ==
  ASSUME InductiveInv, NEW p \in Proc, AppendList(p)
  PROVE  InductiveInv'
<1> USE DEF files
<1>a1. cmd[p] \in Request /\ cmd[p].cat \in Cats
  BY RequestType DEF InductiveInv, TypeOK
<1>1. TypeOK'
  BY <1>a1 DEF AppendList, InductiveInv, TypeOK, Goto, PcValues, Busy,
     Critical, FdValues, File
<1>2. MutualExclusion'
  BY DEF AppendList, InductiveInv, TypeOK, MutualExclusion, OneOwner,
     LockHeld, Goto, Critical
<1>3. RenameInstallsOwnEdit'
  BY DEF AppendList, InductiveInv, TypeOK, MutualExclusion,
     RenameInstallsOwnEdit, OneOwner, ScratchOwned, Goto, Critical
<1>4. CategoryFilesIntact'
  BY DEF AppendList, InductiveInv, TypeOK, CategoryFilesIntact,
     RenameInstallsOwnEdit, OneOwner, ScratchOwned
<1>5. LockHeld'
  BY DEF AppendList, InductiveInv, TypeOK, MutualExclusion, OneOwner,
     LockHeld, Goto, Critical
<1>6. \A q \in Proc : ScratchOwned(q)'
  BY DEF AppendList, InductiveInv, TypeOK, MutualExclusion, OneOwner,
     ScratchOwned, Goto, Critical, Busy
<1>7. (stemp # NoFile => \/ left \in {"write", "rename"}
                      \/ \E q \in Proc : pc[q] \in {"write", "rename"})'
  BY DEF AppendList, InductiveInv, TypeOK, MutualExclusion, OneOwner,
     Goto, Critical
<1> QED BY <1>1, <1>2, <1>3, <1>4, <1>5, <1>6, <1>7
     DEF InductiveInv, OneOwner

LEMMA TerminateInv ==
  ASSUME InductiveInv, NEW p \in Proc, Terminate(p)
  PROVE  InductiveInv'
<1> USE DEF files
<1>a1. pc[p] \notin Busy /\ pc[p] \notin Critical
  BY DEF Terminate, InductiveInv, OneOwner, ScratchOwned, Busy
<1>a2. pc[p] \notin {"write", "rename"}
  BY <1>a1 DEF Critical
<1>1. TypeOK'
  BY <1>a1, <1>a2 DEF Terminate, InductiveInv, TypeOK, Goto, PcValues,
     Busy, Critical, FdValues, File
<1>2. MutualExclusion'
  BY <1>a1, <1>a2 DEF Terminate, InductiveInv, TypeOK, MutualExclusion,
     OneOwner, LockHeld, Goto, Critical
<1>3. RenameInstallsOwnEdit'
  BY <1>a1, <1>a2 DEF Terminate, InductiveInv, TypeOK, MutualExclusion,
     RenameInstallsOwnEdit, OneOwner, ScratchOwned, Goto, Critical
<1>4. CategoryFilesIntact'
  BY <1>a1, <1>a2 DEF Terminate, InductiveInv, TypeOK,
     CategoryFilesIntact, RenameInstallsOwnEdit, OneOwner, ScratchOwned
<1>5. LockHeld'
  BY <1>a1, <1>a2 DEF Terminate, InductiveInv, TypeOK, MutualExclusion,
     OneOwner, LockHeld, Goto, Critical
<1>6. \A q \in Proc : ScratchOwned(q)'
  BY <1>a1, <1>a2 DEF Terminate, InductiveInv, TypeOK, MutualExclusion,
     OneOwner, ScratchOwned, Goto, Critical, Busy
<1>7. (stemp # NoFile => \/ left \in {"write", "rename"}
                      \/ \E q \in Proc : pc[q] \in {"write", "rename"})'
  BY <1>a1, <1>a2 DEF Terminate, InductiveInv, TypeOK, MutualExclusion,
     OneOwner, Goto, Critical
<1> QED BY <1>1, <1>2, <1>3, <1>4, <1>5, <1>6, <1>7
     DEF InductiveInv, OneOwner

LEMMA SigkillInv ==
  ASSUME InductiveInv, NEW p \in Proc, Sigkill(p)
  PROVE  InductiveInv'
<1> USE DEF files
<1>1. TypeOK'
  BY DEF Sigkill, InductiveInv, TypeOK, Goto, PcValues, Busy, Critical,
     FdValues, File
<1>2. MutualExclusion'
  BY DEF Sigkill, InductiveInv, TypeOK, MutualExclusion, Goto, Critical
<1>3. RenameInstallsOwnEdit'
  BY DEF Sigkill, InductiveInv, TypeOK, RenameInstallsOwnEdit, Goto
<1>4. CategoryFilesIntact'
  BY DEF Sigkill, InductiveInv, CategoryFilesIntact
<1>5. LockHeld'
  BY DEF Sigkill, InductiveInv, TypeOK, MutualExclusion, OneOwner, LockHeld,
     Goto, Critical
<1>6. \A q \in Proc : ScratchOwned(q)'
  BY DEF Sigkill, InductiveInv, TypeOK, OneOwner, ScratchOwned, Goto, Critical, Busy
<1>7. (stemp # NoFile => \/ left \in {"write", "rename"}
                      \/ \E q \in Proc : pc[q] \in {"write", "rename"})'
  BY DEF Sigkill, InductiveInv, TypeOK, MutualExclusion, OneOwner, LockHeld, Goto,
     Critical
<1> QED BY <1>1, <1>2, <1>3, <1>4, <1>5, <1>6, <1>7
     DEF InductiveInv, OneOwner

LEMMA RespawnInv ==
  ASSUME InductiveInv, NEW p \in Proc, Respawn(p)
  PROVE  InductiveInv'
<1> USE DEF files
<1>1. TypeOK'
  BY NoCmdType DEF Respawn, InductiveInv, TypeOK, Goto, PcValues, Busy,
     Critical, FdValues, File
<1>2. MutualExclusion'
  BY DEF Respawn, InductiveInv, TypeOK, MutualExclusion, OneOwner,
     LockHeld, Goto, Critical
<1>3. RenameInstallsOwnEdit'
  BY DEF Respawn, InductiveInv, TypeOK, MutualExclusion,
     RenameInstallsOwnEdit, OneOwner, ScratchOwned, Goto, Critical
<1>4. CategoryFilesIntact'
  BY DEF Respawn, InductiveInv, TypeOK, CategoryFilesIntact,
     RenameInstallsOwnEdit, OneOwner, ScratchOwned
<1>5. LockHeld'
  BY DEF Respawn, InductiveInv, TypeOK, MutualExclusion, OneOwner,
     LockHeld, Goto, Critical
<1>6. \A q \in Proc : ScratchOwned(q)'
  BY DEF Respawn, InductiveInv, TypeOK, MutualExclusion, OneOwner,
     ScratchOwned, Goto, Critical, Busy
<1>7. (stemp # NoFile => \/ left \in {"write", "rename"}
                      \/ \E q \in Proc : pc[q] \in {"write", "rename"})'
  BY DEF Respawn, InductiveInv, TypeOK, MutualExclusion, OneOwner, Goto,
     Critical
<1> QED BY <1>1, <1>2, <1>3, <1>4, <1>5, <1>6, <1>7
     DEF InductiveInv, OneOwner

LEMMA StutterInv ==
  ASSUME InductiveInv, UNCHANGED vars
  PROVE  InductiveInv'
<1> USE DEF vars
<1>1. TypeOK' /\ MutualExclusion' /\ RenameInstallsOwnEdit'
  BY DEF InductiveInv, TypeOK, MutualExclusion, RenameInstallsOwnEdit
<1>2. CategoryFilesIntact'
  BY DEF InductiveInv, CategoryFilesIntact
<1>3. OneOwner'
  BY DEF InductiveInv, OneOwner, LockHeld, ScratchOwned
<1> QED BY <1>1, <1>2, <1>3 DEF InductiveInv

LEMMA NextInv == InductiveInv /\ [Next]_vars => InductiveInv'
<1> SUFFICES ASSUME InductiveInv, [Next]_vars PROVE InductiveInv'
  OBVIOUS
<1>1. CASE UNCHANGED vars
  BY <1>1, StutterInv
<1>2. ASSUME NEW p \in Proc, NEW r \in Request, Start(p, r)
      PROVE  InductiveInv'
  BY <1>2, StartInv
<1>3. ASSUME NEW p \in Proc, Step(p)
      PROVE  InductiveInv'
  BY <1>3, AcquireInv, UnlockInv, PrintNoFlagInv, PrintSettingInv,
     EditNoFileInv, EditOpenInv, EditNothingInv, EditCloseInv, RenameInv,
     NewCategoryInv, AppendCategoryInv, AppendListInv DEF Step
<1>4. ASSUME NEW p \in Proc, Terminate(p) \/ Sigkill(p) \/ Respawn(p)
      PROVE  InductiveInv'
  BY <1>4, TerminateInv, SigkillInv, RespawnInv
<1> QED BY <1>1, <1>2, <1>3, <1>4 DEF Next

LEMMA Invariance == Spec => []InductiveInv
BY InitInv, NextInv, PTL DEF Spec

-----------------------------------------------------------------------------
(* The theorems *)

\* every file of the database stays a sequence of headers and entries and
\* every process where nk_sysconfig can be
THEOREM TypeCorrect == Spec => []TypeOK
<1>1. InductiveInv => TypeOK
  BY DEF InductiveInv
<1> QED BY <1>1, Invariance, PTL

\* the lock file keeps any number of processes out of each other's
\* nk_process_comd, with SIGTERM and SIGKILL at any moment
THEOREM Exclusion == Spec => []MutualExclusion
<1>1. InductiveInv => MutualExclusion
  BY DEF InductiveInv
<1> QED BY <1>1, Invariance, PTL

\* the lock file and /tmp/stemp exist exactly while their owner is between
\* the open(O_EXCL) and the unlink of nk_sysconfig, or for ever after a SIGKILL
\* in between, when nobody comes near them again
THEOREM ScratchHasOneOwner == Spec => []OneOwner
<1>1. InductiveInv => OneOwner
  BY DEF InductiveInv
<1> QED BY <1>1, Invariance, PTL

\* the rename that set_config, add_config and nk_delete_setting do whatever
\* happened before never installs another command's /tmp/stemp
THEOREM RenameIsOwn == Spec => []RenameInstallsOwnEdit
<1>1. InductiveInv => RenameInstallsOwnEdit
  BY DEF InductiveInv
<1> QED BY <1>1, Invariance, PTL

\* no sequence of commands of any processes mixes categories in a file,
\* loses a header or doubles one
THEOREM FilesIntact == Spec => []CategoryFilesIntact
<1>1. InductiveInv => CategoryFilesIntact
  BY DEF InductiveInv
<1> QED BY <1>1, Invariance, PTL

-----------------------------------------------------------------------------
(* The entries of a category file *)

EntryRec == [item : Items, val : Values]

\* the entries of a file that is not empty
Sec(f) == [k \in 1 .. Len(f) - 1 |-> [item |-> f[k + 1].item, val |-> f[k + 1].val]]

LEMMA EntryLines ==
  ASSUME NEW c \in Cats, NEW f \in Content, f # <<>>, WellFormed(c, f)
  PROVE  /\ Len(f) \in Nat \ {0} /\ IsHeader(f[1], c)
         /\ \A k \in 2 .. Len(f) : /\ f[k] \in Line /\ f[k].kind = "entry"
                                   /\ f[k].item \in Items /\ f[k].val \in Values
<1>1. f \in Seq(Line) /\ f # NoFile /\ Len(f) \in Nat \ {0}
  BY NoFileAssumption DEF Content
<1>2. IsHeader(f[1], c) /\ \A k \in 2 .. Len(f) : f[k].kind = "entry"
  BY <1>1 DEF WellFormed
<1>3. ASSUME NEW k \in 2 .. Len(f)
      PROVE  /\ f[k] \in Line /\ f[k].kind = "entry"
             /\ f[k].item \in Items /\ f[k].val \in Values
  <2>1. f[k] \in Line /\ f[k].kind = "entry"
    BY <1>1, <1>2
  <2> QED
    BY <2>1 DEF Line
<1> QED
  BY <1>1, <1>2, <1>3

\* A well-formed file that is not empty stands for the list of its entries, an
\* empty one for no category.
LEMMA SectionIs ==
  ASSUME NEW c \in Cats, NEW f \in Content, WellFormed(c, f)
  PROVE  /\ f = <<>> => SectionOf(f, c) = NoFile
         /\ f # <<>> => /\ SectionOf(f, c) = Sec(f) /\ Sec(f) \in Seq(EntryRec)
                        /\ Len(Sec(f)) = Len(f) - 1
                        /\ Len(f) - 1 \in Nat /\ DOMAIN Sec(f) = 1 .. Len(f) - 1
                        /\ \A k \in 1 .. Len(f) - 1 :
                             /\ k + 1 \in 2 .. Len(f) /\ f[k + 1].kind = "entry"
                             /\ Sec(f)[k] = [item |-> f[k + 1].item, val |-> f[k + 1].val]
                             /\ Sec(f)[k].item = f[k + 1].item /\ Sec(f)[k].val = f[k + 1].val
<1>1. f # NoFile
  BY NoFileAssumption DEF Content
<1>2. ASSUME f = <<>> PROVE SectionOf(f, c) = NoFile
  BY <1>1, <1>2, FindCategoryLemma DEF SectionOf
<1>3. ASSUME f # <<>>
      PROVE  /\ SectionOf(f, c) = Sec(f) /\ Sec(f) \in Seq(EntryRec)
             /\ Len(Sec(f)) = Len(f) - 1
             /\ Len(f) - 1 \in Nat /\ DOMAIN Sec(f) = 1 .. Len(f) - 1
             /\ \A k \in 1 .. Len(f) - 1 :
                  /\ k + 1 \in 2 .. Len(f) /\ f[k + 1].kind = "entry"
                  /\ Sec(f)[k] = [item |-> f[k + 1].item, val |-> f[k + 1].val]
                  /\ Sec(f)[k].item = f[k + 1].item /\ Sec(f)[k].val = f[k + 1].val
  <2>1. /\ Len(f) \in Nat \ {0}
        /\ \A k \in 2 .. Len(f) : /\ f[k] \in Line /\ f[k].kind = "entry"
                                  /\ f[k].item \in Items /\ f[k].val \in Values
    BY <1>3, EntryLines
  <2>2. \A k \in 1 .. Len(f) - 1 : k + 1 \in 2 .. Len(f) /\ 1 + k = k + 1
    BY <2>1
  <2>3. find_category(f, c) = 1 /\ section_end(f, 1) = Len(f)
    BY <1>3, FindCategoryLemma
  <2>4. SectionOf(f, c) = [k \in 1 .. Len(f) - 1 |->
                             [item |-> f[1 + k].item, val |-> f[1 + k].val]]
    BY <1>1, <2>3 DEF SectionOf
  <2>5. SectionOf(f, c) = Sec(f)
    BY <2>2, <2>4 DEF Sec
  <2>6. \A k \in 1 .. Len(f) - 1 :
          [item |-> f[k + 1].item, val |-> f[k + 1].val] \in EntryRec
    BY <2>1, <2>2 DEF EntryRec
  <2>7. Len(f) - 1 \in Nat
    BY <2>1
  <2>8. Sec(f) \in [1 .. Len(f) - 1 -> EntryRec]
    BY <2>6 DEF Sec
  <2>9. Sec(f) \in Seq(EntryRec) /\ Len(Sec(f)) = Len(f) - 1
    BY <2>7, <2>8
  <2> QED
    BY <2>1, <2>2, <2>5, <2>7, <2>9 DEF Sec
<1> QED
  BY <1>2, <1>3

-----------------------------------------------------------------------------
(* nk_sysconfig's commands are atomic operations on the categories *)

\* what a command still knows of the file it read in the critical section:
\* nothing has been answered yet, and what it is about to install is its own
\* edit of the file as it is now
CommandKept(p) ==
  /\ Pending(p) => ret[p] = NoFile
  /\ pc[p] = "nolock" => cmd[p].op = "a"
  /\ pc[p] = "append" => cmd[p].op = "n"
  /\ pc[p] \in {"write", "rename"} =>
       /\ cmd[p].op \in EditOps
       /\ db[cmd[p].cat] # NoFile
       /\ cmd[p].op = "n" => find_category(db[cmd[p].cat], cmd[p].cat) # 0
       /\ buf[p] = Edit(db[cmd[p].cat], cmd[p])

CommandsKept == \A p \in Proc : CommandKept(p)

\* Every step keeps CommandsKept: only the process in the critical section
\* changes a category file, and then nobody else has read one to edit it.
LEMMA NextKept ==
  ASSUME InductiveInv, InductiveInv', CommandsKept, [Next]_vars
  PROVE  CommandsKept'
<1> USE DEF files
<1>1. TypeOK /\ MutualExclusion /\ \A p \in Proc : ScratchOwned(p)
  BY DEF InductiveInv, OneOwner
<1>2. ASSUME NEW p \in Proc, NEW r \in Request, Start(p, r) PROVE CommandsKept'
  BY <1>1, <1>2 DEF CommandsKept, CommandKept, Start, Goto, TypeOK, Pending, Busy, Critical
<1>3. ASSUME NEW p \in Proc, Acquire(p) PROVE CommandsKept'
  BY <1>1, <1>3 DEF CommandsKept, CommandKept, Acquire, Goto, TypeOK, Pending, Busy, Critical
<1>4. ASSUME NEW p \in Proc, Unlock(p) PROVE CommandsKept'
  BY <1>1, <1>4 DEF CommandsKept, CommandKept, Unlock, Goto, TypeOK, Pending, Busy, Critical
<1>5. ASSUME NEW p \in Proc, PrintNoFlag(p) PROVE CommandsKept'
  BY <1>1, <1>5 DEF CommandsKept, CommandKept, PrintNoFlag, Goto, TypeOK, Pending, Busy, Critical
<1>6. ASSUME NEW p \in Proc, PrintSetting(p) PROVE CommandsKept'
  BY <1>1, <1>6 DEF CommandsKept, CommandKept, PrintSetting, Goto, TypeOK, Pending, Busy, Critical
<1>7. ASSUME NEW p \in Proc, EditNoFile(p) PROVE CommandsKept'
  BY <1>1, <1>7 DEF CommandsKept, CommandKept, EditNoFile, Goto, TypeOK, Pending, Busy, Critical
<1>8. ASSUME NEW p \in Proc, EditOpen(p) PROVE CommandsKept'
  BY <1>1, <1>8 DEF CommandsKept, CommandKept, EditOpen, Edits, Goto, TypeOK, Pending, Busy, Critical
<1>9. ASSUME NEW p \in Proc, EditNothing(p) PROVE CommandsKept'
  BY <1>1, <1>9 DEF CommandsKept, CommandKept, EditNothing, Edits, ScratchOwned, Goto, TypeOK,
     Pending, Busy, Critical
<1>10. ASSUME NEW p \in Proc, EditClose(p) PROVE CommandsKept'
  <2>1. db' = db
    BY <1>1, <1>10 DEF EditClose, ScratchOwned
  <2> QED
    BY <1>1, <1>10, <2>1 DEF CommandsKept, CommandKept, EditClose, Goto, TypeOK, Pending, Busy, Critical
<1>11. ASSUME NEW p \in Proc, Rename(p) PROVE CommandsKept'
  BY <1>1, <1>11 DEF CommandsKept, CommandKept, Rename, MutualExclusion, Goto, TypeOK, Pending, Busy, Critical
<1>12. ASSUME NEW p \in Proc, NewCategory(p) PROVE CommandsKept'
  BY <1>1, <1>12 DEF CommandsKept, CommandKept, NewCategory, MutualExclusion, Goto, TypeOK, Pending, Busy, Critical
<1>13. ASSUME NEW p \in Proc, AppendCategory(p) PROVE CommandsKept'
  BY <1>1, <1>13 DEF CommandsKept, CommandKept, AppendCategory, MutualExclusion, Goto, TypeOK, Pending, Busy, Critical
<1>14. ASSUME NEW p \in Proc, AppendList(p) PROVE CommandsKept'
  BY <1>1, <1>14 DEF CommandsKept, CommandKept, AppendList, Goto, TypeOK, Pending, Busy, Critical
<1>15. ASSUME NEW p \in Proc, Terminate(p) PROVE CommandsKept'
  BY <1>1, <1>15 DEF CommandsKept, CommandKept, Terminate, Goto, TypeOK, Pending, Busy, Critical
<1>16. ASSUME NEW p \in Proc, Respawn(p) PROVE CommandsKept'
  BY <1>1, <1>16 DEF CommandsKept, CommandKept, Respawn, Goto, TypeOK, Pending, Busy, Critical
<1>17. ASSUME NEW p \in Proc, Sigkill(p) PROVE CommandsKept'
  BY <1>1, <1>17 DEF CommandsKept, CommandKept, Sigkill, Goto, TypeOK, Pending, Busy, Critical
<1>18. CASE UNCHANGED vars
  BY <1>18 DEF vars, CommandsKept, CommandKept, Pending
<1> QED
  BY <1>2, <1>3, <1>4, <1>5, <1>6, <1>7, <1>8, <1>9, <1>10, <1>11, <1>12, <1>13, <1>14,
     <1>15, <1>16, <1>17, <1>18 DEF Next, Step

\* A step that leaves the texts, the pending commands and the answers alone
\* is no step of the store.
LEMMA StoreSame ==
  ASSUME \A c \in Cats : Text(db'[c]) = Text(db[c]),
         \A q \in Proc : /\ Pending(q)' <=> Pending(q)
                         /\ Pending(q) => cmd'[q] = cmd[q],
         ret' = ret
  PROVE  UNCHANGED Store!storeVars
BY DEF Store!storeVars

\* The instant a command takes effect is the store's Commit.
LEMMA StoreCommits ==
  ASSUME NEW p \in Proc, cmd[p] \in Request, cmd[p].cat \in Cats, Pending(p), ~Pending(p)',
         \A q \in Proc \ {p} : /\ Pending(q)' <=> Pending(q)
                               /\ Pending(q) => cmd'[q] = cmd[q],
         \A c \in Cats \ {cmd[p].cat} : Text(db'[c]) = Text(db[c]),
         Text(db'[cmd[p].cat]) =
           CommandEffect(Text(db[cmd[p].cat]), cmd[p]),
         ret' = [ret EXCEPT ![p] = CommandAnswer(Text(db[cmd[p].cat]), cmd[p])]
  PROVE  Store!Next
<1> DEFINE str == [c \in Cats |-> Text(db[c])]
           ph == [q \in Proc |-> IF Pending(q) THEN "pending" ELSE "idle"]
           rq == [q \in Proc |-> IF Pending(q) THEN cmd[q] ELSE NoCmd]
           r == cmd[p]
<1>1. ph[p] = "pending" /\ rq[p] = r /\ str[r.cat] = Text(db[r.cat])
  OBVIOUS
<1>2. str' = [str EXCEPT ![r.cat] = CommandEffect(str[r.cat], r)]
  OBVIOUS
<1>3. ph' = [ph EXCEPT ![p] = "idle"]
  OBVIOUS
<1>4. rq' = [rq EXCEPT ![p] = NoCmd]
  OBVIOUS
<1>5. Store!NoReq = NoCmd
  BY DEF Store!NoReq, NoCmd
<1>6. Store!Commit(p)
  BY <1>1, <1>2, <1>3, <1>4, <1>5 DEF Store!Commit
<1> QED
  BY <1>6 DEF Store!Next

\* an empty file reads like none, and there is nothing to edit in it
LEMMA EmptyText ==
  ASSUME NEW r \in Command
  PROVE  /\ Text(<<>>) = NoFile /\ Text(NoFile) = NoFile
         /\ find_category(<<>>, r.cat) = 0
         /\ r.op \in EditOps \ {"n"} => Edit(<<>>, r) = NoFile
<1>1. r.cat \in Cats /\ <<>> \in Content /\ WellFormed(r.cat, <<>>)
  BY EmptySeq DEF Command, Content, WellFormed
<1>2. find_category(<<>>, r.cat) = 0
  BY <1>1, FindCategoryLemma
<1>3. ASSUME r.op \in EditOps \ {"n"} PROVE Edit(<<>>, r) = NoFile
  <2>1. CASE IsAdd(r)
    BY <1>2, <2>1 DEF Edit, IsAdd, add_config
  <2>2. CASE r.op \in {"w", "m"} /\ ~IsAdd(r)
    BY <1>2, <2>2 DEF Edit, set_config
  <2>3. CASE r.op \in {"d", "D"}
    BY <1>2, <2>3 DEF Edit, IsAdd, delete_config, move_to_item
  <2> QED BY <1>3, <2>1, <2>2, <2>3 DEF EditOps
<1> QED BY <1>2, <1>3 DEF Text

\* what nk_new_setting appends to the empty file of a new category
LEMMA AppendedText ==
  ASSUME NEW r \in Command, r.op = "n"
  PROVE  Text(<<>> \o <<Header(r.cat), Entry(r.item, r.val)>>) = CommandEffect(NoFile, r)
<1> DEFINE f == <<Header(r.cat), Entry(r.item, r.val)>>
<1>1. Header(r.cat) \in Line /\ Entry(r.item, r.val) \in Line
  BY DEF Command, Header, Entry, Line
<1>2. <<>> \o f = f
  BY <1>1, ConcatEmptySeq
<1>3. CommandEffect(NoFile, r) = Text(f)
  BY DEF CommandEffect, EditOps
<1> QED BY <1>2, <1>3

\* The category that a pending command names, and its file.
LEMMA CommandFile ==
  ASSUME InductiveInv, NEW p \in Proc
  PROVE  /\ cmd[p] \in Request /\ cmd[p] \in Command /\ cmd[p].cat \in Cats
         /\ db[cmd[p].cat] \in File /\ WellFormed(cmd[p].cat, db[cmd[p].cat])
BY RequestType, RequestAssumption DEF InductiveInv, TypeOK, CategoryFilesIntact

\* nk_sysconfig's call is the store's Begin.
LEMMA StartBegins ==
  ASSUME InductiveInv, NEW p \in Proc, NEW r \in Request, Start(p, r)
  PROVE  Store!Next
<1> DEFINE str == [c \in Cats |-> Text(db[c])]
           ph == [q \in Proc |-> IF Pending(q) THEN "pending" ELSE "idle"]
           rq == [q \in Proc |-> IF Pending(q) THEN cmd[q] ELSE NoCmd]
<1>1. db' = db /\ ret' = [ret EXCEPT ![p] = NoFile]
  BY DEF Start, files
<1>2. /\ ~Pending(p) /\ Pending(p)' /\ cmd'[p] = r
      /\ \A q \in Proc \ {p} : (Pending(q)' <=> Pending(q)) /\ cmd'[q] = cmd[q]
  BY DEF Start, Goto, Pending, Busy, Critical, InductiveInv, TypeOK
<1>3. str' = str
  BY <1>1
<1>4. ph[p] = "idle" /\ ph' = [ph EXCEPT ![p] = "pending"]
  BY <1>2
<1>5. rq' = [rq EXCEPT ![p] = r]
  BY <1>2
<1>6. Store!Begin(p, r)
  BY <1>1, <1>3, <1>4, <1>5 DEF Store!Begin
<1> QED
  BY <1>6 DEF Store!Next

\* Both print commands take effect when they read the file.
LEMMA PrintCommits ==
  ASSUME InductiveInv, CommandsKept, NEW p \in Proc, PrintNoFlag(p) \/ PrintSetting(p)
  PROVE  Store!Next
<1> DEFINE r == cmd[p]
           f == db[r.cat]
<1>1. /\ r \in Request /\ r \in Command /\ r.cat \in Cats /\ f \in File /\ WellFormed(r.cat, f)
  BY CommandFile
<1>2. r.op \in {"p", "a"}
  BY DEF PrintNoFlag, PrintSetting, CommandsKept, CommandKept
<1>3. /\ print_config(f, r) = CommandAnswer(Text(f), r)
      /\ CommandEffect(Text(f), r) = Text(f)
  <2>1. r.op \notin EditOps
    BY <1>2 DEF EditOps
  <2>2. print_config(Text(f), r) = print_config(f, r)
    <3>1. CASE f = <<>>
      BY <1>1, <3>1, EmptyText DEF print_config
    <3>2. CASE f # <<>>
      BY <3>2 DEF Text
    <3> QED BY <3>1, <3>2
  <2>3. CommandAnswer(Text(f), r) = print_config(Text(f), r)
    BY <2>1 DEF CommandAnswer
  <2>4. CommandEffect(Text(f), r) = Text(Text(f))
    BY <2>1 DEF CommandEffect
  <2>5. Text(Text(f)) = Text(f)
    BY NoFileAssumption DEF Text
  <2> QED BY <2>2, <2>3, <2>4, <2>5
<1>4. db' = db /\ ret' = [ret EXCEPT ![p] = CommandAnswer(Text(f), r)]
  BY <1>3 DEF PrintNoFlag, PrintSetting, files
<1>5. /\ Pending(p) /\ ~Pending(p)'
      /\ \A q \in Proc \ {p} : (Pending(q)' <=> Pending(q)) /\ cmd'[q] = cmd[q]
  BY DEF PrintNoFlag, PrintSetting, Goto, Pending, Busy, Critical, InductiveInv, TypeOK
<1> QED
  BY <1>1, <1>3, <1>4, <1>5, StoreCommits

\* A pending edit that goes to the unlink with its file unchanged, or edited,
\* takes effect then.
LEMMA EditCommits ==
  ASSUME InductiveInv, CommandsKept, NEW p \in Proc, Pending(p),
         cmd[p].op \in EditOps,
         db' = db \/ db' = [db EXCEPT ![cmd[p].cat] = db'[cmd[p].cat]],
         Text(db'[cmd[p].cat]) =
           CommandEffect(Text(db[cmd[p].cat]), cmd[p]),
         pc' = [pc EXCEPT ![p] = "unlock"] \/ pc' = [pc EXCEPT ![p] = "list"],
         cmd' = cmd, ret' = ret
  PROVE  Store!Next
<1>1. cmd[p] \in Request /\ cmd[p] \in Command /\ cmd[p].cat \in Cats
  BY CommandFile
<1>2. CommandAnswer(Text(db[cmd[p].cat]), cmd[p]) = NoFile
  BY DEF CommandAnswer
<1>3. ret' = [ret EXCEPT ![p] = CommandAnswer(Text(db[cmd[p].cat]), cmd[p])]
  BY <1>2 DEF CommandsKept, CommandKept, InductiveInv, TypeOK
<1>4. \A c \in Cats \ {cmd[p].cat} : Text(db'[c]) = Text(db[c])
  BY DEF InductiveInv, TypeOK
<1>5. /\ ~Pending(p)'
      /\ \A q \in Proc \ {p} : (Pending(q)' <=> Pending(q)) /\ cmd'[q] = cmd[q]
  BY DEF Pending, Busy, Critical, InductiveInv, TypeOK
<1> QED
  BY <1>1, <1>3, <1>4, <1>5, StoreCommits

\* An edit whose fopen fails commits there: it has no effect.
LEMMA EditNoFileCommits ==
  ASSUME InductiveInv, CommandsKept, NEW p \in Proc, EditNoFile(p)
  PROVE  Store!Next
<1>1. cmd[p] \in Command /\ cmd[p].cat \in Cats
  BY CommandFile
<1>2. /\ db' = db /\ ret' = ret /\ cmd' = cmd /\ pc' = [pc EXCEPT ![p] = "unlock"]
      /\ cmd[p].op \in EditOps /\ cmd[p].op # "n" /\ db[cmd[p].cat] = NoFile /\ Pending(p)
  BY DEF EditNoFile, files, Goto, Pending, Busy, Critical
<1>3. Text(NoFile) = NoFile
  BY <1>1, EmptyText
<1>4. CommandEffect(NoFile, cmd[p]) = NoFile
  BY <1>2, <1>3 DEF CommandEffect
<1> QED
  BY <1>2, <1>3, <1>4, EditCommits

\* An edit in a file: what it leaves is the effect of the command.
LEMMA OpenEditEffect ==
  ASSUME InductiveInv, NEW p \in Proc, cmd[p].op \in EditOps, db[cmd[p].cat] # NoFile,
         cmd[p].op = "n" => find_category(db[cmd[p].cat], cmd[p].cat) # 0
  PROVE  Text(IF Edit(db[cmd[p].cat], cmd[p]) = NoFile THEN db[cmd[p].cat]
              ELSE Edit(db[cmd[p].cat], cmd[p])) =
           CommandEffect(Text(db[cmd[p].cat]), cmd[p])
<1> DEFINE r == cmd[p]
           f == db[r.cat]
<1>1. r \in Command /\ f # NoFile /\ r.op \in EditOps
  BY CommandFile
<1>2. r.op = "n" => find_category(f, r.cat) # 0
  OBVIOUS
<1> HIDE DEF r, f
<1>3. Text(IF Edit(f, r) = NoFile THEN f ELSE Edit(f, r)) = CommandEffect(Text(f), r)
  <2>1. CASE f = <<>>
    <3>1. r.op \in EditOps \ {"n"} /\ Text(f) = NoFile /\ Text(NoFile) = NoFile
      BY <1>1, <1>2, <2>1, EmptyText
    <3>2. Edit(f, r) = NoFile
      BY <1>1, <2>1, <3>1, EmptyText
    <3>3. CommandEffect(NoFile, r) = NoFile
      BY <3>1 DEF CommandEffect
    <3> QED BY <3>1, <3>2, <3>3
  <2>2. CASE f # <<>>
    <3>1. Text(f) = f
      BY <2>2 DEF Text
    <3>2. CommandEffect(f, r) = Text(IF Edit(f, r) = NoFile THEN f ELSE Edit(f, r))
      BY <1>1, <1>2 DEF CommandEffect
    <3> QED BY <3>1, <3>2
  <2> QED BY <2>1, <2>2
<1> QED
  BY <1>3 DEF r, f

\* An edit that finds nothing commits when it returns without the rename;
\* on its way to the rename it is still pending.
LEMMA EditNothingCommits ==
  ASSUME InductiveInv, CommandsKept, NEW p \in Proc, EditNothing(p)
  PROVE  Store!Next \/ UNCHANGED Store!storeVars
<1>1. /\ db' = db /\ ret' = ret /\ cmd' = cmd /\ Pending(p)
      /\ cmd[p].op \in EditOps /\ db[cmd[p].cat] # NoFile
      /\ cmd[p].op = "n" => find_category(db[cmd[p].cat], cmd[p].cat) # 0
      /\ Edit(db[cmd[p].cat], cmd[p]) = NoFile
      /\ pc' = [pc EXCEPT ![p] = "unlock"] \/ pc' = [pc EXCEPT ![p] = "rename"]
  BY DEF EditNothing, Edits, files, Goto, Pending, Busy, Critical
<1>2. CASE pc' = [pc EXCEPT ![p] = "unlock"]
  <2>1. Text(db'[cmd[p].cat]) =
          CommandEffect(Text(db[cmd[p].cat]), cmd[p])
    BY <1>1, OpenEditEffect
  <2> QED
    BY <1>1, <1>2, <2>1, EditCommits
<1>3. CASE pc' = [pc EXCEPT ![p] = "rename"]
  <2>1. \A q \in Proc : Pending(q)' <=> Pending(q)
    BY <1>1, <1>3 DEF Pending, Busy, Critical, InductiveInv, TypeOK
  <2> QED
    BY <1>1, <2>1, StoreSame
<1> QED
  BY <1>1, <1>2, <1>3

\* rename(2) installs the edit of the file it replaces: the edit's instant.
LEMMA RenameCommits ==
  ASSUME InductiveInv, CommandsKept, NEW p \in Proc, Rename(p)
  PROVE  Store!Next
<1> DEFINE c == cmd[p].cat
           e == Edit(db[c], cmd[p])
<1>1. c \in Cats
  BY CommandFile
<1>2. /\ ret' = ret /\ cmd' = cmd /\ pc' = [pc EXCEPT ![p] = "unlock"] /\ pc[p] = "rename"
      /\ Pending(p)
      /\ stemp = NoFile => db' = db
      /\ stemp # NoFile => db' = [db EXCEPT ![c] = stemp]
  BY DEF Rename, Goto, Pending, Busy, Critical
<1>3. /\ cmd[p].op \in EditOps /\ db[c] # NoFile
      /\ cmd[p].op = "n" => find_category(db[c], c) # 0
      /\ stemp = e
  BY <1>2 DEF CommandsKept, CommandKept, InductiveInv, RenameInstallsOwnEdit
<1>4. Text(IF e = NoFile THEN db[c] ELSE e) = CommandEffect(Text(db[c]), cmd[p])
  BY <1>3, OpenEditEffect
<1> HIDE DEF e
<1>5. /\ db'[c] = IF e = NoFile THEN db[c] ELSE e
      /\ db' = db \/ db' = [db EXCEPT ![c] = db'[c]]
  BY <1>1, <1>2, <1>3 DEF InductiveInv, TypeOK
<1>6. Text(db'[c]) = CommandEffect(Text(db[c]), cmd[p])
  BY <1>4, <1>5, SMTT(30)
<1> QED
  BY <1>2, <1>3, <1>5, <1>6, EditCommits

\* nk_new_setting of an absent category commits when it appends the section.
LEMMA AppendCommits ==
  ASSUME InductiveInv, CommandsKept, NEW p \in Proc, AppendCategory(p)
  PROVE  Store!Next
<1> DEFINE r == cmd[p]
<1>1. r \in Command /\ r.cat \in Cats
  BY CommandFile
<1>2. /\ ret' = ret /\ cmd' = cmd /\ pc' = [pc EXCEPT ![p] = "list"] /\ pc[p] = "append"
      /\ Pending(p)
      /\ db' = [db EXCEPT ![r.cat] = @ \o <<Header(r.cat), Entry(r.item, r.val)>>]
  BY DEF AppendCategory, Goto, Pending, Busy, Critical
<1>3. r.op = "n" /\ db[r.cat] = <<>>
  BY <1>2 DEF CommandsKept, CommandKept, InductiveInv, OneOwner, ScratchOwned
<1>4. /\ db'[r.cat] = <<>> \o <<Header(r.cat), Entry(r.item, r.val)>>
      /\ db' = [db EXCEPT ![r.cat] = db'[r.cat]]
  BY <1>1, <1>2, <1>3 DEF InductiveInv, TypeOK
<1>5. Text(db'[r.cat]) = CommandEffect(Text(db[r.cat]), r)
  BY <1>1, <1>3, <1>4, AppendedText, EmptyText
<1>6. r.op \in EditOps
  BY <1>3 DEF EditOps
<1> QED
  BY <1>2, <1>4, <1>5, <1>6, EditCommits

\* Creating the empty file of a new category shows nobody anything.
LEMMA NewCategoryHidden ==
  ASSUME InductiveInv, NEW p \in Proc, NewCategory(p)
  PROVE  UNCHANGED Store!storeVars
<1> DEFINE c == cmd[p].cat
<1>1. cmd[p] \in Command /\ c \in Cats /\ cmd[p].op = "n"
  BY CommandFile DEF NewCategory
<1>2. Text(<<>>) = NoFile /\ Text(NoFile) = NoFile
  BY <1>1, EmptyText
<1>3. /\ db' = [db EXCEPT ![c] = IF @ = NoFile THEN <<>> ELSE @]
      /\ ret' = ret /\ cmd' = cmd /\ pc[p] = "cs" /\ pc' = [pc EXCEPT ![p] = "append"]
  BY DEF NewCategory, Goto
<1>4. \A d \in Cats : Text(db'[d]) = Text(db[d])
  <2> TAKE d \in Cats
  <2>1. CASE d = c /\ db[c] = NoFile
    BY <1>1, <1>2, <1>3, <2>1 DEF InductiveInv, TypeOK
  <2>2. CASE ~(d = c /\ db[c] = NoFile)
    BY <1>1, <1>3, <2>2 DEF InductiveInv, TypeOK
  <2> QED
    BY <2>1, <2>2
<1>5. \A q \in Proc : Pending(q)' <=> Pending(q)
  BY <1>3 DEF Pending, Busy, Critical, InductiveInv, TypeOK
<1> QED
  BY <1>3, <1>4, <1>5, StoreSame

\* The steps that show nobody anything: taking and removing the lock file,
\* writing the scratch file, extending category_list, a process that ends
\* and is started again.
LEMMA HiddenSteps ==
  ASSUME InductiveInv, NEW p \in Proc,
         \/ Acquire(p) \/ Unlock(p) \/ EditOpen(p) \/ EditClose(p) \/ AppendList(p)
         \/ Terminate(p) \/ Respawn(p)
  PROVE  UNCHANGED Store!storeVars
<1> USE DEF files, Goto
<1>1. TypeOK /\ ScratchOwned(p)
  BY DEF InductiveInv, OneOwner
<1>2. db' = db /\ ret' = ret
  BY <1>1 DEF Acquire, Unlock, EditOpen, EditClose, AppendList, Terminate, Respawn, ScratchOwned
<1>3. \A q \in Proc : /\ Pending(q)' <=> Pending(q)
                      /\ Pending(q) => cmd'[q] = cmd[q]
  <2> USE DEF TypeOK, Pending, Busy, Critical
  <2>1. CASE Acquire(p)
    BY <1>1, <2>1 DEF Acquire
  <2>2. CASE Unlock(p)
    BY <1>1, <2>2 DEF Unlock
  <2>3. CASE EditOpen(p)
    BY <1>1, <2>3 DEF EditOpen, Edits
  <2>4. CASE EditClose(p)
    BY <1>1, <2>4 DEF EditClose
  <2>5. CASE AppendList(p)
    BY <1>1, <2>5 DEF AppendList
  <2>6. CASE Terminate(p)
    BY <1>1, <2>6 DEF Terminate, ScratchOwned
  <2>7. CASE Respawn(p)
    BY <1>1, <2>7 DEF Respawn
  <2> QED
    BY <2>1, <2>2, <2>3, <2>4, <2>5, <2>6, <2>7
<1> QED
  BY <1>2, <1>3, StoreSame

\* A SIGKILL before the command took effect is the store's Abort; later it shows
\* nobody anything.
LEMMA SigkillAborts ==
  ASSUME InductiveInv, NEW p \in Proc, Sigkill(p)
  PROVE  Store!Next \/ UNCHANGED Store!storeVars
<1> DEFINE str == [c \in Cats |-> Text(db[c])]
           ph == [q \in Proc |-> IF Pending(q) THEN "pending" ELSE "idle"]
           rq == [q \in Proc |-> IF Pending(q) THEN cmd[q] ELSE NoCmd]
<1>1. db' = db /\ ret' = ret /\ cmd' = cmd
  BY DEF Sigkill, files
<1>2. ~Pending(p)' /\ \A q \in Proc \ {p} : (Pending(q)' <=> Pending(q)) /\ cmd'[q] = cmd[q]
  BY DEF Sigkill, Goto, Pending, Busy, Critical, InductiveInv, TypeOK
<1>3. CASE Pending(p)
  <2>1. ph[p] = "pending" /\ str' = str
    BY <1>1, <1>3
  <2>2. ph' = [ph EXCEPT ![p] = "idle"]
    BY <1>2
  <2>3. rq' = [rq EXCEPT ![p] = NoCmd]
    BY <1>2
  <2>4. Store!NoReq = NoCmd
    BY DEF Store!NoReq, NoCmd
  <2>5. Store!Abort(p)
    BY <1>1, <2>1, <2>2, <2>3, <2>4 DEF Store!Abort
  <2> QED BY <2>5 DEF Store!Next
<1>4. CASE ~Pending(p)
  <2>1. \A q \in Proc : (Pending(q)' <=> Pending(q)) /\ (Pending(q) => cmd'[q] = cmd[q])
    BY <1>2, <1>4
  <2> QED BY <1>1, <2>1, StoreSame
<1> QED BY <1>3, <1>4

\* Init maps to the store's Init.
LEMMA InitMaps == Init => Store!Init /\ CommandsKept
<1> SUFFICES ASSUME Init PROVE Store!Init /\ CommandsKept
  OBVIOUS
<1>1. \A p \in Proc : pc[p] = "idle" /\ ~Pending(p)
  BY DEF Init, Pending, Busy, Critical
<1>2. Store!NoReq = NoCmd
  BY DEF Store!NoReq, NoCmd
<1>3. Store!Init
  BY <1>1, <1>2 DEF Init, Store!Init
<1>4. CommandsKept
  BY <1>1 DEF CommandsKept, CommandKept
<1> QED
  BY <1>3, <1>4

\* Every step of the processes is a step of the store or none.
LEMMA StepMaps ==
  ASSUME InductiveInv, CommandsKept, [Next]_vars
  PROVE  [Store!Next]_(Store!storeVars)
<1>1. ASSUME NEW p \in Proc, NEW r \in Request, Start(p, r) PROVE Store!Next
  BY <1>1, StartBegins
<1>2. ASSUME NEW p \in Proc, PrintNoFlag(p) \/ PrintSetting(p) PROVE Store!Next
  BY <1>2, PrintCommits
<1>3. ASSUME NEW p \in Proc, EditNoFile(p) PROVE Store!Next
  BY <1>3, EditNoFileCommits
<1>4. ASSUME NEW p \in Proc, EditNothing(p) PROVE Store!Next \/ UNCHANGED Store!storeVars
  BY <1>4, EditNothingCommits
<1>5. ASSUME NEW p \in Proc, Rename(p) PROVE Store!Next
  BY <1>5, RenameCommits
<1>6. ASSUME NEW p \in Proc, AppendCategory(p) PROVE Store!Next
  BY <1>6, AppendCommits
<1>7. ASSUME NEW p \in Proc, NewCategory(p) PROVE UNCHANGED Store!storeVars
  BY <1>7, NewCategoryHidden
<1>8. ASSUME NEW p \in Proc,
             \/ Acquire(p) \/ Unlock(p) \/ EditOpen(p) \/ EditClose(p) \/ AppendList(p)
             \/ Terminate(p) \/ Respawn(p)
      PROVE  UNCHANGED Store!storeVars
  BY <1>8, HiddenSteps
<1>9. ASSUME NEW p \in Proc, Sigkill(p) PROVE Store!Next \/ UNCHANGED Store!storeVars
  BY <1>9, SigkillAborts
<1>10. CASE UNCHANGED vars
  <2>1. db' = db /\ ret' = ret /\ pc' = pc /\ cmd' = cmd
    BY <1>10 DEF vars
  <2>2. \A q \in Proc : Pending(q)' <=> Pending(q)
    BY <2>1 DEF Pending
  <2>3. UNCHANGED Store!storeVars
    BY <2>1, <2>2, StoreSame
  <2> QED
    BY <2>3
<1> QED
  BY <1>1, <1>2, <1>3, <1>4, <1>5, <1>6, <1>7, <1>8, <1>9, <1>10, Zenon DEF Next, Step

\* Every command of nk_sysconfig, whatever the processes, the commands and
\* the files they start from, takes effect at one instant between its call
\* and its return: at the read for "-p" and the lock-free "-a", at the
\* rename(2) for an edit, at the append of a new section for "-n"; or at none,
\* when its process is killed before.
THEOREM Atomic == Spec => Linearizable
<1>1. Init => Store!Init /\ CommandsKept
  BY InitMaps
<1>2. InductiveInv /\ InductiveInv' /\ CommandsKept /\ [Next]_vars => CommandsKept'
  BY NextKept
<1>3. InductiveInv /\ CommandsKept /\ [Next]_vars => [Store!Next]_(Store!storeVars)
  BY StepMaps
<1> QED
  BY <1>1, <1>2, <1>3, Invariance, PTL DEF Spec, Linearizable, Store!Spec

-----------------------------------------------------------------------------
(* The lock file under batches, splits and commands *)

\* where a process is; a batch or a split is not begun within a command
BatchControl ==
  /\ lock \in BOOLEAN /\ orphaned \in BOOLEAN /\ left \in Critical \cup {"nowhere"}
  /\ pc \in [Proc -> PcValues]
  /\ task \in [Proc -> Tasks]
  /\ \A p \in Proc : task[p] # "none" => pc[p] = "idle"

\* somebody is gone and has left the lock file in place
Abandoned == orphaned \/ left # "nowhere"

\* LockDiscipline is kept because a lock file that was left behind is never
\* taken away: its owner is gone and no other can get into the section
BatchLockInv ==
  /\ BatchControl
  /\ LockDiscipline
  /\ Abandoned => \A p \in Proc : ~InCritical(p)

\* what a step of p can do to the lock file
Enters(p)   == ~lock /\ lock' /\ ~InCritical(p) /\ InCritical(p)' /\ (Abandoned' <=> Abandoned)
Stays(p)    == lock' = lock /\ (InCritical(p)' <=> InCritical(p)) /\ (Abandoned' <=> Abandoned)
Leaves(p)   == ~lock' /\ InCritical(p) /\ ~InCritical(p)' /\ (Abandoned' <=> Abandoned)
Abandons(p) == lock' = lock /\ InCritical(p) /\ ~InCritical(p)' /\ Abandoned'

\* Whoever does one of these and leaves the other processes alone keeps the
\* discipline.
LEMMA DisciplineKept ==
  ASSUME BatchLockInv, BatchControl', NEW p \in Proc,
         \A q \in Proc \ {p} : InCritical(q)' <=> InCritical(q),
         Enters(p) \/ Stays(p) \/ Leaves(p) \/ Abandons(p)
  PROVE  BatchLockInv'
<1> DEFINE I(q) == InCritical(q)
<1> DEFINE J(q) == InCritical(q)'
<1> DEFINE B == Abandoned
<1> DEFINE C == Abandoned'
<1>1. lock \in BOOLEAN /\ lock' \in BOOLEAN
  BY DEF BatchLockInv, BatchControl
<1>2. /\ \A q, s \in Proc : I(q) /\ I(s) => q = s
      /\ lock = (B \/ \E q \in Proc : I(q))
      /\ B => \A q \in Proc : ~I(q)
  BY DEF BatchLockInv, LockDiscipline, Abandoned
<1>3. \A q \in Proc \ {p} : J(q) <=> I(q)
  OBVIOUS
<1>4. \/ ~lock /\ lock' /\ ~I(p) /\ J(p) /\ (C <=> B)
      \/ lock' = lock /\ (J(p) <=> I(p)) /\ (C <=> B)
      \/ ~lock' /\ I(p) /\ ~J(p) /\ (C <=> B)
      \/ lock' = lock /\ I(p) /\ ~J(p) /\ C
  BY DEF Enters, Stays, Leaves, Abandons
<1> SUFFICES /\ \A q, s \in Proc : J(q) /\ J(s) => q = s
             /\ lock' = (C \/ \E q \in Proc : J(q))
             /\ C => \A q \in Proc : ~J(q)
  BY DEF BatchLockInv, LockDiscipline, Abandoned
<1> HIDE DEF I, J, B, C
<1>5. CASE ~lock /\ lock' /\ ~I(p) /\ J(p) /\ (C <=> B)
  BY <1>1, <1>2, <1>3, <1>5
<1>6. CASE lock' = lock /\ (J(p) <=> I(p)) /\ (C <=> B)
  <2>1. \A q \in Proc : J(q) <=> I(q)
    BY <1>3, <1>6
  <2> QED
    BY <1>1, <1>2, <1>6, <2>1
<1>7. CASE ~lock' /\ I(p) /\ ~J(p) /\ (C <=> B)
  BY <1>1, <1>2, <1>3, <1>7
<1>8. CASE lock' = lock /\ I(p) /\ ~J(p) /\ C
  BY <1>1, <1>2, <1>3, <1>8
<1> QED
  BY <1>4, <1>5, <1>6, <1>7, <1>8

\* A command of a process that runs no batch.
LEMMA CommandDiscipline ==
  ASSUME BatchLockInv, NEW p \in Proc, CommandStep(p)
  PROVE  BatchLockInv'
<1>1. /\ pc \in [Proc -> PcValues] /\ task \in [Proc -> Tasks]
      /\ lock \in BOOLEAN /\ orphaned \in BOOLEAN /\ task[p] = "none"
      /\ left \in Critical \cup {"nowhere"}
      /\ \A q \in Proc : task[q] # "none" => pc[q] = "idle"
      /\ task' = task /\ orphaned' = orphaned
  BY DEF BatchLockInv, BatchControl, CommandStep, batchVars
<1>2. PICK l \in PcValues :
        /\ pc' = [pc EXCEPT ![p] = l]
        /\ \/ pc[p] \notin Critical /\ l \in Critical /\ ~lock /\ lock' = TRUE /\ left' = left
           \/ (pc[p] \in Critical <=> l \in Critical) /\ lock' = lock /\ left' = left
           \/ pc[p] \in Critical /\ l \notin Critical /\ lock' = FALSE /\ left' = left
           \/ pc[p] \in Critical /\ l \notin Critical /\ lock' = lock /\ left' = pc[p]
  <2>1. CASE Respawn(p) \/ \E r \in Request : Start(p, r)
    BY <2>1 DEF Respawn, Start, Goto, PcValues, Busy, Critical
  <2>2. CASE Step(p)
    BY <2>2 DEF Step, Acquire, Unlock, PrintNoFlag, PrintSetting, EditNoFile, Edits, EditOpen,
                EditNothing, EditClose, Rename, NewCategory, AppendCategory, AppendList,
                Goto, PcValues, Busy, Critical
  <2>3. CASE Sigkill(p)
    <3>1. /\ "dead" \in PcValues /\ "dead" \notin Critical
          /\ pc' = [pc EXCEPT ![p] = "dead"]
          /\ lock' = lock /\ left' = IF pc[p] \in Critical THEN pc[p] ELSE left
      BY <2>3 DEF Sigkill, Goto, PcValues, Busy, Critical
    <3>2. CASE pc[p] \in Critical
      BY <3>1, <3>2
    <3>3. CASE pc[p] \notin Critical
      BY <3>1, <3>3
    <3> QED BY <3>2, <3>3
  <2> QED
    BY <2>1, <2>2, <2>3 DEF CommandStep
<1>3. /\ pc'[p] = l /\ \A q \in Proc \ {p} : pc'[q] = pc[q]
  BY <1>1, <1>2
<1>4. BatchControl'
  <2>1. "nowhere" \notin Critical
    BY DEF Critical
  <2>2. left' \in Critical \cup {"nowhere"} /\ lock' \in BOOLEAN
    BY <1>1, <1>2
  <2> QED BY <1>1, <1>2, <1>3, <2>2 DEF BatchControl
<1>5. "none" \notin Holding
  BY DEF Holding, BatchHeld, GetHeld, SplitHeld
<1>6. \A q \in Proc \ {p} : InCritical(q)' <=> InCritical(q)
  BY <1>1, <1>3 DEF InCritical
<1>7. (InCritical(p) <=> pc[p] \in Critical) /\ (InCritical(p)' <=> l \in Critical)
  BY <1>1, <1>3, <1>5 DEF InCritical
<1>8. Enters(p) \/ Stays(p) \/ Leaves(p) \/ Abandons(p)
  <2>1. "nowhere" \notin Critical
    BY DEF Critical
  <2> QED BY <1>1, <1>2, <1>7, <2>1 DEF Enters, Stays, Leaves, Abandons, Abandoned
<1> QED
  BY <1>4, <1>6, <1>8, DisciplineKept

\* A step of a batch or of a split that does not end the process.
LEMMA TaskDiscipline ==
  ASSUME BatchLockInv, NEW p \in Proc, NEW l \in Tasks, Do(p, l), pc' = pc, pc[p] = "idle",
         left' = left,
         \/ task[p] \notin Holding /\ l \in Holding /\ ~lock /\ lock' = TRUE /\ orphaned' = orphaned
         \/ (task[p] \in Holding <=> l \in Holding) /\ lock' = lock /\ orphaned' = orphaned
         \/ task[p] \in Holding /\ l \notin Holding /\ lock' = FALSE /\ orphaned' = orphaned
         \/ task[p] \in Holding /\ l \notin Holding /\ lock' = lock /\ orphaned' = TRUE
  PROVE  BatchLockInv'
<1>1. /\ pc \in [Proc -> PcValues] /\ task \in [Proc -> Tasks]
      /\ lock \in BOOLEAN /\ orphaned \in BOOLEAN /\ left \in Critical \cup {"nowhere"}
      /\ \A q \in Proc : task[q] # "none" => pc[q] = "idle"
  BY DEF BatchLockInv, BatchControl
<1>2. /\ task' \in [Proc -> Tasks]
      /\ task'[p] = l /\ \A q \in Proc \ {p} : task'[q] = task[q]
  BY <1>1 DEF Do
<1>3. BatchControl'
  BY <1>1, <1>2 DEF BatchControl
<1>4. "idle" \notin Critical
  BY DEF Critical
<1>5. \A q \in Proc \ {p} : InCritical(q)' <=> InCritical(q)
  BY <1>2 DEF InCritical
<1>6. (InCritical(p) <=> task[p] \in Holding) /\ (InCritical(p)' <=> l \in Holding)
  BY <1>2, <1>4 DEF InCritical
<1>7. Enters(p) \/ Stays(p) \/ Leaves(p) \/ Abandons(p)
  BY <1>1, <1>6 DEF Enters, Stays, Leaves, Abandons, Abandoned
<1> QED
  BY <1>3, <1>5, <1>7, DisciplineKept

\* The end of a process in a batch or a split: killed, or by fclose(NULL).
LEMMA DeathDiscipline ==
  ASSUME BatchLockInv, NEW p \in Proc, task[p] # "none", Goto(p, "dead"), Do(p, "none"),
         left' = left,
         \/ lock' = lock /\ orphaned' = (orphaned \/ task[p] \in Holding)
         \/ task[p] \in Holding /\ lock' = FALSE /\ orphaned' = orphaned
  PROVE  BatchLockInv'
<1>1. /\ pc \in [Proc -> PcValues] /\ task \in [Proc -> Tasks]
      /\ lock \in BOOLEAN /\ orphaned \in BOOLEAN /\ pc[p] = "idle"
      /\ left \in Critical \cup {"nowhere"}
      /\ \A q \in Proc : task[q] # "none" => pc[q] = "idle"
  BY DEF BatchLockInv, BatchControl
<1>2. /\ task' \in [Proc -> Tasks] /\ pc' \in [Proc -> PcValues]
      /\ task'[p] = "none" /\ pc'[p] = "dead"
      /\ \A q \in Proc \ {p} : task'[q] = task[q] /\ pc'[q] = pc[q]
  BY <1>1 DEF Do, Goto, Tasks, PcValues
<1>3. BatchControl'
  BY <1>1, <1>2 DEF BatchControl
<1>4. "idle" \notin Critical /\ "dead" \notin Critical /\ "none" \notin Holding
  BY DEF Critical, Holding, BatchHeld, GetHeld, SplitHeld
<1>5. \A q \in Proc \ {p} : InCritical(q)' <=> InCritical(q)
  BY <1>2 DEF InCritical
<1>6. (InCritical(p) <=> task[p] \in Holding) /\ ~InCritical(p)'
  BY <1>1, <1>2, <1>4 DEF InCritical
<1>7. Stays(p) \/ Leaves(p) \/ Abandons(p)
  BY <1>1, <1>6 DEF Stays, Leaves, Abandons, Abandoned
<1> QED
  BY <1>3, <1>5, <1>7, DisciplineKept

LEMMA BatchLockStep ==
  ASSUME BatchLockInv, [BatchNext]_allVars
  PROVE  BatchLockInv'
<1> USE DEF Tasks, Holding, BatchHeld, GetHeld, SplitHeld, vars
<1>1. CASE UNCHANGED allVars
  BY <1>1 DEF allVars, batchVars, BatchLockInv, BatchControl, LockDiscipline, InCritical, Abandoned
<1>2. ASSUME NEW p \in Proc, task[p] # "none" PROVE pc[p] = "idle"
  BY <1>2 DEF BatchLockInv, BatchControl
<1>3. ASSUME NEW p \in Proc, NEW t \in Targets, NEW v \in Values, Collect(p, t, v)
      PROVE  BatchLockInv'
  BY <1>3 DEF Collect, BatchLockInv, BatchControl, LockDiscipline, InCritical, Abandoned
<1>4. ASSUME NEW p \in Proc, NEW t \in Targets, BatchUpdate(p, t) \/ BatchGet(p, t) \/ Split(p)
      PROVE  BatchLockInv'
  BY <1>4, TaskDiscipline DEF BatchUpdate, BatchGet, Split, Free
<1>5. ASSUME NEW p \in Proc, TaskStep(p) \/ Split(p) \/ SplitFail(p) \/ SplitStop(p) \/ Killed(p)
      PROVE  BatchLockInv'
  <2>1. CASE Locks(p)
    BY <2>1, <1>2, TaskDiscipline DEF Locks, Lock
  <2>2. CASE BatchOpen(p) \/ BatchClose(p) \/ BatchRename(p) \/ BatchRemove(p) \/ BatchGetRead(p)
    BY <2>2, <1>2, TaskDiscipline
       DEF BatchOpen, BatchClose, BatchRename, BatchRemove, BatchGetRead
  <2>3. CASE BatchUnlock(p) \/ BatchGetUnlock(p) \/ SplitUnlock(p)
    BY <2>3, <1>2, TaskDiscipline DEF BatchUnlock, BatchGetUnlock, SplitUnlock
  <2>4. CASE SplitList(p) \/ SplitOpen(p) \/ SplitSection(p) \/ SplitNames(p) \/ SplitStop(p)
    BY <2>4, <1>2, TaskDiscipline DEF SplitList, SplitOpen, SplitSection, SplitNames, SplitStop
  <2>5. CASE SplitTrailer(p)
    BY <2>5 DEF SplitTrailer, BatchLockInv, BatchControl, LockDiscipline, InCritical, Abandoned
  <2>6. CASE BatchCrash(p) \/ Killed(p)
    BY <2>6, DeathDiscipline DEF BatchCrash, Killed, Die
  <2>7. CASE BatchGetCrash(p)
    BY <2>7, DeathDiscipline DEF BatchGetCrash
  <2>8. CASE SplitFail(p)
    BY <2>8, <1>2, TaskDiscipline DEF SplitFail
  <2>9. CASE Split(p)
    BY <2>9, TaskDiscipline DEF Split, Free
  <2> QED
    BY <1>5, <2>1, <2>2, <2>3, <2>4, <2>5, <2>6, <2>7, <2>8, <2>9 DEF TaskStep
<1>6. ASSUME NEW p \in Proc,
             \/ CommandStep(p) \/ TaskStep(p)
             \/ \E t \in Targets : \/ \E v \in Values : Collect(p, t, v)
                                   \/ BatchUpdate(p, t) \/ BatchGet(p, t)
             \/ Split(p) \/ Killed(p) \/ SplitFail(p) \/ SplitStop(p)
      PROVE  BatchLockInv'
  BY <1>3, <1>4, <1>5, <1>6, CommandDiscipline
<1> QED
  BY <1>1, <1>6 DEF BatchNext

LEMMA BatchLockInit == BatchInit => BatchLockInv
<1> SUFFICES ASSUME BatchInit PROVE BatchLockInv
  OBVIOUS
<1>1. BatchControl
  BY DEF BatchInit, Init, BatchControl, Tasks, PcValues, Busy, Critical
<1>2. ~lock /\ ~Abandoned
  BY DEF BatchInit, Init, Abandoned
<1>3. \A p \in Proc : ~InCritical(p)
  BY DEF BatchInit, Init, InCritical, Holding, BatchHeld, GetHeld, SplitHeld, Critical
<1> QED
  BY <1>1, <1>2, <1>3 DEF BatchLockInv, BatchControl, LockDiscipline, Abandoned

\* Whoever runs batches, imports and commands, however many at once, and wherever
\* a command, a batch or a split is killed: nobody is between open(O_EXCL) and unlink while
\* another is, and a lock file without an owner was left by a process that died
\* with it or by splitDB's early return.
THEOREM LockIsKept == BatchSpec => []LockDiscipline
<1>1. BatchLockInv => LockDiscipline
  BY DEF BatchLockInv
<1> QED
  BY <1>1, BatchLockInit, BatchLockStep, PTL DEF BatchSpec

-----------------------------------------------------------------------------
(* splitDB *)

\* the file that the first k lines of the image make of a category
SplitUpTo(k, c) ==
  LET H == {j \in 1 .. k : IsHeader(Import[j], c)}
      h == Max(H)
      e == Min({j \in (h + 1) .. k : Import[j].kind # "entry"} \cup {k + 1})
  IN IF H = {} THEN NoFile ELSE Tight(SubSeq(Import, h, e - 1))

LEMMA SplitUpToEnd == \A c : SplitUpTo(Len(Import), c) = SplitFile(Import, c)
<1>1. DOMAIN Import = 1 .. Len(Import)
  BY ImportAssumption
<1> QED
  BY <1>1 DEF SplitUpTo, SplitFile

LEMMA SplitUpToStart == \A c : SplitUpTo(0, c) = NoFile
<1>1. 1 .. 0 = {}
  OBVIOUS
<1> QED
  BY <1>1 DEF SplitUpTo

\* the least element is the minimum
LEMMA MinIs ==
  ASSUME NEW T, T \subseteq Nat, NEW m \in T, \A k \in T : m <= k
  PROVE  Min(T) = m
<1>1. \A x \in T : (\A y \in T : x <= y) => x = m
  OBVIOUS
<1> QED
  BY <1>1 DEF Min

LEMMA MaxIs ==
  ASSUME NEW T, T \subseteq Nat, NEW m \in T, \A k \in T : m >= k
  PROVE  Max(T) = m
<1>1. \A x \in T : (\A y \in T : x >= y) => x = m
  OBVIOUS
<1> QED
  BY <1>1 DEF Max

\* Lines k + 1 to n that start with no entry and hold no header of c leave what
\* the image makes of c alone.
LEMMA SplitSame ==
  ASSUME NEW k \in Nat, NEW n \in Nat, k < n, NEW c,
         Import[k + 1].kind # "entry",
         \A j \in k + 1 .. n : ~IsHeader(Import[j], c)
  PROVE  SplitUpTo(n, c) = SplitUpTo(k, c)
<1> DEFINE H(m) == {j \in 1 .. m : IsHeader(Import[j], c)}
<1>1. H(n) = H(k)
  OBVIOUS
<1>2. CASE H(k) = {}
  BY <1>1, <1>2 DEF SplitUpTo
<1>3. CASE H(k) # {}
  <2>1. Max(H(k)) \in 1 .. k
    <3>1. H(k) \subseteq 0 .. k
      OBVIOUS
    <3>2. Max(H(k)) \in H(k)
      BY <1>3, <3>1, MaxType
    <3> QED BY <3>2
  <2>2. PICK h \in 1 .. k : h = Max(H(k))
    BY <2>1
  <2> DEFINE E(m) == {j \in (h + 1) .. m : Import[j].kind # "entry"} \cup {m + 1}
  <2>3. /\ E(k) \subseteq Nat /\ E(n) \subseteq Nat
        /\ k + 1 \in E(k) /\ k + 1 \in E(n)
    <3>1. k + 1 \in (h + 1) .. n
      OBVIOUS
    <3>2. k + 1 \in E(k) /\ k + 1 \in E(n)
      BY <3>1
    <3>3. \A m \in Nat : (h + 1) .. m \subseteq Nat /\ m + 1 \in Nat
      OBVIOUS
    <3>4. E(k) \subseteq Nat /\ E(n) \subseteq Nat
      BY <3>3
    <3> QED BY <3>2, <3>4
  <2>4. PICK m \in E(k) : \A j \in E(k) : m <= j
    BY <2>3, LeastNat, Zenon
  <2>5. m <= k + 1 /\ m \in Nat
    BY <2>3, <2>4
  <2>6. m \in E(n) /\ \A j \in E(n) : m <= j
    BY <2>4, <2>5
  <2>7. Min(E(k)) = m /\ Min(E(n)) = m
    BY <2>3, <2>4, <2>6, MinIs
  <2>8. SplitUpTo(n, c) = Tight(SubSeq(Import, h, Min(E(n)) - 1))
    BY <1>1, <1>3, <2>2 DEF SplitUpTo
  <2>9. SplitUpTo(k, c) = Tight(SubSeq(Import, h, Min(E(k)) - 1))
    BY <1>3, <2>2 DEF SplitUpTo
  <2> QED BY <2>7, <2>8, <2>9
<1> QED BY <1>2, <1>3

\* A header of c and the entries after it are what the image makes of c.
LEMMA SplitNew ==
  ASSUME NEW k \in Nat, NEW n \in Nat, k < n, NEW c,
         IsHeader(Import[k + 1], c),
         \A j \in k + 2 .. n : Import[j].kind = "entry"
  PROVE  SplitUpTo(n, c) = Tight(SubSeq(Import, k + 1, n))
<1> DEFINE H == {j \in 1 .. n : IsHeader(Import[j], c)}
<1>1. \A j \in k + 2 .. n : ~IsHeader(Import[j], c)
  BY DEF IsHeader
<1>2. k + 1 \in H /\ H \subseteq Nat /\ \A j \in H : k + 1 >= j
  BY <1>1
<1>3. Max(H) = k + 1
  BY <1>2, MaxIs
<1> DEFINE E == {j \in (k + 1 + 1) .. n : Import[j].kind # "entry"} \cup {n + 1}
<1>4. E = {n + 1}
  OBVIOUS
<1>5. Min(E) = n + 1
  BY <1>4, MinIs
<1>6. SplitUpTo(n, c) = Tight(SubSeq(Import, Max(H), Min({j \in (Max(H) + 1) .. n : Import[j].kind # "entry"} \cup {n + 1}) - 1))
  BY <1>2 DEF SplitUpTo
<1>7. n + 1 - 1 = n
  OBVIOUS
<1> DEFINE F == {j \in (Max(H) + 1) .. n : Import[j].kind # "entry"} \cup {n + 1}
<1>8. F = E
  <2> HIDE DEF H
  <2> QED BY <1>3
<1>9. SplitUpTo(n, c) = Tight(SubSeq(Import, Max(H), Min(F) - 1))
  BY <1>6
<1> HIDE DEF E, F, H
<1> QED BY <1>3, <1>5, <1>7, <1>8, <1>9

\* What is behind the first line of a nonempty text.
LEMMA TailOf ==
  ASSUME NEW S, NEW s \in Seq(S), s # <<>>
  PROVE  /\ Tail(s) \in Seq(S)
         /\ Len(Tail(s)) = Len(s) - 1
         /\ \A j \in 1 .. Len(s) - 1 : Tail(s)[j] = s[j + 1]
OBVIOUS

\* What SplitOpen cuts off: the header at line k + 1 and the entries up to line n.
LEMMA SectionCut ==
  ASSUME NEW k \in 0 .. Len(Import), NEW r, r = SubSeq(Import, k + 1, Len(Import)), r # <<>>
  PROVE  \E n \in k + 1 .. Len(Import) :
           /\ \A j \in k + 2 .. n : Import[j].kind = "entry"
           /\ n = Len(Import) \/ Import[n + 1].kind # "entry"
           /\ <<r[1]>> \o UpToHeader(Tail(r)) = SubSeq(Import, k + 1, n)
           /\ SubSeq(r, Len(UpToHeader(Tail(r))) + 2, Len(r)) = SubSeq(Import, n + 1, Len(Import))
           /\ r[1] = Import[k + 1]
<1> DEFINE N == Len(Import)
<1>1. Import \in Seq(ImageLine) /\ N \in Nat
  BY ImportAssumption
<1>2. r \in Seq(ImageLine) /\ Len(r) = N - k /\ k < N
  BY <1>1
<1>3. \A j \in 1 .. N - k : r[j] = Import[k + j]
  BY <1>1
<1> DEFINE t == Tail(r)
<1>4. t \in Seq(ImageLine) /\ Len(t) = N - k - 1 /\ \A j \in 1 .. N - k - 1 : t[j] = Import[k + 1 + j]
  <2>1. /\ t \in Seq(ImageLine)
        /\ Len(t) = Len(r) - 1
        /\ \A j \in 1 .. Len(r) - 1 : t[j] = r[j + 1]
    BY <1>2, TailOf
  <2> HIDE DEF t
  <2>2. Len(t) = N - k - 1
    BY <1>1, <1>2, <2>1
  <2>3. ASSUME NEW j \in 1 .. N - k - 1 PROVE t[j] = Import[k + 1 + j]
    <3>1. j + 1 \in 1 .. N - k /\ k + (j + 1) = k + 1 + j
      BY <1>1, <1>2
    <3>2. t[j] = r[j + 1]
      BY <1>1, <1>2, <2>1
    <3> QED BY <1>3, <3>1, <3>2
  <2> QED BY <2>1, <2>2, <2>3
<1> DEFINE H == {j \in DOMAIN t : t[j].kind # "entry"}
<1> DEFINE l == IF H = {} THEN Len(t) ELSE Min(H) - 1
<1>5. /\ l \in 0 .. N - k - 1
      /\ \A j \in 1 .. l : t[j].kind = "entry"
      /\ l = N - k - 1 \/ t[l + 1].kind # "entry"
  <2>0. DOMAIN t = 1 .. N - k - 1 /\ H \subseteq Nat
    BY <1>1, <1>2, <1>4
  <2> HIDE DEF t
  <2>1. CASE H = {}
    <3>1. l = N - k - 1 /\ \A j \in 1 .. N - k - 1 : t[j].kind = "entry"
      BY <1>4, <2>0, <2>1
    <3> HIDE DEF l
    <3> QED BY <1>1, <1>2, <3>1
  <2>2. CASE H # {}
    <3>1. PICK m \in H : \A j \in H : m <= j
      BY <2>0, <2>2, LeastNat
    <3>2. Min(H) = m
      BY <2>0, <3>1, MinIs
    <3>3. l = m - 1 /\ m \in 1 .. N - k - 1 /\ t[m].kind # "entry"
      BY <2>0, <2>2, <3>1, <3>2
    <3>4. \A j \in 1 .. m - 1 : t[j].kind = "entry"
      <4> SUFFICES ASSUME NEW j \in 1 .. m - 1, j \in H PROVE FALSE
        BY <2>0, <3>3
      <4>1. m <= j
        BY <3>1
      <4> QED BY <4>1, <3>3
    <3> HIDE DEF l
    <3>5. l + 1 = m /\ l \in 0 .. N - k - 1
      BY <1>1, <1>2, <3>3
    <3> QED
      BY <3>3, <3>4, <3>5
  <2> QED BY <2>1, <2>2
<1>6. UpToHeader(t) = SubSeq(t, 1, l)
  BY DEF UpToHeader
<1> HIDE DEF l, t, H
<1> DEFINE s == SubSeq(t, 1, l)
<1>7. s \in Seq(ImageLine) /\ Len(s) = l /\ \A j \in 1 .. l : s[j] = Import[k + 1 + j]
  BY <1>1, <1>2, <1>4, <1>5
<1> DEFINE n == k + 1 + l
<1>8. n \in k + 1 .. N
  BY <1>1, <1>2, <1>5
<1>9. \A j \in k + 2 .. n : Import[j].kind = "entry"
  <2> SUFFICES ASSUME NEW j \in k + 2 .. n PROVE Import[j].kind = "entry"
    OBVIOUS
  <2>1. j - (k + 1) \in 1 .. l /\ k + 1 + (j - (k + 1)) = j
    BY <1>1, <1>2, <1>5
  <2>2. t[j - (k + 1)] = Import[j]
    BY <1>1, <1>2, <1>4, <1>5, <2>1
  <2> QED BY <1>5, <2>1, <2>2
<1>10. n = N \/ Import[n + 1].kind # "entry"
  <2>1. CASE l = N - k - 1
    BY <1>1, <1>2, <2>1
  <2>2. CASE l # N - k - 1
    <3>1. l + 1 \in 1 .. N - k - 1 /\ k + 1 + (l + 1) = n + 1
      BY <1>1, <1>2, <1>5, <2>2
    <3>2. t[l + 1] = Import[k + 1 + (l + 1)]
      <4> HIDE DEF N, n
      <4> QED BY <1>4, <3>1
    <3>3. t[l + 1] = Import[n + 1]
      <4> HIDE DEF N, n
      <4> QED BY <3>1, <3>2
    <3> HIDE DEF N, n
    <3> QED BY <1>5, <2>2, <3>3
  <2> QED BY <2>1, <2>2
<1>11. r[1] = Import[k + 1]
  BY <1>1, <1>2, <1>3
<1> DEFINE a == <<r[1]>> \o s
<1> DEFINE b == SubSeq(Import, k + 1, n)
<1>12. a = b
  <2>1. r[1] \in ImageLine
    BY <1>1, <1>2
  <2>2. a \in Seq(ImageLine) /\ Len(a) = l + 1
    BY <1>5, <1>7, <2>1
  <2>3. b \in Seq(ImageLine) /\ Len(b) = l + 1 /\ \A j \in 1 .. l + 1 : b[j] = Import[k + j]
    <3>1. n \in Nat /\ n - (k + 1) + 1 = l + 1 /\ k + 1 \in 1 .. N /\ n \in k + 1 .. N
      BY <1>1, <1>2, <1>5, <1>8
    <3> HIDE DEF n
    <3>2. b \in Seq(ImageLine) /\ Len(b) = n - (k + 1) + 1
      BY <1>1, <3>1
    <3>3. \A j \in 1 .. n - (k + 1) + 1 : b[j] = Import[k + 1 + j - 1]
      BY <1>1, <3>1
    <3>4. \A j \in 1 .. l + 1 : k + 1 + j - 1 = k + j
      BY <1>5
    <3> HIDE DEF b
    <3> QED BY <3>1, <3>2, <3>3, <3>4
  <2>4. \A j \in 1 .. l + 1 : b[j] = Import[k + j]
    BY <2>3
  <2>5. \A j \in 1 .. l + 1 : a[j] = IF j = 1 THEN r[1] ELSE s[j - 1]
    BY <1>5, <1>7, <2>1
  <2>6. \A j \in 1 .. l + 1 : a[j] = b[j]
    <3> SUFFICES ASSUME NEW j \in 1 .. l + 1 PROVE a[j] = b[j]
      OBVIOUS
    <3>1. CASE j = 1
      BY <1>11, <2>4, <2>5, <3>1
    <3>2. CASE j # 1
      <4>1. j - 1 \in 1 .. l /\ k + 1 + (j - 1) = k + j
        BY <1>5, <3>2
      <4>2. s[j - 1] = Import[k + j]
        BY <1>7, <4>1
      <4> QED BY <2>4, <2>5, <3>2, <4>2
    <3> QED BY <3>1, <3>2
  <2> HIDE DEF a, b
  <2> QED BY <2>2, <2>3, <2>6, SeqEqual
<1>13. SubSeq(r, l + 2, Len(r)) = SubSeq(Import, n + 1, N)
  <2> DEFINE u == SubSeq(r, l + 2, Len(r))
  <2> DEFINE v == SubSeq(Import, n + 1, N)
  <2>1. u \in Seq(ImageLine) /\ Len(u) = N - n /\ \A j \in 1 .. N - n : u[j] = r[l + 1 + j]
    BY <1>1, <1>2, <1>5, <1>8
  <2>2. v \in Seq(ImageLine) /\ Len(v) = N - n /\ \A j \in 1 .. N - n : v[j] = Import[n + j]
    <3> HIDE DEF n
    <3> QED BY <1>1, <1>8
  <2>3. \A j \in 1 .. N - n : u[j] = v[j]
    <3> SUFFICES ASSUME NEW j \in 1 .. N - n PROVE u[j] = v[j]
      OBVIOUS
    <3>1. l + 1 + j \in 1 .. N - k /\ k + (l + 1 + j) = n + j
      BY <1>1, <1>2, <1>5, <1>8
    <3> QED BY <1>3, <2>1, <2>2, <3>1
  <2> HIDE DEF u, v
  <2>4. u = v
    BY <2>1, <2>2, <2>3, SeqEqual
  <2> QED BY <2>4 DEF u, v
<1> QED
  BY <1>6, <1>7, <1>8, <1>9, <1>10, <1>11, <1>12, <1>13 DEF t

Splitting == {"next", "section", "finish"}

SplitTypes ==
  /\ DOMAIN db = Cats /\ DOMAIN text = Proc /\ DOMAIN rest = Proc
  /\ names \in [Proc -> Seq(Cats)]
  /\ target \in [Proc -> [cat : Cats, item : Items]]

\* a batch renames while nobody has the lock file
RenameAlone == \A p \in Proc : task[p] = "rename" => ~lock

\* what has been read of the image, up to a line k, is in the files and on the
\* list, but for the section that is being written
SplitSoFar(p) ==
  task[p] \in {"next", "section"} =>
    \E k \in 0 .. Len(Import) :
      /\ rest[p] = SubSeq(Import, k + 1, Len(Import))
      /\ \A c \in Cats : SplitUpTo(k, c) # NoFile =>
           /\ c \in Range(names[p])
           /\ SplitUpTo(k, c) =
                IF task[p] = "section" /\ target[p].cat = c THEN text[p] ELSE db[c]

SplitEnds(p) ==
  task[p] = "finish" /\ rest[p] = <<>> =>
    \A c \in Cats :
      SplitFile(Import, c) # NoFile =>
        db[c] = SplitFile(Import, c) /\ c \in Range(catlist)

SplitInv ==
  /\ BatchLockInv /\ SplitTypes /\ RenameAlone
  /\ \A p \in Proc : SplitSoFar(p) /\ SplitEnds(p)

\* Unless somebody takes the lock file before a batch's late rename.
LEMMA RenameStep ==
  ASSUME BatchLockInv, BatchLockInv', RenameAlone, [BatchNext]_allVars, ~TakesEarly
  PROVE  RenameAlone'
<1> USE DEF files, vars, Free
<1>1. task \in [Proc -> Tasks] /\ lock \in BOOLEAN /\ lock' \in BOOLEAN
  BY DEF BatchLockInv, BatchControl
<1>2. ASSUME NEW q \in Proc, task'[q] = "rename" PROVE task[q] = "rename" \/ lock' = FALSE
  <2>1. CASE UNCHANGED allVars
    BY <1>2, <2>1 DEF allVars, batchVars
  <2>2. ASSUME NEW p \in Proc,
               \/ CommandStep(p) \/ TaskStep(p)
               \/ \E t \in Targets : \/ \E v \in Values : Collect(p, t, v)
                                     \/ BatchUpdate(p, t) \/ BatchGet(p, t)
               \/ Split(p) \/ Killed(p) \/ SplitFail(p) \/ SplitStop(p)
        PROVE  task[q] = "rename" \/ lock' = FALSE
    <3>1. CASE CommandStep(p) \/ \E t \in Targets, v \in Values : Collect(p, t, v)
      BY <1>2, <3>1 DEF CommandStep, Collect, batchVars
    <3>2. CASE \E t \in Targets : BatchUpdate(p, t) \/ BatchGet(p, t) \/ Split(p)
      BY <1>1, <1>2, <3>2 DEF BatchUpdate, BatchGet, Split, Do
    <3>3. CASE Split(p) \/ Killed(p) \/ SplitFail(p) \/ SplitStop(p) \/ BatchCrash(p)
               \/ BatchGetCrash(p)
      BY <1>1, <1>2, <3>3 DEF Split, Killed, SplitFail, SplitStop, BatchCrash, BatchGetCrash, Die, Do
    <3>4. CASE Locks(p) \/ BatchOpen(p) \/ BatchClose(p) \/ BatchUnlock(p) \/ BatchRename(p)
               \/ BatchRemove(p) \/ BatchGetRead(p) \/ BatchGetUnlock(p)
      BY <1>1, <1>2, <3>4 DEF Locks, Lock, BatchOpen, BatchClose, BatchUnlock, BatchRename,
           BatchRemove, BatchGetRead, BatchGetUnlock, Do
    <3>5. CASE SplitList(p) \/ SplitOpen(p) \/ SplitTrailer(p) \/ SplitSection(p)
               \/ SplitNames(p) \/ SplitUnlock(p)
      BY <1>1, <1>2, <3>5 DEF SplitList, SplitOpen, SplitTrailer, SplitSection, SplitNames,
           SplitUnlock, Do
    <3> QED BY <2>2, <3>1, <3>2, <3>3, <3>4, <3>5 DEF TaskStep
  <2> QED BY <2>1, <2>2 DEF BatchNext
<1>3. ASSUME NEW q \in Proc, task[q] = "rename" PROVE lock' = FALSE
  BY <1>1, <1>3 DEF RenameAlone, TakesEarly
<1> QED BY <1>2, <1>3 DEF RenameAlone

\* A step of p that leaves the streams of the others alone, and the files too
\* unless p has the lock or is about to rename its batch.
LEMMA SplitKept ==
  ASSUME SplitInv, NEW p \in Proc,
         BatchLockInv', SplitTypes', RenameAlone', SplitSoFar(p)', SplitEnds(p)',
         \A q \in Proc \ {p} : /\ task'[q] = task[q] /\ rest'[q] = rest[q]
                               /\ names'[q] = names[q] /\ target'[q] = target[q]
                               /\ text'[q] = text[q],
         InCritical(p) \/ task[p] = "rename" \/ UNCHANGED <<db, catlist>>
  PROVE  SplitInv'
<1> SUFFICES ASSUME NEW q \in Proc \ {p} PROVE SplitSoFar(q)' /\ SplitEnds(q)'
  BY DEF SplitInv
<1>1. SplitSoFar(q) /\ SplitEnds(q)
  BY DEF SplitInv
<1>2. CASE task[q] \in Splitting
  <2>1. InCritical(q)
    BY <1>2 DEF InCritical, Holding, SplitHeld, Splitting
  <2>2. ~InCritical(p)
    BY <2>1 DEF SplitInv, BatchLockInv, LockDiscipline
  <2>3. task[p] # "rename"
    <3>1. lock
      BY <2>1 DEF SplitInv, BatchLockInv, LockDiscipline
    <3> QED BY <3>1 DEF SplitInv, RenameAlone
  <2>4. UNCHANGED <<db, catlist>>
    BY <2>2, <2>3
  <2> QED BY <1>1, <2>4 DEF SplitSoFar, SplitEnds
<1>3. CASE task[q] \notin Splitting
  BY <1>3 DEF SplitSoFar, SplitEnds, Splitting
<1> QED BY <1>2, <1>3

\* A step of p that is none of splitDB's own.
LEMMA SplitAside ==
  ASSUME SplitInv, NEW p \in Proc, BatchLockInv', RenameAlone',
         task' = task \/ \E l \in Tasks : Do(p, l), task'[p] \notin Splitting,
         DOMAIN db' = Cats,
         \/ target' = target
         \/ \E t \in [cat : Cats, item : Items] : target' = [target EXCEPT ![p] = t],
         text' = text \/ \E f : text' = [text EXCEPT ![p] = f],
         rest' = rest \/ \E f : rest' = [rest EXCEPT ![p] = f],
         names' = names \/ names' = [names EXCEPT ![p] = <<>>],
         InCritical(p) \/ task[p] = "rename" \/ UNCHANGED <<db, catlist>>
  PROVE  SplitInv'
<1>1. SplitTypes /\ task \in [Proc -> Tasks]
  BY DEF SplitInv, BatchLockInv, BatchControl
<1>2. \A q \in Proc \ {p} : task'[q] = task[q]
  BY <1>1 DEF Do
<1>3. \A q \in Proc \ {p} : rest'[q] = rest[q] /\ text'[q] = text[q]
  BY <1>1 DEF SplitTypes
<1>4. \A q \in Proc \ {p} : names'[q] = names[q] /\ target'[q] = target[q]
  BY <1>1 DEF SplitTypes
<1>5. SplitTypes'
  <2>1. DOMAIN text' = Proc /\ DOMAIN rest' = Proc
    BY <1>1 DEF SplitTypes
  <2>2. names' \in [Proc -> Seq(Cats)]
    <3>1. names \in [Proc -> Seq(Cats)] /\ <<>> \in Seq(Cats)
      BY <1>1 DEF SplitTypes
    <3> QED BY <3>1
  <2>3. target' \in [Proc -> [cat : Cats, item : Items]]
    BY <1>1 DEF SplitTypes
  <2> QED BY <2>1, <2>2, <2>3 DEF SplitTypes
<1>6. SplitSoFar(p)' /\ SplitEnds(p)'
  BY DEF SplitSoFar, SplitEnds, Splitting
<1> QED BY <1>2, <1>3, <1>4, <1>5, <1>6, SplitKept

LEMMA AnyTargetType == AnyTarget \in [cat : Cats, item : Items]
BY TargetAssumption DEF AnyTarget

\* Commands.
LEMMA CommandSplit ==
  ASSUME SplitInv, BatchLockInv', RenameAlone', NEW p \in Proc, CommandStep(p)
  PROVE  SplitInv'
<1>1. /\ task[p] = "none" /\ task' = task /\ target' = target /\ text' = text
      /\ rest' = rest /\ names' = names /\ DOMAIN db = Cats
  BY DEF CommandStep, batchVars, SplitInv, SplitTypes
<1>2. DOMAIN db' = Cats /\ (pc[p] \in Critical \/ UNCHANGED <<db, catlist>>)
  <2>1. CASE Respawn(p) \/ \E r \in Request : Start(p, r)
    BY <1>1, <2>1 DEF Respawn, Start, files
  <2>2. CASE Step(p)
    BY <1>1, <2>2 DEF Step, Acquire, Unlock, PrintNoFlag, PrintSetting, EditNoFile, EditOpen,
         EditNothing, EditClose, Rename, NewCategory, AppendCategory, AppendList, files, Critical
  <2>3. CASE Sigkill(p)
    BY <1>1, <2>3 DEF Sigkill, files
  <2> QED BY <2>1, <2>2, <2>3 DEF CommandStep
<1>3. "none" \notin Splitting
  BY DEF Splitting
<1>4. InCritical(p) \/ UNCHANGED <<db, catlist>>
  BY <1>2 DEF InCritical
<1> QED BY <1>1, <1>2, <1>3, <1>4, SplitAside

\* Batches, and the steps of a split before and after its work.
LEMMA AsideSplit ==
  ASSUME SplitInv, BatchLockInv', RenameAlone', NEW p \in Proc,
         \/ \E t \in Targets : \/ \E v \in Values : Collect(p, t, v)
                               \/ BatchUpdate(p, t) \/ BatchGet(p, t)
         \/ Split(p) \/ Killed(p) \/ SplitFail(p) \/ Locks(p)
         \/ BatchOpen(p) \/ BatchClose(p) \/ BatchUnlock(p)
         \/ BatchRename(p) \/ BatchRemove(p) \/ BatchGetRead(p) \/ BatchGetUnlock(p)
         \/ SplitUnlock(p) \/ BatchCrash(p) \/ BatchGetCrash(p)
  PROVE  SplitInv'
<1> USE DEF Splitting, SplitHeld, BatchHeld, GetHeld, Holding, Tasks, files, vars, Free
<1>1. task \in [Proc -> Tasks] /\ DOMAIN db = Cats
  BY DEF SplitInv, BatchLockInv, BatchControl, SplitTypes
<1>2. CASE \E t \in Targets, v \in Values : Collect(p, t, v)
  BY <1>1, <1>2, SplitAside DEF Collect
<1>3. CASE \E t \in Targets : BatchUpdate(p, t) \/ BatchGet(p, t)
  BY <1>1, <1>3, TargetAssumption, SplitAside DEF BatchUpdate, BatchGet, Do
<1>4. CASE Split(p)
  BY <1>1, <1>4, SplitAside DEF Split, Do
<1>5. CASE BatchCrash(p) \/ Killed(p)
  <2>1. Die(p)
    BY <1>5 DEF BatchCrash, Killed
  <2> QED BY <1>1, <2>1, AnyTargetType, SplitAside DEF Die, Do
<1>6. CASE BatchGetCrash(p)
  BY <1>1, <1>6, AnyTargetType, SplitAside DEF BatchGetCrash, Do
<1>7. CASE SplitFail(p)
  BY <1>1, <1>7, SplitAside DEF SplitFail, Do
<1>8. CASE Locks(p)
  BY <1>1, <1>8, SplitAside DEF Locks, Lock, Do
<1>9. CASE BatchOpen(p)
  BY <1>1, <1>9, SplitAside DEF BatchOpen, Do
<1>10. CASE BatchClose(p) \/ BatchUnlock(p) \/ BatchGetRead(p)
  <2>1. CASE BatchClose(p)
    <3>1. InCritical(p) /\ DOMAIN db' = Cats
      BY <1>1, <2>1 DEF BatchClose, InCritical
    <3> QED BY <1>1, <2>1, <3>1, SplitAside DEF BatchClose, Do
  <2> QED BY <1>1, <1>10, <2>1, SplitAside DEF BatchUnlock, BatchGetRead, Do
<1>11. CASE BatchRename(p)
  BY <1>1, <1>11, SplitAside DEF BatchRename, Do
<1>12. CASE BatchRemove(p)
  BY <1>1, <1>12, AnyTargetType, SplitAside DEF BatchRemove, Do
<1>13. CASE BatchGetUnlock(p)
  BY <1>1, <1>13, AnyTargetType, SplitAside DEF BatchGetUnlock, Do
<1>14. CASE SplitUnlock(p)
  BY <1>1, <1>14, AnyTargetType, SplitAside DEF SplitUnlock, Do
<1> QED
  BY <1>2, <1>3, <1>4, <1>5, <1>6, <1>7, <1>8, <1>9, <1>10, <1>11, <1>12, <1>13, <1>14

\* What the steps of a split may take for granted.
LEMMA SplitFacts ==
  ASSUME SplitInv, NEW p \in Proc, task[p] \in SplitHeld
  PROVE  /\ task \in [Proc -> Tasks] /\ InCritical(p)
         /\ DOMAIN db = Cats /\ DOMAIN text = Proc /\ DOMAIN rest = Proc
         /\ names \in [Proc -> Seq(Cats)]
         /\ target \in [Proc -> [cat : Cats, item : Items]]
BY DEF SplitInv, BatchLockInv, BatchControl, SplitTypes, InCritical, Holding

\* A step of splitDB itself.
LEMMA SplitOwn ==
  ASSUME SplitInv, BatchLockInv', RenameAlone', NEW p \in Proc, task[p] \in SplitHeld,
         NEW l \in SplitHeld, task' = [task EXCEPT ![p] = l],
         DOMAIN db' = Cats,
         \/ target' = target
         \/ \E t \in [cat : Cats, item : Items] : target' = [target EXCEPT ![p] = t],
         text' = text \/ \E f : text' = [text EXCEPT ![p] = f],
         rest' = rest \/ \E f : rest' = [rest EXCEPT ![p] = f],
         names' = names \/ \E s \in Seq(Cats) : names' = [names EXCEPT ![p] = s],
         SplitSoFar(p)', SplitEnds(p)'
  PROVE  SplitInv'
<1>1. /\ task \in [Proc -> Tasks] /\ InCritical(p)
      /\ DOMAIN db = Cats /\ DOMAIN text = Proc /\ DOMAIN rest = Proc
      /\ names \in [Proc -> Seq(Cats)]
      /\ target \in [Proc -> [cat : Cats, item : Items]]
  BY SplitFacts
<1>3. /\ \A q \in Proc \ {p} : task'[q] = task[q] /\ rest'[q] = rest[q] /\ text'[q] = text[q]
      /\ task'[p] = l
  BY <1>1
<1>4. \A q \in Proc \ {p} : names'[q] = names[q] /\ target'[q] = target[q]
  BY <1>1
<1>5. SplitTypes'
  <2>1. names' \in [Proc -> Seq(Cats)]
    BY <1>1
  <2>3. target' \in [Proc -> [cat : Cats, item : Items]]
    BY <1>1
  <2>2. DOMAIN text' = Proc /\ DOMAIN rest' = Proc
    BY <1>1
  <2> QED BY <2>1, <2>2, <2>3 DEF SplitTypes
<1> QED BY <1>1, <1>3, <1>4, <1>5, SplitKept

LEMMA SplitListInv ==
  ASSUME SplitInv, BatchLockInv', RenameAlone', NEW p \in Proc, SplitList(p)
  PROVE  SplitInv'
<1>1. task[p] = "list" /\ task[p] \in SplitHeld /\ "next" \in SplitHeld
  BY DEF SplitList, SplitHeld
<1>2. task \in [Proc -> Tasks] /\ DOMAIN rest = Proc /\ DOMAIN db = Cats
  BY <1>1, SplitFacts
<1>3. task'[p] = "next" /\ rest'[p] = Import
  BY <1>2 DEF SplitList, Do
<1>4. Import \in Seq(ImageLine) /\ Len(Import) \in Nat /\ Import = SubSeq(Import, 0 + 1, Len(Import))
  BY ImportAssumption, SubSeqFull
<1>5. SplitSoFar(p)'
  BY <1>3, <1>4, SplitUpToStart DEF SplitSoFar
<1>6. SplitEnds(p)'
  BY <1>3 DEF SplitEnds
<1>7. <<>> \in Seq(Cats)
  OBVIOUS
<1>8. /\ task' = [task EXCEPT ![p] = "next"] /\ db' = db /\ target' = target /\ text' = text
      /\ rest' = [rest EXCEPT ![p] = Import] /\ names' = [names EXCEPT ![p] = <<>>]
  BY DEF SplitList, Do
<1> QED BY <1>1, <1>2, <1>5, <1>6, <1>7, <1>8, SplitOwn

LEMMA SplitOpenInv ==
  ASSUME SplitInv, BatchLockInv', RenameAlone', NEW p \in Proc, SplitOpen(p)
  PROVE  SplitInv'
<1>1. task[p] = "next" /\ task[p] \in SplitHeld /\ "section" \in SplitHeld
  BY DEF SplitOpen, SplitHeld
<1>2. /\ task \in [Proc -> Tasks] /\ DOMAIN rest = Proc /\ DOMAIN db = Cats
      /\ DOMAIN text = Proc /\ names \in [Proc -> Seq(Cats)]
      /\ target \in [Proc -> [cat : Cats, item : Items]]
  BY <1>1, SplitFacts
<1>3. PICK k \in 0 .. Len(Import) :
        /\ rest[p] = SubSeq(Import, k + 1, Len(Import))
        /\ \A c \in Cats : SplitUpTo(k, c) # NoFile =>
             c \in Range(names[p]) /\ SplitUpTo(k, c) = db[c]
  BY <1>1 DEF SplitInv, SplitSoFar
<1>4. PICK r : r = rest[p]
  OBVIOUS
<1>5. PICK t : t = UpToHeader(Tail(r))
  OBVIOUS
<1>6. r # <<>> /\ r[1].kind = "header"
  BY <1>4 DEF SplitOpen
<1>7. PICK n \in k + 1 .. Len(Import) :
        /\ \A j \in k + 2 .. n : Import[j].kind = "entry"
        /\ <<r[1]>> \o t = SubSeq(Import, k + 1, n)
        /\ SubSeq(r, Len(t) + 2, Len(r)) = SubSeq(Import, n + 1, Len(Import))
        /\ r[1] = Import[k + 1]
  BY <1>3, <1>4, <1>5, <1>6, SectionCut
<1>8. /\ Import \in Seq(ImageLine) /\ Len(Import) \in Nat /\ k \in Nat /\ n \in Nat /\ k < n
      /\ n \in 0 .. Len(Import)
  BY <1>7, ImportAssumption
<1>9. PICK c \in Cats : IsHeader(r[1], c) /\ c = r[1].cat
  <2>1. Import[k + 1] \in ImageLine
    BY <1>7, <1>8
  <2>2. PICK x \in ImageLine : x = r[1]
    BY <1>7, <2>1
  <2>3. x \in [kind : {"header"}, cat : Cats, gap : BOOLEAN]
    BY <1>6, <2>2 DEF ImageLine, Line, Trailer
  <2>4. x.cat \in Cats /\ IsHeader(x, x.cat)
    BY <2>3 DEF IsHeader
  <2> QED BY <2>2, <2>4
<1>10. /\ names' = [names EXCEPT ![p] = Append(@, c)]
       /\ db' = [db EXCEPT ![c] = <<>>]
       /\ target' = [target EXCEPT ![p] = [cat |-> c, item |-> target[p].item]]
       /\ text' = [text EXCEPT ![p] = Tight(<<r[1]>> \o t)]
       /\ rest' = [rest EXCEPT ![p] = SubSeq(r, Len(t) + 2, Len(r))]
       /\ task' = [task EXCEPT ![p] = "section"]
  BY <1>4, <1>5, <1>9 DEF SplitOpen, Do
<1>11. /\ task'[p] = "section" /\ text'[p] = Tight(SubSeq(Import, k + 1, n))
       /\ rest'[p] = SubSeq(Import, n + 1, Len(Import)) /\ names'[p] = Append(names[p], c)
       /\ \A d \in Cats \ {c} : db'[d] = db[d]
  BY <1>2, <1>7, <1>10
<1>12. target'[p].cat = c
  BY <1>2, <1>10
<1>13. names[p] \in Seq(Cats) /\ Append(names[p], c) \in Seq(Cats)
  BY <1>2, <1>9
<1>14. c \in Range(names'[p]) /\ \A d \in Range(names[p]) : d \in Range(names'[p])
  <2>1. PICK s \in Seq(Cats) : s = names[p]
    BY <1>13
  <2>2. c \in Range(Append(s, c)) /\ \A d \in Range(s) : d \in Range(Append(s, c))
    <3>1. Len(s) \in Nat /\ DOMAIN s = 1 .. Len(s) /\ DOMAIN Append(s, c) = 1 .. Len(s) + 1
      BY <2>1
    <3>2. Append(s, c)[Len(s) + 1] = c /\ \A j \in 1 .. Len(s) : Append(s, c)[j] = s[j]
      BY <2>1
    <3>3. Len(s) + 1 \in 1 .. Len(s) + 1 /\ 1 .. Len(s) \subseteq 1 .. Len(s) + 1
      BY <3>1
    <3> QED BY <3>1, <3>2, <3>3 DEF Range
  <2> QED BY <1>11, <2>1, <2>2
<1>15. SplitUpTo(n, c) = Tight(SubSeq(Import, k + 1, n))
  BY <1>7, <1>8, <1>9, SplitNew
<1>16. ASSUME NEW d \in Cats \ {c} PROVE SplitUpTo(n, d) = SplitUpTo(k, d)
  <2>1. Import[k + 1].kind # "entry" /\ ~IsHeader(Import[k + 1], d)
    BY <1>7, <1>9 DEF IsHeader
  <2>2. \A j \in k + 2 .. n : ~IsHeader(Import[j], d)
    BY <1>7 DEF IsHeader
  <2>3. \A j \in k + 1 .. n : ~IsHeader(Import[j], d)
    BY <1>8, <2>1, <2>2
  <2> QED BY <1>8, <2>1, <2>3, SplitSame
<1>17. \A d \in Cats : SplitUpTo(n, d) # NoFile =>
         /\ d \in Range(names'[p])
         /\ SplitUpTo(n, d) = IF target'[p].cat = d THEN text'[p] ELSE db'[d]
  BY <1>3, <1>11, <1>12, <1>14, <1>15, <1>16
<1>18. SplitSoFar(p)'
  BY <1>8, <1>11, <1>17 DEF SplitSoFar
<1>19. SplitEnds(p)'
  BY <1>11 DEF SplitEnds
<1>22. \E x \in [cat : Cats, item : Items] : target' = [target EXCEPT ![p] = x]
  <2>1. [cat |-> c, item |-> target[p].item] \in [cat : Cats, item : Items]
    BY <1>2, <1>9
  <2> QED BY <1>10, <2>1
<1>20. DOMAIN db' = Cats
  BY <1>2, <1>10
<1>21. \E s \in Seq(Cats) : names' = [names EXCEPT ![p] = s]
  BY <1>10, <1>13
<1> QED BY <1>1, <1>10, <1>18, <1>19, <1>20, <1>21, <1>22, SplitOwn

LEMMA SplitTrailerInv ==
  ASSUME SplitInv, BatchLockInv', RenameAlone', NEW p \in Proc, SplitTrailer(p)
  PROVE  SplitInv'
<1>1. task[p] = "next" /\ task[p] \in SplitHeld /\ "next" \in SplitHeld
  BY DEF SplitTrailer, SplitHeld
<1>2. task \in [Proc -> Tasks] /\ DOMAIN rest = Proc /\ DOMAIN db = Cats
  BY <1>1, SplitFacts
<1>3. PICK k \in 0 .. Len(Import) :
        /\ rest[p] = SubSeq(Import, k + 1, Len(Import))
        /\ \A c \in Cats : SplitUpTo(k, c) # NoFile =>
             c \in Range(names[p]) /\ SplitUpTo(k, c) = db[c]
  BY <1>1 DEF SplitInv, SplitSoFar
<1>4. rest[p] # <<>> /\ rest[p][1] = Trailer
  BY DEF SplitTrailer
<1>5. Import \in Seq(ImageLine) /\ Len(Import) \in Nat
  BY ImportAssumption
<1>6. k + 1 \in 1 .. Len(Import) /\ Import[k + 1] = Trailer
  BY <1>3, <1>4, <1>5
<1>7. Tail(SubSeq(Import, k + 1, Len(Import))) = SubSeq(Import, k + 1 + 1, Len(Import))
  BY <1>5, <1>6, HeadTailOfSubSeq
<1>8. /\ task' = [task EXCEPT ![p] = "next"] /\ task'[p] = "next"
      /\ db' = db /\ target' = target /\ text' = text /\ names' = names /\ catlist' = catlist
      /\ rest' = [rest EXCEPT ![p] = Tail(@)] /\ rest'[p] = Tail(rest[p])
  BY <1>1, <1>2 DEF SplitTrailer, vars
<1>9. ASSUME NEW c \in Cats PROVE SplitUpTo(k + 1, c) = SplitUpTo(k, c)
  <2>1. Trailer.kind = "checksum" /\ ~IsHeader(Trailer, c)
    BY DEF Trailer, IsHeader
  <2>2. \A j \in k + 1 .. k + 1 : ~IsHeader(Import[j], c)
    BY <1>6, <2>1
  <2> QED BY <1>5, <1>6, <2>1, <2>2, SplitSame
<1>10. SplitSoFar(p)'
  <2>1. k + 1 \in 0 .. Len(Import)
    BY <1>5, <1>6
  <2> QED BY <1>3, <1>7, <1>8, <1>9, <2>1 DEF SplitSoFar
<1>11. SplitEnds(p)'
  BY <1>8 DEF SplitEnds
<1> QED BY <1>1, <1>2, <1>8, <1>10, <1>11, SplitOwn

LEMMA SplitSectionInv ==
  ASSUME SplitInv, BatchLockInv', RenameAlone', NEW p \in Proc, SplitSection(p)
  PROVE  SplitInv'
<1>1. task[p] = "section" /\ task[p] \in SplitHeld /\ "next" \in SplitHeld
  BY DEF SplitSection, SplitHeld
<1>2. /\ task \in [Proc -> Tasks] /\ DOMAIN text = Proc /\ DOMAIN db = Cats
      /\ target[p].cat \in Cats
  BY <1>1, SplitFacts
<1>3. PICK k \in 0 .. Len(Import) :
        /\ rest[p] = SubSeq(Import, k + 1, Len(Import))
        /\ \A c \in Cats : SplitUpTo(k, c) # NoFile =>
             /\ c \in Range(names[p])
             /\ SplitUpTo(k, c) = IF target[p].cat = c THEN text[p] ELSE db[c]
  BY <1>1 DEF SplitInv, SplitSoFar
<1>4. /\ task' = [task EXCEPT ![p] = "next"] /\ task'[p] = "next"
      /\ target' = target /\ names' = names /\ rest' = rest
      /\ text' = [text EXCEPT ![p] = <<>>]
      /\ db' = [db EXCEPT ![target[p].cat] = text[p]]
  BY <1>2 DEF SplitSection, Do
<1>5. \A c \in Cats : db'[c] = IF target[p].cat = c THEN text[p] ELSE db[c]
  BY <1>2, <1>4
<1>6. SplitSoFar(p)'
  BY <1>3, <1>4, <1>5 DEF SplitSoFar
<1>7. SplitEnds(p)'
  BY <1>4 DEF SplitEnds
<1> QED BY <1>1, <1>2, <1>4, <1>6, <1>7, SplitOwn

LEMMA SplitNamesInv ==
  ASSUME SplitInv, BatchLockInv', RenameAlone', NEW p \in Proc, SplitNames(p) \/ SplitStop(p)
  PROVE  SplitInv'
<1>1. task[p] = "next" /\ task[p] \in SplitHeld /\ "finish" \in SplitHeld
  BY DEF SplitNames, SplitStop, SplitHeld
<1>2. task \in [Proc -> Tasks] /\ DOMAIN db = Cats
  BY <1>1, SplitFacts
<1>3. PICK k \in 0 .. Len(Import) :
        /\ rest[p] = SubSeq(Import, k + 1, Len(Import))
        /\ \A c \in Cats : SplitUpTo(k, c) # NoFile =>
             c \in Range(names[p]) /\ SplitUpTo(k, c) = db[c]
  BY <1>1 DEF SplitInv, SplitSoFar
<1>4. /\ task' = [task EXCEPT ![p] = "finish"] /\ task'[p] = "finish"
      /\ target' = target /\ names' = names /\ rest' = rest /\ text' = text /\ db' = db
  BY <1>2 DEF SplitNames, SplitStop, Do
<1>5. ASSUME rest[p] = <<>>
      PROVE  \A c \in Cats : SplitFile(Import, c) # NoFile =>
               db[c] = SplitFile(Import, c) /\ c \in Range(catlist')
  <2>1. Import \in Seq(ImageLine) /\ Len(Import) \in Nat
    BY ImportAssumption
  <2>2. k = Len(Import)
    BY <1>3, <1>5, <2>1
  <2>3. catlist' = names[p]
    BY <1>5 DEF SplitNames, SplitStop
  <2> QED BY <1>3, <2>2, <2>3, SplitUpToEnd
<1>6. SplitEnds(p)'
  BY <1>4, <1>5 DEF SplitEnds
<1>7. SplitSoFar(p)'
  BY <1>4 DEF SplitSoFar
<1> QED BY <1>1, <1>2, <1>4, <1>6, <1>7, SplitOwn

LEMMA SplitStep ==
  ASSUME SplitInv, [BatchNext]_allVars, ~TakesEarly
  PROVE  SplitInv'
<1>1. BatchLockInv' /\ RenameAlone'
  BY BatchLockStep, RenameStep DEF SplitInv
<1>2. CASE UNCHANGED allVars
  <2>1. UNCHANGED <<task, db, text, rest, names, target, catlist>>
    BY <1>2 DEF allVars, vars, batchVars
  <2>2. SplitTypes'
    BY <2>1 DEF SplitInv, SplitTypes
  <2>3. ASSUME NEW p \in Proc PROVE SplitSoFar(p)' /\ SplitEnds(p)'
    <3>1. SplitSoFar(p) /\ SplitEnds(p)
      BY DEF SplitInv
    <3> QED BY <2>1, <3>1 DEF SplitSoFar, SplitEnds
  <2> QED BY <1>1, <2>2, <2>3 DEF SplitInv
<1>3. ASSUME NEW p \in Proc,
             \/ CommandStep(p) \/ TaskStep(p)
             \/ \E t \in Targets : \/ \E v \in Values : Collect(p, t, v)
                                   \/ BatchUpdate(p, t) \/ BatchGet(p, t)
             \/ Split(p) \/ Killed(p) \/ SplitFail(p) \/ SplitStop(p)
      PROVE  SplitInv'
  <2>1. CASE SplitList(p) \/ SplitOpen(p) \/ SplitTrailer(p) \/ SplitSection(p)
    BY <1>1, <2>1, SplitListInv, SplitOpenInv, SplitTrailerInv, SplitSectionInv
  <2>2. CASE SplitNames(p) \/ SplitStop(p)
    BY <1>1, <2>2, SplitNamesInv
  <2>3. CASE CommandStep(p)
    BY <1>1, <2>3, CommandSplit
  <2>4. CASE ~(SplitList(p) \/ SplitOpen(p) \/ SplitTrailer(p) \/ SplitSection(p) \/ SplitNames(p)
               \/ SplitStop(p) \/ CommandStep(p))
    <3>1. \/ \E t \in Targets : \/ \E v \in Values : Collect(p, t, v)
                               \/ BatchUpdate(p, t) \/ BatchGet(p, t)
          \/ Split(p) \/ Killed(p) \/ SplitFail(p) \/ Locks(p)
          \/ BatchOpen(p) \/ BatchClose(p) \/ BatchUnlock(p)
          \/ BatchRename(p) \/ BatchRemove(p) \/ BatchGetRead(p) \/ BatchGetUnlock(p)
          \/ SplitUnlock(p) \/ BatchCrash(p) \/ BatchGetCrash(p)
      BY <1>3, <2>4 DEF TaskStep
    <3> QED BY <1>1, <3>1, AsideSplit
  <2> QED BY <2>1, <2>2, <2>3, <2>4
<1> QED BY <1>2, <1>3 DEF BatchNext

LEMMA SplitInit == BatchInit => SplitInv
<1> SUFFICES ASSUME BatchInit PROVE SplitInv
  OBVIOUS
<1>1. BatchLockInv
  BY BatchLockInit
<1>2. /\ \A p \in Proc : task[p] = "none" /\ db = InitDb
      /\ DOMAIN InitDb = Cats
  BY InitDbAssumption DEF BatchInit, Init
<1>3. SplitTypes
  <2>1. <<>> \in Seq(Cats)
    OBVIOUS
  <2>2. names \in [Proc -> Seq(Cats)]
    BY <2>1 DEF BatchInit
  <2>3. target \in [Proc -> [cat : Cats, item : Items]]
    BY AnyTargetType DEF BatchInit
  <2>4. DOMAIN db = Cats /\ DOMAIN text = Proc /\ DOMAIN rest = Proc
    BY InitDbAssumption DEF BatchInit, Init
  <2> QED BY <2>2, <2>3, <2>4 DEF SplitTypes
<1>4. RenameAlone
  BY <1>2 DEF RenameAlone
<1>5. \A p \in Proc : SplitSoFar(p) /\ SplitEnds(p)
  BY <1>2 DEF SplitSoFar, SplitEnds
<1> QED BY <1>1, <1>3, <1>4, <1>5 DEF SplitInv

\* Whatever the image, however many processes run batches, imports and commands,
\* and whoever is killed: when splitDB has read the image to its end, each
\* category in it has the file its last section says and is on the list, until
\* somebody takes the lock file before a batch's late rename.
THEOREM SplitIsComplete == BatchSpec => []SplitComplete
<1> DEFINE I == late = "no" => SplitInv
<1>1. I => SplitComplete
  BY DEF SplitInv, SplitEnds, SplitComplete
<1>2. I /\ [BatchNext]_allVars => I'
  <2> SUFFICES ASSUME I, [BatchNext]_allVars, late' = "no" PROVE SplitInv'
    OBVIOUS
  <2>1. CASE UNCHANGED allVars
    <3>1. UNCHANGED <<lock, task, late>>
      BY <2>1 DEF allVars, vars, batchVars
    <3>2. ~TakesEarly
      BY <3>1 DEF TakesEarly
    <3> QED BY <3>1, <3>2, SplitStep
  <2>2. CASE BatchNext
    <3>1. late' = IF TakesEarly THEN "yes" ELSE late
      BY <2>2 DEF BatchNext
    <3>2. ~TakesEarly /\ late = "no"
      BY <3>1
    <3> QED BY <3>2, SplitStep
  <2> QED BY <2>1, <2>2
<1>3. BatchInit => I
  BY SplitInit
<1> QED
  BY <1>1, <1>2, <1>3, PTL DEF BatchSpec

-----------------------------------------------------------------------------
(* Merging and splitting again *)

\* F[n] is the text of the first n files
Flattens(F, s, N) == F = [i \in 1 .. N |-> IF i = 1 THEN s[i] ELSE F[i - 1] \o s[i]]

LEMMA FlattenExists == ASSUME NEW s, NEW N \in Nat \ {0} PROVE \E F : Flattens(F, s, N)
<1> DEFINE T == {n \in Nat \ {0} : ~\E F : Flattens(F, s, n)}
<1>1. SUFFICES ASSUME T # {} PROVE FALSE
  OBVIOUS
<1>2. PICK m \in T : \A k \in T : m <= k
  <2>1. T \subseteq Nat
    OBVIOUS
  <2> HIDE DEF T
  <2> QED BY <1>1, <2>1, LeastNat
<1>3. CASE m = 1
  <2>1. PICK F : F = [i \in 1 .. 1 |-> s[i]]
    OBVIOUS
  <2>2. Flattens(F, s, 1)
    BY <2>1 DEF Flattens
  <2> QED BY <1>3, <2>2
<1>4. CASE m # 1
  <2>1. m - 1 \in Nat \ {0} /\ m - 1 \notin T /\ m \in Nat
    BY <1>2, <1>4
  <2>2. PICK F : Flattens(F, s, m - 1)
    BY <2>1
  <2>3. PICK G : G = [i \in 1 .. m |-> IF i = m THEN F[m - 1] \o s[m] ELSE F[i]]
    OBVIOUS
  <2>4. ASSUME NEW i \in 1 .. m PROVE G[i] = IF i = 1 THEN s[i] ELSE G[i - 1] \o s[i]
    <3>1. G[i] = IF i = m THEN F[m - 1] \o s[m] ELSE F[i]
      BY <2>3
    <3>2. CASE i = m
      <4>1. G[m - 1] = F[m - 1]
        BY <2>1, <2>3
      <4> QED BY <1>4, <3>1, <3>2, <4>1
    <3>3. CASE i # m
      <4>0. i \in 1 .. m - 1
        BY <2>1, <3>3
      <4>1. F[i] = IF i = 1 THEN s[i] ELSE F[i - 1] \o s[i]
        <5>1. PICK L : L = [x \in 1 .. m - 1 |-> IF x = 1 THEN s[x] ELSE F[x - 1] \o s[x]]
          OBVIOUS
        <5>2. L[i] = IF i = 1 THEN s[i] ELSE F[i - 1] \o s[i]
          BY <4>0, <5>1
        <5>3. F = L
          BY <2>2, <5>1, Zenon DEF Flattens
        <5> QED BY <5>2, <5>3
      <4>2. i # 1 => G[i - 1] = F[i - 1]
        BY <2>1, <2>3, <3>3
      <4> QED BY <3>1, <3>3, <4>1, <4>2
    <3> QED BY <3>2, <3>3
  <2>5. Flattens(G, s, m)
    BY <2>3, <2>4 DEF Flattens
  <2> QED BY <2>5
<1> QED BY <1>3, <1>4

LEMMA FlattenIs ==
  ASSUME NEW s, NEW N \in Nat \ {0}, Len(s) = N
  PROVE  \E F : Flattens(F, s, N) /\ FlattenSeq(s) = F[N]
<1> DEFINE F == CHOOSE f : Flattens(f, s, N)
<1>1. Flattens(F, s, N)
  BY FlattenExists
<1>2. FlattenSeq(s) = F[N]
  BY DEF FlattenSeq, Flattens
<1> QED BY <1>1, <1>2

\* the last section of c in a text is f, after o lines
Holds(A, c, f, o) ==
  /\ o \in Nat /\ o + Len(f) <= Len(A)
  /\ \A k \in 1 .. Len(f) : A[o + k] = f[k]
  /\ \A k \in o + Len(f) + 1 .. Len(A) : ~IsHeader(A[k], c)
  /\ o + Len(f) < Len(A) => A[o + Len(f) + 1].kind # "entry"

NoHeader(A, c) == \A k \in 1 .. Len(A) : ~IsHeader(A[k], c)

\* a text that does not go on with the section before it, nor has one of c
Apart(g, c) == NoHeader(g, c) /\ (g # <<>> => g[1].kind # "entry")

LEMMA Behind ==
  ASSUME NEW S, NEW A \in Seq(S), NEW g \in Seq(S)
  PROVE  /\ A \o g \in Seq(S) /\ Len(A) \in Nat /\ Len(g) \in Nat
         /\ Len(A \o g) = Len(A) + Len(g)
         /\ \A k \in 1 .. Len(A) : (A \o g)[k] = A[k]
         /\ \A k \in 1 .. Len(g) : (A \o g)[Len(A) + k] = g[k]
         /\ \A k \in Len(A) + 1 .. Len(A) + Len(g) :
              k - Len(A) \in 1 .. Len(g) /\ (A \o g)[k] = g[k - Len(A)]
  OBVIOUS

LEMMA HoldsOther ==
  ASSUME NEW A \in Seq(ImageLine), NEW g \in Seq(ImageLine), NEW f \in Seq(ImageLine),
         NEW c, NEW o, Holds(A, c, f, o), Apart(g, c)
  PROVE  Holds(A \o g, c, f, o)
<1>1. PICK B : B = A \o g
  OBVIOUS
<1>2. PICK a \in Nat, b \in Nat, n \in Nat : a = Len(A) /\ b = Len(g) /\ n = Len(f)
  OBVIOUS
<1>3. /\ Len(B) = a + b
      /\ \A k \in 1 .. a : B[k] = A[k]
      /\ \A k \in a + 1 .. a + b : k - a \in 1 .. b /\ B[k] = g[k - a]
  BY <1>1, <1>2, Behind
<1>4. /\ o \in Nat /\ o + n <= a /\ \A k \in 1 .. n : A[o + k] = f[k]
      /\ \A k \in o + n + 1 .. a : ~IsHeader(A[k], c)
      /\ o + n < a => A[o + n + 1].kind # "entry"
  BY <1>2 DEF Holds
<1>5. (\A k \in 1 .. b : ~IsHeader(g[k], c)) /\ (b # 0 => g[1].kind # "entry")
  BY <1>2 DEF Apart, NoHeader
<1>6. \A k \in 1 .. n : B[o + k] = f[k]
  BY <1>3, <1>4
<1>7. \A k \in o + n + 1 .. a + b : ~IsHeader(B[k], c)
  <2> TAKE k \in o + n + 1 .. a + b
  <2>1. CASE k <= a
    BY <1>3, <1>4, <2>1
  <2>2. CASE k > a
    BY <1>3, <1>4, <1>5, <2>2
  <2> QED BY <1>4, <2>1, <2>2
<1>8. o + n < a + b => B[o + n + 1].kind # "entry"
  <2>1. CASE o + n < a
    <3>1. o + n + 1 \in 1 .. a
      BY <1>4, <2>1
    <3> QED BY <1>3, <1>4, <2>1, <3>1
  <2>2. CASE o + n = a /\ b # 0
    <3>1. a + 1 \in a + 1 .. a + b /\ (a + 1) - a = 1
      BY <2>2
    <3>2. B[a + 1] = g[1]
      BY <1>3, <3>1
    <3> QED BY <1>5, <2>2, <3>2
  <2>0. o \in Nat /\ o + n <= a
    BY <1>4
  <2>3. o + n < a + b => o + n < a \/ (o + n = a /\ b # 0)
    BY <2>0
  <2> QED BY <2>1, <2>2, <2>3
<1> QED
  BY <1>1, <1>2, <1>3, <1>4, <1>6, <1>7, <1>8 DEF Holds

LEMMA HoldsOwn ==
  ASSUME NEW A \in Seq(ImageLine), NEW f \in Seq(ImageLine), NEW c
  PROVE  Holds(A \o f, c, f, Len(A))
<1>1. PICK B : B = A \o f
  OBVIOUS
<1>2. /\ Len(A) \in Nat /\ Len(f) \in Nat /\ Len(B) = Len(A) + Len(f)
      /\ \A k \in 1 .. Len(f) : B[Len(A) + k] = f[k]
  BY <1>1, Behind
<1> QED
  BY <1>1, <1>2 DEF Holds

LEMMA NoHeaderBoth ==
  ASSUME NEW A \in Seq(ImageLine), NEW g \in Seq(ImageLine), NEW c,
         NoHeader(A, c), NoHeader(g, c)
  PROVE  NoHeader(A \o g, c)
<1>1. PICK B : B = A \o g
  OBVIOUS
<1>2. /\ Len(A) \in Nat /\ Len(g) \in Nat /\ Len(B) = Len(A) + Len(g)
      /\ \A k \in 1 .. Len(A) : B[k] = A[k]
      /\ \A k \in Len(A) + 1 .. Len(A) + Len(g) :
              k - Len(A) \in 1 .. Len(g) /\ B[k] = g[k - Len(A)]
  BY <1>1, Behind
<1>3. ASSUME NEW k \in 1 .. Len(B) PROVE ~IsHeader(B[k], c)
  <2>1. CASE k \in 1 .. Len(A)
    BY <1>2, <2>1 DEF NoHeader
  <2>2. CASE k \in Len(A) + 1 .. Len(A) + Len(g)
    BY <1>2, <2>2 DEF NoHeader
  <2> QED BY <1>2, <2>1, <2>2
<1> QED
  BY <1>1, <1>3 DEF NoHeader

\* splitDB takes the last section
LEMMA SplitLast ==
  ASSUME NEW I \in Seq(ImageLine), NEW c, NEW f \in Seq(ImageLine), NEW o,
         Holds(I, c, f, o), o + Len(f) < Len(I), f # <<>>, IsHeader(f[1], c),
         \A k \in 2 .. Len(f) : f[k].kind = "entry"
  PROVE  SplitFile(I, c) = Tight(f)
<1>1. PICK N \in Nat, n \in Nat : N = Len(I) /\ n = Len(f)
  OBVIOUS
<1>2. /\ o \in Nat /\ o + n < N /\ n >= 1 /\ DOMAIN I = 1 .. N
      /\ \A k \in 1 .. n : I[o + k] = f[k]
      /\ \A k \in o + n + 1 .. N : ~IsHeader(I[k], c)
      /\ I[o + n + 1].kind # "entry"
  BY <1>1 DEF Holds
<1> DEFINE H == {k \in DOMAIN I : IsHeader(I[k], c)}
<1>3. \A k \in o + 2 .. o + n : I[k].kind = "entry"
  <2> TAKE k \in o + 2 .. o + n
  <2>1. k - o \in 2 .. n /\ k - o \in 1 .. n /\ o + (k - o) = k
    BY <1>2
  <2> QED BY <1>1, <1>2, <2>1
<1>4. o + 1 \in H /\ H \subseteq Nat
  <2>1. 1 \in 1 .. n /\ o + 1 \in 1 .. N
    BY <1>2
  <2> QED BY <1>2, <2>1
<1>5. \A k \in H : o + 1 >= k
  <2>1. ASSUME NEW k \in 1 .. N, IsHeader(I[k], c), ~(o + 1 >= k) PROVE FALSE
    <3>1. I[k].kind # "entry"
      BY <2>1 DEF IsHeader
    <3> QED BY <1>2, <1>3, <2>1, <3>1
  <2> QED BY <1>2, <2>1
<1>6. Max(H) = o + 1
  <2> HIDE DEF H
  <2> QED BY <1>4, <1>5, MaxIs
<1>11. PICK h : h = Max(H)
  OBVIOUS
<1> DEFINE E == {k \in (h + 1) .. N : I[k].kind # "entry"} \cup {N + 1}
<1>7. E \subseteq Nat /\ o + n + 1 \in E /\ \A k \in E : o + n + 1 <= k
  <2>0. h = o + 1
    BY <1>6, <1>11
  <2>1. o + n + 1 \in (o + 1 + 1) .. N /\ o + n + 1 \in Nat
    BY <1>2
  <2>2. E \subseteq Nat /\ o + n + 1 \in E
    BY <1>2, <2>0, <2>1
  <2>3. ASSUME NEW k \in E PROVE o + n + 1 <= k
    <3>1. CASE k = N + 1
      BY <1>2, <3>1
    <3>2. CASE k \in (o + 1 + 1) .. N /\ I[k].kind # "entry"
      BY <1>2, <1>3, <3>2
    <3> QED BY <2>0, <3>1, <3>2
  <2> QED BY <2>2, <2>3
<1>8. Min(E) = o + n + 1
  <2> HIDE DEF E
  <2> QED BY <1>7, MinIs
<1>9. SplitFile(I, c) = Tight(SubSeq(I, o + 1, o + n))
  <2>0. PICK e : e = Min(E)
    OBVIOUS
  <2>1. SplitFile(I, c) = Tight(SubSeq(I, h, e - 1))
    BY <1>1, <1>4, <1>11, <2>0 DEF SplitFile
  <2> HIDE DEF E, H
  <2>2. e - 1 = o + n /\ h = o + 1
    <3>1. e = o + n + 1
      BY <1>8, <2>0
    <3>2. o \in Nat
      BY <1>2
    <3> QED BY <1>6, <1>11, <3>1, <3>2
  <2> QED BY <2>1, <2>2, Zenon
<1>10. SubSeq(I, o + 1, o + n) = f
  <2>1. PICK g : g = SubSeq(I, o + 1, o + n)
    OBVIOUS
  <2>2. g \in Seq(ImageLine) /\ Len(g) = n /\ \A k \in 1 .. n : g[k] = I[o + k]
    <3>1. o + 1 \in 1 .. Len(I) /\ o + n \in o + 1 .. Len(I) /\ o + n - (o + 1) + 1 = n
      BY <1>1, <1>2
    <3>2. g \in Seq(ImageLine) /\ Len(g) = n
      <4>1. SubSeq(I, o + 1, o + n) \in Seq(ImageLine)
        BY <3>1, SubSeqProperties
      <4>2. Len(SubSeq(I, o + 1, o + n)) = o + n - (o + 1) + 1
        BY <1>2, <3>1, SubSeqProperties
      <4> QED BY <2>1, <3>1, <4>1, <4>2
    <3>3. \A k \in 1 .. n : g[k] = I[o + 1 + k - 1] /\ o + 1 + k - 1 = o + k
      BY <1>2, <2>1, <3>1
    <3> QED BY <3>2, <3>3
  <2>3. Len(g) = Len(f) /\ \A k \in 1 .. Len(g) : g[k] = f[k]
    BY <1>1, <1>2, <2>2
  <2>4. g = f
    BY <2>2, <2>3, SeqEqual
  <2> QED BY <2>1, <2>4
<1> QED BY <1>9, <1>10

LEMMA SplitNone ==
  ASSUME NEW I \in Seq(ImageLine), NEW c, NoHeader(I, c) PROVE SplitFile(I, c) = NoFile
<1>1. {k \in DOMAIN I : IsHeader(I[k], c)} = {}
  BY DEF NoHeader
<1> QED
  BY <1>1 DEF SplitFile

LEMMA ContentLines == ASSUME NEW f \in Content PROVE f \in Seq(ImageLine) /\ f # NoFile
  BY NoFileAssumption DEF Content, ImageLine

LEMMA TrailerApart == ASSUME NEW c PROVE <<Trailer>> \in Seq(ImageLine) /\ Apart(<<Trailer>>, c)
<1>1. Trailer \in ImageLine /\ ~IsHeader(Trailer, c) /\ Trailer.kind # "entry"
  BY DEF Trailer, ImageLine, IsHeader
<1>2. \A k \in 1 .. 1 : k = 1
  OBVIOUS
<1> QED
  BY <1>1, <1>2 DEF Apart, NoHeader

\* the file of another category
LEMMA FileApart ==
  ASSUME NEW x \in Cats, NEW c \in Cats, x # c, NEW g \in Content, WellFormed(x, g)
  PROVE  Apart(g, c)
<1>1. CASE g = <<>>
  BY <1>1 DEF Apart, NoHeader
<1>2. CASE g # <<>>
  <2>1. Len(g) \in Nat /\ IsHeader(g[1], x) /\ \A k \in 2 .. Len(g) : g[k].kind = "entry"
    BY <1>2, EntryLines
  <2>3. ASSUME NEW k \in 1 .. Len(g) PROVE ~IsHeader(g[k], c)
    <3>1. CASE k = 1
      BY <2>1, <3>1 DEF IsHeader
    <3>2. CASE k # 1
      <4>1. k \in 2 .. Len(g)
        BY <2>1, <3>2
      <4>2. g[k].kind = "entry"
        BY <2>1, <4>1
      <4> QED BY <4>2 DEF IsHeader
    <3> QED BY <3>1, <3>2
  <2>4. g[1].kind # "entry"
    BY <2>1 DEF IsHeader
  <2> QED
    BY <2>3, <2>4 DEF Apart, NoHeader
<1> QED BY <1>1, <1>2

\* what a text says of c: nothing, or f if its file was met
Told(A, c, f, met) ==
  /\ A \in Seq(ImageLine)
  /\ f = NoFile \/ f = <<>> => NoHeader(A, c)
  /\ f # <<>> /\ met => \E o \in Nat : Holds(A, c, f, o)

LEMMA ToldMore ==
  ASSUME NEW A, NEW c \in Cats, NEW f, NEW met, Told(A, c, f, met), met => f \in Content,
         NEW x \in Cats, NEW g \in Content, WellFormed(x, g), x = c => g = f
  PROVE  Told(A \o g, c, f, met \/ x = c)
<1>1. A \in Seq(ImageLine) /\ g \in Seq(ImageLine) /\ A \o g \in Seq(ImageLine) /\ g # NoFile
  BY ContentLines DEF Told
<1>2. CASE x = c
  <2>1. g = f
    BY <1>2
  <2>2. Holds(A \o g, c, g, Len(A)) /\ Len(A) \in Nat
    BY <1>1, HoldsOwn
  <2>3. f = <<>> => NoHeader(A, c) /\ NoHeader(g, c)
    BY <2>1 DEF Told, NoHeader
  <2>4. f = <<>> => NoHeader(A \o g, c)
    BY <1>1, <2>3, NoHeaderBoth
  <2> QED
    BY <1>1, <2>1, <2>2, <2>4 DEF Told
<1>3. CASE x # c
  <2>1. Apart(g, c)
    BY <1>3, FileApart
  <2>2. f = NoFile \/ f = <<>> => NoHeader(A \o g, c)
    <3>1. NoHeader(g, c)
      BY <2>1 DEF Apart
    <3> QED BY <1>1, <3>1, NoHeaderBoth DEF Told
  <2>3. ASSUME f # <<>>, met PROVE \E o \in Nat : Holds(A \o g, c, f, o)
    <3>1. PICK o \in Nat : Holds(A, c, f, o)
      BY <2>3 DEF Told
    <3>2. f \in Seq(ImageLine)
      BY <2>3, ContentLines
    <3>3. Holds(A \o g, c, f, o)
      BY <1>1, <2>1, <3>1, <3>2, HoldsOther
    <3> QED BY <3>3
  <2> QED
    BY <1>1, <1>3, <2>2, <2>3 DEF Told
<1> QED BY <1>2, <1>3

\* a list of categories that have their files
Listable(L, D) ==
  L \in Seq(Cats) /\ \A k \in DOMAIN L : D[L[k]] \in Content /\ WellFormed(L[k], D[L[k]])

\* what MergeToRAM writes before the checksum
LEMMA FlatTold ==
  ASSUME NEW L, NEW D, Listable(L, D), NEW c \in Cats
  PROVE  Told(FlattenSeq([k \in DOMAIN L |-> D[L[k]]]), c, D[c], \E k \in DOMAIN L : L[k] = c)
<1>1. PICK N \in Nat : N = Len(L) /\ DOMAIN L = 1 .. N
  BY DEF Listable
<1>2. PICK s : s = [k \in DOMAIN L |-> D[L[k]]]
  OBVIOUS
<1>3. s \in Seq(Content) /\ Len(s) = N /\ \A k \in 1 .. N : s[k] = D[L[k]]
  BY <1>1, <1>2 DEF Listable
<1>4. \A g \in Seq(ImageLine) : <<>> \o g = g
  BY ConcatEmptySeq
<1>5. Told(<<>>, c, D[c], FALSE)
  BY DEF Told, NoHeader
<1>6. CASE N = 0
  <2>1. s = <<>> /\ ~\E k \in DOMAIN L : L[k] = c
    BY <1>1, <1>3, <1>6
  <2>2. FlattenSeq(s) = <<>>
    BY <2>1 DEF FlattenSeq
  <2>3. Told(<<>>, c, D[c], \E k \in DOMAIN L : L[k] = c)
    BY <1>5, <2>1 DEF Told
  <2> QED BY <1>2, <2>2, <2>3
<1>7. CASE N # 0
  <2>1. PICK F : Flattens(F, s, N) /\ FlattenSeq(s) = F[N]
    BY <1>3, <1>7, FlattenIs
  <2>2. \A n \in 1 .. N : F[n] = IF n = 1 THEN s[n] ELSE F[n - 1] \o s[n]
    <3>1. PICK G : G = [i \in 1 .. N |-> IF i = 1 THEN s[i] ELSE F[i - 1] \o s[i]]
      OBVIOUS
    <3>2. F = G
      BY <2>1, <3>1, Zenon DEF Flattens
    <3>3. \A n \in 1 .. N : G[n] = IF n = 1 THEN s[n] ELSE F[n - 1] \o s[n]
      BY <3>1
    <3> QED BY <3>2, <3>3
  <2> DEFINE Met(n) == \E k \in 1 .. n : L[k] = c
  <2>3. ASSUME NEW A, NEW n \in 1 .. N, Told(A, c, D[c], Met(n - 1)) PROVE Told(A \o s[n], c, D[c], Met(n))
    <3>1. PICK x \in Cats, g \in Content : x = L[n] /\ g = s[n] /\ g = D[x] /\ WellFormed(x, g)
      BY <1>1, <1>3 DEF Listable
    <3>2. Met(n - 1) => D[c] \in Content
      BY <1>1 DEF Listable
    <3>3. Told(A \o g, c, D[c], Met(n - 1) \/ x = c)
      <4> HIDE DEF Met
      <4> QED BY <2>3, <3>1, <3>2, ToldMore
    <3>4. Met(n) <=> Met(n - 1) \/ x = c
      BY <3>1
    <3>5. PICK B : B = A \o g
      OBVIOUS
    <3>6. Told(B, c, D[c], Met(n))
      <4> HIDE DEF Met
      <4>1. Told(B, c, D[c], Met(n - 1) \/ x = c)
        BY <3>3, <3>5
      <4> QED BY <3>4, <4>1 DEF Told
    <3> QED BY <3>1, <3>5, <3>6
  <2> DEFINE Good(n) == Told(F[n], c, D[c], Met(n))
             T == {n \in 1 .. N : ~Good(n)}
  <2>4. Good(1)
    <3>1. ~Met(0) /\ 1 - 1 = 0
      OBVIOUS
    <3>2. Told(<<>>, c, D[c], Met(0))
      BY <1>5, <3>1 DEF Told
    <3>3. 1 \in 1 .. N
      BY <1>7
    <3>4. Told(<<>> \o s[1], c, D[c], Met(1))
      <4> HIDE DEF Met
      <4> QED BY <2>3, <3>1, <3>2, <3>3
    <3>5. s[1] \in Seq(ImageLine)
      BY <1>3, <3>3, ContentLines
    <3>6. F[1] = <<>> \o s[1]
      BY <1>4, <2>2, <3>3, <3>5
    <3> HIDE DEF Met
    <3> QED BY <3>4, <3>6
  <2>5. ASSUME NEW n \in 1 .. N, n # 1, Good(n - 1) PROVE Good(n)
    <3>1. F[n] = F[n - 1] \o s[n]
      BY <2>2, <2>5
    <3> HIDE DEF Met
    <3> QED BY <2>3, <2>5, <3>1
  <2> HIDE DEF Good
  <2>6. T = {}
    <3>1. SUFFICES ASSUME T # {} PROVE FALSE
      OBVIOUS
    <3>2. PICK m \in T : \A k \in T : m <= k
      <4>1. T \subseteq Nat
        OBVIOUS
      <4> HIDE DEF T
      <4> QED BY <3>1, <4>1, LeastNat
    <3>3. m \in 1 .. N /\ ~Good(m) /\ m # 1
      BY <2>4
    <3>4. m - 1 \in 1 .. N /\ m - 1 \notin T
      BY <3>2, <3>3
    <3>5. Good(m - 1)
      BY <3>4
    <3> QED BY <2>5, <3>3, <3>5
  <2>7. Good(N)
    BY <1>7, <2>6
  <2> QED BY <1>1, <1>2, <2>1, <2>7 DEF Good
<1> QED BY <1>6, <1>7

\* splitDB makes the listed files of a merged image again, less their gaps
LEMMA MergedSplits ==
  ASSUME NEW L, NEW D, Listable(L, D), NEW c \in Cats
  PROVE  /\ D[c] = NoFile \/ D[c] = <<>> => SplitFile(Merged(L, D), c) = NoFile
         /\ D[c] \in Content /\ D[c] # <<>> /\ WellFormed(c, D[c])
              /\ (\E k \in DOMAIN L : L[k] = c) => SplitFile(Merged(L, D), c) = Tight(D[c])
<1>1. PICK A : A = FlattenSeq([k \in DOMAIN L |-> D[L[k]]])
  OBVIOUS
<1>2. PICK I : I = Merged(L, D) /\ I = A \o <<Trailer>>
  BY <1>1 DEF Merged
<1>3. A \in Seq(ImageLine) /\ Told(A, c, D[c], \E k \in DOMAIN L : L[k] = c)
  BY <1>1, FlatTold DEF Told
<1>4. <<Trailer>> \in Seq(ImageLine) /\ Apart(<<Trailer>>, c) /\ Len(<<Trailer>>) = 1
  BY TrailerApart
<1>5. I \in Seq(ImageLine) /\ Len(I) = Len(A) + 1 /\ Len(A) \in Nat
  BY <1>2, <1>3, <1>4
<1>6. ASSUME D[c] = NoFile \/ D[c] = <<>> PROVE SplitFile(I, c) = NoFile
  <2>1. NoHeader(A, c) /\ NoHeader(<<Trailer>>, c)
    BY <1>3, <1>4, <1>6 DEF Told, Apart
  <2>2. NoHeader(I, c)
    BY <1>2, <1>3, <1>4, <2>1, NoHeaderBoth
  <2> QED BY <1>5, <2>2, SplitNone
<1>7. ASSUME D[c] \in Content, D[c] # <<>>, WellFormed(c, D[c]), \E k \in DOMAIN L : L[k] = c
      PROVE  SplitFile(I, c) = Tight(D[c])
  <2>1. PICK o \in Nat : Holds(A, c, D[c], o)
    BY <1>3, <1>7 DEF Told
  <2>2. PICK f \in Seq(ImageLine) : f = D[c]
    BY <1>7, ContentLines
  <2>3. Holds(I, c, f, o)
    BY <1>2, <1>3, <1>4, <2>1, <2>2, HoldsOther
  <2>4. o + Len(f) < Len(I)
    BY <1>5, <2>1, <2>2 DEF Holds
  <2>5. f # <<>> /\ IsHeader(f[1], c) /\ \A k \in 2 .. Len(f) : f[k].kind = "entry"
    BY <1>7, <2>2, EntryLines
  <2> QED BY <1>5, <2>2, <2>3, <2>4, <2>5, SplitLast
<1> QED BY <1>2, <1>6, <1>7

-----------------------------------------------------------------------------
(* The list of the categories *)

\* every listed category has a file, and every one with entries is listed or
\* about to be, unless its process was killed there; an edit is of a category that has its header
ListInv ==
  /\ \A k \in DOMAIN catlist : db[catlist[k]] # NoFile
  /\ \A c \in Cats : db[c] # NoFile /\ db[c] # <<>> =>
       \/ \E k \in DOMAIN catlist : catlist[k] = c
       \/ \E p \in Proc : pc[p] = "list" /\ cmd[p].cat = c
       \/ left = "list"
  /\ \A p \in Proc : pc[p] \in {"append", "list"} => db[cmd[p].cat] # NoFile
  /\ \A p \in Proc : pc[p] \in {"write", "rename"} /\ buf[p] # NoFile =>
       db[cmd[p].cat] # NoFile /\ db[cmd[p].cat] # <<>>

\* a step of p that changes neither the files nor the list
Quiet(p) ==
  /\ UNCHANGED <<db, catlist>>
  /\ \A q \in Proc : q # p => pc'[q] = pc[q] /\ cmd'[q] = cmd[q] /\ buf'[q] = buf[q]
  /\ pc[p] = "list" \/ left = "list" => left' = "list"
  /\ pc'[p] \notin {"append", "list"}
  /\ pc'[p] \in {"write", "rename"} /\ buf'[p] # NoFile =>
       db[cmd'[p].cat] # NoFile /\ db[cmd'[p].cat] # <<>>

LEMMA QuietList == ASSUME ListInv, NEW p \in Proc, Quiet(p) PROVE ListInv'
<1>1. UNCHANGED <<db, catlist>>
  BY DEF Quiet
<1>2. \A k \in DOMAIN catlist' : db'[catlist'[k]] # NoFile
  BY <1>1 DEF ListInv
<1>3. ASSUME NEW c \in Cats, db'[c] # NoFile, db'[c] # <<>>
      PROVE  \/ \E k \in DOMAIN catlist' : catlist'[k] = c
             \/ \E q \in Proc : pc'[q] = "list" /\ cmd'[q].cat = c
             \/ left' = "list"
  <2>1. CASE \E k \in DOMAIN catlist : catlist[k] = c
    BY <1>1, <2>1
  <2>3. CASE left = "list"
    BY <2>3 DEF Quiet
  <2>2. CASE \E q \in Proc : pc[q] = "list" /\ cmd[q].cat = c
    <3>1. PICK q \in Proc : pc[q] = "list" /\ cmd[q].cat = c
      BY <2>2
    <3> QED BY <3>1 DEF Quiet
  <2> QED BY <1>1, <1>3, <2>1, <2>2, <2>3 DEF ListInv
<1>4. ASSUME NEW q \in Proc, pc'[q] \in {"append", "list"} PROVE db'[cmd'[q].cat] # NoFile
  <2>1. q # p
    BY <1>4 DEF Quiet
  <2> QED BY <1>1, <1>4, <2>1 DEF Quiet, ListInv
<1>5. ASSUME NEW q \in Proc, pc'[q] \in {"write", "rename"}, buf'[q] # NoFile
      PROVE  db'[cmd'[q].cat] # NoFile /\ db'[cmd'[q].cat] # <<>>
  <2>1. CASE q = p
    BY <1>1, <1>5, <2>1 DEF Quiet
  <2>2. CASE q # p
    BY <1>1, <1>5, <2>2 DEF Quiet, ListInv
  <2> QED BY <2>1, <2>2
<1> QED
  BY <1>2, <1>3, <1>4, <1>5 DEF ListInv

LEMMA StartList ==
  ASSUME InductiveInv, ListInv, NEW p \in Proc, NEW r \in Request, Start(p, r) PROVE ListInv'
<1>1. Quiet(p)
  BY DEF Quiet, Start, Goto, files, InductiveInv, TypeOK
<1> QED BY <1>1, QuietList

LEMMA PlainList ==
  ASSUME InductiveInv, ListInv, NEW p \in Proc,
         \/ Acquire(p) \/ Unlock(p) \/ PrintNoFlag(p) \/ PrintSetting(p) \/ EditNoFile(p)
         \/ Respawn(p)
  PROVE  ListInv'
<1>1. ASSUME Acquire(p) PROVE Quiet(p)
  BY <1>1 DEF Quiet, Acquire, Goto, files, InductiveInv, TypeOK
<1>2. ASSUME Unlock(p) PROVE Quiet(p)
  BY <1>2 DEF Quiet, Unlock, Goto, files, InductiveInv, TypeOK
<1>3. ASSUME PrintNoFlag(p) PROVE Quiet(p)
  BY <1>3 DEF Quiet, PrintNoFlag, Goto, files, InductiveInv, TypeOK
<1>4. ASSUME PrintSetting(p) PROVE Quiet(p)
  BY <1>4 DEF Quiet, PrintSetting, Goto, files, InductiveInv, TypeOK
<1>5. ASSUME EditNoFile(p) PROVE Quiet(p)
  BY <1>5 DEF Quiet, EditNoFile, Goto, files, InductiveInv, TypeOK
<1>6. ASSUME Respawn(p) PROVE Quiet(p)
  BY <1>6 DEF Quiet, Respawn, Goto, files, InductiveInv, TypeOK
<1>7. Quiet(p)
  BY <1>1, <1>2, <1>3, <1>4, <1>5, <1>6
<1> QED BY <1>7, QuietList

LEMMA TerminateList ==
  ASSUME InductiveInv, ListInv, NEW p \in Proc, Terminate(p) PROVE ListInv'
<1>1. pc[p] # "list"
  BY DEF Terminate, InductiveInv, OneOwner, ScratchOwned, Busy, Critical
<1>2. Quiet(p)
  BY <1>1 DEF Quiet, Terminate, Goto, files, InductiveInv, TypeOK
<1> QED BY <1>2, QuietList

LEMMA SigkillList ==
  ASSUME InductiveInv, ListInv, NEW p \in Proc, Sigkill(p) PROVE ListInv'
<1>1. pc[p] \in Critical => left = "nowhere"
  BY DEF InductiveInv, OneOwner, LockHeld
<1>2. pc[p] = "list" \/ left = "list" => left' = "list"
  BY <1>1 DEF Sigkill, Critical
<1>3. Quiet(p)
  BY <1>2 DEF Quiet, Sigkill, Goto, files, InductiveInv, TypeOK
<1> QED BY <1>3, QuietList

LEMMA EditNothingList ==
  ASSUME InductiveInv, ListInv, NEW p \in Proc, EditNothing(p) PROVE ListInv'
<1>1. pc[p] = "cs" /\ buf[p] = NoFile /\ buf' = buf
  BY DEF EditNothing, Edits, InductiveInv, OneOwner, ScratchOwned
<1>2. UNCHANGED <<db, catlist, cmd>>
  BY DEF EditNothing, files
<1>5. left' = left
  BY DEF EditNothing
<1>3. pc'[p] \in {"rename", "unlock"} /\ \A q \in Proc : q # p => pc'[q] = pc[q]
  BY DEF EditNothing, Goto, InductiveInv, TypeOK
<1>4. Quiet(p)
  BY <1>1, <1>2, <1>3, <1>5 DEF Quiet
<1> QED BY <1>4, QuietList

\* there is nothing to edit in an empty file
LEMMA EditsSomething ==
  ASSUME InductiveInv, NEW p \in Proc, EditOpen(p)
  PROVE  db[cmd[p].cat] # NoFile /\ db[cmd[p].cat] # <<>>
<1>1. cmd[p] \in Request /\ cmd[p].cat \in Cats
  BY RequestType DEF InductiveInv, TypeOK
<1>2. PICK f : f = db[cmd[p].cat]
  OBVIOUS
<1>3. f # NoFile /\ Edit(f, cmd[p]) # NoFile /\ cmd[p].op \in EditOps
      /\ (cmd[p].op = "n" => find_category(f, cmd[p].cat) # 0)
  BY <1>2 DEF EditOpen, Edits
<1>4. f \in Content /\ WellFormed(cmd[p].cat, f)
  BY <1>1, <1>2, <1>3 DEF InductiveInv, TypeOK, CategoryFilesIntact, File
<1>5. ASSUME f = <<>> PROVE FALSE
  <2>1. find_category(f, cmd[p].cat) = 0
    BY <1>1, <1>4, <1>5, FindCategoryLemma
  <2>2. cmd[p].op \in {"w", "m", "d", "D"}
    BY <1>3, <2>1 DEF EditOps
  <2>3. CASE IsAdd(cmd[p])
    BY <1>3, <2>1, <2>3 DEF Edit, IsAdd, add_config
  <2>4. CASE cmd[p].op \in {"w", "m"} /\ ~IsAdd(cmd[p])
    BY <1>3, <2>1, <2>4 DEF Edit, set_config
  <2>5. CASE cmd[p].op \in {"d", "D"}
    BY <1>3, <2>1, <2>5 DEF Edit, IsAdd, delete_config, move_to_item
  <2> QED BY <2>2, <2>3, <2>4, <2>5
<1> QED BY <1>2, <1>3, <1>5

LEMMA EditOpenList ==
  ASSUME InductiveInv, ListInv, NEW p \in Proc, EditOpen(p) PROVE ListInv'
<1>1. pc[p] = "cs" /\ UNCHANGED <<db, catlist, cmd, left>>
  BY DEF EditOpen, Edits
<1>2. pc'[p] = "write" /\ \A q \in Proc : q # p => pc'[q] = pc[q] /\ buf'[q] = buf[q]
  BY DEF EditOpen, Goto, InductiveInv, TypeOK
<1>3. Quiet(p)
  BY <1>1, <1>2, EditsSomething DEF Quiet
<1> QED BY <1>3, QuietList

LEMMA EditCloseList ==
  ASSUME InductiveInv, ListInv, NEW p \in Proc, EditClose(p) PROVE ListInv'
<1>1. pc[p] = "write" /\ fd[p] = "stemp" /\ UNCHANGED <<catlist, cmd, buf, left>>
  BY DEF EditClose, InductiveInv, OneOwner, ScratchOwned
<1>2. db' = db
  BY <1>1 DEF EditClose
<1>3. pc'[p] = "rename" /\ \A q \in Proc : q # p => pc'[q] = pc[q]
  BY DEF EditClose, Goto, InductiveInv, TypeOK
<1>4. Quiet(p)
  BY <1>1, <1>2, <1>3 DEF Quiet, ListInv
<1> QED BY <1>4, QuietList

\* while p is in nk_process_comd nobody was killed there and nobody else is
LEMMA NoneLeft ==
  ASSUME InductiveInv, NEW p \in Proc, pc[p] \in Critical PROVE left = "nowhere"
  BY DEF InductiveInv, OneOwner, LockHeld

LEMMA AloneInside ==
  ASSUME InductiveInv, NEW p \in Proc, pc[p] \in Critical, NEW q \in Proc, q # p
  PROVE  pc[q] \notin {"append", "list", "write", "rename"}
  BY DEF InductiveInv, MutualExclusion, Critical

LEMMA RenameList ==
  ASSUME InductiveInv, ListInv, NEW p \in Proc, Rename(p) PROVE ListInv'
<1>1. cmd[p].cat \in Cats /\ pc[p] = "rename" /\ UNCHANGED <<catlist, cmd, buf, left>> /\ stemp = buf[p]
  BY RequestType DEF Rename, InductiveInv, TypeOK, RenameInstallsOwnEdit
<1>2. pc'[p] = "unlock" /\ \A q \in Proc : q # p => pc'[q] = pc[q]
  BY DEF Rename, Goto, InductiveInv, TypeOK
<1>3. CASE stemp = NoFile
  <2>1. Quiet(p)
    BY <1>1, <1>2, <1>3 DEF Quiet, Rename
  <2> QED BY <2>1, QuietList
<1>4. CASE stemp # NoFile
  <2>1. /\ \A c \in Cats : db'[c] = IF c = cmd[p].cat THEN stemp ELSE db[c]
        /\ db[cmd[p].cat] # NoFile /\ db[cmd[p].cat] # <<>>
    BY <1>1, <1>4 DEF Rename, ListInv, InductiveInv, TypeOK
  <2>2. \A q \in Proc : pc'[q] \notin {"append", "list", "write", "rename"}
    BY <1>1, <1>2, AloneInside DEF Critical
  <2>3. \A k \in DOMAIN catlist' : db'[catlist'[k]] # NoFile
    <3>1. \A k \in DOMAIN catlist : catlist[k] \in Cats
      BY DEF InductiveInv, TypeOK
    <3> QED BY <1>1, <1>4, <2>1, <3>1 DEF ListInv
  <2>4. ASSUME NEW c \in Cats, db'[c] # NoFile, db'[c] # <<>>
        PROVE  \E k \in DOMAIN catlist' : catlist'[k] = c
    <3>1. db[c] # NoFile /\ db[c] # <<>>
      BY <2>1, <2>4
    <3>2. left # "list" /\ \A q \in Proc : pc[q] # "list"
      BY <1>1, AloneInside, NoneLeft DEF Critical
    <3> QED BY <1>1, <3>1, <3>2 DEF ListInv
  <2> QED BY <2>2, <2>3, <2>4 DEF ListInv
<1> QED BY <1>3, <1>4

LEMMA NewCategoryList ==
  ASSUME InductiveInv, ListInv, NEW p \in Proc, NewCategory(p) PROVE ListInv'
<1>1. /\ cmd[p].cat \in Cats /\ pc[p] = "cs" /\ UNCHANGED <<catlist, cmd, buf>>
      /\ db' = [db EXCEPT ![cmd[p].cat] = IF @ = NoFile THEN <<>> ELSE @]
  BY RequestType DEF NewCategory, InductiveInv, TypeOK
<1>2. pc'[p] = "append" /\ \A q \in Proc : q # p => pc'[q] = pc[q]
  BY DEF NewCategory, Goto, InductiveInv, TypeOK
<1>3. <<>> # NoFile
  <2>1. <<>> \in Seq(Line)
    OBVIOUS
  <2> QED BY <2>1, NoFileAssumption
<1>4. \A c \in Cats : db'[c] = IF c = cmd[p].cat /\ db[c] = NoFile THEN <<>> ELSE db[c]
  BY <1>1 DEF InductiveInv, TypeOK
<1>5. \A q \in Proc : q # p => pc[q] \notin {"append", "list", "write", "rename"}
  BY <1>1, AloneInside DEF Critical
<1>6. \A k \in DOMAIN catlist' : db'[catlist'[k]] # NoFile
  <2>1. \A k \in DOMAIN catlist : catlist[k] \in Cats
    BY DEF InductiveInv, TypeOK
  <2> QED BY <1>1, <1>3, <1>4, <2>1 DEF ListInv
<1>7. ASSUME NEW c \in Cats, db'[c] # NoFile, db'[c] # <<>>
      PROVE  \E k \in DOMAIN catlist' : catlist'[k] = c
  <2>1. db[c] # NoFile /\ db[c] # <<>>
    BY <1>4, <1>7
  <2>2. left # "list" /\ \A q \in Proc : pc[q] # "list"
    BY <1>1, <1>5, NoneLeft DEF Critical
  <2> QED BY <1>1, <2>1, <2>2 DEF ListInv
<1>8. db'[cmd'[p].cat] # NoFile
  BY <1>1, <1>3, <1>4
<1> QED BY <1>2, <1>5, <1>6, <1>7, <1>8 DEF ListInv

LEMMA AppendCategoryList ==
  ASSUME InductiveInv, InductiveInv', ListInv, NEW p \in Proc, AppendCategory(p) PROVE ListInv'
<1>1. cmd[p].cat \in Cats /\ pc[p] = "append" /\ UNCHANGED <<catlist, cmd, buf>>
  BY RequestType DEF AppendCategory, InductiveInv, TypeOK
<1>2. pc'[p] = "list" /\ \A q \in Proc : q # p => pc'[q] = pc[q]
  BY DEF AppendCategory, Goto, InductiveInv, TypeOK
<1>3. \A c \in Cats : c # cmd[p].cat => db'[c] = db[c]
  BY <1>1 DEF AppendCategory, InductiveInv, TypeOK
<1>4. db'[cmd[p].cat] # NoFile
  <2>1. PICK g : g = <<Header(cmd[p].cat), Entry(cmd[p].item, cmd[p].val)>>
    OBVIOUS
  <2>2. db[cmd[p].cat] = <<>>
    BY <1>1 DEF InductiveInv, OneOwner, ScratchOwned
  <2>3. Header(cmd[p].cat) \in Line /\ Entry(cmd[p].item, cmd[p].val) \in Line
    BY <1>1, RequestType DEF InductiveInv, TypeOK, Line, Header, Entry
  <2>4. g \in Seq(Line)
    BY <2>1, <2>3
  <2>5. <<>> \o g = g
    BY <2>4, ConcatEmptySeq
  <2>6. db'[cmd[p].cat] = g
    BY <1>1, <2>1, <2>2, <2>5 DEF AppendCategory, InductiveInv, TypeOK
  <2> QED BY <2>4, <2>6, NoFileAssumption
<1>5. \A q \in Proc : q # p => pc[q] \notin {"append", "list", "write", "rename"}
  BY <1>1, AloneInside DEF Critical
<1>6. \A k \in DOMAIN catlist' : db'[catlist'[k]] # NoFile
  <2>1. \A k \in DOMAIN catlist : catlist[k] \in Cats
    BY DEF InductiveInv, TypeOK
  <2> QED BY <1>1, <1>3, <1>4, <2>1 DEF ListInv
<1>7. ASSUME NEW c \in Cats, db'[c] # NoFile, db'[c] # <<>>
      PROVE  \/ \E k \in DOMAIN catlist' : catlist'[k] = c
             \/ \E q \in Proc : pc'[q] = "list" /\ cmd'[q].cat = c
  <2>1. CASE c = cmd[p].cat
    BY <1>1, <1>2, <2>1
  <2>2. CASE c # cmd[p].cat
    <3>1. db[c] # NoFile /\ db[c] # <<>>
      BY <1>3, <1>7, <2>2
    <3>2. left # "list" /\ \A q \in Proc : pc[q] # "list"
      BY <1>1, <1>5, NoneLeft DEF Critical
    <3> QED BY <1>1, <3>1, <3>2 DEF ListInv
  <2> QED BY <2>1, <2>2
<1> QED BY <1>1, <1>2, <1>4, <1>5, <1>6, <1>7 DEF ListInv

LEMMA AppendListList ==
  ASSUME InductiveInv, ListInv, NEW p \in Proc, AppendList(p) PROVE ListInv'
<1>1. /\ cmd[p].cat \in Cats /\ pc[p] = "list" /\ UNCHANGED <<db, cmd, buf>>
      /\ catlist \in Seq(Cats) /\ catlist' = Append(catlist, cmd[p].cat)
  BY RequestType DEF AppendList, InductiveInv, TypeOK
<1>2. pc'[p] = "unlock" /\ \A q \in Proc : q # p => pc'[q] = pc[q]
  BY DEF AppendList, Goto, InductiveInv, TypeOK
<1>3. PICK n \in Nat : n = Len(catlist) /\ DOMAIN catlist = 1 .. n
  BY <1>1
<1>4. /\ DOMAIN catlist' = 1 .. n + 1 /\ catlist'[n + 1] = cmd[p].cat
      /\ \A k \in 1 .. n : catlist'[k] = catlist[k]
  BY <1>1, <1>3
<1>5. \A q \in Proc : q # p => pc[q] \notin {"append", "list", "write", "rename"}
  BY <1>1, AloneInside DEF Critical
<1>6. ASSUME NEW k \in DOMAIN catlist' PROVE db'[catlist'[k]] # NoFile
  <2>1. CASE k = n + 1
    BY <1>1, <1>4, <2>1 DEF ListInv
  <2>2. CASE k \in 1 .. n
    BY <1>1, <1>3, <1>4, <2>2 DEF ListInv
  <2> QED BY <1>4, <2>1, <2>2
<1>7. ASSUME NEW c \in Cats, db'[c] # NoFile, db'[c] # <<>>
      PROVE  \E k \in DOMAIN catlist' : catlist'[k] = c
  <2>1. CASE \E k \in DOMAIN catlist : catlist[k] = c
    BY <1>3, <1>4, <2>1
  <2>2. CASE \E q \in Proc : pc[q] = "list" /\ cmd[q].cat = c
    <3>1. cmd[p].cat = c
      BY <1>5, <2>2
    <3>2. n + 1 \in DOMAIN catlist'
      BY <1>4
    <3> QED BY <1>4, <3>1, <3>2
  <2>3. left # "list"
    BY <1>1, NoneLeft DEF Critical
  <2> QED BY <1>1, <1>7, <2>1, <2>2, <2>3 DEF ListInv
<1> QED BY <1>2, <1>5, <1>6, <1>7 DEF ListInv

LEMMA NextList ==
  ASSUME InductiveInv, InductiveInv', ListInv, [Next]_vars PROVE ListInv'
<1>1. CASE UNCHANGED vars
  BY <1>1 DEF vars, ListInv
<1>2. ASSUME NEW p \in Proc, NEW r \in Request, Start(p, r) PROVE ListInv'
  BY <1>2, StartList
<1>3. ASSUME NEW p \in Proc, Step(p) PROVE ListInv'
  BY <1>3, PlainList, EditOpenList, EditNothingList, EditCloseList, RenameList,
     NewCategoryList, AppendCategoryList, AppendListList DEF Step
<1>4. ASSUME NEW p \in Proc, Terminate(p) \/ Sigkill(p) \/ Respawn(p) PROVE ListInv'
  BY <1>4, TerminateList, SigkillList, PlainList
<1> QED BY <1>1, <1>2, <1>3, <1>4 DEF Next

LEMMA InitListInv == Init => ListInv
<1> SUFFICES ASSUME Init PROVE ListInv
  OBVIOUS
<1>1. \A k \in DOMAIN InitList : InitList[k] \in Cats
  BY InitDbAssumption
<1>2. db = InitDb /\ catlist = InitList /\ \A p \in Proc : pc[p] = "idle"
  BY DEF Init
<1> QED BY <1>1, <1>2, InitListAssumption DEF ListInv

\* the gaps of a file are no part of its section
LEMMA TightSection ==
  ASSUME NEW c \in Cats, NEW f \in Content, f # <<>>, WellFormed(c, f)
  PROVE  SectionOf(Tight(f), c) = SectionOf(f, c)
<1>1. PICK g \in Content : g = Tight(f) /\ WellFormed(c, g) /\ Len(g) = Len(f)
                          /\ \A j \in 1 .. Len(f) : Alike(g[j], f[j])
  BY ClosedLemma, ClosedWF DEF Tight
<1>2. Len(f) \in Nat \ {0} /\ g # <<>>
  BY <1>1, EntryLines
<1>3. /\ SectionOf(g, c) = Sec(g) /\ SectionOf(f, c) = Sec(f)
  BY <1>1, <1>2, SectionIs
<1>4. \A k \in 1 .. Len(f) - 1 : k + 1 \in 1 .. Len(f) /\ f[k + 1].kind = "entry"
  <2>1. \A k \in 2 .. Len(f) : f[k].kind = "entry"
    BY EntryLines
  <2>2. \A k \in 1 .. Len(f) - 1 : k + 1 \in 1 .. Len(f) /\ k + 1 \in 2 .. Len(f)
    BY <1>2
  <2> QED BY <2>1, <2>2
<1>5. \A k \in 1 .. Len(f) - 1 : g[k + 1].item = f[k + 1].item /\ g[k + 1].val = f[k + 1].val
  BY <1>1, <1>4 DEF Alike
<1>6. Sec(g) = Sec(f)
  BY <1>1, <1>5 DEF Sec
<1> QED BY <1>1, <1>3, <1>6

LEMMA SaveIsWhole == ASSUME InductiveInv, ListInv PROVE SaveLosesNothing
<1> SUFFICES ASSUME left # "list", \A p \in Proc : pc[p] # "list", NEW c \in Cats
             PROVE  SectionOf(SplitFile(Merged(catlist, db), c), c) = SectionOf(db[c], c)
  BY DEF SaveLosesNothing
<1>1. Listable(catlist, db)
  <2>1. catlist \in Seq(Cats) /\ db \in [Cats -> File]
    BY DEF InductiveInv, TypeOK
  <2>2. ASSUME NEW k \in DOMAIN catlist
        PROVE  db[catlist[k]] \in Content /\ WellFormed(catlist[k], db[catlist[k]])
    <3>1. catlist[k] \in Cats /\ db[catlist[k]] # NoFile
      BY <2>1 DEF ListInv
    <3> QED BY <2>1, <3>1 DEF File, InductiveInv, CategoryFilesIntact
  <2> QED BY <2>1, <2>2 DEF Listable
<1>2. db[c] \in File /\ WellFormed(c, db[c])
  BY DEF InductiveInv, TypeOK, CategoryFilesIntact
<1>3. CASE db[c] = NoFile \/ db[c] = <<>>
  <2>1. SplitFile(Merged(catlist, db), c) = NoFile
    BY <1>1, <1>3, MergedSplits
  <2>2. SectionOf(NoFile, c) = NoFile
    BY DEF SectionOf
  <2>3. db[c] = <<>> => SectionOf(db[c], c) = NoFile
    <3>1. <<>> \in Content
      BY DEF Content
    <3> QED BY <1>2, <3>1, SectionIs
  <2> QED BY <1>3, <2>1, <2>2, <2>3
<1>4. CASE db[c] # NoFile /\ db[c] # <<>>
  <2>1. db[c] \in Content /\ \E k \in DOMAIN catlist : catlist[k] = c
    BY <1>2, <1>4 DEF File, ListInv
  <2>2. SplitFile(Merged(catlist, db), c) = Tight(db[c])
    BY <1>1, <1>2, <1>4, <2>1, MergedSplits
  <2> QED BY <1>2, <1>4, <2>1, <2>2, TightSection
<1> QED BY <1>3, <1>4

\* Saving and booting loses nothing: whatever the commands of any number of
\* processes have done, MergeToRAM of the listed category files followed by
\* splitDB of the image gives every category its entries back, unless a SIGKILL
\* struck between the file of a new category and the list.
THEOREM NothingIsLost == Spec => []SaveLosesNothing
<1>1. Init => ListInv
  BY InitListInv
<1>2. InductiveInv /\ InductiveInv' /\ ListInv /\ [Next]_vars => ListInv'
  BY NextList
<1>3. InductiveInv /\ ListInv => SaveLosesNothing
  BY SaveIsWhole
<1> QED
  BY <1>1, <1>2, <1>3, Invariance, PTL DEF Spec

-----------------------------------------------------------------------------
(* Images in the RAM and in the flash *)

\* the files and the streams, whoever holds the lock file: the second unlink
\* of MergeToRAM may have taken it from a command
FilesTyped ==
  /\ db \in [Cats -> File] /\ stemp \in File /\ catlist \in Seq(Cats)
  /\ pc \in [Proc -> PcValues] /\ cmd \in [Proc -> Request]
  /\ buf \in [Proc -> File] /\ fd \in [Proc -> FdValues]
  /\ \A p \in Proc : pc[p] = "write" => buf[p] # NoFile
  /\ \A p \in Proc : fd[p] = "stemp" => stemp # NoFile
  /\ \A p \in Proc : fd[p] \in Cats => db[fd[p]] # NoFile
  /\ \A p \in Proc : pc[p] = "append" => db[cmd[p].cat] # NoFile

Whole(im) == im \in Seq(ImageLine) /\ CompleteImage(im)

\* one process at a time is in kd_updateFlash
OneSaver == \A p, q \in Proc : job[p] # "none" /\ job[q] # "none" => p = q

\* kd_updateFlash in one process: /tmp/new_one is empty until the merge is
\* flushed to it, nk_sysconfig.temp until the copy is
ImageInv ==
  /\ job \in [Proc -> Jobs] /\ mlist \in [Proc -> Seq(Cats)]
  /\ mbuf \in [Proc -> Seq(Line)]
  /\ mfd = [p \in Proc |-> IF job[p] = "merge" THEN "new_one" ELSE "none"]
  /\ cfd = [p \in Proc |-> IF job[p] = "cpwrite" THEN "temp" ELSE "none"]
  /\ OneSaver
  /\ \A p \in Proc : job[p] = "merge" => newone = <<>>
  /\ \A p \in Proc : job[p] = "install" => Whole(newone)
  /\ \A p \in Proc : job[p] = "cpwrite" => flashtmp = <<>>
  /\ \A p \in Proc : job[p] = "mv" => Whole(flashtmp)
  /\ Whole(ram) /\ Whole(flash)

(* Edits of a file that need not be well formed *)

LEMMA FindRange ==
  ASSUME NEW f \in Content, NEW c, find_category(f, c) # 0
  PROVE  find_category(f, c) \in 1 .. Len(f)
<1> DEFINE H == {k \in 1 .. Len(f) : IsHeader(f[k], c)}
<1>1. find_category(f, c) = IF H # {} THEN Min(H) ELSE 0
  BY DEF find_category, SelectInSeq
<1>2. H \subseteq Nat /\ H # {}
  BY <1>1
<1>3. Min(H) \in H
  <2> HIDE DEF H
  <2> QED BY <1>2, MinType
<1> QED BY <1>1, <1>2, <1>3

LEMMA SectionRange ==
  ASSUME NEW f \in Content, NEW pos \in 1 .. Len(f)
  PROVE  section_end(f, pos) \in pos .. Len(f)
<1> DEFINE N == {k \in pos + 1 .. Len(f) : f[k].kind = "header"}
<1>1. section_end(f, pos) = LET next == IF N # {} THEN Min(N) ELSE 0
                            IN  IF next = 0 THEN Len(f) ELSE next - 1
  BY DEF section_end, SelectInSubSeq
<1>2. Len(f) \in Nat
  BY DEF Content
<1>3. CASE N = {}
  BY <1>1, <1>2, <1>3
<1>4. CASE N # {}
  <2>1. N \subseteq Nat
    BY <1>2
  <2>2. Min(N) \in N
    <3> HIDE DEF N
    <3> QED BY <1>4, <2>1, MinType
  <2> QED BY <1>1, <1>2, <1>4, <2>2
<1> QED BY <1>3, <1>4

LEMMA NthRange ==
  ASSUME NEW f \in Content, NEW pos \in 1 .. Len(f), NEW i \in Items, NEW n \in Nat \ {0},
         nth_item(f, pos, i, n) # 0
  PROVE  nth_item(f, pos, i, n) \in 1 .. Len(f) /\ f[nth_item(f, pos, i, n)].item = i
<1> DEFINE K == {k \in (pos + 1) .. Len(f) : IsEntry(f[k], i)}
<1>1. nth_item(f, pos, i, n) = nth(K, n)
  BY DEF nth_item
<1>2. nth(K, n) \in K
  <2> HIDE DEF K
  <2> QED BY <1>1, NthLemma
<1> QED BY <1>1, <1>2 DEF IsEntry

LEMMA LastRange ==
  ASSUME NEW f \in Content, NEW pos \in 1 .. Len(f), NEW i
  PROVE  find_last_item(f, pos, i) \in 1 .. Len(f)
<1>1. PICK e \in Nat : e = section_end(f, pos) /\ pos <= e /\ e <= Len(f)
  BY SectionRange DEF Content
<1> DEFINE S == {k \in (pos + 1) .. e : IsEntry(f[k], i)}
<1>2. find_last_item(f, pos, i) = IF S = {} THEN pos ELSE Max(S)
  BY <1>1 DEF find_last_item
<1>3. S \subseteq 0 .. e
  OBVIOUS
<1>4. S # {} => Max(S) \in S
  <2> HIDE DEF S
  <2> QED BY <1>3, MaxType
<1>5. S # {} => Max(S) \in pos + 1 .. e
  BY <1>4
<1> HIDE DEF S
<1> QED BY <1>1, <1>2, <1>5

LEMMA InsertLoose ==
  ASSUME NEW f \in Content, NEW pos \in 1 .. Len(f), NEW i \in Items, NEW v \in Values
  PROVE  insert_item(f, pos, i, v) \in Content
<1>1. PICK e \in Line : e = Entry(i, v)
  BY DEF Entry, Line
<1>2. PICK q \in 1 .. Len(f) + 1 : q = pos + 1
  BY DEF Content
<1>3. PICK h \in Seq(Line) : h = Closed(f, pos + 1) /\ Len(h) = Len(f)
  BY ClosedLemma DEF Content
<1>4. InsertAt(h, q, e) \in Seq(Line)
  BY <1>3, InsertAtLemma
<1> QED BY <1>1, <1>2, <1>3, <1>4 DEF insert_item, Content

LEMMA ReplaceLoose ==
  ASSUME NEW f \in Content, NEW k \in 1 .. Len(f), f[k].item \in Items, NEW v \in Values
  PROVE  replace_item(f, k, v) \in Content
<1>1. PICK e \in Line : e = Entry(f[k].item, v)
  BY DEF Entry, Line
<1>2. PICK h \in Seq(Line) : h = Closed(f, k) /\ Len(h) = Len(f)
  BY ClosedLemma DEF Content
<1>3. [h EXCEPT ![k] = e] \in Seq(Line)
  BY <1>2
<1> QED BY <1>1, <1>2, <1>3 DEF replace_item, ReplaceAt, Content

LEMMA RemoveLoose ==
  ASSUME NEW f \in Content, NEW k \in 2 .. Len(f)
  PROVE  remove_item(f, k) \in Content
<1> DEFINE l == [f[k - 1] EXCEPT !.gap = f[k].gap \/ k = Len(f)]
           w == ReplaceAt(Closed(f, k), k - 1, l)
<1>1. w \in Content /\ Len(w) = Len(f)
  BY LeftLine
<1>2. remove_item(f, k) = RemoveAt(w, k)
  BY DEF remove_item
<1> HIDE DEF w
<1>3. k \in 1 .. Len(w) /\ w \in Seq(Line)
  BY <1>1 DEF Content
<1> QED BY <1>2, <1>3, RemoveAtLemma DEF Content

LEMMA RemoveCategoryLoose ==
  ASSUME NEW f \in Content, NEW k \in 1 .. Len(f)
  PROVE  remove_category(f, k) \in Content
<1>1. PICK e \in Nat : e = section_end(f, k) /\ k <= e /\ e <= Len(f)
  BY SectionRange DEF Content
<1>2. Len(f) \in Nat /\ f \in Seq(Line)
  BY DEF Content
<1>3. SubSeq(f, 1, k - 1) \in Seq(Line) /\ SubSeq(f, e + 1, Len(f)) \in Seq(Line)
  <2>1. \A j \in 1 .. k - 1 : f[j] \in Line
    BY <1>2
  <2>2. \A j \in e + 1 .. Len(f) : f[j] \in Line
    BY <1>1, <1>2
  <2> QED BY <1>1, <1>2, <2>1, <2>2, SubSeqProperties
<1> QED BY <1>1, <1>3 DEF remove_category, Content

LEMMA EditLoose ==
  ASSUME NEW r \in Command, NEW f \in Content, r.op \in EditOps,
         r.op = "n" => find_category(f, r.cat) # 0,
         Edit(f, r) # NoFile
  PROVE  Edit(f, r) \in Content
<1>1. /\ r.cat \in Cats /\ r.item \in Items /\ r.val \in Values
      /\ r.num \in Nat \ {0} /\ IdItem \in Items
  BY NumAssumption, ItemAssumption DEF Command
<1>2. PICK h : h = find_category(f, r.cat)
  OBVIOUS
<1>3. h # 0 => h \in 1 .. Len(f)
  BY <1>2, FindRange
<1>4. CASE IsAdd(r)
  <2>1. Edit(f, r) = add_config(f, r)
    BY <1>4 DEF Edit, IsAdd
  <2>2. PICK at : at = find_last_item(f, h, r.item)
    OBVIOUS
  <2>3. h # 0 /\ Edit(f, r) = insert_item(Closed(f, at), at, r.item, r.val)
    BY <1>2, <2>1, <2>2 DEF add_config
  <2>4. at \in 1 .. Len(f)
    BY <1>3, <2>2, <2>3, LastRange
  <2>5. PICK g \in Content : g = Closed(f, at) /\ Len(g) = Len(f)
    BY ClosedLemma
  <2> QED BY <1>1, <2>3, <2>4, <2>5, InsertLoose
<1>5. CASE r.op \in {"w", "m"} /\ ~IsAdd(r)
  <2>1. PICK n \in Nat \ {0} : n = Ordinal(r)
    BY <1>1 DEF Ordinal
  <2>2. PICK k : k = nth_item(f, h, r.item, n)
    OBVIOUS
  <2>3. Edit(f, r) = set_config(f, r)
    BY <1>5 DEF Edit
  <2>4. h # 0 /\ k # 0 /\ Edit(f, r) = replace_item(f, k, r.val)
    BY <1>2, <2>1, <2>2, <2>3 DEF set_config
  <2>5. k \in 1 .. Len(f) /\ f[k].item = r.item
    BY <1>1, <1>3, <2>2, <2>4, NthRange
  <2> QED BY <1>1, <2>4, <2>5, ReplaceLoose
<1>6. CASE r.op = "n"
  <2>1. Edit(f, r) = new_config(f, r)
    BY <1>6 DEF Edit, IsAdd
  <2>2. h # 0 /\ Edit(f, r) = insert_item(f, section_end(f, h), r.item, r.val)
    BY <1>2, <1>6, <2>1 DEF new_config
  <2>3. section_end(f, h) \in h .. Len(f)
    BY <1>3, <2>2, SectionRange
  <2>4. section_end(f, h) \in 1 .. Len(f)
    BY <1>3, <2>2, <2>3 DEF Content
  <2> QED BY <1>1, <2>2, <2>4, InsertLoose
<1>7. CASE r.op = "D"
  <2>1. Edit(f, r) = delete_config(f, r)
    BY <1>7 DEF Edit, IsAdd
  <2>2. h # 0 /\ Edit(f, r) = remove_category(f, h)
    BY <1>2, <1>7, <2>1 DEF delete_config
  <2> QED BY <1>3, <2>2, RemoveCategoryLoose
<1>8. CASE r.op = "d"
  <2>1. PICK i \in Items : i = IF r.cat \in ListCats THEN IdItem ELSE r.item
    BY <1>1
  <2>2. Edit(f, r) = delete_config(f, r)
    BY <1>8 DEF Edit, IsAdd
  <2>3. /\ move_to_item(f, r.cat, i, r.num) # 0
        /\ Edit(f, r) = remove_item(f, move_to_item(f, r.cat, i, r.num))
    BY <1>8, <2>1, <2>2 DEF delete_config
  <2> DEFINE K == {j \in (h + 1) .. section_end(f, h) : IsEntry(f[j], i) /\ ~f[j - 1].gap}
             k == nth(K, r.num)
  <2>4. h # 0 /\ k # 0 /\ move_to_item(f, r.cat, i, r.num) = k
    BY <1>2, <2>3 DEF move_to_item, find_postion
  <2>5. k \in K
    <3> HIDE DEF K
    <3> QED BY <2>4, NthLemma
  <2>6. h \in 1 .. Len(f) /\ section_end(f, h) \in h .. Len(f) /\ Len(f) \in Nat
    BY <1>3, <2>4, SectionRange DEF Content
  <2>7. k \in (h + 1) .. section_end(f, h)
    BY <2>5
  <2> HIDE DEF k
  <2>8. k \in 2 .. Len(f)
    BY <2>6, <2>7
  <2> QED BY <2>3, <2>4, <2>8, RemoveLoose
<1> QED BY <1>4, <1>5, <1>6, <1>7, <1>8 DEF EditOps

LEMMA OverlayLoose ==
  ASSUME NEW f \in Content, NEW g \in Content
  PROVE  Overlay(f, g) \in Content
<1>1. Len(f) \in Nat /\ Len(g) \in Nat /\ f \in Seq(Line) /\ g \in Seq(Line)
  BY DEF Content
<1>2. SubSeq(f, Len(g) + 1, Len(f)) \in Seq(Line)
  <2>1. \A j \in Len(g) + 1 .. Len(f) : f[j] \in Line
    BY <1>1
  <2> QED BY <1>1, <2>1, SubSeqProperties
<1> QED BY <1>1, <1>2 DEF Overlay, Content

(* The files under the commands *)

LEMMA TypedCommand ==
  ASSUME FilesTyped, NEW p \in Proc
  PROVE  cmd[p] \in Command /\ cmd[p].cat \in Cats /\ db[cmd[p].cat] \in File
  BY RequestType DEF FilesTyped

\* a step of p that leaves the files alone and opens nothing
Aside(p) ==
  /\ UNCHANGED <<db, stemp, catlist>>
  /\ pc' \in [Proc -> PcValues] /\ cmd' \in [Proc -> Request]
  /\ buf' \in [Proc -> File] /\ fd' \in [Proc -> FdValues]
  /\ \A q \in Proc : q # p => pc'[q] = pc[q] /\ cmd'[q] = cmd[q] /\ buf'[q] = buf[q]
  /\ \A q \in Proc : fd'[q] \in {fd[q], "none"}
  /\ pc'[p] \notin {"write", "append"}

LEMMA AsideTyped == ASSUME FilesTyped, NEW p \in Proc, Aside(p) PROVE FilesTyped'
<1>1. "none" \notin Cats
  BY FdAssumption
<1> QED BY <1>1 DEF FilesTyped, Aside

LEMMA StartTyped ==
  ASSUME FilesTyped, NEW p \in Proc, NEW r \in Request, Start(p, r) PROVE FilesTyped'
<1>1. Aside(p)
  BY DEF FilesTyped, Aside, Start, Goto, PcValues, Busy, files
<1> QED BY <1>1, AsideTyped

LEMMA QuietStepTyped ==
  ASSUME FilesTyped, NEW p \in Proc,
         \/ Respawn(p) \/ Acquire(p) \/ Unlock(p) \/ PrintNoFlag(p) \/ PrintSetting(p)
         \/ EditNoFile(p) \/ EditNothing(p)
  PROVE  FilesTyped'
<1> USE NoCmdType DEF FilesTyped, Aside, Goto, PcValues, Busy, Critical, File, files
<1>1. Respawn(p) => Aside(p)
  BY DEF Respawn
<1>2. Acquire(p) => Aside(p)
  BY DEF Acquire
<1>3. Unlock(p) => Aside(p)
  BY DEF Unlock
<1>4. PrintNoFlag(p) => Aside(p)
  BY DEF PrintNoFlag
<1>5. PrintSetting(p) => Aside(p)
  BY DEF PrintSetting
<1>6. EditNoFile(p) => Aside(p)
  BY DEF EditNoFile
<1>7. EditNothing(p) => Aside(p)
  BY DEF EditNothing
<1> QED BY <1>1, <1>2, <1>3, <1>4, <1>5, <1>6, <1>7, AsideTyped

LEMMA EditOpenTyped ==
  ASSUME FilesTyped, NEW p \in Proc, EditOpen(p) PROVE FilesTyped'
<1>1. PICK r \in Command : r = cmd[p] /\ r.cat \in Cats /\ db[r.cat] \in File
  BY TypedCommand
<1>2. PICK f : f = db[r.cat]
  OBVIOUS
<1>3. PICK new : new = Edit(f, r)
  OBVIOUS
<1>4. /\ r.op \in EditOps /\ f # NoFile /\ (r.op = "n" => find_category(f, r.cat) # 0)
      /\ new # NoFile /\ pc[p] = "cs"
  BY <1>1, <1>2, <1>3 DEF EditOpen, Edits
<1>5. new \in Content
  BY <1>1, <1>2, <1>3, <1>4, EditLoose DEF File
<1>6. /\ UNCHANGED <<db, catlist, cmd>> /\ stemp' = <<>>
      /\ fd' = [fd EXCEPT ![p] = "stemp"]
      /\ buf' = [buf EXCEPT ![p] = new]
      /\ pc' = [pc EXCEPT ![p] = "write"]
  BY <1>1, <1>2, <1>3 DEF EditOpen, Goto
<1>7. <<>> \in Content /\ <<>> # NoFile /\ new \in File
  <2>1. <<>> \in Seq(Line)
    OBVIOUS
  <2> QED BY <1>5, <2>1, NoFileAssumption DEF Content, File
<1>8. /\ pc' \in [Proc -> PcValues] /\ buf' \in [Proc -> File] /\ fd' \in [Proc -> FdValues]
      /\ stemp' \in File
  BY <1>6, <1>7 DEF FilesTyped, PcValues, Busy, Critical, FdValues, File
<1>9. "stemp" \notin Cats
  BY FdAssumption
<1> QED BY <1>4, <1>6, <1>7, <1>8, <1>9 DEF FilesTyped

LEMMA EditCloseTyped ==
  ASSUME FilesTyped, NEW p \in Proc, EditClose(p) PROVE FilesTyped'
<1>0. /\ pc[p] = "write" /\ buf[p] # NoFile /\ buf[p] \in Content
  BY DEF EditClose, FilesTyped, File
<1>1. /\ UNCHANGED <<catlist, cmd, buf>>
      /\ fd' = [fd EXCEPT ![p] = "none"] /\ pc' = [pc EXCEPT ![p] = "rename"]
  BY DEF EditClose, Goto
<1>2. "none" \notin Cats /\ "stemp" \notin Cats
  BY FdAssumption
<1>3. pc' \in [Proc -> PcValues] /\ fd' \in [Proc -> FdValues]
  BY <1>1 DEF FilesTyped, PcValues, Busy, Critical, FdValues
<1>4. /\ db' \in [Cats -> File] /\ stemp' \in File
      /\ (stemp # NoFile => stemp' # NoFile)
      /\ \A c \in Cats : db[c] # NoFile => db'[c] # NoFile
  <2>1. CASE fd[p] = "stemp"
    <3>1. stemp \in Content /\ stemp' = Overlay(stemp, buf[p]) /\ db' = db
      BY <2>1 DEF EditClose, FilesTyped, File
    <3>2. stemp' \in Content
      BY <1>0, <3>1, OverlayLoose
    <3> QED BY <3>1, <3>2, NoFileAssumption DEF FilesTyped, File, Content
  <2>2. CASE fd[p] \in Cats
    <3>1. PICK c \in Cats : c = fd[p]
      BY <2>2
    <3>2. PICK g : g = Overlay(db[c], buf[p])
      OBVIOUS
    <3>3. db[c] \in Content /\ db' = [db EXCEPT ![c] = g] /\ stemp' = stemp
      BY <1>2, <3>1, <3>2 DEF EditClose, FilesTyped, File
    <3>4. g \in Content
      BY <1>0, <3>2, <3>3, OverlayLoose
    <3> QED BY <3>3, <3>4, NoFileAssumption DEF FilesTyped, File, Content
  <2>3. CASE fd[p] # "stemp" /\ fd[p] \notin Cats
    BY <2>3 DEF EditClose, FilesTyped
  <2> QED BY <2>1, <2>2, <2>3
<1>5. \A q \in Proc : cmd[q].cat \in Cats
  BY TypedCommand
<1> QED BY <1>1, <1>2, <1>3, <1>4, <1>5 DEF FilesTyped

LEMMA RenameTyped ==
  ASSUME FilesTyped, NEW p \in Proc, Rename(p) PROVE FilesTyped'
<1>1. PICK c \in Cats : c = cmd[p].cat
  BY TypedCommand
<1>2. pc' = [pc EXCEPT ![p] = "unlock"] /\ UNCHANGED <<catlist, cmd, buf>>
  BY DEF Rename, Goto
<1>3. pc' \in [Proc -> PcValues]
  BY <1>2 DEF FilesTyped, PcValues, Busy, Critical
<1>4. \A q \in Proc : cmd[q].cat \in Cats
  BY TypedCommand
<1>5. CASE stemp = NoFile
  <2>1. UNCHANGED <<db, stemp, fd>>
    BY <1>5 DEF Rename
  <2> QED BY <1>2, <1>3, <2>1 DEF FilesTyped
<1>6. CASE stemp # NoFile
  <2>1. /\ db' = [db EXCEPT ![c] = stemp] /\ stemp' = NoFile
        /\ fd' = [q \in Proc |-> IF fd[q] = "stemp" THEN c
                                 ELSE IF fd[q] = c THEN "gone" ELSE fd[q]]
    BY <1>1, <1>6 DEF Rename
  <2>2. db' \in [Cats -> File] /\ \A d \in Cats : db'[d] = IF d = c THEN stemp ELSE db[d]
    BY <2>1 DEF FilesTyped
  <2>3. "gone" \notin Cats /\ "stemp" \notin Cats
    BY FdAssumption
  <2>4. fd' \in [Proc -> FdValues] /\ \A q \in Proc : fd'[q] # "stemp"
    BY <2>1, <2>3 DEF FilesTyped, FdValues
  <2>5. \A q \in Proc : fd'[q] \in Cats => db'[fd'[q]] # NoFile
    BY <1>6, <2>1, <2>2, <2>3 DEF FilesTyped
  <2>6. \A q \in Proc : pc'[q] = "append" => db'[cmd'[q].cat] # NoFile
    BY <1>2, <1>4, <1>6, <2>2 DEF FilesTyped
  <2>7. \A q \in Proc : pc'[q] = "write" => buf'[q] # NoFile
    BY <1>2 DEF FilesTyped
  <2> QED BY <1>2, <1>3, <2>1, <2>2, <2>4, <2>5, <2>6, <2>7 DEF FilesTyped, File
<1> QED BY <1>5, <1>6

LEMMA NewCategoryTyped ==
  ASSUME FilesTyped, NEW p \in Proc, NewCategory(p) PROVE FilesTyped'
<1>1. PICK c \in Cats : c = cmd[p].cat
  BY TypedCommand
<1>2. /\ pc' = [pc EXCEPT ![p] = "append"] /\ UNCHANGED <<stemp, catlist, cmd, buf, fd>>
      /\ db' = [db EXCEPT ![c] = IF @ = NoFile THEN <<>> ELSE @]
  BY <1>1 DEF NewCategory, Goto
<1>3. <<>> \in Content /\ <<>> # NoFile
  <2>1. <<>> \in Seq(Line)
    OBVIOUS
  <2> QED BY <2>1, NoFileAssumption DEF Content
<1>4. pc' \in [Proc -> PcValues]
  BY <1>2 DEF FilesTyped, PcValues, Busy, Critical
<1>5. \A d \in Cats : db'[d] = IF d = c /\ db[d] = NoFile THEN <<>> ELSE db[d]
  BY <1>2 DEF FilesTyped
<1>6. db' \in [Cats -> File]
  BY <1>2, <1>3 DEF FilesTyped, File
<1>7. \A q \in Proc : cmd[q].cat \in Cats
  BY TypedCommand
<1>8. \A q \in Proc : pc'[q] = "append" => db'[cmd'[q].cat] # NoFile
  <2> TAKE q \in Proc
  <2>1. CASE q = p
    BY <1>1, <1>2, <1>3, <1>5, <2>1
  <2>2. CASE q # p
    BY <1>2, <1>3, <1>5, <1>7, <2>2 DEF FilesTyped
  <2> QED BY <2>1, <2>2
<1>9. \A q \in Proc : fd'[q] \in Cats => db'[fd'[q]] # NoFile
  BY <1>2, <1>3, <1>5 DEF FilesTyped
<1> QED BY <1>2, <1>4, <1>6, <1>8, <1>9 DEF FilesTyped

LEMMA AppendCategoryTyped ==
  ASSUME FilesTyped, NEW p \in Proc, AppendCategory(p) PROVE FilesTyped'
<1>1. PICK c \in Cats : c = cmd[p].cat
  BY TypedCommand
<1>2. PICK g : g = <<Header(c), Entry(cmd[p].item, cmd[p].val)>>
  OBVIOUS
<1>3. g \in Seq(Line)
  <2>1. cmd[p].item \in Items /\ cmd[p].val \in Values
    BY TypedCommand DEF Command
  <2>2. Header(c) \in Line /\ Entry(cmd[p].item, cmd[p].val) \in Line
    BY <2>1 DEF Header, Entry, Line
  <2> QED BY <1>2, <2>2
<1>4. db[c] \in Seq(Line)
  BY <1>1 DEF AppendCategory, FilesTyped, File, Content
<1>5. PICK h \in Seq(Line) : h = db[c] \o g
  BY <1>3, <1>4, ConcatProperties
<1>6. /\ pc' = [pc EXCEPT ![p] = "list"] /\ UNCHANGED <<stemp, catlist, cmd, buf, fd>>
      /\ db' = [db EXCEPT ![c] = h]
  BY <1>1, <1>2, <1>5 DEF AppendCategory, Goto
<1>7. h \in File /\ h # NoFile
  BY <1>5, NoFileAssumption DEF File, Content
<1>8. pc' \in [Proc -> PcValues]
  BY <1>6 DEF FilesTyped, PcValues, Busy, Critical
<1>9. db' \in [Cats -> File] /\ \A d \in Cats : db'[d] = IF d = c THEN h ELSE db[d]
  BY <1>6, <1>7 DEF FilesTyped
<1>10. \A q \in Proc : cmd[q].cat \in Cats
  BY TypedCommand
<1> QED BY <1>6, <1>7, <1>8, <1>9, <1>10 DEF FilesTyped

LEMMA AppendListTyped ==
  ASSUME FilesTyped, NEW p \in Proc, AppendList(p) PROVE FilesTyped'
<1>1. PICK c \in Cats : c = cmd[p].cat
  BY TypedCommand
<1>2. /\ pc' = [pc EXCEPT ![p] = "unlock"] /\ UNCHANGED <<db, stemp, cmd, buf, fd>>
      /\ catlist' = Append(catlist, c)
  BY <1>1 DEF AppendList, Goto
<1>3. pc' \in [Proc -> PcValues] /\ catlist' \in Seq(Cats)
  BY <1>2 DEF FilesTyped, PcValues, Busy, Critical
<1> QED BY <1>2, <1>3 DEF FilesTyped

LEMMA RunTyped ==
  ASSUME FilesTyped, NEW p \in Proc, RunCommand(p) PROVE FilesTyped'
<1>1. CASE Step(p)
  BY <1>1, QuietStepTyped, EditOpenTyped, EditCloseTyped, RenameTyped, NewCategoryTyped,
     AppendCategoryTyped, AppendListTyped DEF Step
<1>2. CASE Respawn(p) \/ \E r \in Request : Start(p, r)
  BY <1>2, QuietStepTyped, StartTyped
<1> QED BY <1>1, <1>2 DEF RunCommand

(* Complete images *)

LEMMA WholeMerge ==
  ASSUME NEW s \in Seq(Line) PROVE Whole(Append(s, Trailer))
<1>1. PICK n \in Nat : n = Len(s)
  OBVIOUS
<1>2. PICK im : im = Append(s, Trailer)
  OBVIOUS
<1>3. s \in Seq(ImageLine) /\ Trailer \in ImageLine
  BY DEF ImageLine
<1>4. im \in Seq(ImageLine) /\ Len(im) = n + 1 /\ im[n + 1] = Trailer
  BY <1>1, <1>2, <1>3
<1>5. \A k \in 1 .. n : im[k] = s[k] /\ s[k] \in Line
  BY <1>1, <1>2
<1>6. Trailer \notin Line
  BY DEF Trailer, Line
<1> DEFINE T == {k \in 1 .. Len(im) : im[k] = Trailer}
<1>7. T = {n + 1}
  BY <1>4, <1>5, <1>6
<1>8. SelectInSeq(im, LAMBDA l : l = Trailer) = IF T # {} THEN Min(T) ELSE 0
  BY DEF SelectInSeq
<1>9. Min(T) = n + 1
  <2> HIDE DEF T
  <2>1. T \subseteq Nat /\ T # {}
    BY <1>7
  <2> QED BY <1>7, <2>1, MinType
<1>10. SelectInSeq(im, LAMBDA l : l = Trailer) = Len(im)
  BY <1>4, <1>7, <1>8, <1>9
<1>11. im # <<>> /\ im # NoFile
  <2>1. im # <<>>
    BY <1>4
  <2>2. im # NoFile
    BY <1>4, ImageAssumption
  <2> QED BY <2>1, <2>2
<1> QED BY <1>2, <1>4, <1>10, <1>11 DEF Whole, CompleteImage

LEMMA OverlayNothing ==
  ASSUME NEW S, NEW f \in Seq(S) PROVE Overlay(<<>>, f) = f
<1>1. Len(f) \in Nat /\ <<>> \in Seq(S) /\ Len(<<>>) = 0
  OBVIOUS
<1>2. SubSeq(<<>>, Len(f) + 1, 0) = <<>>
  BY <1>1, SubSeqEmpty
<1>3. f \o <<>> = f
  BY ConcatEmptySeq
<1> QED BY <1>1, <1>2, <1>3 DEF Overlay

LEMMA FlatLines ==
  ASSUME NEW s \in Seq(Content) PROVE FlattenSeq(s) \in Seq(Line)
<1>1. PICK N \in Nat : N = Len(s) /\ \A k \in 1 .. N : s[k] \in Seq(Line)
  BY DEF Content
<1>2. CASE N = 0
  <2>1. Len(s) = 0
    BY <1>1, <1>2
  <2>2. s = <<>>
    BY <2>1
  <2> QED BY <2>2 DEF FlattenSeq
<1>3. CASE N # 0
  <2>1. PICK F : Flattens(F, s, N) /\ FlattenSeq(s) = F[N]
    BY <1>1, <1>3, FlattenIs
  <2>2. \A n \in 1 .. N : F[n] = IF n = 1 THEN s[n] ELSE F[n - 1] \o s[n]
    <3>1. PICK G : G = [i \in 1 .. N |-> IF i = 1 THEN s[i] ELSE F[i - 1] \o s[i]]
      OBVIOUS
    <3>2. F = G
      BY <2>1, <3>1, Zenon DEF Flattens
    <3>3. \A n \in 1 .. N : G[n] = IF n = 1 THEN s[n] ELSE F[n - 1] \o s[n]
      BY <3>1
    <3> QED BY <3>2, <3>3
  <2> DEFINE T == {n \in 1 .. N : F[n] \notin Seq(Line)}
  <2>3. T = {}
    <3>1. SUFFICES ASSUME T # {} PROVE FALSE
      OBVIOUS
    <3>2. PICK m \in T : \A k \in T : m <= k
      <4>1. T \subseteq Nat
        OBVIOUS
      <4> HIDE DEF T
      <4> QED BY <3>1, <4>1, LeastNat
    <3>3. m \in 1 .. N /\ s[m] \in Seq(Line) /\ F[m] \notin Seq(Line)
      BY <1>1, <3>2
    <3>4. m # 1 /\ F[m] = F[m - 1] \o s[m]
      BY <2>2, <3>3
    <3>5. m - 1 \in 1 .. N /\ m - 1 \notin T
      BY <3>2, <3>3, <3>4
    <3>6. F[m - 1] \in Seq(Line)
      BY <3>5
    <3> QED BY <3>3, <3>4, <3>6, ConcatProperties
  <2>4. F[N] \in Seq(Line)
    BY <1>3, <2>3
  <2> QED BY <2>1, <2>4
<1> QED BY <1>2, <1>3

LEMMA FlashInitInv == FlashInit => FilesTyped /\ ImageInv
<1> SUFFICES ASSUME FlashInit PROVE FilesTyped /\ ImageInv
  OBVIOUS
<1>1. FilesTyped
  <2>1. "none" \notin Cats
    BY FdAssumption
  <2> QED BY <2>1, InitDbAssumption, NoCmdType
          DEF FlashInit, Init, FilesTyped, PcValues, FdValues, File
<1>2. PICK L \in Seq(Cats) : L = InitList
  BY InitDbAssumption
<1>3. PICK s : s = [k \in DOMAIN L |-> InitDb[L[k]]]
  OBVIOUS
<1>4. s \in Seq(Content)
  <2>1. PICK N \in Nat : N = Len(L) /\ DOMAIN L = 1 .. N
    OBVIOUS
  <2>2. \A k \in 1 .. N : InitDb[L[k]] \in Content
    BY <1>2, <2>1, InitDbAssumption, InitListAssumption DEF File
  <2> QED BY <1>3, <2>1, <2>2
<1>5. PICK t \in Seq(Line) : t = FlattenSeq(s)
  BY <1>4, FlatLines
<1>6. Merged(InitList, InitDb) = t \o <<Trailer>>
  BY <1>2, <1>3, <1>5 DEF Merged
<1>7. t \o <<Trailer>> = Append(t, Trailer)
  BY <1>5, AppendIsConcat
<1>8. Whole(Merged(InitList, InitDb))
  BY <1>6, <1>7, WholeMerge
<1>9. Whole(ram) /\ Whole(flash)
  BY <1>8 DEF FlashInit
<1>10. job = [p \in Proc |-> "none"] /\ mlist = [p \in Proc |-> <<>>]
       /\ mbuf = [p \in Proc |-> <<>>] /\ mfd = [p \in Proc |-> "none"]
       /\ cfd = [p \in Proc |-> "none"]
  BY DEF FlashInit
<1> QED BY <1>1, <1>9, <1>10 DEF ImageInv, Jobs, OneSaver, Merging, Shell

(* Every step of kd_updateFlash *)

\* no process but p is in kd_updateFlash
Out(p) == \A q \in Proc : q # p => job[q] = "none"

LEMMA Alone ==
  ASSUME ImageInv, NEW p \in Proc, job[p] # "none" PROVE Out(p)
  BY DEF ImageInv, OneSaver, Out

\* p goes on to job l and the others stay out: what is left to show
\* about its streams and the files
GoesOn(p, l) ==
  /\ Out(p)
  /\ job' = [job EXCEPT ![p] = l] /\ l \in Jobs
  /\ mlist' \in [Proc -> Seq(Cats)] /\ mbuf' \in [Proc -> Seq(Line)]
  /\ mfd' = [q \in Proc |-> IF q = p /\ l = "merge" THEN "new_one" ELSE "none"]
  /\ cfd' = [q \in Proc |-> IF q = p /\ l = "cpwrite" THEN "temp" ELSE "none"]
  /\ l = "merge" => newone' = <<>>
  /\ l = "install" => Whole(newone')
  /\ l = "cpwrite" => flashtmp' = <<>>
  /\ l = "mv" => Whole(flashtmp')
  /\ Whole(ram') /\ Whole(flash')

LEMMA GoesOnInv ==
  ASSUME ImageInv, NEW p \in Proc, NEW l, GoesOn(p, l) PROVE ImageInv'
<1>1. \A q \in Proc : q # p => job[q] = "none"
  BY DEF GoesOn, Out
<1>2. job' \in [Proc -> Jobs] /\ \A q \in Proc : job'[q] = IF q = p THEN l ELSE "none"
  BY <1>1 DEF GoesOn, ImageInv
<1>3. mfd' = [q \in Proc |-> IF job'[q] = "merge" THEN "new_one" ELSE "none"]
  BY <1>2 DEF GoesOn
<1>4. cfd' = [q \in Proc |-> IF job'[q] = "cpwrite" THEN "temp" ELSE "none"]
  BY <1>2 DEF GoesOn
<1>5. OneSaver'
  BY <1>2 DEF OneSaver
<1> QED BY <1>2, <1>3, <1>4, <1>5 DEF GoesOn, ImageInv

\* the streams of a process that is in kd_updateFlash, and of the others
LEMMA Streams ==
  ASSUME ImageInv, NEW p \in Proc, job[p] # "none" \/ Out(p)
  PROVE  /\ Out(p)
         /\ mfd = [q \in Proc |-> IF q = p /\ job[p] = "merge" THEN "new_one" ELSE "none"]
         /\ cfd = [q \in Proc |-> IF q = p /\ job[p] = "cpwrite" THEN "temp" ELSE "none"]
<1>1. Out(p)
  BY Alone
<1>2. \A q \in Proc : q # p => job[q] = "none"
  BY <1>1 DEF Out
<1> QED BY <1>1, <1>2 DEF ImageInv

LEMMA WholeKept == ASSUME ImageInv PROVE Whole(ram) /\ Whole(flash)
  BY DEF ImageInv

\* steps that only move p on
Moves(p, l) ==
  /\ job[p] \notin {"merge", "cpwrite"} /\ l \in Jobs \ {"merge", "install", "cpwrite", "mv"}
  /\ job[p] # "none" \/ Out(p)
  /\ GoJob(p, l)
  /\ UNCHANGED <<mergeVars, imageVars>>

LEMMA MovesInv ==
  ASSUME ImageInv, NEW p \in Proc, NEW l, Moves(p, l) PROVE ImageInv'
<1>1. UNCHANGED <<mlist, mbuf, mfd, newone, ram, cfd, flashtmp, flash>>
  BY DEF Moves, mergeVars, imageVars
<1>2. Out(p) /\ mfd = [q \in Proc |-> "none"] /\ cfd = [q \in Proc |-> "none"]
  BY Streams DEF Moves
<1>3. GoesOn(p, l)
  BY <1>1, <1>2 DEF GoesOn, Moves, GoJob, ImageInv
<1> QED BY <1>3, GoesOnInv

LEMMA MoveSteps ==
  ASSUME ImageInv, NEW p \in Proc,
         \/ \E r \in Request : UpdateFlashUser(p, r)
         \/ StampDone(p) \/ UpdateFlash(p) \/ MergeAcquire(p) \/ MergeRelease(p)
         \/ MergeUnlink(p),
         overlapped' = "no"
  PROVE  ImageInv'
<1> USE DEF Moves, Jobs, Merging, Shell
<1>0. \A l : BeginSave(p, l) => Out(p) /\ job[p] = "none"
  BY DEF BeginSave, Out
<1>1. (\E r \in Request : UpdateFlashUser(p, r)) => Moves(p, "stamp")
  BY <1>0 DEF UpdateFlashUser, BeginSave
<1>2. StampDone(p) => Moves(p, "spin")
  BY DEF StampDone
<1>3. UpdateFlash(p) => Moves(p, "spin")
  BY <1>0 DEF UpdateFlash, BeginSave
<1>4. MergeAcquire(p) => Moves(p, "locked")
  BY DEF MergeAcquire
<1>5. MergeRelease(p) => Moves(p, "open")
  BY DEF MergeRelease
<1>6. MergeUnlink(p) => Moves(p, "cp")
  BY DEF MergeUnlink
<1> QED BY <1>1, <1>2, <1>3, <1>4, <1>5, <1>6, MovesInv

LEMMA MergeOpenInv ==
  ASSUME FilesTyped, ImageInv, NEW p \in Proc, MergeOpen(p) PROVE ImageInv'
<1>1. UNCHANGED <<ram, cfd, flashtmp, flash>>
  BY DEF MergeOpen, imageVars
<1>2. /\ Out(p) /\ mfd = [q \in Proc |-> "none"] /\ cfd = [q \in Proc |-> "none"]
  BY Streams DEF MergeOpen
<1>3. mbuf' \in [Proc -> Seq(Line)] /\ mlist' \in [Proc -> Seq(Cats)]
  BY DEF MergeOpen, ImageInv, FilesTyped
<1>4. mfd' = [q \in Proc |-> IF q = p /\ "merge" = "merge" THEN "new_one" ELSE "none"]
  BY <1>2 DEF MergeOpen
<1>5. Whole(ram') /\ Whole(flash')
  BY <1>1, WholeKept
<1>6. GoesOn(p, "merge")
  BY <1>1, <1>2, <1>3, <1>4, <1>5 DEF GoesOn, MergeOpen, GoJob, Jobs, Merging
<1> QED BY <1>6, GoesOnInv

LEMMA MergeReadInv ==
  ASSUME FilesTyped, ImageInv, NEW p \in Proc, MergeRead(p) PROVE ImageInv'
<1>0. job[p] = "merge" /\ mlist[p] # <<>> /\ mlist[p] \in Seq(Cats)
  BY DEF MergeRead, ImageInv
<1>1. UNCHANGED <<job, mfd, newone, ram, cfd, flashtmp, flash>>
  BY DEF MergeRead, imageVars
<1>2. PICK c \in Cats : c = Head(mlist[p])
  BY <1>0
<1>3. db[c] \in Seq(Line) /\ mbuf[p] \in Seq(Line)
  BY <1>2 DEF MergeRead, ImageInv, FilesTyped, File, Content
<1>4. mbuf[p] \o db[c] \in Seq(Line)
  BY <1>3, ConcatProperties
<1>5. mbuf' = [mbuf EXCEPT ![p] = mbuf[p] \o db[c]] /\ mlist' = [mlist EXCEPT ![p] = Tail(mlist[p])]
  BY <1>2 DEF MergeRead
<1>6. mbuf' \in [Proc -> Seq(Line)]
  BY <1>4, <1>5 DEF ImageInv
<1>7. mlist' \in [Proc -> Seq(Cats)]
  <2>1. Tail(mlist[p]) \in Seq(Cats)
    BY <1>0
  <2> QED BY <1>5, <2>1 DEF ImageInv
<1> QED BY <1>1, <1>6, <1>7 DEF ImageInv, OneSaver

LEMMA MergeCloseInv ==
  ASSUME ImageInv, NEW p \in Proc, MergeClose(p) PROVE ImageInv'
<1>0. job[p] = "merge" /\ newone = <<>> /\ mbuf[p] \in Seq(Line)
  BY DEF MergeClose, ImageInv
<1>1. UNCHANGED <<mlist, cfd, flashtmp, flash>>
  BY DEF MergeClose
<1>2. /\ Out(p) /\ cfd = [q \in Proc |-> "none"]
      /\ mfd = [q \in Proc |-> IF q = p THEN "new_one" ELSE "none"]
  BY <1>0, Streams
<1>3. PICK t : t = Append(mbuf[p], Trailer)
  OBVIOUS
<1>4. Whole(t) /\ t \in Seq(ImageLine)
  BY <1>0, <1>3, WholeMerge DEF Whole
<1>5. newone' = Overlay(<<>>, t) /\ ram' = ram
  BY <1>0, <1>2, <1>3 DEF MergeClose, FlushMerge
<1>6. newone' = t
  BY <1>4, <1>5, OverlayNothing
<1>7. mfd' = [q \in Proc |-> "none"] /\ mbuf' \in [Proc -> Seq(Line)]
  <2>1. mfd' = [mfd EXCEPT ![p] = "none"] /\ mbuf' = [mbuf EXCEPT ![p] = <<>>]
    BY DEF MergeClose, FlushMerge
  <2>2. mfd' = [q \in Proc |-> "none"]
    BY <1>2, <2>1
  <2>3. mbuf' \in [Proc -> Seq(Line)]
    BY <2>1 DEF ImageInv
  <2> QED BY <2>2, <2>3
<1>8. Whole(ram') /\ Whole(flash')
  BY <1>1, <1>5, WholeKept
<1>9. mlist' \in [Proc -> Seq(Cats)]
  BY <1>1 DEF ImageInv
<1>10. GoesOn(p, "install")
  BY <1>1, <1>2, <1>4, <1>6, <1>7, <1>8, <1>9 DEF GoesOn, MergeClose, GoJob, Jobs, Merging
<1> QED BY <1>10, GoesOnInv

LEMMA MergeFailInv ==
  ASSUME ImageInv, NEW p \in Proc, MergeFail(p) PROVE ImageInv'
<1>0. job[p] \in {"open", "merge"}
  BY DEF MergeFail
<1>1. UNCHANGED <<cfd, flashtmp, flash>>
  BY DEF MergeFail
<1>2. /\ Out(p) /\ cfd = [q \in Proc |-> "none"]
      /\ mfd = [q \in Proc |-> IF q = p /\ job[p] = "merge" THEN "new_one" ELSE "none"]
  BY <1>0, Streams
<1>3. mfd[p] # "ram"
  BY <1>2
<1>4. ram' = ram
  BY <1>3 DEF MergeFail, FlushMerge
<1>5. mfd' = [q \in Proc |-> "none"] /\ mbuf' \in [Proc -> Seq(Line)]
  <2>1. mfd' = [mfd EXCEPT ![p] = "none"] /\ mbuf' = [mbuf EXCEPT ![p] = <<>>]
    BY DEF MergeFail, FlushMerge
  <2>2. mfd' = [q \in Proc |-> "none"]
    BY <1>2, <2>1
  <2>3. mbuf' \in [Proc -> Seq(Line)]
    BY <2>1 DEF ImageInv
  <2> QED BY <2>2, <2>3
<1>6. Whole(ram') /\ Whole(flash')
  BY <1>1, <1>4, WholeKept
<1>7. mlist' \in [Proc -> Seq(Cats)]
  BY DEF MergeFail, ImageInv
<1>8. GoesOn(p, "cp")
  BY <1>1, <1>2, <1>5, <1>6, <1>7 DEF GoesOn, MergeFail, GoJob, Jobs, Shell
<1> QED BY <1>8, GoesOnInv

LEMMA MergeInstallInv ==
  ASSUME ImageInv, NEW p \in Proc, MergeInstall(p) PROVE ImageInv'
<1>0. job[p] = "install" /\ Whole(newone)
  BY DEF MergeInstall, ImageInv
<1>1. UNCHANGED <<mlist, mbuf, cfd, flashtmp, flash>>
  BY DEF MergeInstall
<1>2. Out(p) /\ mfd = [q \in Proc |-> "none"] /\ cfd = [q \in Proc |-> "none"]
  BY <1>0, Streams
<1>3. newone # NoFile
  BY <1>0 DEF Whole, CompleteImage
<1>4. /\ ram' = newone
      /\ mfd' = [q \in Proc |-> IF mfd[q] = "new_one" THEN "ram"
                                ELSE IF mfd[q] = "ram" THEN "gone" ELSE mfd[q]]
  BY <1>3 DEF MergeInstall
<1>5. mfd' = [q \in Proc |-> "none"]
  BY <1>2, <1>4
<1>6. Whole(ram') /\ Whole(flash')
  BY <1>0, <1>1, <1>4, WholeKept
<1>7. mlist' \in [Proc -> Seq(Cats)] /\ mbuf' \in [Proc -> Seq(Line)]
  BY <1>1 DEF ImageInv
<1>8. GoesOn(p, "unlink")
  BY <1>1, <1>2, <1>5, <1>6, <1>7 DEF GoesOn, MergeInstall, GoJob, Jobs, Merging
<1> QED BY <1>8, GoesOnInv

LEMMA CopyOpenInv ==
  ASSUME ImageInv, NEW p \in Proc, CopyOpen(p) PROVE ImageInv'
<1>0. job[p] = "cp"
  BY DEF CopyOpen
<1>1. UNCHANGED <<mlist, mbuf, mfd, ram, flash>>
  BY DEF CopyOpen, mergeVars
<1>2. Out(p) /\ mfd = [q \in Proc |-> "none"] /\ cfd = [q \in Proc |-> "none"]
  BY <1>0, Streams
<1>3. cfd' = [q \in Proc |-> IF q = p THEN "temp" ELSE "none"]
  BY <1>2 DEF CopyOpen
<1>4. Whole(ram') /\ Whole(flash')
  BY <1>1, WholeKept
<1>5. mlist' \in [Proc -> Seq(Cats)] /\ mbuf' \in [Proc -> Seq(Line)]
  BY <1>1 DEF ImageInv
<1>6. GoesOn(p, "cpwrite")
  BY <1>1, <1>2, <1>3, <1>4, <1>5 DEF GoesOn, CopyOpen, GoJob, Jobs, Shell
<1> QED BY <1>6, GoesOnInv

LEMMA CopyWriteInv ==
  ASSUME ImageInv, NEW p \in Proc, CopyWrite(p) PROVE ImageInv'
<1>0. job[p] = "cpwrite" /\ flashtmp = <<>>
  BY DEF CopyWrite, ImageInv
<1>1. UNCHANGED <<mlist, mbuf, mfd, ram>>
  BY DEF CopyWrite, mergeVars
<1>2. /\ Out(p) /\ mfd = [q \in Proc |-> "none"]
      /\ cfd = [q \in Proc |-> IF q = p THEN "temp" ELSE "none"]
  BY <1>0, Streams
<1>3. flash' = flash /\ flashtmp' = Overlay(<<>>, ram)
  BY <1>0, <1>2 DEF CopyWrite
<1>4. Whole(ram) /\ Whole(flash) /\ ram \in Seq(ImageLine)
  BY WholeKept DEF Whole
<1>5. flashtmp' = ram
  BY <1>3, <1>4, OverlayNothing
<1>6. cfd' = [q \in Proc |-> "none"]
  BY <1>2 DEF CopyWrite
<1>7. mlist' \in [Proc -> Seq(Cats)] /\ mbuf' \in [Proc -> Seq(Line)]
  BY <1>1 DEF ImageInv
<1>8. GoesOn(p, "mv")
  BY <1>1, <1>2, <1>3, <1>4, <1>5, <1>6, <1>7 DEF GoesOn, CopyWrite, GoJob, Jobs, Shell
<1> QED BY <1>8, GoesOnInv

LEMMA MoveInv ==
  ASSUME ImageInv, NEW p \in Proc, Move(p) PROVE ImageInv'
<1>0. job[p] = "mv" /\ Whole(flashtmp)
  BY DEF Move, ImageInv
<1>1. UNCHANGED <<mlist, mbuf, mfd, ram>>
  BY DEF Move, mergeVars
<1>2. Out(p) /\ mfd = [q \in Proc |-> "none"] /\ cfd = [q \in Proc |-> "none"]
  BY <1>0, Streams
<1>3. flashtmp # NoFile
  BY <1>0 DEF Whole, CompleteImage
<1>4. /\ flash' = flashtmp
      /\ cfd' = [q \in Proc |-> IF cfd[q] = "temp" THEN "flash"
                                ELSE IF cfd[q] = "flash" THEN "gone" ELSE cfd[q]]
  BY <1>3 DEF Move
<1>5. cfd' = [q \in Proc |-> "none"]
  BY <1>2, <1>4
<1>6. Whole(ram') /\ Whole(flash')
  BY <1>0, <1>1, <1>4, WholeKept
<1>7. mlist' \in [Proc -> Seq(Cats)] /\ mbuf' \in [Proc -> Seq(Line)]
  BY <1>1 DEF ImageInv
<1>8. GoesOn(p, "none")
  BY <1>1, <1>2, <1>5, <1>6, <1>7 DEF GoesOn, Move, GoJob, Jobs, Shell
<1> QED BY <1>8, GoesOnInv

\* whatever it was doing, a process that is killed leaves both images alone,
\* and so does the shell that goes on without it
LEMMA KillTyped ==
  ASSUME FilesTyped, NEW p \in Proc, Kill(p) PROVE FilesTyped'
<1>1. UNCHANGED <<db, stemp, catlist>>
  BY DEF Kill, files
<1>2. Aside(p)
  BY <1>1, NoCmdType
     DEF Kill, Aside, Goto, FilesTyped, PcValues, Busy, Critical, FdValues, File
<1> QED BY <1>2, AsideTyped

LEMMA KillInv ==
  ASSUME ImageInv, NEW p \in Proc, Kill(p) PROVE ImageInv'
<1>1. UNCHANGED <<newone, ram, cfd, flashtmp, flash>>
  BY DEF Kill, imageVars
<1>2. mlist' \in [Proc -> Seq(Cats)] /\ mbuf' \in [Proc -> Seq(Line)]
  BY DEF Kill, ImageInv
<1>3. /\ job \in [Proc -> Jobs]
      /\ mfd = [q \in Proc |-> IF job[q] = "merge" THEN "new_one" ELSE "none"]
      /\ cfd = [q \in Proc |-> IF job[q] = "cpwrite" THEN "temp" ELSE "none"]
      /\ mfd' = [mfd EXCEPT ![p] = "none"]
  BY DEF Kill, ImageInv
<1>4. CASE job' = job /\ job[p] \in Shell
  <2>1. mfd' = [q \in Proc |-> IF job'[q] = "merge" THEN "new_one" ELSE "none"]
    BY <1>3, <1>4 DEF Shell
  <2> QED BY <1>1, <1>2, <1>3, <1>4, <2>1 DEF ImageInv, OneSaver
<1>5. CASE job' = [job EXCEPT ![p] = "none"] /\ job[p] # "cpwrite"
  <2>1. /\ job' \in [Proc -> Jobs]
        /\ \A q \in Proc : job'[q] = IF q = p THEN "none" ELSE job[q]
    BY <1>3, <1>5 DEF Jobs
  <2>2. mfd' = [q \in Proc |-> IF job'[q] = "merge" THEN "new_one" ELSE "none"]
    BY <1>3, <2>1
  <2>3. cfd' = [q \in Proc |-> IF job'[q] = "cpwrite" THEN "temp" ELSE "none"]
    BY <1>1, <1>3, <1>5, <2>1
  <2>4. OneSaver'
    BY <2>1 DEF ImageInv, OneSaver
  <2> QED BY <1>1, <1>2, <2>1, <2>2, <2>3, <2>4 DEF ImageInv
<1> QED BY <1>4, <1>5 DEF Kill, GoJob, Shell

LEMMA SaveTyped ==
  ASSUME FilesTyped, NEW p \in Proc,
         SaveStep(p) \/ UpdateFlash(p) \/ \E r \in Request : UpdateFlashUser(p, r)
  PROVE  FilesTyped'
<1>1. CASE \E r \in Request : UpdateFlashUser(p, r)
  BY <1>1, StartTyped DEF UpdateFlashUser
<1>2. CASE SaveStep(p) \/ UpdateFlash(p)
  <2>1. UNCHANGED <<db, stemp, catlist, pc, cmd, buf, fd>>
    BY <1>2 DEF SaveStep, StampDone, MergeAcquire, MergeRelease, MergeOpen, MergeRead,
                MergeClose, MergeFail, MergeInstall, MergeUnlink, CopyOpen, CopyWrite, Move,
                UpdateFlash, BeginSave, vars, files
  <2> QED BY <2>1 DEF FilesTyped
<1> QED BY <1>1, <1>2

LEMMA TypedStep ==
  ASSUME FilesTyped, [KillNext]_saveVars PROVE FilesTyped'
<1>1. CASE UNCHANGED saveVars
  BY <1>1 DEF saveVars, vars, FilesTyped
<1> QED BY <1>1, KillTyped, RunTyped, SaveTyped DEF KillNext, SaveNext

LEMMA ImageStep ==
  ASSUME FilesTyped, ImageInv, [KillNext]_saveVars, overlapped' = "no"
  PROVE  ImageInv'
<1>1. CASE UNCHANGED saveVars
  BY <1>1 DEF saveVars, vars, flashVars, mergeVars, imageVars, ImageInv, OneSaver
<1>2. ASSUME NEW p \in Proc, RunCommand(p) PROVE ImageInv'
  BY <1>2 DEF RunCommand, flashVars, mergeVars, imageVars, ImageInv, OneSaver
<1>3. ASSUME NEW p \in Proc, SaveStep(p) PROVE ImageInv'
  BY <1>3, MoveSteps, MergeOpenInv, MergeReadInv, MergeCloseInv, MergeFailInv,
     MergeInstallInv, CopyOpenInv, CopyWriteInv, MoveInv DEF SaveStep
<1>4. ASSUME NEW p \in Proc, UpdateFlash(p) \/ \E r \in Request : UpdateFlashUser(p, r)
      PROVE  ImageInv'
  BY <1>4, MoveSteps
<1> QED BY <1>1, <1>2, <1>3, <1>4, KillInv DEF KillNext, SaveNext

\* once two saves have overlapped the history says so
LEMMA OverlapStays ==
  ASSUME [KillNext]_saveVars, overlapped' = "no" PROVE overlapped = "no"
<1>1. CASE UNCHANGED saveVars
  BY <1>1 DEF saveVars, flashVars
<1>2. ASSUME NEW p \in Proc, RunCommand(p) \/ SaveStep(p) \/ Kill(p) PROVE overlapped = "no"
  BY <1>2 DEF RunCommand, flashVars, Kill, SaveStep, StampDone, MergeAcquire, MergeRelease,
              MergeOpen, MergeRead, MergeClose, MergeFail, MergeInstall, MergeUnlink, CopyOpen,
              CopyWrite, Move
<1>3. ASSUME NEW p \in Proc, UpdateFlash(p) \/ \E r \in Request : UpdateFlashUser(p, r)
      PROVE  overlapped = "no"
  BY <1>3 DEF UpdateFlash, UpdateFlashUser, BeginSave
<1> QED BY <1>1, <1>2, <1>3 DEF KillNext, SaveNext

\* new_one + rename and nk_sysconfig.temp + mv of kd_updateFlash: until a save
\* begins before another is over, both images stay complete whatever the
\* commands of any number of processes do to the files, whoever loses the lock
\* file to the second unlink of MergeToRAM, and wherever a process is killed,
\* though the shell it started for cp and mv goes on.
THEOREM ImagesStayComplete == KillSpec => []ImagesKept
<1> DEFINE I == FilesTyped /\ (overlapped = "no" => ImageInv)
<1>1. I /\ [KillNext]_saveVars => I'
  BY TypedStep, ImageStep, OverlapStays
<1>2. I => ImagesKept
  BY DEF ImageInv, ImagesKept, ImagesComplete, Whole
<1>3. FlashInit => I
  BY FlashInitInv
<1> QED
  BY <1>1, <1>2, <1>3, PTL DEF KillSpec

===============================================================================
