-------------------------- MODULE NobHeaderProofs ---------------------------
(***************************************************************************)
(* What holds of two parts of nob.h.  No function on string views leaves   *)
(* the text its view lies in, for texts and views of any length and for    *)
(* any argument: no count runs below zero, and what is taken off and what  *)
(* is left make up the view; and each takes off what its name says.  And   *)
(* of the rebuild of ./nob, for any number of edits of nob.c and of        *)
(* seconds: there is always a binary to go on with, and only the two kinds *)
(* of edits that QuietEditsAreBuilt names are missed.                      *)
(***************************************************************************)
EXTENDS NobRebuild, NobStringView, FiniteSetTheorems, SequenceTheorems, WellFoundedInduction,
        TLAPS

-----------------------------------------------------------------------------
(* String views. *)

\* There are no more of a view's indices than its count says.
LEMMA SubsetOfView ==
  ASSUME NEW n \in Nat, NEW S \in SUBSET (0 .. n - 1)
  PROVE  Cardinality(S) \in 0 .. n
<1>1. IsFiniteSet(0 .. n - 1) /\ Cardinality(0 .. n - 1) = n
  <2>1. IsFiniteSet(0 .. n - 1)
    BY FS_Interval
  <2>2. Cardinality(0 .. n - 1) = IF 0 > n - 1 THEN 0 ELSE n - 1 - 0 + 1
    BY FS_Interval
  <2> QED BY <2>1, <2>2
<1>2. IsFiniteSet(S) /\ Cardinality(S) <= Cardinality(0 .. n - 1)
  BY <1>1, FS_Subset
<1>3. Cardinality(S) \in Nat
  BY <1>2, FS_CardinalityType
<1> QED BY <1>1, <1>2, <1>3

\* A set of numbers that goes up from 0 without a gap is as large as its first missing number.
LEMMA Counted ==
  ASSUME NEW n \in Nat, NEW S \in SUBSET (0 .. n - 1), \A i \in S : 0 .. i \subseteq S
  PROVE  S = 0 .. Cardinality(S) - 1 /\ Cardinality(S) \in 0 .. n
<1> DEFINE T == Nat \ S
<1>1. PICK m \in T : \A q \in T : m <= q
  <2> DEFINE R == OpToRel(<, Nat)
  <2>1. \A x, y \in Nat : x < y => << x, y >> \in R
    BY DEF OpToRel
  <2>2. IsWellFoundedOn(R, Nat)
    BY NatLessThanWellFounded, Zenon
  <2> HIDE DEF R
  <2>3. T \in SUBSET Nat /\ T # {}
    <3>1. n \in T
      OBVIOUS
    <3> QED
      BY <3>1, Zenon
  <2> HIDE DEF T
  <2>4. PICK p \in T : \A q \in T : << q, p >> \notin R
    BY <2>2, <2>3, WFMin, Zenon
  <2>5. \A q \in T : q \in Nat /\ p \in Nat /\ ~ q < p
    BY <2>1, <2>3, <2>4, Zenon
  <2>6. \A q \in T : p <= q
    BY ONLY <2>5
  <2> QED
    BY <2>4, <2>6, Zenon
<1>2. m \in Nat /\ m \notin S
  BY <1>1, Zenon
<1>3. \A i \in 0 .. m - 1 : i \in S
  BY <1>1, <1>2
<1>4. \A i \in S : i \in 0 .. m - 1
  <2>1. ASSUME NEW i \in S PROVE i \in 0 .. m - 1
    <3>1. m \notin 0 .. i /\ i \in Nat
      BY <1>2
    <3> QED
      BY <1>2, <3>1
  <2> QED
    BY <2>1, Zenon
<1>5. S = 0 .. m - 1
  BY <1>3, <1>4, Zenon
<1>6. Cardinality(0 .. m - 1) = IF 0 > m - 1 THEN 0 ELSE m - 1 - 0 + 1
  BY <1>2, FS_Interval
<1>7. Cardinality(S) = m
  <2>1. (IF 0 > m - 1 THEN 0 ELSE m - 1 - 0 + 1) = m
    BY <1>2
  <2> QED
    BY <1>5, <1>6, <2>1
<1> QED
  BY <1>5, <1>7, SubsetOfView, Zenon

\* Where the loops over the characters of a class end.
LEMMA LeadingIs ==
  ASSUME NEW s, NEW sv, sv.count \in Nat, NEW class, NEW n, n = Leading(s, sv, class)
  PROVE  /\ n \in 0 .. sv.count
         /\ \A j \in 0 .. n - 1 : Char(s, sv, j) \in class
         /\ n < sv.count => Char(s, sv, n) \notin class
<1> DEFINE S == {i \in 0 .. sv.count - 1 : \A j \in 0 .. i : Char(s, sv, j) \in class}
<1>1. S \in SUBSET (0 .. sv.count - 1)
  BY Zenon
<1>2. \A i \in S : 0 .. i \subseteq S
  <2>1. ASSUME NEW i \in S, NEW k \in 0 .. i PROVE k \in S
    <3>1. i \in 0 .. sv.count - 1 /\ \A j \in 0 .. i : Char(s, sv, j) \in class
      BY <2>1, Zenon
    <3>2. k \in 0 .. sv.count - 1 /\ \A j \in 0 .. k : j \in 0 .. i
      BY <3>1
    <3> QED
      BY <3>1, <3>2, Zenon
  <2> QED
    BY <2>1, Zenon
<1>3. n = Cardinality(S)
  BY Zenon DEF Leading
<1>4. \A i : i \in S <=> i \in 0 .. sv.count - 1 /\ \A j \in 0 .. i : Char(s, sv, j) \in class
  BY Zenon
<1> HIDE DEF S
<1>5. S = 0 .. n - 1 /\ n \in 0 .. sv.count
  BY <1>1, <1>2, <1>3, Counted, Zenon
<1>6. \A j \in 0 .. n - 1 : Char(s, sv, j) \in class
  <2>1. ASSUME NEW j \in 0 .. n - 1 PROVE Char(s, sv, j) \in class
    <3>1. j \in 0 .. j
      BY <1>5
    <3> QED
      BY <1>4, <1>5, <3>1, Zenon
  <2> QED
    BY <2>1, Zenon
<1>7. ASSUME n < sv.count, Char(s, sv, n) \in class PROVE FALSE
  <2>1. n \in 0 .. sv.count - 1 /\ n \notin 0 .. n - 1 /\ \A j \in 0 .. n : j = n \/ j \in 0 .. n - 1
    BY <1>5, <1>7
  <2> QED
    BY <1>4, <1>5, <1>6, <1>7, <2>1, Zenon
<1> QED
  BY <1>5, <1>6, <1>7, Zenon

\* The loop from the right is that from the left over the view turned round.
LEMMA TrailingIs ==
  ASSUME NEW s, NEW sv, sv.count \in Nat, NEW class, NEW n, n = Trailing(s, sv, class)
  PROVE  /\ n \in 0 .. sv.count
         /\ \A j \in 0 .. n - 1 : Char(s, sv, sv.count - 1 - j) \in class
         /\ n < sv.count => Char(s, sv, sv.count - 1 - n) \notin class
<1> DEFINE S == {i \in 0 .. sv.count - 1 : \A j \in 0 .. i : Char(s, sv, sv.count - 1 - j) \in class}
<1>1. S \in SUBSET (0 .. sv.count - 1)
  BY Zenon
<1>2. \A i \in S : 0 .. i \subseteq S
  <2>1. ASSUME NEW i \in S, NEW k \in 0 .. i PROVE k \in S
    <3>1. i \in 0 .. sv.count - 1 /\ \A j \in 0 .. i : Char(s, sv, sv.count - 1 - j) \in class
      BY <2>1, Zenon
    <3>2. k \in 0 .. sv.count - 1 /\ \A j \in 0 .. k : j \in 0 .. i
      BY <3>1
    <3> QED
      BY <3>1, <3>2, Zenon
  <2> QED
    BY <2>1, Zenon
<1>3. n = Cardinality(S)
  BY Zenon DEF Trailing
<1>4. \A i : i \in S <=> i \in 0 .. sv.count - 1 /\ \A j \in 0 .. i : Char(s, sv, sv.count - 1 - j) \in class
  BY Zenon
<1> HIDE DEF S
<1>5. S = 0 .. n - 1 /\ n \in 0 .. sv.count
  BY <1>1, <1>2, <1>3, Counted, Zenon
<1>6. \A j \in 0 .. n - 1 : Char(s, sv, sv.count - 1 - j) \in class
  <2>1. ASSUME NEW j \in 0 .. n - 1 PROVE Char(s, sv, sv.count - 1 - j) \in class
    <3>1. j \in 0 .. j
      BY <1>5
    <3> QED
      BY <1>4, <1>5, <3>1, Zenon
  <2> QED
    BY <2>1, Zenon
<1>7. ASSUME n < sv.count, Char(s, sv, sv.count - 1 - n) \in class PROVE FALSE
  <2>1. n \in 0 .. sv.count - 1 /\ n \notin 0 .. n - 1 /\ \A j \in 0 .. n : j = n \/ j \in 0 .. n - 1
    BY <1>5, <1>7
  <2> QED
    BY <1>4, <1>5, <1>6, <1>7, <2>1, Zenon
<1> QED
  BY <1>5, <1>6, <1>7, Zenon

LEMMA LoopsEnd ==
  ASSUME NEW s, NEW sv, sv.count \in Nat, NEW class
  PROVE  /\ Leading(s, sv, class) \in 0 .. sv.count
         /\ Trailing(s, sv, class) \in 0 .. sv.count
BY LeadingIs, TrailingIs, Zenon

\* A cut at any point of the view, with room for the gap, tiles it.
LEMMA CutTiles ==
  ASSUME NEW s \in Seq(STRING), NEW sv, IsView(s, sv), NEW i \in Nat, NEW gap \in Nat,
         i + gap <= sv.count
  PROVE  Tiles(s, sv, Cut(sv, i, gap).piece, gap, Cut(sv, i, gap).rest)
<1>1. Len(s) \in Nat /\ sv.data \in 0 .. Len(s) /\ sv.count \in 0 .. Len(s) - sv.data
  BY DEF IsView
<1> QED BY <1>1 DEF Tiles, Cut, IsView, FromParts

\* nob_sv_chop_while, _by_delim, _left and _right split any view in two that lie in the text
\* and make it up, the delimiter aside, whatever count they are given (nob.h:2544-2621).
THEOREM ChopsTile ==
  ASSUME NEW s \in Seq(STRING), NEW sv, IsView(s, sv),
         NEW class, NEW delim, NEW n \in Nat
  PROVE  /\ LET c == ChopWhile(s, sv, class) IN Tiles(s, sv, c.piece, 0, c.rest)
         /\ LET c == ChopByDelim(s, sv, delim)
            IN  \E gap \in {0, 1} : Tiles(s, sv, c.piece, gap, c.rest)
         /\ LET c == ChopLeft(sv, n) IN Tiles(s, sv, c.piece, 0, c.rest)
         /\ LET c == ChopRight(sv, n) IN Tiles(s, sv, c.rest, 0, c.piece)
<1>1. Len(s) \in Nat /\ sv.data \in 0 .. Len(s) /\ sv.count \in 0 .. Len(s) - sv.data
  BY DEF IsView
<1>2. sv.count \in Nat
  BY <1>1
<1>3. LET c == ChopWhile(s, sv, class) IN Tiles(s, sv, c.piece, 0, c.rest)
  <2> DEFINE i == Leading(s, sv, class)
  <2>1. i \in 0 .. sv.count
    BY <1>2, LoopsEnd
  <2>2. Tiles(s, sv, Cut(sv, i, 0).piece, 0, Cut(sv, i, 0).rest)
    <3> HIDE DEF i
    <3>1. i \in Nat /\ i + 0 <= sv.count
      BY <1>2, <2>1
    <3> QED BY <3>1, CutTiles
  <2> QED BY <2>2 DEF ChopWhile
<1>4. LET c == ChopByDelim(s, sv, delim)
      IN  \E gap \in {0, 1} : Tiles(s, sv, c.piece, gap, c.rest)
  <2> DEFINE i == Leading(s, sv, {s[k] : k \in DOMAIN s} \ {delim})
             gap == IF i < sv.count THEN 1 ELSE 0
  <2>1. i \in 0 .. sv.count
    BY <1>2, LoopsEnd
  <2>2. gap \in {0, 1} /\ gap \in Nat /\ i \in Nat /\ i + gap <= sv.count
    <3> HIDE DEF i
    <3> QED BY <1>2, <2>1
  <2>3. Tiles(s, sv, Cut(sv, i, gap).piece, gap, Cut(sv, i, gap).rest)
    <3> HIDE DEF i, gap
    <3> QED BY <2>2, CutTiles
  <2>4. ChopByDelim(s, sv, delim) = Cut(sv, i, gap)
    BY DEF ChopByDelim
  <2> HIDE DEF i, gap
  <2> QED BY <2>2, <2>3, <2>4
<1>5. AtMost(n, sv) \in 0 .. sv.count
  BY <1>2 DEF AtMost
<1>6. LET c == ChopLeft(sv, n) IN Tiles(s, sv, c.piece, 0, c.rest)
  <2>1. AtMost(n, sv) \in Nat /\ AtMost(n, sv) + 0 <= sv.count
    BY <1>2, <1>5
  <2> QED BY <2>1, CutTiles DEF ChopLeft
<1>7. LET c == ChopRight(sv, n) IN Tiles(s, sv, c.rest, 0, c.piece)
  BY <1>1, <1>5 DEF ChopRight, Tiles, IsView, FromParts
<1> QED BY <1>3, <1>4, <1>6, <1>7

\* Trimming leaves a part of the view, also of one that is all space, where the second loop
\* starts on an empty view (nob.h:2631-2654).
THEOREM TrimsStayInside ==
  ASSUME NEW s \in Seq(STRING), NEW sv, IsView(s, sv), NEW space
  PROVE  LET t == Trim(s, sv, space)
         IN  /\ IsView(s, t)
             /\ sv.data <= t.data /\ t.data + t.count <= sv.data + sv.count
<1>1. Len(s) \in Nat /\ sv.data \in 0 .. Len(s) /\ sv.count \in 0 .. Len(s) - sv.data
  BY DEF IsView
<1> DEFINE l == TrimLeft(s, sv, space)
<1>2. /\ IsView(s, l)
      /\ sv.data <= l.data /\ l.data + l.count = sv.data + sv.count
  <2>1. sv.count \in Nat
    BY <1>1
  <2>2. Leading(s, sv, space) \in 0 .. sv.count
    BY <2>1, LoopsEnd
  <2> QED BY <1>1, <2>2 DEF TrimLeft, IsView, FromParts
<1> HIDE DEF l
<1>3. l.data \in 0 .. Len(s) /\ l.count \in 0 .. Len(s) - l.data
  BY <1>2 DEF IsView
<1>4. l.count \in Nat
  BY <1>1, <1>3
<1>5. Trailing(s, l, space) \in 0 .. l.count
  BY <1>4, LoopsEnd
<1>6. Trim(s, sv, space) = FromParts(l.data, l.count - Trailing(s, l, space))
  BY DEF Trim, TrimRight, l
<1> QED BY <1>1, <1>2, <1>3, <1>5, <1>6 DEF IsView, FromParts

\* The parts of a view are views, and its text is theirs one after the other.
LEMMA PartsOfView ==
  ASSUME NEW s \in Seq(STRING), NEW sv, IsView(s, sv), NEW i \in 0 .. sv.count
  PROVE  /\ Len(s) \in Nat /\ sv.data \in 0 .. Len(s) /\ sv.count \in 0 .. Len(s) - sv.data
         /\ sv.count \in Nat /\ i \in Nat
         /\ IsView(s, FromParts(sv.data, i))
         /\ IsView(s, FromParts(sv.data + i, sv.count - i))
<1>1. Len(s) \in Nat /\ sv.data \in 0 .. Len(s) /\ sv.count \in 0 .. Len(s) - sv.data
  BY DEF IsView
<1> QED
  BY <1>1 DEF IsView, FromParts

LEMMA TextOfView ==
  ASSUME NEW s \in Seq(STRING), NEW sv, IsView(s, sv)
  PROVE  /\ Text(s, sv) \in Seq(STRING)
         /\ Len(Text(s, sv)) = sv.count
         /\ \A k \in 1 .. sv.count : Text(s, sv)[k] = Char(s, sv, k - 1)
<1>1. Len(s) \in Nat /\ sv.data \in 0 .. Len(s) /\ sv.count \in 0 .. Len(s) - sv.data
  BY DEF IsView
<1>2. sv.count \in Nat
  BY <1>1
<1>3. \A k \in 1 .. sv.count : Char(s, sv, k - 1) \in STRING
  <2>1. ASSUME NEW k \in 1 .. sv.count PROVE Char(s, sv, k - 1) \in STRING
    <3>1. sv.data + (k - 1) + 1 \in 1 .. Len(s)
      BY <1>1
    <3> QED
      BY <3>1, ElementOfSeq DEF Char
  <2> QED
    BY <2>1
<1>4. Text(s, sv) \in [1 .. sv.count -> STRING]
  BY <1>3 DEF Text
<1>5. Text(s, sv) \in Seq(STRING)
  BY <1>2, <1>4
<1>6. Len(Text(s, sv)) = sv.count
  <2>1. DOMAIN Text(s, sv) = 1 .. sv.count
    BY <1>4
  <2>2. DOMAIN Text(s, sv) = 1 .. Len(Text(s, sv)) /\ Len(Text(s, sv)) \in Nat
    BY <1>5, LenProperties
  <2> QED
    BY <1>2, <2>1, <2>2
<1> QED
  BY <1>5, <1>6 DEF Text

LEMMA TextSplits ==
  ASSUME NEW s \in Seq(STRING), NEW sv, IsView(s, sv), NEW i \in 0 .. sv.count
  PROVE  Text(s, sv) = Text(s, FromParts(sv.data, i))
                         \o Text(s, FromParts(sv.data + i, sv.count - i))
<1> DEFINE l == FromParts(sv.data, i)
           r == FromParts(sv.data + i, sv.count - i)
           joined == Text(s, l) \o Text(s, r)
<1>1. /\ Len(s) \in Nat /\ sv.data \in 0 .. Len(s) /\ sv.count \in 0 .. Len(s) - sv.data
      /\ sv.count \in Nat /\ i \in Nat /\ IsView(s, l) /\ IsView(s, r)
  BY PartsOfView
<1>2. l.data = sv.data /\ l.count = i /\ r.data = sv.data + i /\ r.count = sv.count - i
  BY DEF FromParts
<1> HIDE DEF l, r
<1>3. /\ Text(s, l) \in Seq(STRING) /\ Len(Text(s, l)) = i
      /\ \A k \in 1 .. i : Text(s, l)[k] = Char(s, l, k - 1)
  BY <1>1, <1>2, TextOfView
<1>4. /\ Text(s, r) \in Seq(STRING) /\ Len(Text(s, r)) = sv.count - i
      /\ \A k \in 1 .. sv.count - i : Text(s, r)[k] = Char(s, r, k - 1)
  <2>1. /\ Text(s, r) \in Seq(STRING) /\ Len(Text(s, r)) = r.count
        /\ \A k \in 1 .. r.count : Text(s, r)[k] = Char(s, r, k - 1)
    BY <1>1, TextOfView
  <2> QED
    BY <2>1, <1>2
<1>5. /\ Text(s, sv) \in Seq(STRING) /\ Len(Text(s, sv)) = sv.count
      /\ \A k \in 1 .. sv.count : Text(s, sv)[k] = Char(s, sv, k - 1)
  BY TextOfView
<1>6. /\ joined \in Seq(STRING) /\ Len(joined) = i + (sv.count - i)
      /\ \A k \in 1 .. i + (sv.count - i) :
           joined[k] = IF k <= i THEN Text(s, l)[k] ELSE Text(s, r)[k - i]
  <2>1. /\ joined \in Seq(STRING) /\ Len(joined) = Len(Text(s, l)) + Len(Text(s, r))
        /\ \A k \in 1 .. Len(Text(s, l)) + Len(Text(s, r)) :
             joined[k] = IF k <= Len(Text(s, l)) THEN Text(s, l)[k]
                                                ELSE Text(s, r)[k - Len(Text(s, l))]
    <3>1. Text(s, l) \in Seq(STRING) /\ Text(s, r) \in Seq(STRING)
      BY <1>3, <1>4
    <3> QED
      BY <3>1, ConcatProperties, Zenon
  <2>2. Len(Text(s, l)) = i /\ Len(Text(s, r)) = sv.count - i
    BY <1>3, <1>4
  <2> QED
    BY <2>1, <2>2, Zenon
<1>7. Len(joined) = sv.count
  BY <1>1, <1>6
<1>8. ASSUME NEW k \in 1 .. sv.count PROVE Text(s, sv)[k] = joined[k]
  <2>1. k \in 1 .. i + (sv.count - i)
    BY <1>1
  <2>2. joined[k] = IF k <= i THEN Text(s, l)[k] ELSE Text(s, r)[k - i]
    BY <1>6, <2>1
  <2>3. Text(s, sv)[k] = s[sv.data + (k - 1) + 1]
    BY <1>5 DEF Char
  <2>4. CASE k <= i
    <3>1. k \in 1 .. i
      BY <2>4, <1>1
    <3>2. Text(s, l)[k] = s[sv.data + (k - 1) + 1]
      BY <3>1, <1>2, <1>3 DEF Char
    <3> QED
      BY <2>2, <2>3, <2>4, <3>2
  <2>5. CASE ~ k <= i
    <3>1. k - i \in 1 .. sv.count - i
      BY <2>5, <1>1
    <3>2. Text(s, r)[k - i] = s[sv.data + i + (k - i - 1) + 1]
      BY <3>1, <1>2, <1>4 DEF Char
    <3>3. sv.data + i + (k - i - 1) + 1 = sv.data + (k - 1) + 1
      BY <1>1
    <3> QED
      BY <2>2, <2>3, <2>5, <3>2, <3>3
  <2> QED
    BY <2>4, <2>5
<1> HIDE DEF joined
<1>9. Text(s, sv) = joined
  BY <1>5, <1>6, <1>7, <1>8, SeqEqual
<1> QED
  BY <1>9 DEF joined, l, r

\* memcmp() over equal counts says whether two views have the same text.
LEMMA EqualTexts ==
  ASSUME NEW s \in Seq(STRING), NEW a, IsView(s, a), NEW b, IsView(s, b)
  PROVE  SvEq(s, a, b) <=> Text(s, a) = Text(s, b)
<1>1. /\ Text(s, a) \in Seq(STRING) /\ Len(Text(s, a)) = a.count
      /\ \A k \in 1 .. a.count : Text(s, a)[k] = Char(s, a, k - 1)
  BY TextOfView
<1>2. /\ Text(s, b) \in Seq(STRING) /\ Len(Text(s, b)) = b.count
      /\ \A k \in 1 .. b.count : Text(s, b)[k] = Char(s, b, k - 1)
  BY TextOfView
<1>3. a.count \in Nat
  BY <1>1
<1>4. ASSUME SvEq(s, a, b) PROVE Text(s, a) = Text(s, b)
  <2>1. a.count = b.count /\ \A i \in 0 .. a.count - 1 : Char(s, a, i) = Char(s, b, i)
    BY <1>4 DEF SvEq
  <2>2. ASSUME NEW k \in 1 .. a.count PROVE Text(s, a)[k] = Text(s, b)[k]
    <3>1. k - 1 \in 0 .. a.count - 1
      BY <1>3
    <3> QED
      BY <1>1, <1>2, <2>1, <3>1
  <2> QED
    BY <1>1, <1>2, <2>1, <2>2, SeqEqual
<1>5. ASSUME Text(s, a) = Text(s, b) PROVE SvEq(s, a, b)
  <2>1. a.count = b.count
    BY <1>1, <1>2, <1>5
  <2>2. ASSUME NEW i \in 0 .. a.count - 1 PROVE Char(s, a, i) = Char(s, b, i)
    <3>1. i + 1 \in 1 .. a.count /\ (i + 1) - 1 = i
      BY <1>3
    <3>2. Text(s, a)[i + 1] = Char(s, a, (i + 1) - 1) /\ Text(s, b)[i + 1] = Char(s, b, (i + 1) - 1)
      BY <1>1, <1>2, <2>1, <3>1
    <3> QED
      BY <1>5, <3>1, <3>2
  <2> QED
    BY <2>1, <2>2 DEF SvEq
<1> QED
  BY <1>4, <1>5

\* nob_sv_chop_by_delim takes off the text up to the first delimiter, and no more is lost than
\* that delimiter (nob.h:2558-2576).
THEOREM PiecesRejoin ==
  ASSUME NEW s \in Seq(STRING), NEW sv, IsView(s, sv), NEW delim
  PROVE  LET c == ChopByDelim(s, sv, delim)
             piece == Text(s, c.piece)
         IN  /\ \A k \in DOMAIN piece : piece[k] # delim
             /\ Text(s, sv) = IF \E k \in 1 .. sv.count : Text(s, sv)[k] = delim
                                THEN piece \o << delim >> \o Text(s, c.rest)
                                ELSE piece
<1> DEFINE class == {s[k] : k \in DOMAIN s} \ {delim}
           i == Leading(s, sv, class)
           p == FromParts(sv.data, i)
<1>0. /\ Len(s) \in Nat /\ sv.data \in 0 .. Len(s) /\ sv.count \in 0 .. Len(s) - sv.data
      /\ sv.count \in Nat /\ DOMAIN s = 1 .. Len(s)
  BY DEF IsView
<1>1. \A j \in 0 .. sv.count - 1 : Char(s, sv, j) \in class <=> Char(s, sv, j) # delim
  <2>1. ASSUME NEW j \in 0 .. sv.count - 1 PROVE sv.data + j + 1 \in DOMAIN s
    BY <1>0
  <2> QED
    BY <2>1, Zenon DEF Char
<1> HIDE DEF class
<1>2. /\ i \in 0 .. sv.count
      /\ \A j \in 0 .. i - 1 : Char(s, sv, j) \in class
      /\ i < sv.count => Char(s, sv, i) \notin class
  BY <1>0, LeadingIs, Zenon
<1>3. ChopByDelim(s, sv, delim) = Cut(sv, i, IF i < sv.count THEN 1 ELSE 0)
  BY DEF ChopByDelim, class
<1> HIDE DEF i
<1>4. IsView(s, p) /\ p.data = sv.data /\ p.count = i
  BY <1>2, PartsOfView DEF FromParts
<1>5. ChopByDelim(s, sv, delim).piece = p
  BY <1>3 DEF Cut
<1> HIDE DEF p
<1>6. /\ Text(s, p) \in Seq(STRING) /\ Len(Text(s, p)) = i
      /\ \A k \in 1 .. i : Text(s, p)[k] = Char(s, sv, k - 1)
  BY <1>4, TextOfView DEF Char
<1>7. ASSUME NEW k \in DOMAIN Text(s, p) PROVE Text(s, p)[k] # delim
  <2>1. k \in 1 .. i
    BY <1>6
  <2>2. k - 1 \in 0 .. i - 1 /\ k - 1 \in 0 .. sv.count - 1
    BY <1>0, <1>2, <2>1
  <2> QED
    BY <1>1, <1>2, <1>6, <2>1, <2>2
<1>8. /\ Text(s, sv) \in Seq(STRING) /\ Len(Text(s, sv)) = sv.count
      /\ \A k \in 1 .. sv.count : Text(s, sv)[k] = Char(s, sv, k - 1)
  BY TextOfView
<1>9. CASE i < sv.count
  <2> DEFINE l == FromParts(sv.data, i + 1)
             d == FromParts(sv.data + i, 1)
             r == FromParts(sv.data + (i + 1), sv.count - (i + 1))
  <2>1. i + 1 \in 0 .. sv.count /\ i + 1 \in 1 .. sv.count /\ (i + 1) - 1 = i /\ i \in 0 .. i + 1
        /\ i \in 0 .. sv.count - 1
    BY <1>0, <1>2, <1>9
  <2>2. Text(s, sv) = Text(s, l) \o Text(s, r)
    BY <2>1, TextSplits
  <2>3. IsView(s, l) /\ l.data = sv.data /\ l.count = i + 1
    BY <2>1, PartsOfView DEF FromParts
  <2>4. Text(s, l) = Text(s, p) \o Text(s, d)
    <3> HIDE DEF l
    <3>1. Text(s, l) = Text(s, FromParts(l.data, i)) \o Text(s, FromParts(l.data + i, l.count - i))
      BY <2>1, <2>3, TextSplits
    <3>2. l.count - i = 1
      BY <1>2, <2>3
    <3> QED
      BY <2>3, <3>1, <3>2 DEF p
  <2>5. Text(s, d) = << delim >>
    <3>1. Char(s, sv, i) = delim
      BY <1>1, <1>2, <1>9, <2>1
    <3>2. Char(s, d, 0) = Char(s, sv, i)
      BY <1>0, <1>2 DEF Char, FromParts
    <3>3. Text(s, d) = [k \in 1 .. 1 |-> Char(s, d, k - 1)]
      BY DEF Text, FromParts
    <3> HIDE DEF d
    <3> QED
      BY <3>1, <3>2, <3>3
  <2>6. ChopByDelim(s, sv, delim).rest = r
    <3>1. (IF i < sv.count THEN 1 ELSE 0) = 1
      BY <1>9
    <3>2. ChopByDelim(s, sv, delim) = Cut(sv, i, 1)
      BY <1>3, <3>1, Zenon
    <3>3. ChopByDelim(s, sv, delim).rest = FromParts(sv.data + i + 1, sv.count - (i + 1))
      BY <3>2 DEF Cut
    <3>4. sv.data + i + 1 = sv.data + (i + 1)
      BY <1>0, <1>2
    <3> QED
      BY <3>3, <3>4
  <2>7. \E k \in 1 .. sv.count : Text(s, sv)[k] = delim
    <3>1. Char(s, sv, (i + 1) - 1) = delim
      BY <1>1, <1>2, <1>9, <2>1
    <3> QED
      BY <1>8, <2>1, <3>1
  <2> HIDE DEF l, d, r
  <2> QED
    BY <1>5, <1>7, <2>2, <2>4, <2>5, <2>6, <2>7, Zenon
<1>10. CASE ~ i < sv.count
  <2>1. i = sv.count
    BY <1>0, <1>2, <1>10
  <2>2. p = sv
    BY <2>1 DEF p, IsView
  <2>3. ~ \E k \in 1 .. sv.count : Text(s, sv)[k] = delim
    BY <1>7, <1>8, <2>2
  <2> QED
    BY <1>5, <1>7, <2>2, <2>3, Zenon
<1> QED
  BY <1>9, <1>10

\* nob_sv_trim leaves no white space at either end and takes nothing else off (nob.h:2631-2654).
THEOREM TrimTakesBlanks ==
  ASSUME NEW s \in Seq(STRING), NEW sv, IsView(s, sv), NEW space
  PROVE  LET t == Trim(s, sv, space)
         IN  /\ t.count > 0 => /\ Char(s, t, 0) \notin space
                               /\ Char(s, t, t.count - 1) \notin space
             /\ \A i \in 0 .. sv.count - 1 :
                  \/ Char(s, sv, i) \in space
                  \/ sv.data + i \in t.data .. t.data + t.count - 1
<1> DEFINE n == Leading(s, sv, space)
           l == FromParts(sv.data + n, sv.count - n)
           m == Trailing(s, l, space)
           t == FromParts(sv.data + n, sv.count - n - m)
<1>0. /\ Len(s) \in Nat /\ sv.data \in 0 .. Len(s) /\ sv.count \in 0 .. Len(s) - sv.data
      /\ sv.count \in Nat
  BY DEF IsView
<1>1. /\ n \in 0 .. sv.count
      /\ \A j \in 0 .. n - 1 : Char(s, sv, j) \in space
      /\ n < sv.count => Char(s, sv, n) \notin space
  BY <1>0, LeadingIs, Zenon
<1>2. Trim(s, sv, space) = t
  BY DEF Trim, TrimRight, TrimLeft, FromParts
<1> HIDE DEF n
<1>3. l.data = sv.data + n /\ l.count = sv.count - n /\ l.count \in Nat
  BY <1>0, <1>1 DEF FromParts
<1>4. t.data = sv.data + n /\ t.count = sv.count - n - m
  BY DEF FromParts
<1> HIDE DEF l
<1>5. /\ m \in 0 .. l.count
      /\ \A j \in 0 .. m - 1 : Char(s, l, l.count - 1 - j) \in space
      /\ m < l.count => Char(s, l, l.count - 1 - m) \notin space
  BY <1>3, TrailingIs, Zenon
<1> HIDE DEF m, t
<1>6. n \in Nat /\ m \in Nat /\ n + m <= sv.count
  BY <1>0, <1>1, <1>3, <1>5
<1>7. ASSUME t.count > 0
      PROVE  Char(s, t, 0) \notin space /\ Char(s, t, t.count - 1) \notin space
  <2>1. n < sv.count /\ m < l.count
    BY <1>0, <1>3, <1>4, <1>6, <1>7
  <2>2. Char(s, t, 0) = Char(s, sv, n)
    <3>1. t.data + 0 + 1 = sv.data + n + 1
      BY <1>0, <1>4, <1>6
    <3> QED
      BY <3>1, Zenon DEF Char
  <2>3. Char(s, t, t.count - 1) = Char(s, l, l.count - 1 - m)
    <3>1. t.data + (t.count - 1) + 1 = l.data + (l.count - 1 - m) + 1
      BY <1>0, <1>3, <1>4, <1>6
    <3> QED
      BY <3>1, Zenon DEF Char
  <2> QED
    BY <1>1, <1>5, <2>1, <2>2, <2>3
<1>8. ASSUME NEW i \in 0 .. sv.count - 1
      PROVE  Char(s, sv, i) \in space \/ sv.data + i \in t.data .. t.data + t.count - 1
  <2>1. CASE i < n
    <3>1. i \in 0 .. n - 1
      BY <1>0, <1>1, <2>1
    <3> QED
      BY <1>1, <3>1
  <2>2. CASE i >= sv.count - m
    <3> DEFINE j == sv.count - 1 - i
    <3>1. j \in 0 .. m - 1
      BY <1>0, <1>6, <2>2
    <3>2. Char(s, l, l.count - 1 - j) = Char(s, sv, i)
      <4>1. l.data + (l.count - 1 - j) + 1 = sv.data + i + 1
        BY <1>0, <1>3, <1>6
      <4> QED
        BY <4>1, Zenon DEF Char
    <3> QED
      BY <1>5, <3>1, <3>2, Zenon
  <2>3. CASE n <= i /\ i < sv.count - m
    <3>1. sv.data + i \in t.data .. t.data + t.count - 1
      <4>1. t.data \in Int /\ t.count \in Int /\ i \in Int /\ sv.data \in Int
        BY <1>0, <1>4, <1>6
      <4>2. t.data <= sv.data + i
        BY <1>0, <1>4, <1>6, <2>3
      <4>3. sv.data + i <= t.data + t.count - 1
        BY <1>0, <1>4, <1>6, <2>3
      <4> QED
        BY <4>1, <4>2, <4>3
    <3> QED
      BY <3>1
  <2> QED
    BY <1>0, <1>6, <2>1, <2>2, <2>3
<1> QED
  BY <1>2, <1>7, <1>8, Zenon

\* nob_sv_starts_with is true exactly if the text begins with the prefix's and what
\* nob_sv_chop_prefix leaves is the rest of it (nob.h:2578-2585, 2692-2700).
THEOREM ChopsPrefixes ==
  ASSUME NEW s \in Seq(STRING), NEW sv, IsView(s, sv), NEW prefix, IsView(s, prefix)
  PROVE  StartsWith(s, sv, prefix)
           <=> Text(s, sv) = Text(s, prefix) \o Text(s, ChopPrefix(s, sv, prefix))
<1> DEFINE n == prefix.count
           l == FromParts(sv.data, n)
           r == FromParts(sv.data + n, sv.count - n)
<1>0. n \in Nat /\ sv.count \in Nat /\ sv.data \in Nat
  BY DEF IsView
<1>1. ASSUME StartsWith(s, sv, prefix)
      PROVE  Text(s, sv) = Text(s, prefix) \o Text(s, ChopPrefix(s, sv, prefix))
  <2>1. n \in 0 .. sv.count /\ SvEq(s, prefix, l)
    BY <1>0, <1>1 DEF StartsWith
  <2>2. IsView(s, l) /\ Text(s, sv) = Text(s, l) \o Text(s, r)
    BY <2>1, PartsOfView, TextSplits
  <2>3. ChopPrefix(s, sv, prefix) = r
    <3>1. AtMost(n, sv) = n /\ n + 0 = n
      BY <1>0, <2>1 DEF AtMost
    <3>2. ChopPrefix(s, sv, prefix) = Cut(sv, n, 0).rest
      BY <1>1, <3>1, Zenon DEF ChopPrefix, ChopLeft
    <3>3. ChopPrefix(s, sv, prefix) = FromParts(sv.data + (n + 0), sv.count - (n + 0))
      <4>1. ChopPrefix(s, sv, prefix) = FromParts(sv.data + n + 0, sv.count - (n + 0))
        BY <3>2 DEF Cut
      <4>2. sv.data + n + 0 = sv.data + (n + 0)
        BY <1>0
      <4> QED
        BY <4>1, <4>2
    <3> QED
      BY <3>1, <3>3
  <2>4. Text(s, prefix) = Text(s, l)
    BY <2>1, <2>2, EqualTexts
  <2> QED
    BY <2>2, <2>3, <2>4
<1>2. ASSUME ~ StartsWith(s, sv, prefix),
             Text(s, sv) = Text(s, prefix) \o Text(s, ChopPrefix(s, sv, prefix))
      PROVE  FALSE
  <2>1. ChopPrefix(s, sv, prefix) = sv
    BY <1>2 DEF ChopPrefix
  <2>2. /\ Text(s, sv) \in Seq(STRING) /\ Len(Text(s, sv)) = sv.count
        /\ Text(s, prefix) \in Seq(STRING) /\ Len(Text(s, prefix)) = n
    BY TextOfView
  <2>3. Len(Text(s, prefix) \o Text(s, sv)) = Len(Text(s, prefix)) + Len(Text(s, sv))
    BY <2>2, ConcatProperties, Zenon
  <2>4. n = 0
    BY <1>0, <1>2, <2>1, <2>2, <2>3
  <2>5. StartsWith(s, sv, prefix)
    BY <1>0, <2>4 DEF StartsWith, SvEq, FromParts
  <2> QED
    BY <1>2, <2>5
<1> QED
  BY <1>1, <1>2

\* The same of nob_sv_ends_with and nob_sv_chop_suffix (nob.h:2587-2594, 2680-2690).
THEOREM ChopsSuffixes ==
  ASSUME NEW s \in Seq(STRING), NEW sv, IsView(s, sv), NEW suffix, IsView(s, suffix)
  PROVE  EndsWith(s, sv, suffix)
           <=> Text(s, sv) = Text(s, ChopSuffix(s, sv, suffix)) \o Text(s, suffix)
<1> DEFINE n == suffix.count
           i == sv.count - n
           l == FromParts(sv.data, i)
           r == FromParts(sv.data + i, sv.count - i)
<1>0. n \in Nat /\ sv.count \in Nat /\ sv.data \in Nat
  BY DEF IsView
<1>1. ASSUME EndsWith(s, sv, suffix)
      PROVE  Text(s, sv) = Text(s, ChopSuffix(s, sv, suffix)) \o Text(s, suffix)
  <2>1. n <= sv.count /\ SvEq(s, FromParts(sv.data + sv.count - n, n), suffix)
    BY <1>1 DEF EndsWith
  <2>2. i \in 0 .. sv.count /\ sv.count - i = n /\ sv.data + i = sv.data + sv.count - n
    BY <1>0, <2>1
  <2>3. IsView(s, r) /\ Text(s, sv) = Text(s, l) \o Text(s, r)
    <3> HIDE DEF i
    <3> QED
      BY <2>2, PartsOfView, TextSplits
  <2>4. SvEq(s, r, suffix)
    BY <2>1, <2>2
  <2>5. ChopSuffix(s, sv, suffix) = l
    <3>1. AtMost(n, sv) = n
      BY <1>0, <2>1 DEF AtMost
    <3>2. ChopSuffix(s, sv, suffix) = ChopRight(sv, n).rest
      BY <1>1, Zenon DEF ChopSuffix
    <3> QED
      BY <3>1, <3>2 DEF ChopRight
  <2>6. Text(s, r) = Text(s, suffix)
    BY <2>3, <2>4, EqualTexts
  <2> QED
    BY <2>3, <2>5, <2>6
<1>2. ASSUME ~ EndsWith(s, sv, suffix),
             Text(s, sv) = Text(s, ChopSuffix(s, sv, suffix)) \o Text(s, suffix)
      PROVE  FALSE
  <2>1. ChopSuffix(s, sv, suffix) = sv
    BY <1>2 DEF ChopSuffix
  <2>2. /\ Text(s, sv) \in Seq(STRING) /\ Len(Text(s, sv)) = sv.count
        /\ Text(s, suffix) \in Seq(STRING) /\ Len(Text(s, suffix)) = n
    BY TextOfView
  <2>3. Len(Text(s, sv) \o Text(s, suffix)) = Len(Text(s, sv)) + Len(Text(s, suffix))
    BY <2>2, ConcatProperties, Zenon
  <2>4. n = 0
    BY <1>0, <1>2, <2>1, <2>2, <2>3
  <2>5. EndsWith(s, sv, suffix)
    BY <1>0, <2>4 DEF EndsWith, SvEq, FromParts
  <2> QED
    BY <1>2, <2>5
<1> QED
  BY <1>1, <1>2

-----------------------------------------------------------------------------
(* The rebuild of ./nob. *)

\* No file is newer than the clock.
Clock == code.mtime <= now /\ read.at <= now

\* Where a binary is: the one that runs is nob until it is renamed, and then nob.old is kept
\* until there is a new one.
BinaryKept ==
  /\ pc \in {"check", "rename", "work"} => nob.state = "whole" /\ image = nob.version
  /\ pc \in {"compile", "write", "restore"} => old.state = "whole"

\* What was read of nob.c is what is in it, unless it was edited in that second or later.
Seen(version, at) == version = code.version \/ at <= code.mtime

SeenBy ==
  /\ nob.state = "whole" => Seen(nob.version, nob.read)
  /\ old.state = "whole" => Seen(old.version, old.read)
  /\ pc = "write" => Seen(read.version, read.at)

\* The comparison of the times holds on while the tool works, unless nob.c is edited.
Compared == pc = "work" => late \/ code.mtime <= nob.mtime

IInv == TypeOK /\ Clock /\ SomeBinary /\ BinaryKept /\ SeenBy /\ Compared

-----------------------------------------------------------------------------

USE RebuildAssumption DEF Time, Version, Binary, NoBinary, Compiled, Kept, Exit

LEMMA Initially == Init => IInv
<1> SUFFICES ASSUME Init PROVE IInv
  OBVIOUS
<1>1. TypeOK
  <2>1. 0 \in 0 .. MaxTime /\ 0 \in 0 .. MaxVersion
    OBVIOUS
  <2>2. nob \in Binary /\ old \in Binary
    BY <2>1 DEF Init
  <2>3. \A file \in {nob, old} : file.read <= file.mtime /\ file.mtime <= now
    BY DEF Init
  <2> QED BY <2>1, <2>2, <2>3 DEF Init, TypeOK
<1>2. Clock /\ SomeBinary /\ BinaryKept /\ SeenBy /\ Compared
  BY DEF Init, Clock, SomeBinary, BinaryKept, SeenBy, Seen, Compared
<1> QED BY <1>1, <1>2 DEF IInv

\* Each of the two conditions on times and binaries, for every action.
LEMMA Inductive == IInv /\ [Next]_vars => IInv'
<1> SUFFICES ASSUME IInv, [Next]_vars PROVE IInv'
  OBVIOUS
<1> USE DEF IInv, TypeOK, Clock, SomeBinary, BinaryKept, SeenBy, Seen, Compared
<1>1. CASE NeedsRebuild
  <2>1. TypeOK'
    BY <1>1 DEF NeedsRebuild, Fresher
  <2>2. Clock' /\ SomeBinary' /\ BinaryKept'
    BY <1>1 DEF NeedsRebuild, Fresher
  <2>3. SeenBy'
    BY <1>1 DEF NeedsRebuild, Fresher
  <2>4. Compared'
    BY <1>1 DEF NeedsRebuild, Fresher
  <2> QED BY <2>1, <2>2, <2>3, <2>4
<1>2. CASE Rename
  BY <1>2 DEF Rename
<1>3. CASE CompilerReads
  BY <1>3 DEF CompilerReads
<1>4. CASE CompilerEnds
  BY <1>4 DEF CompilerEnds
<1>5. CASE Restore
  BY <1>5 DEF Restore
<1>6. CASE Work
  BY <1>6 DEF Work
<1>7. CASE Tick
  BY <1>7 DEF Tick
<1>8. CASE Edit
  <2>1. TypeOK'
    BY <1>8 DEF Edit
  <2>2. Clock' /\ SomeBinary' /\ BinaryKept'
    BY <1>8 DEF Edit
  <2>3. SeenBy'
    BY <1>8 DEF Edit
  <2>4. Compared'
    BY <1>8 DEF Edit
  <2> QED BY <2>1, <2>2, <2>3, <2>4
<1>9. CASE Invoke
  BY <1>9 DEF Invoke
<1>10. CASE Bootstrap
  BY <1>10 DEF Bootstrap
<1>11. CASE Killed
  <2>1. TypeOK'
    <3>1. nob' = nob \/ nob' = [state |-> "cut", version |-> 0, mtime |-> now, read |-> 0]
      BY <1>11 DEF Killed
    <3>2. nob' \in Binary
      BY <3>1
    <3>3. nob'.read <= nob'.mtime /\ nob'.mtime <= now
      BY <3>1
    <3> QED BY <1>11, <3>2, <3>3 DEF Killed
  <2>2. Clock' /\ SomeBinary' /\ BinaryKept'
    BY <1>11 DEF Killed
  <2>3. SeenBy'
    BY <1>11 DEF Killed
  <2>4. Compared'
    BY <1>11 DEF Killed
  <2> QED BY <2>1, <2>2, <2>3, <2>4
<1>12. CASE UNCHANGED vars
  BY <1>12 DEF vars
<1> QED
  BY <1>1, <1>2, <1>3, <1>4, <1>5, <1>6, <1>7, <1>8, <1>9, <1>10, <1>11, <1>12 DEF Next, Tool

LEMMA Invariant == Spec => []IInv
BY Initially, Inductive, PTL DEF Spec

\* The clock, the files and the state of the tool keep their types, and no binary is newer
\* than the clock or older than what the compiler read for it.
THEOREM RebuildTypes == Spec => []TypeOK
<1>1. IInv => TypeOK
  BY DEF IInv
<1> QED BY <1>1, Invariant, PTL

\* Wherever the tool is killed between the comparison and the new binary, and whichever of
\* its renames and compilations fails, nob or nob.old is whole (nob.h:1046-1062).
THEOREM AlwaysABinary == Spec => []SomeBinary
<1>1. IInv => SomeBinary
  BY DEF IInv
<1> QED BY <1>1, Invariant, PTL

\* However often nob.c is edited, the tool works as a binary of what is in it, but for edits
\* made since the comparison, and for those made while the compiler ran or in the second in
\* which it ended (nob.h:2432).
THEOREM QuietEditsBuilt == Spec => []QuietEditsAreBuilt
<1>1. IInv => QuietEditsAreBuilt
  BY DEF IInv, TypeOK, Clock, BinaryKept, SeenBy, Seen, Compared, QuietEditsAreBuilt
<1> QED BY <1>1, Invariant, PTL
=============================================================================
