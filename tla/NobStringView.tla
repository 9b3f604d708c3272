--------------------------- MODULE NobStringView ----------------------------
(***************************************************************************)
(* The string views of nob.h.  A view is a pair of a pointer, here an      *)
(* offset into the text s it was made of, and a count; the functions never *)
(* write to the text.  Those that take a piece off a view return it and    *)
(* leave the rest: [piece, rest].                                          *)
(***************************************************************************)
EXTENDS Integers, Sequences, FiniteSets

FromParts(data, count) == [data |-> data, count |-> count]

\* The view lies in the text.  Counts are size_t: one below zero would be a huge one.
IsView(s, sv) ==
  /\ sv = FromParts(sv.data, sv.count)
  /\ sv.data \in 0 .. Len(s)
  /\ sv.count \in 0 .. Len(s) - sv.data

Char(s, sv, i) == s[sv.data + i + 1]
Text(s, sv) == [k \in 1 .. sv.count |-> Char(s, sv, k - 1)]

\* How far "while (i < sv.count && ...) i += 1" comes: over the characters of a class, from
\* the left or from the right.
Leading(s, sv, class) ==
  Cardinality({i \in 0 .. sv.count - 1 : \A j \in 0 .. i : Char(s, sv, j) \in class})
Trailing(s, sv, class) ==
  Cardinality({i \in 0 .. sv.count - 1 : \A j \in 0 .. i : Char(s, sv, sv.count - 1 - j) \in class})

Cut(sv, i, gap) ==
  [piece |-> FromParts(sv.data, i), rest |-> FromParts(sv.data + i + gap, sv.count - (i + gap))]

ChopWhile(s, sv, class) == Cut(sv, Leading(s, sv, class), 0)

\* The delimiter goes with neither; a view without one is taken as a whole.
ChopByDelim(s, sv, delim) ==
  LET i == Leading(s, sv, {s[k] : k \in DOMAIN s} \ {delim})
  IN  Cut(sv, i, IF i < sv.count THEN 1 ELSE 0)

AtMost(n, sv) == IF n > sv.count THEN sv.count ELSE n

ChopLeft(sv, n) == Cut(sv, AtMost(n, sv), 0)

ChopRight(sv, n) ==
  [piece |-> FromParts(sv.data + sv.count - AtMost(n, sv), AtMost(n, sv)),
   rest  |-> FromParts(sv.data, sv.count - AtMost(n, sv))]

TrimLeft(s, sv, space) == LET i == Leading(s, sv, space) IN FromParts(sv.data + i, sv.count - i)
TrimRight(s, sv, space) == FromParts(sv.data, sv.count - Trailing(s, sv, space))
Trim(s, sv, space) == TrimRight(s, TrimLeft(s, sv, space), space)

SvEq(s, a, b) == a.count = b.count /\ \A i \in 0 .. a.count - 1 : Char(s, a, i) = Char(s, b, i)

EndsWith(s, sv, suffix) ==
  /\ sv.count >= suffix.count
  /\ SvEq(s, FromParts(sv.data + sv.count - suffix.count, suffix.count), suffix)

StartsWith(s, sv, prefix) ==
  /\ prefix.count <= sv.count
  /\ SvEq(s, prefix, FromParts(sv.data, prefix.count))

\* What is left of the view, whether or not it had the prefix or the suffix.
ChopPrefix(s, sv, prefix) ==
  IF StartsWith(s, sv, prefix) THEN ChopLeft(sv, prefix.count).rest ELSE sv
ChopSuffix(s, sv, suffix) ==
  IF EndsWith(s, sv, suffix) THEN ChopRight(sv, suffix.count).rest ELSE sv

-----------------------------------------------------------------------------

\* The two parts lie in the text, and with the gap between them make up the view.
Tiles(s, sv, left, gap, right) ==
  /\ IsView(s, left) /\ IsView(s, right)
  /\ left.data = sv.data
  /\ right.data = left.data + left.count + gap
  /\ right.data + right.count = sv.data + sv.count
=============================================================================
