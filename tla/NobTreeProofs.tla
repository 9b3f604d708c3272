---------------------------- MODULE NobTreeProofs ----------------------------
(***************************************************************************)
(* What holds of the copies and the walks of nob.h for any trees, whatever *)
(* vanishes and fails meanwhile, and for temporary memory of any size.     *)
(* Both are recursions, so the invariant speaks of every frame of the      *)
(* stack: of what its function has behind it and what it holds.            *)
(***************************************************************************)
EXTENDS NobTree, FiniteSetTheorems, TLAPS

FrameType ==
  [path : Tree, at : {"enter", "list", "file", "loop", "visit", "open", "next"}, mark : Nat,
   kids : Seq(1 .. TempLimit), type : Kind \cup {"none"}, left : SUBSET Name, opened : BOOLEAN]
VisitType == [path : Tree, type : Kind \cup {"none"}, answer : {"cont", "skip", "stop", "fail"}]
CallType  == [op : {"none", "copy", "pre", "post"}, src : SourceTree, dst : TargetTree, used : 0 .. TempLimit]

Depth == Len(stack)

Typed ==
  /\ src \in SourceTree /\ dst \in TargetTree
  /\ op \in {"idle", "copy", "pre", "post", "aborted", "starved"}
  /\ stack \in Seq(FrameType)
  /\ result \in BOOLEAN /\ stop \in BOOLEAN
  /\ temp \in [1 .. TempLimit -> Name \cup {"."}] /\ used \in 0 .. TempLimit
  /\ sb \in Seq(Name \cup {"root", NUL})
  /\ open \in Nat
  /\ visited \in Seq(VisitType)
  /\ first \in CallType
  /\ refused \in SUBSET Tree

\* What goes away from the source does not come back while a call runs.
Shrinks == \A p \in Tree : src[p] \in {first.src[p], "none"}

Calls ==
  /\ op \in {"idle", "aborted", "starved"} <=> stack = << >>
  /\ op \in {"copy", "pre", "post"} => first.op = op
  /\ op \in {"idle", "pre", "post"} => used = first.used
  /\ op \in {"idle", "copy"} => open = 0

-----------------------------------------------------------------------------
(* A copy. *)

\* The frames are the way to the entry that is copied; only the last one is at work.
CopyStack ==
  /\ stack[1].path = << >> /\ stack[1].mark = first.used
  /\ \A i \in 1 .. Depth - 1 :
       /\ stack[i].at = "loop"
       /\ \E c \in Children(first.src, stack[i].path) : stack[i + 1].path = Append(stack[i].path, c)
  /\ \A i, j \in DOMAIN stack : i <= j => IsPrefix(stack[i].path, stack[j].path)
  /\ \A i \in DOMAIN stack : stack[i].mark <= TempLimit
  /\ Top.at \in {"enter", "list", "file", "loop"}
  /\ ~result => Top.at = "loop"
  /\ \A i \in DOMAIN stack :
       /\ stack[i].at \in {"list", "loop"} => first.src[stack[i].path] = "directory"
       /\ stack[i].at = "file" => first.src[stack[i].path] = "file"

\* The names a loop still has to come to are in temporary memory, where no later call puts
\* anything: each of those began with a higher mark.
Kids ==
  \A i \in DOMAIN stack : \A k \in DOMAIN stack[i].kids :
    LET cell == stack[i].kids[k]
    IN  /\ cell <= used
        /\ \A j \in i + 1 .. Depth : cell <= stack[j].mark
        /\ temp[cell] \in {"."} \cup Children(first.src, stack[i].path)

\* What each call has stored, as long as nothing vanishes.
Amount ==
  src = first.src =>
    /\ \A i \in 1 .. Depth - 1 : stack[i + 1].mark = first.used + Needed(first.src, stack[i].path)
    /\ used = IF Top.at = "loop" THEN first.used + Needed(first.src, Top.path) ELSE Top.mark

\* What CopiedAll says of an entry and all below it.
Copied(q) ==
  \/ dst[q] = src[q]
  \/ /\ src[q] = "directory" /\ first.dst[q] \in {"file", "partial"}
     /\ \A r \in Below(q) \ {q} : src[r] \in {"none", "symlink"}
Done(p) == \A q \in Below(p) : src[q] # "other" /\ (src[q] \in {"file", "directory"} => Copied(q))

Faithful == \A p \in Tree : dst[p] # first.dst[p] => dst[p] = first.src[p]

\* A name that a loop has still to come to, and the entry it is at.
Pending(i, c) == \E k \in DOMAIN stack[i].kids : temp[stack[i].kids[k]] = c
Current(i, p) == i < Depth /\ stack[i + 1].path = p

GoingAt(i) ==
  /\ stack[i].at \in {"list", "loop"} => dst[stack[i].path] # "none"
  /\ stack[i].at = "loop" =>
       \A c \in Children(src, stack[i].path) :
         Pending(i, c) \/ Current(i, Append(stack[i].path, c)) \/ Done(Append(stack[i].path, c))
Going == \A i \in DOMAIN stack : GoingAt(i)

CopyInv == CopyStack /\ Kids /\ Amount /\ (result => Faithful /\ Going)

-----------------------------------------------------------------------------
(* A walk. *)

\* The path of a frame: what the string builder holds up to its mark.
Way(i) == SubSeq(sb, 2, i)

\* Only where the loop over the entries is does the path of the last entry follow that of the
\* directory; the terminator is always the last character, and the only one.
PathHeld ==
  /\ Len(sb) \in {Depth + 1, Depth + 2} /\ sb[1] = "root" /\ sb[Len(sb)] = NUL
  /\ \A j \in 2 .. Len(sb) - 1 : sb[j] \in Name
  /\ Way(Depth) \in Tree

\* No visit was to this path or below it.
Fresh(p) == \A k \in DOMAIN visited : ~IsPrefix(p, visited[k].path)

\* What a call has been told of the type of its entry.
Told(p, t) == t = first.src[p] \/ (t = "none" /\ (src[p] = "none" \/ p \in refused))

\* A call whose path is p: what it has still to come to, and in post-order it itself, is unvisited.
CallAt(i, p) ==
  /\ stack[i].mark = i + 1
  /\ stack[i].at = "next" =>
       /\ stack[i].opened /\ stack[i].left \subseteq Children(first.src, p)
       /\ \A c \in stack[i].left : Fresh(Append(p, c))
  /\ stack[i].at # "enter" => Told(p, stack[i].type)
  /\ op = "post" => \A k \in DOMAIN visited : visited[k].path # p

\* All calls but the last are in their loops, at an entry they have taken.
LoopAt(i) == stack[i].at = "next" /\ sb[i + 1] \notin stack[i].left

LastAt(i, p) ==
  /\ stack[i].at \in {"enter", "visit", "open", "next"}
  /\ stack[i].at # "next" => result /\ ~stop /\ Len(sb) = i + 1
  /\ stack[i].at \in {"enter", "open"} \/ (op = "pre" /\ stack[i].at = "visit") => ~stack[i].opened
  /\ open = i - 1 + Closed(stack[i])
  /\ stack[i].at = "enter" \/ (op = "pre" /\ stack[i].at = "visit") \/ (op = "post" /\ stack[i].at = "open") =>
       Fresh(p)
  /\ op = "pre" /\ stack[i].at = "open" =>
       \A k \in DOMAIN visited : IsPrefix(p, visited[k].path) => visited[k].path = p

Answers ==
  /\ stop => result
  /\ \A k \in DOMAIN visited :
       (visited[k].answer = "fail" => ~result) /\ (visited[k].answer = "stop" => stop)

\* What VisitsAll says of all that is at a path and below it.
SeenAt(q) ==
  \/ \E k \in DOMAIN visited :
       \/ visited[k].path = q
       \/ first.op = "pre" /\ visited[k].answer = "skip" /\ IsPrefix(visited[k].path, q)
  \/ \E r \in refused \ {q} : IsPrefix(r, q)
Seen(p) == \A q \in Below(p) : src[q] # "none" => SeenAt(q)

CoveredAt(i, p) ==
  /\ stack[i].at = "next" =>
       \A c \in Children(src, p) :
         c \in stack[i].left \/ (i < Depth /\ sb[i + 1] = c) \/ Seen(Append(p, c))
  /\ op = "pre" /\ stack[i].at \in {"open", "next"} => SeenAt(p)
  /\ op = "post" /\ stack[i].at = "visit" => \A c \in Children(src, p) : Seen(Append(p, c))

WalkInv ==
  /\ PathHeld /\ Answers
  /\ \A i \in DOMAIN stack, p \in Tree : p = Way(i) =>
       /\ CallAt(i, p)
       /\ i < Depth => LoopAt(i)
       /\ i = Depth => LastAt(i, p)
       /\ result /\ ~stop => CoveredAt(i, p)

IInv ==
  /\ Typed /\ Shrinks /\ Calls
  /\ op = "copy" => CopyInv
  /\ Walking => WalkInv
  /\ CopiedAll /\ AbortsForCause /\ VisitsInOrder /\ VisitsAll

-----------------------------------------------------------------------------
(* Paths. *)

LEMMA Paths == /\ << >> \in Tree
               /\ \A p \in Tree : p \in Seq(Name) /\ \A k \in 0 .. Len(p) : SubSeq(p, 1, k) \in Tree
  BY TreeAssumption, Zenon

Begins(p, q) == Len(p) <= Len(q) /\ \A j \in 1 .. Len(p) : p[j] = q[j]

LEMMA PrefixIs ==
  ASSUME NEW p \in Seq(Name), NEW q \in Seq(Name)
  PROVE  IsPrefix(p, q) <=> Begins(p, q)
<1> DEFINE S == Name
<1> DEFINE n == Len(p)
<1>1. n \in Nat /\ Len(q) \in Nat
  OBVIOUS
<1>2. SubSeq(p, 1, n) = p
  OBVIOUS
<1>3. ASSUME n <= Len(q) PROVE SubSeq(q, 1, n) \in Seq(S) /\ Len(SubSeq(q, 1, n)) = n
  BY <1>3
<1>4. ASSUME n <= Len(q) PROVE \A j \in 1 .. n : SubSeq(q, 1, n)[j] = q[j]
  BY <1>4
<1>5. ASSUME n <= Len(q), \A j \in 1 .. n : p[j] = q[j] PROVE p = SubSeq(q, 1, n)
  BY <1>3, <1>4, <1>5
<1> HIDE DEF n
<1>6. IsPrefix(p, q) <=> n <= Len(q) /\ p = SubSeq(q, 1, n)
  BY <1>2, Zenon DEF IsPrefix, n
<1> QED
  BY <1>4, <1>5, <1>6, Zenon DEF n, Begins

LEMMA PrefixSelf == ASSUME NEW p \in Tree PROVE IsPrefix(p, p)
<1>1. p \in Seq(Name)
  BY Paths, Zenon
<1>2. Begins(p, p)
  BY <1>1 DEF Begins
<1> QED
  BY <1>1, <1>2, PrefixIs, Zenon

LEMMA PrefixOn ==
  ASSUME NEW p \in Tree, NEW q \in Tree, NEW r \in Tree, IsPrefix(p, q), IsPrefix(q, r)
  PROVE  IsPrefix(p, r)
<1>1. p \in Seq(Name) /\ q \in Seq(Name) /\ r \in Seq(Name)
  BY Paths, Zenon
<1>2. /\ Len(p) <= Len(q) /\ \A j \in 1 .. Len(p) : p[j] = q[j]
      /\ Len(q) <= Len(r) /\ \A j \in 1 .. Len(q) : q[j] = r[j]
  BY <1>1, PrefixIs, Zenon DEF Begins
<1>3. Len(p) <= Len(r) /\ \A j \in 1 .. Len(p) : p[j] = r[j]
  BY <1>1, <1>2
<1> QED
  BY <1>1, <1>3, PrefixIs, Zenon DEF Begins

\* An entry of a directory, and what is below it.
LEMMA ChildIs ==
  ASSUME NEW p \in Tree, NEW c, Append(p, c) \in Tree
  PROVE  /\ c \in Name /\ Len(Append(p, c)) = Len(p) + 1 /\ Append(p, c) # p /\ Append(p, c) # << >>
         /\ Append(p, c)[Len(p) + 1] = c /\ \A j \in 1 .. Len(p) : Append(p, c)[j] = p[j]
         /\ Front(Append(p, c)) = p /\ Append(p, c) \in Below(p)
<1> DEFINE q == Append(p, c)
           S == Name \cup {c}
<1>1. p \in Seq(Name) /\ q \in Seq(Name) /\ p \in Seq(S)
  <2>1. p \in Seq(Name) /\ q \in Seq(Name)
    BY Paths, Zenon
  <2> QED
    BY <2>1
<1>2. Len(q) = Len(p) + 1 /\ Len(p) \in Nat
  BY <1>1
<1>3. q[Len(p) + 1] = c /\ \A j \in 1 .. Len(p) : q[j] = p[j]
  BY <1>1
<1>4. c \in Name
  BY <1>1, <1>2, <1>3
<1>5. SubSeq(q, 1, Len(p)) = p
  BY <1>1, <1>4
<1>6. q # p /\ q # << >>
  BY <1>1, <1>2
<1>7. Front(q) = p
  BY <1>1, <1>2, <1>5 DEF Front
<1> HIDE DEF q
<1>8. IsPrefix(p, q)
  <2>1. Len(p) <= Len(q)
    BY <1>2
  <2> QED
    BY <1>1, <1>3, <2>1, PrefixIs, Zenon DEF Begins
<1> QED
  BY <1>2, <1>3, <1>4, <1>6, <1>7, <1>8, Zenon DEF q, Below

LEMMA BelowChild ==
  ASSUME NEW p \in Tree, NEW c, Append(p, c) \in Tree, NEW q \in Below(Append(p, c))
  PROVE  q \in Below(p) /\ q # p /\ q[Len(p) + 1] = c
<1> DEFINE r == Append(p, c)
<1>1. q \in Tree /\ IsPrefix(r, q) /\ IsPrefix(p, r)
  BY ChildIs, Zenon DEF Below
<1>2. IsPrefix(p, q)
  BY <1>1, PrefixOn, Zenon
<1>3. Len(r) = Len(p) + 1 /\ r[Len(p) + 1] = c
  BY ChildIs, Zenon
<1> HIDE DEF r
<1>4. r \in Seq(Name) /\ q \in Seq(Name) /\ p \in Seq(Name)
  BY <1>1, Paths, Zenon DEF r
<1>5. Len(r) <= Len(q) /\ \A j \in 1 .. Len(r) : r[j] = q[j]
  BY <1>1, <1>4, PrefixIs, Zenon DEF Begins
<1> QED
  BY <1>1, <1>2, <1>3, <1>4, <1>5 DEF Below

LEMMA BelowSplit ==
  ASSUME NEW p \in Tree, NEW q \in Below(p), q # p
  PROVE  \E c \in Name : Append(p, c) \in Tree /\ q \in Below(Append(p, c))
<1> DEFINE n == Len(p)
           c == q[n + 1]
<1>1. p \in Seq(Name) /\ q \in Seq(Name) /\ q \in Tree
  BY Paths, Zenon DEF Below
<1>2. n <= Len(q) /\ \A j \in 1 .. n : p[j] = q[j]
  BY <1>1, PrefixIs, Zenon DEF Below, Begins
<1>3. n \in Nat /\ n + 1 \in 1 .. Len(q)
  BY <1>1, <1>2
<1>4. c \in Name
  BY <1>1, <1>3
<1>5. Append(p, c) = SubSeq(q, 1, n + 1)
  BY <1>1, <1>2, <1>3, <1>4
<1> HIDE DEF n, c
<1>6. n + 1 \in 0 .. Len(q)
  BY <1>3
<1>7. Append(p, c) \in Tree
  BY <1>1, <1>5, <1>6, Paths, Zenon
<1> DEFINE r == Append(p, c)
<1>8. r \in Seq(Name) /\ Len(r) = n + 1 /\ r[n + 1] = c /\ \A j \in 1 .. n : r[j] = p[j]
  BY <1>7, ChildIs, Paths, Zenon DEF n
<1> HIDE DEF r
<1>9. Len(r) <= Len(q) /\ \A j \in 1 .. Len(r) : r[j] = q[j]
  BY <1>2, <1>3, <1>8 DEF c
<1>10. IsPrefix(r, q)
  BY <1>1, <1>8, <1>9, PrefixIs, Zenon DEF Begins
<1> QED
  BY <1>1, <1>4, <1>7, <1>10, Zenon DEF Below, r

\* Below two entries of a directory there is nothing that is below both.
LEMMA BelowOne ==
  ASSUME NEW p \in Tree, NEW c, NEW d, Append(p, c) \in Tree, Append(p, d) \in Tree,
         NEW q, q \in Below(Append(p, c)), q \in Below(Append(p, d))
  PROVE  c = d
<1>1. q[Len(p) + 1] = c
  BY BelowChild, Zenon
<1>2. q[Len(p) + 1] = d
  BY BelowChild, Zenon
<1> QED
  BY <1>1, <1>2, Zenon

\* Where there is no directory there is nothing below it.
LEMMA NothingBelow ==
  ASSUME NEW t, Under(t), NEW p \in Tree, t[p] # "directory", NEW q \in Below(p), q # p
  PROVE  t[q] = "none"
  BY Zenon DEF Under

LEMMA ChildUnder ==
  ASSUME NEW t, Under(t), NEW p \in Tree, NEW c, Append(p, c) \in Tree, t[Append(p, c)] # "none"
  PROVE  t[p] = "directory"
  BY ChildIs, Zenon DEF Under

-----------------------------------------------------------------------------
(* How much a copy has stored when it has come down to a directory. *)

Held(t, p) == {q \in Tree \ {<< >>} : t[q] # "none" /\ Front(q) = p}
Names(t, p) == {q \in Tree \ {<< >>} : t[q] # "none" /\ IsPrefix(Front(q), p)}
Upward(p) == {q \in Tree : IsPrefix(q, p)}

LEMMA TreeFinite == ASSUME NEW S \in SUBSET Tree PROVE IsFiniteSet(S)
  BY TreeAssumption, FS_Subset, Zenon

LEMMA FrontIs ==
  ASSUME NEW q \in Tree \ {<< >>}
  PROVE  Front(q) \in Tree /\ q[Len(q)] \in Name /\ q = Append(Front(q), q[Len(q)])
<1>1. q \in Seq(Name) /\ q # << >>
  BY Paths, Zenon
<1>2. Len(q) \in Nat \ {0} /\ q[Len(q)] \in Name /\ Len(q) - 1 \in 0 .. Len(q)
  BY <1>1
<1>3. q = Append(SubSeq(q, 1, Len(q) - 1), q[Len(q)])
  BY <1>1, <1>2
<1> QED
  BY <1>2, <1>3, Paths, Zenon DEF Front

LEMMA HeldSize ==
  ASSUME NEW t, NEW p \in Tree
  PROVE  Cardinality(Held(t, p)) = Cardinality(Children(t, p)) /\ IsFiniteSet(Children(t, p))
<1> DEFINE S == Held(t, p)
           T == Children(t, p)
           f == [q \in S |-> q[Len(q)]]
<1>1. \A q \in S : q \in Tree /\ q # << >> /\ q = Append(p, q[Len(q)]) /\ q[Len(q)] \in T
  BY FrontIs, Zenon DEF Held, Children
<1>2. \A c \in T : Append(p, c) \in S /\ Append(p, c)[Len(Append(p, c))] = c
  <2>1. ASSUME NEW c \in T PROVE Append(p, c) \in S /\ Append(p, c)[Len(Append(p, c))] = c
    <3>1. Append(p, c) \in Tree /\ t[Append(p, c)] # "none"
      BY Zenon DEF Children
    <3>2. /\ Len(Append(p, c)) = Len(p) + 1 /\ Append(p, c) # << >>
          /\ Append(p, c)[Len(p) + 1] = c /\ Front(Append(p, c)) = p
      BY <3>1, ChildIs, Zenon
    <3> QED
      BY <3>1, <3>2, Zenon DEF Held
  <2> QED
    BY <2>1, Zenon
<1> HIDE DEF S, T
<1>3. f \in [S -> T] /\ \A q \in S : f[q] = q[Len(q)]
  BY <1>1, Zenon
<1> HIDE DEF f
<1>4. \A q, r \in S : f[q] = f[r] => q = r
  BY <1>1, <1>3, Zenon
<1>5. \A c \in T : \E q \in S : f[q] = c
  BY <1>2, <1>3, Zenon
<1>6. f \in Bijection(S, T)
  BY <1>3, <1>4, <1>5, Zenon DEF Bijection, Injection, Surjection, IsInjective
<1>7. ExistsBijection(S, T)
  BY <1>6, Zenon DEF ExistsBijection
<1>8. S \in SUBSET Tree
  BY DEF S, Held
<1>9. IsFiniteSet(S)
  BY <1>8, TreeFinite, Zenon
<1> QED
  BY <1>7, <1>9, FS_Bijection, Zenon DEF S, T

LEMMA Together ==
  ASSUME NEW S, NEW T, IsFiniteSet(S), IsFiniteSet(T), S \cap T = {}
  PROVE  Cardinality(S \cup T) = Cardinality(S) + Cardinality(T)
<1>1. Cardinality(S \cup T) = Cardinality(S) + Cardinality(T) - Cardinality({})
  <2>1. Cardinality(S \cup T) = Cardinality(S) + Cardinality(T) - Cardinality(S \cap T)
    BY FS_Union, Zenon
  <2>2. Cardinality(S \cap T) = Cardinality({})
    BY Zenon
  <2> QED
    BY <2>1, <2>2, Zenon
<1>2. Cardinality({}) = 0 /\ Cardinality(S) \in Nat /\ Cardinality(T) \in Nat
  BY FS_EmptySet, FS_CardinalityType, Zenon
<1> QED
  BY <1>1, <1>2

LEMMA PrefixOfChild ==
  ASSUME NEW p \in Tree, NEW c, Append(p, c) \in Tree, NEW q \in Tree
  PROVE  IsPrefix(q, Append(p, c)) <=> q = Append(p, c) \/ IsPrefix(q, p)
<1> DEFINE r == Append(p, c)
<1>1. r \in Seq(Name) /\ q \in Seq(Name) /\ p \in Seq(Name) /\ c \in Name
  BY Paths, ChildIs, Zenon
<1>2. Len(r) = Len(p) + 1 /\ r[Len(p) + 1] = c /\ \A j \in 1 .. Len(p) : r[j] = p[j]
  BY ChildIs, Zenon
<1>3. IsPrefix(r, r) /\ IsPrefix(p, r)
  BY PrefixSelf, ChildIs, Zenon DEF Below
<1> HIDE DEF r
<1>4. ASSUME IsPrefix(q, r), q # r PROVE IsPrefix(q, p)
  <2>1. Begins(q, r)
    BY <1>1, <1>4, PrefixIs, Zenon
  <2>2. Len(q) # Len(r)
    BY <1>1, <1>4, <2>1 DEF Begins
  <2>3. Begins(q, p)
    BY <1>1, <1>2, <2>1, <2>2 DEF Begins
  <2> QED
    BY <1>1, <2>3, PrefixIs, Zenon
<1>5. r \in Tree
  BY Zenon DEF r
<1>6. IsPrefix(q, p) => IsPrefix(q, r)
  BY <1>3, <1>5, PrefixOn, Zenon
<1> QED
  BY <1>3, <1>4, <1>6, Zenon DEF r

LEMMA NeededIs ==
  ASSUME NEW t, NEW p \in Tree
  PROVE  Needed(t, p) = Cardinality(Names(t, p)) + Cardinality(Upward(p))
  BY Zenon DEF Needed, Names, Upward

LEMMA NeededRoot ==
  ASSUME NEW t
  PROVE  Needed(t, << >>) = Cardinality(Children(t, << >>)) + 1
<1>1. << >> \in Tree /\ << >> \in Seq(Name)
  BY Paths, Zenon
<1>2. \A q \in Tree : IsPrefix(q, << >>) <=> q = << >>
  <2>1. ASSUME NEW q \in Tree PROVE IsPrefix(q, << >>) <=> q = << >>
    <3>1. q \in Seq(Name)
      BY Paths, Zenon
    <3>2. Begins(q, << >>) <=> q = << >>
      BY <3>1 DEF Begins
    <3> QED
      BY <1>1, <3>1, <3>2, PrefixIs, Zenon
  <2> QED
    BY <2>1, Zenon
<1>3. Names(t, << >>) = Held(t, << >>)
  BY <1>2, FrontIs, Zenon DEF Names, Held
<1>4. Upward(<< >>) = {<< >>}
  BY <1>1, <1>2, Zenon DEF Upward
<1>5. Cardinality(Upward(<< >>)) = 1
  BY <1>4, FS_Singleton, Zenon
<1>6. Cardinality(Held(t, << >>)) = Cardinality(Children(t, << >>))
  BY <1>1, HeldSize, Zenon
<1>7. Needed(t, << >>) = Cardinality(Names(t, << >>)) + Cardinality(Upward(<< >>))
  BY <1>1, NeededIs, Zenon
<1> QED
  BY <1>3, <1>5, <1>6, <1>7, Zenon

LEMMA NeededChild ==
  ASSUME NEW t, NEW p \in Tree, NEW c, Append(p, c) \in Tree
  PROVE  Needed(t, Append(p, c)) = Needed(t, p) + Cardinality(Children(t, Append(p, c))) + 1
<1> DEFINE r == Append(p, c)
<1>1. r \in Tree /\ ~IsPrefix(r, p)
  <2>1. r \in Seq(Name) /\ p \in Seq(Name) /\ Len(r) = Len(p) + 1
    BY ChildIs, Paths, Zenon
  <2> HIDE DEF r
  <2>2. ~Begins(r, p)
    BY <2>1 DEF Begins
  <2> QED
    BY <2>1, <2>2, PrefixIs, Zenon DEF r
<1>2. \A q \in Tree : IsPrefix(q, r) <=> q = r \/ IsPrefix(q, p)
  BY PrefixOfChild, Zenon
<1> HIDE DEF r
<1>3. Upward(r) = Upward(p) \cup {r} /\ r \notin Upward(p)
  BY <1>1, <1>2, Zenon DEF Upward
<1>4. Names(t, r) = Names(t, p) \cup Held(t, r) /\ Names(t, p) \cap Held(t, r) = {}
  <2>1. \A q \in Tree \ {<< >>} : IsPrefix(Front(q), r) <=> Front(q) = r \/ IsPrefix(Front(q), p)
    BY <1>2, FrontIs, Zenon
  <2>2. \A q \in Tree \ {<< >>} : ~(Front(q) = r /\ IsPrefix(Front(q), p))
    BY <1>1, Zenon
  <2>3. \A q : q \in Names(t, r) <=> q \in Names(t, p) \/ q \in Held(t, r)
    BY <2>1, Zenon DEF Names, Held
  <2>4. \A q : ~(q \in Names(t, p) /\ q \in Held(t, r))
    BY <2>2, Zenon DEF Names, Held
  <2> QED
    BY <2>3, <2>4, Zenon
<1>5. Names(t, p) \in SUBSET Tree /\ Held(t, r) \in SUBSET Tree /\ Upward(p) \in SUBSET Tree
  BY DEF Names, Held, Upward
<1>6. IsFiniteSet(Names(t, p)) /\ IsFiniteSet(Held(t, r)) /\ IsFiniteSet(Upward(p))
  BY <1>5, TreeFinite, Zenon
<1>7. Cardinality(Names(t, r)) = Cardinality(Names(t, p)) + Cardinality(Held(t, r))
  BY <1>4, <1>6, Together, Zenon
<1>8. Cardinality(Upward(r)) = Cardinality(Upward(p)) + 1
  BY <1>3, <1>6, FS_AddElement, Zenon
<1>9. Cardinality(Held(t, r)) = Cardinality(Children(t, r))
  BY <1>1, HeldSize, Zenon
<1>10. /\ Needed(t, r) = Cardinality(Names(t, r)) + Cardinality(Upward(r))
       /\ Needed(t, p) = Cardinality(Names(t, p)) + Cardinality(Upward(p))
  BY <1>1, NeededIs, Zenon
<1>11. /\ Cardinality(Names(t, p)) \in Nat /\ Cardinality(Upward(p)) \in Nat
       /\ Cardinality(Held(t, r)) \in Nat
  BY <1>6, FS_CardinalityType, Zenon
<1>12. Needed(t, r) = Needed(t, p) + Cardinality(Children(t, r)) + 1
  BY <1>7, <1>8, <1>9, <1>10, <1>11
<1> QED
  BY <1>12, Zenon DEF r

-----------------------------------------------------------------------------
(* Frames and the stack. *)

Steps == {"enter", "list", "file", "loop", "visit", "open", "next"}

\* Two frames that differ in where they stand at most.
Alike(f, g) ==
  /\ g.path = f.path /\ g.mark = f.mark /\ g.kids = f.kids /\ g.type = f.type
  /\ g.left = f.left /\ g.opened = f.opened

LEMMA FrameAt ==
  ASSUME NEW f \in FrameType, NEW x \in Steps, NEW g, g = [f EXCEPT !.at = x]
  PROVE  g \in FrameType /\ g.at = x /\ Alike(f, g)
  BY DEF FrameType, Steps, Alike

Drops(f, ks, g) ==
  g \in FrameType /\ g.kids = ks /\ g.at = f.at /\ g.path = f.path /\ g.mark = f.mark

LEMMA FrameKids ==
  ASSUME NEW f \in FrameType, NEW ks \in Seq(1 .. TempLimit)
  PROVE  Drops(f, ks, [f EXCEPT !.kids = ks])
  BY DEF FrameType, Drops

LoopsOver(f, ks, g) ==
  g \in FrameType /\ g.kids = ks /\ g.at = "loop" /\ g.path = f.path /\ g.mark = f.mark

LEMMA FrameLoops ==
  ASSUME NEW f \in FrameType, NEW ks \in Seq(1 .. TempLimit)
  PROVE  LoopsOver(f, ks, [f EXCEPT !.at = "loop", !.kids = ks])
  BY DEF FrameType, LoopsOver

Enters(f, x, t, g) ==
  /\ g \in FrameType /\ g.at = x /\ g.type = t /\ g.mark = f.mark /\ g.left = f.left
  /\ g.opened = f.opened

LEMMA FrameEntered ==
  ASSUME NEW f \in FrameType, NEW x \in Steps, NEW t \in Kind \cup {"none"}
  PROVE  Enters(f, x, t, [f EXCEPT !.type = t, !.at = x])
  BY DEF FrameType, Steps, Enters

Opens(f, L, g) ==
  /\ g \in FrameType /\ g.at = "next" /\ g.type = f.type /\ g.mark = f.mark /\ g.left = L
  /\ g.opened = TRUE

LEMMA FrameOpened ==
  ASSUME NEW f \in FrameType, NEW L \in SUBSET Name
  PROVE  Opens(f, L, [f EXCEPT !.left = L, !.opened = TRUE, !.at = "next"])
  BY DEF FrameType, Opens

Leaves(f, L, g) ==
  /\ g \in FrameType /\ g.at = f.at /\ g.type = f.type /\ g.mark = f.mark /\ g.left = L
  /\ g.opened = f.opened

LEMMA FrameLeft ==
  ASSUME NEW f \in FrameType, NEW L \in SUBSET Name
  PROVE  Leaves(f, L, [f EXCEPT !.left = L])
  BY DEF FrameType, Leaves

LEMMA FrameNew ==
  ASSUME NEW p \in Tree, used \in Nat, NEW g, g = Frame(p)
  PROVE  /\ g \in FrameType /\ g.path = p /\ g.at = "enter" /\ g.mark = used /\ g.kids = << >>
         /\ g.type = "none" /\ g.left = {} /\ g.opened = FALSE
  BY DEF FrameType, Frame

LEMMA FrameMarked ==
  ASSUME NEW m \in Nat, used \in Nat, NEW g, g = [Frame(<< >>) EXCEPT !.mark = m]
  PROVE  /\ g \in FrameType /\ g.at = "enter" /\ g.mark = m /\ g.left = {} /\ g.opened = FALSE
<1>1. << >> \in Tree
  BY Paths, Zenon
<1>2. Frame(<< >>) \in FrameType /\ Frame(<< >>).at = "enter" /\ Frame(<< >>).left = {} /\ Frame(<< >>).opened = FALSE
  BY <1>1, FrameNew, Zenon
<1> QED
  BY <1>2 DEF FrameType

\* What the three ways to change the stack do.
Pushed(s, f, t) == Len(t) = Len(s) + 1 /\ t[Len(s) + 1] = f /\ \A i \in 1 .. Len(s) : t[i] = s[i]
Popped(s, t) == Len(t) = Len(s) - 1 /\ \A i \in 1 .. Len(s) - 1 : t[i] = s[i]
Topped(s, f, t) == Len(t) = Len(s) /\ t[Len(s)] = f /\ \A i \in 1 .. Len(s) - 1 : t[i] = s[i]

LEMMA Pushes ==
  ASSUME NEW s \in Seq(FrameType), NEW f \in FrameType
  PROVE  Append(s, f) \in Seq(FrameType) /\ Pushed(s, f, Append(s, f))
  BY DEF Pushed

LEMMA Pops ==
  ASSUME NEW s \in Seq(FrameType), s # << >>
  PROVE  Front(s) \in Seq(FrameType) /\ Popped(s, Front(s))
<1>1. Len(s) \in Nat /\ Len(s) - 1 \in Nat
  OBVIOUS
<1>2. SubSeq(s, 1, Len(s) - 1) \in Seq(FrameType) /\ Len(SubSeq(s, 1, Len(s) - 1)) = Len(s) - 1
  BY <1>1
<1>3. \A i \in 1 .. Len(s) - 1 : SubSeq(s, 1, Len(s) - 1)[i] = s[i]
  BY <1>1
<1> QED
  BY <1>2, <1>3, Zenon DEF Popped, Front

LEMMA Tops ==
  ASSUME NEW s \in Seq(FrameType), s # << >>, NEW f \in FrameType
  PROVE  /\ [s EXCEPT ![Len(s)] = f] \in Seq(FrameType)
         /\ Topped(s, f, [s EXCEPT ![Len(s)] = f])
<1> DEFINE n == Len(s)
           t == [s EXCEPT ![n] = f]
<1>1. n \in Nat \ {0} /\ DOMAIN s = 1 .. n /\ s \in [1 .. n -> FrameType]
  OBVIOUS
<1> HIDE DEF n
<1>2. t \in [1 .. n -> FrameType] /\ t[n] = f /\ \A i \in 1 .. n - 1 : t[i] = s[i]
  BY <1>1
<1> HIDE DEF t
<1>3. t \in Seq(FrameType) /\ Len(t) = n
  BY <1>1, <1>2
<1> QED
  BY <1>2, <1>3, Zenon DEF Topped, n, t

LEMMA TopIs ==
  ASSUME NEW s \in Seq(FrameType), s # << >>
  PROVE  /\ Last(s) = s[Len(s)] /\ Last(s) \in FrameType /\ Len(s) \in Nat /\ Len(s) >= 1
         /\ DOMAIN s = 1 .. Len(s) /\ Len(s) \in 1 .. Len(s)
         /\ \A i \in 1 .. Len(s) : s[i] \in FrameType
  BY DEF Last

\* The field of the last frame is what an EXCEPT with a path changes.
LEMMA PathExcept ==
  ASSUME NEW s, NEW n \in DOMAIN s, NEW x
  PROVE  /\ [s EXCEPT ![n].at = x] = [s EXCEPT ![n] = [s[n] EXCEPT !.at = x]]
         /\ [s EXCEPT ![n].kids = x] = [s EXCEPT ![n] = [s[n] EXCEPT !.kids = x]]
         /\ [s EXCEPT ![n].left = x] = [s EXCEPT ![n] = [s[n] EXCEPT !.left = x]]
  OBVIOUS

-----------------------------------------------------------------------------
(* A step of a copy. *)

\* What it leaves alone, and what it need not care for.
Aside == /\ src' = src /\ sb' = sb /\ stop' = stop /\ visited' = visited /\ first' = first
         /\ refused \subseteq refused' /\ refused' \in SUBSET Tree

LEMMA CopyAside ==
  ASSUME IInv, op = "copy", Aside, op' \in {"copy", "idle", "aborted"}
  PROVE  /\ Shrinks' /\ ~Walking' /\ VisitsInOrder' /\ VisitsAll'
         /\ src' \in SourceTree /\ stop' \in BOOLEAN /\ sb' \in Seq(Name \cup {"root", NUL})
         /\ visited' \in Seq(VisitType) /\ first' \in CallType /\ first.op = "copy" /\ refused' \in SUBSET Tree
<1>1. src' = src /\ sb' = sb /\ stop' = stop /\ visited' = visited /\ first' = first
      /\ refused \subseteq refused' /\ refused' \in SUBSET Tree
  BY Zenon DEF Aside
<1>2. first.op = "copy"
  BY Zenon DEF IInv, Calls
<1>3. Shrinks'
  BY <1>1, Zenon DEF IInv, Shrinks
<1>4. ~Walking'
  BY Zenon DEF Walking
<1>5. VisitsInOrder'
  BY <1>1, Zenon DEF IInv, VisitsInOrder
<1>6. VisitsAll'
  BY <1>1, <1>2, Zenon DEF VisitsAll, Returned
<1> QED
  BY <1>1, <1>2, <1>3, <1>4, <1>5, <1>6, Zenon DEF IInv, Typed

\* The stack of a call that runs.
LEMMA Running ==
  ASSUME IInv, op \in {"copy", "pre", "post"}
  PROVE  /\ stack # << >> /\ stack \in Seq(FrameType) /\ Depth \in Nat /\ Depth >= 1
         /\ Top = stack[Depth] /\ Top \in FrameType /\ Depth \in DOMAIN stack
         /\ DOMAIN stack = 1 .. Depth /\ \A i \in 1 .. Depth : stack[i] \in FrameType
<1>1. stack # << >> /\ stack \in Seq(FrameType)
  BY Zenon DEF IInv, Typed, Calls
<1> QED
  BY <1>1, TopIs, Zenon DEF Depth, Top

LEMMA RunningDepth ==
  ASSUME IInv, op \in {"copy", "pre", "post"}
  PROVE  Depth \in Nat /\ Depth >= 1 /\ ~(Depth < Depth)
<1>1. Depth \in Nat /\ Depth >= 1
  BY Running, Zenon
<1> QED
  BY <1>1

LEMMA RunningPrimed ==
  ASSUME stack' # << >>, stack' \in Seq(FrameType)
  PROVE  /\ Depth' \in Nat /\ Depth' >= 1
         /\ Top' = stack'[Depth'] /\ Top' \in FrameType /\ Depth' \in DOMAIN stack'
         /\ DOMAIN stack' = 1 .. Depth' /\ \A i \in 1 .. Depth' : stack'[i] \in FrameType
  BY TopIs, Zenon DEF Depth, Top

\* Types of the fields.
LEMMA Fields ==
  ASSUME NEW f \in FrameType
  PROVE  /\ f.path \in Tree /\ f.at \in Steps /\ f.mark \in Nat /\ f.kids \in Seq(1 .. TempLimit)
         /\ f.type \in Kind \cup {"none"} /\ f.left \in SUBSET Name /\ f.opened \in BOOLEAN
  BY DEF FrameType, Steps

\* What is done stays done while something else is written.
LEMMA DoneKept ==
  ASSUME src' = src, first' = first, NEW p \in Tree,
         \A q \in Tree : q # p => dst'[q] = dst[q], NEW q \in Tree, p \notin Below(q), Done(q)
  PROVE  Done(q)'
<1>1. \A r \in Below(q) : dst'[r] = dst[r]
  BY Zenon DEF Below
<1> QED
  BY <1>1, Zenon DEF Done, Copied

\* The frames above the last one are on the way to its path, each by its current entry.
LEMMA OnTheWay ==
  ASSUME IInv, op = "copy", NEW i \in 1 .. Depth - 1, NEW c, Append(stack[i].path, c) \in Tree,
         Top.path \in Below(Append(stack[i].path, c))
  PROVE  stack[i + 1].path = Append(stack[i].path, c)
<1>1. CopyStack
  BY Zenon DEF IInv, CopyInv
<1>2. PICK d \in Children(first.src, stack[i].path) : stack[i + 1].path = Append(stack[i].path, d)
  BY <1>1, Zenon DEF CopyStack
<1>3. /\ i \in DOMAIN stack /\ i + 1 \in DOMAIN stack /\ i + 1 <= Depth /\ Depth \in DOMAIN stack
      /\ i \in 1 .. Depth /\ i + 1 \in 1 .. Depth /\ Depth \in 1 .. Depth
  <2>1. Depth \in Nat /\ DOMAIN stack = 1 .. Depth
    BY Running, Zenon
  <2> QED
    BY <2>1
<1>4. stack[i].path \in Tree /\ stack[i + 1].path \in Tree /\ Top.path \in Tree /\ Top = stack[Depth]
  BY <1>3, Running, Fields, Zenon
<1>5. Top.path \in Below(stack[i + 1].path)
  BY <1>1, <1>3, <1>4, Zenon DEF CopyStack, Below
<1>6. c = d
  BY <1>2, <1>4, <1>5, BelowOne, Zenon
<1> QED
  BY <1>2, <1>6, Zenon

-----------------------------------------------------------------------------
(* A call of a copy returns. *)

\* What is written is the entry of the call that returns.
OnlyHere == /\ dst' \in TargetTree /\ \A q \in Tree : q # Top.path => dst'[q] = dst[q]
            /\ dst'[Top.path] = "none" => dst[Top.path] = "none"

LEMMA ReturnMoves ==
  ASSUME IInv, op = "copy", NEW r \in BOOLEAN, Return(r)
  PROVE  /\ result' = r /\ stack' \in Seq(FrameType) /\ used' = Top.mark
         /\ Depth' = Depth - 1 /\ \A i \in 1 .. Depth - 1 : stack'[i] = stack[i]
         /\ op' = (IF Depth = 1 THEN "idle" ELSE "copy")
         /\ stack' = << >> <=> Depth = 1
<1>1. stack # << >> /\ stack \in Seq(FrameType) /\ Depth >= 1 /\ Depth \in Nat
  BY Running, Zenon
<1>2. stack' = Front(stack) /\ result' = r /\ used' = Top.mark /\ op' = IF Depth = 1 THEN "idle" ELSE "copy"
  BY Zenon DEF Return, Rewind, Depth
<1>3. stack' \in Seq(FrameType) /\ Popped(stack, stack')
  BY <1>1, <1>2, Pops, Zenon
<1>4. Depth' = Depth - 1 /\ \A i \in 1 .. Depth - 1 : stack'[i] = stack[i]
  BY <1>3, Zenon DEF Popped, Depth
<1>5. stack' = << >> <=> Depth' = 0
  BY <1>3 DEF Depth
<1>6. Depth' = 0 <=> Depth = 1
  BY <1>1, <1>4
<1> QED
  BY <1>2, <1>3, <1>4, <1>5, <1>6, Zenon

LEMMA ReturnCopyStack ==
  ASSUME IInv, op = "copy", NEW r \in BOOLEAN, Return(r), Aside, Depth # 1
  PROVE  CopyStack' /\ Top' = stack[Depth - 1] /\ Top'.at = "loop" /\ Depth' >= 1
<1>1. CopyStack
  BY Zenon DEF IInv, CopyInv
<1>2. /\ result' = r /\ stack' \in Seq(FrameType) /\ stack' # << >>
      /\ Depth' = Depth - 1 /\ \A i \in 1 .. Depth - 1 : stack'[i] = stack[i]
  BY ReturnMoves, Zenon
<1>3. /\ Depth \in Nat /\ Depth >= 1 /\ DOMAIN stack = 1 .. Depth
  BY Running, Zenon
<1>4. DOMAIN stack' = 1 .. Depth' /\ Top' = stack'[Depth'] /\ Depth' \in Nat /\ Depth' >= 1
  BY <1>2, RunningPrimed, Zenon
<1>5. /\ 1 \in 1 .. Depth - 1 /\ Depth - 1 \in 1 .. Depth - 1
      /\ \A i \in 1 .. Depth - 1 : i \in DOMAIN stack
      /\ \A i \in 1 .. Depth' - 1 : i \in 1 .. Depth - 1 /\ i + 1 \in 1 .. Depth - 1
  BY <1>2, <1>3, <1>4
<1>6. Top' = stack[Depth - 1] /\ Top'.at = "loop"
  BY <1>1, <1>2, <1>4, <1>5, Zenon DEF CopyStack
<1>7. first' = first
  BY Zenon DEF Aside
<1>8. stack'[1].path = << >> /\ stack'[1].mark = first'.used
  BY <1>1, <1>2, <1>5, <1>7, Zenon DEF CopyStack
<1>9. \A i \in 1 .. Depth' - 1 :
       /\ stack'[i].at = "loop"
       /\ \E c \in Children(first'.src, stack'[i].path) : stack'[i + 1].path = Append(stack'[i].path, c)
  <2>1. ASSUME NEW i \in 1 .. Depth' - 1
        PROVE  /\ stack'[i].at = "loop"
               /\ \E c \in Children(first.src, stack'[i].path) : stack'[i + 1].path = Append(stack'[i].path, c)
    <3>1. i \in 1 .. Depth - 1 /\ stack'[i] = stack[i] /\ stack'[i + 1] = stack[i + 1]
      BY <1>2, <1>5, Zenon
    <3> QED
      BY <1>1, <3>1, Zenon DEF CopyStack
  <2> QED
    BY <1>7, <2>1, Zenon
<1>10. \A i, j \in DOMAIN stack' : i <= j => IsPrefix(stack'[i].path, stack'[j].path)
  BY <1>1, <1>2, <1>4, <1>5, Zenon DEF CopyStack
<1>11. \A i \in DOMAIN stack' :
       /\ stack'[i].mark <= TempLimit
       /\ stack'[i].at \in {"list", "loop"} => first'.src[stack'[i].path] = "directory"
       /\ stack'[i].at = "file" => first'.src[stack'[i].path] = "file"
  BY <1>1, <1>2, <1>4, <1>5, <1>7, Zenon DEF CopyStack
<1> QED
  BY <1>4, <1>6, <1>8, <1>9, <1>10, <1>11, Zenon DEF CopyStack

LEMMA ReturnKids ==
  ASSUME IInv, op = "copy", NEW r \in BOOLEAN, Return(r), Aside, Depth # 1, temp' = temp
  PROVE  Kids' /\ Amount'
<1>1. CopyStack /\ Kids /\ Amount
  BY Zenon DEF IInv, CopyInv
<1>2. /\ result' = r /\ stack' \in Seq(FrameType) /\ stack' # << >> /\ used' = Top.mark
      /\ Depth' = Depth - 1 /\ \A i \in 1 .. Depth - 1 : stack'[i] = stack[i]
  BY ReturnMoves, Zenon
<1>3. /\ Depth \in Nat /\ Depth >= 1 /\ DOMAIN stack = 1 .. Depth /\ Top = stack[Depth]
  BY Running, Zenon
<1>4. DOMAIN stack' = 1 .. Depth' /\ Depth' \in Nat /\ Depth' >= 1
  BY <1>2, RunningPrimed, Zenon
<1>5. /\ \A i \in 1 .. Depth - 1 : i \in DOMAIN stack /\ Depth \in i + 1 .. Depth
      /\ \A i \in 1 .. Depth' : i \in 1 .. Depth - 1
      /\ \A i \in 1 .. Depth' : \A j \in i + 1 .. Depth' : j \in i + 1 .. Depth /\ j \in 1 .. Depth - 1
      /\ \A i \in 1 .. Depth' - 1 : i \in 1 .. Depth - 1 /\ i + 1 \in 1 .. Depth - 1
  BY <1>2, <1>3, <1>4
<1>6. first' = first /\ src' = src
  BY Zenon DEF Aside
<1>7. Kids'
  BY <1>1, <1>2, <1>3, <1>4, <1>5, <1>6, Zenon DEF Kids
<1>8. Amount'
  <2>1. Top' = stack[Depth - 1] /\ Top'.at = "loop"
    BY ReturnCopyStack, Zenon
  <2>2. Depth - 1 \in 1 .. Depth - 1 /\ Depth - 1 + 1 = Depth
    BY <1>2, <1>3, <1>4
  <2>3. src = first.src => stack[Depth].mark = first.used + Needed(first.src, stack[Depth - 1].path)
    <3>1. src = first.src => stack[Depth - 1 + 1].mark = first.used + Needed(first.src, stack[Depth - 1].path)
      BY <1>1, <2>2, Zenon DEF Amount
    <3> QED
      BY <2>2, <3>1, Zenon
  <2>4. src = first.src =>
         \A i \in 1 .. Depth' - 1 : stack'[i + 1].mark = first.used + Needed(first.src, stack'[i].path)
    BY <1>1, <1>2, <1>5, Zenon DEF Amount
  <2> QED
    BY <1>2, <1>3, <1>6, <2>1, <2>3, <2>4, Zenon DEF Amount
<1> QED
  BY <1>7, <1>8, Zenon

LEMMA ReturnGoing ==
  ASSUME IInv, op = "copy", Return(TRUE), Aside, Depth # 1, temp' = temp, OnlyHere, result,
         NEW p \in Tree, p = Top.path, Done(p)'
  PROVE  Going'
<1>1. CopyStack /\ Going
  BY Zenon DEF IInv, CopyInv
<1>2. /\ stack' \in Seq(FrameType) /\ stack' # << >>
      /\ Depth' = Depth - 1 /\ \A i \in 1 .. Depth - 1 : stack'[i] = stack[i]
  BY ReturnMoves, Zenon
<1>3. /\ Depth \in Nat /\ Depth >= 1 /\ DOMAIN stack = 1 .. Depth /\ Top = stack[Depth]
      /\ \A i \in 1 .. Depth : stack[i] \in FrameType
  BY Running, Zenon
<1>4. DOMAIN stack' = 1 .. Depth' /\ Depth' \in Nat /\ Depth' >= 1
  BY <1>2, RunningPrimed, Zenon
<1>5. first' = first /\ src' = src
  BY Zenon DEF Aside
<1>6. SUFFICES ASSUME NEW i \in 1 .. Depth - 1 PROVE GoingAt(i)'
  <2>1. \A i \in DOMAIN stack' : i \in 1 .. Depth - 1
    BY <1>2, <1>3, <1>4
  <2> QED
    BY <2>1, Zenon DEF Going
<1>7. i \in DOMAIN stack /\ i < Depth /\ stack'[i] = stack[i] /\ i \in 1 .. Depth /\ Depth \in 1 .. Depth
  BY <1>2, <1>3
<1>8. stack[i].path \in Tree /\ Top.path \in Tree
  BY <1>3, <1>7, Fields, Zenon
<1>9. stack[i].at = "loop" /\ stack[i].at \in {"list", "loop"}
  BY <1>1, Zenon DEF CopyStack
<1>10. dst'[stack[i].path] # "none"
  <2>1. dst[stack[i].path] # "none"
    BY <1>1, <1>7, <1>9, Zenon DEF Going, GoingAt
  <2> QED
    BY <1>8, <2>1, Zenon DEF OnlyHere
<1>11. ASSUME NEW c \in Children(src, stack[i].path), NEW q, q = Append(stack[i].path, c)
       PROVE  Pending(i, c)' \/ (i < Depth' /\ stack'[i + 1].path = q) \/ Done(q)'
  <2>1. q \in Tree
    BY <1>11, Zenon DEF Children
  <2>2. CASE Pending(i, c)
    BY <1>7, <2>2, Zenon DEF Pending
  <2>3. CASE Top.path \in Below(q)
    <3>1. stack[i + 1].path = q
      BY <1>11, <2>1, <2>3, OnTheWay, Zenon
    <3>2. CASE i + 1 = Depth
      <4>1. p = q
        BY <1>3, <3>1, <3>2, Zenon
      <4> QED
        BY <4>1, Zenon
    <3>3. CASE i + 1 # Depth
      <4>1. i + 1 \in 1 .. Depth - 1 /\ i < Depth'
        BY <1>2, <1>3, <3>3
      <4> QED
        BY <1>2, <3>1, <4>1, Zenon
    <3> QED
      BY <3>2, <3>3
  <2>4. CASE Current(i, q)
    <3>1. stack[i + 1].path = q /\ i + 1 \in 1 .. Depth
      BY <1>3, <2>4 DEF Current
    <3>2. Top.path \in Below(q)
      <4>1. i + 1 <= Depth /\ i + 1 \in DOMAIN stack /\ Depth \in DOMAIN stack
        BY <1>3, <3>1
      <4>2. IsPrefix(stack[i + 1].path, stack[Depth].path)
        BY <1>1, <4>1, Zenon DEF CopyStack
      <4> QED
        BY <1>3, <1>8, <3>1, <4>2, Zenon DEF Below
    <3> QED
      BY <2>3, <3>2, Zenon
  <2>5. CASE Top.path \notin Below(q) /\ Done(q)
    <3>1. Done(q)'
      BY <1>5, <1>8, <2>1, <2>5, DoneKept, Zenon DEF OnlyHere
    <3> QED
      BY <3>1, Zenon
  <2> QED
    BY <1>1, <1>7, <1>9, <1>11, <2>2, <2>3, <2>4, <2>5, Zenon DEF Going, GoingAt
<1>12. ASSUME NEW c \in Children(src, stack[i].path)
       PROVE  Pending(i, c)' \/ Current(i, Append(stack[i].path, c))' \/ Done(Append(stack[i].path, c))'
  <2>1. PICK q : q = Append(stack[i].path, c)
    BY Zenon
  <2>2. CASE Pending(i, c)'
    BY <2>2
  <2>3. CASE i < Depth' /\ stack'[i + 1].path = q
    BY <1>7, <2>1, <2>3, Zenon DEF Current
  <2>4. CASE Done(q)'
    <3>1. q = Append(stack'[i].path, c)
      BY <1>7, <2>1, Zenon
    <3>2. Done(Append(stack[i].path, c))'
      BY ONLY <2>4, <3>1, Zenon DEF Done, Copied
    <3> QED
      BY <3>2
  <2> QED
    BY <1>11, <2>1, <2>2, <2>3, <2>4, Zenon
<1> QED
  BY <1>5, <1>7, <1>9, <1>10, <1>12, Zenon DEF GoingAt

LEMMA AllBelow == Below(<< >>) = Tree
<1>1. ASSUME NEW q \in Tree PROVE IsPrefix(<< >>, q)
  <2>1. q \in Seq(Name) /\ << >> \in Seq(Name)
    BY Paths, Zenon
  <2>2. Begins(<< >>, q)
    BY <2>1 DEF Begins
  <2> QED
    BY <2>1, <2>2, PrefixIs, Zenon
<1> QED
  BY <1>1, Zenon DEF Below

LEMMA AllCopied ==
  ASSUME Done(<< >>), Faithful PROVE CopiedAll
<1>1. \A q \in Tree : src[q] # "other" /\ (src[q] \in {"file", "directory"} => Copied(q))
  BY AllBelow, Zenon DEF Done
<1> QED
  BY <1>1, Zenon DEF CopiedAll, Faithful, Copied

LEMMA CopyReturns ==
  ASSUME IInv, op = "copy", NEW r \in BOOLEAN, Return(r), Aside, temp' = temp, open' = open, OnlyHere,
         NEW p \in Tree, p = Top.path, r => result /\ Faithful' /\ Done(p)'
  PROVE  IInv'
<1>1. /\ result' = r /\ stack' \in Seq(FrameType) /\ used' = Top.mark
      /\ op' = (IF Depth = 1 THEN "idle" ELSE "copy")
      /\ stack' = << >> <=> Depth = 1
  BY ReturnMoves, Zenon
<1>2. /\ Shrinks' /\ ~Walking' /\ VisitsInOrder' /\ VisitsAll'
      /\ src' \in SourceTree /\ stop' \in BOOLEAN /\ sb' \in Seq(Name \cup {"root", NUL})
      /\ visited' \in Seq(VisitType) /\ first' \in CallType /\ first.op = "copy" /\ refused' \in SUBSET Tree
  BY <1>1, CopyAside, Zenon
<1>3. CopyStack /\ first' = first
  BY Zenon DEF IInv, CopyInv, Aside
<1>4. used' \in 0 .. TempLimit
  <2>1. Top.mark \in Nat /\ Top.mark <= TempLimit
    BY <1>3, Running, Fields, Zenon DEF CopyStack
  <2>2. TempLimit \in Nat
    BY TreeAssumption
  <2> QED
    BY <1>1, <2>1, <2>2
<1>5. Typed'
  BY <1>1, <1>2, <1>4, Zenon DEF IInv, Typed, OnlyHere
<1>6. CASE Depth = 1
  <2>1. op' = "idle" /\ stack' = << >>
    BY <1>1, <1>6, Zenon
  <2>2. Top = stack[1] /\ Top.path = << >> /\ used' = first'.used
    BY <1>1, <1>3, <1>6, Running, Zenon DEF CopyStack
  <2>3. open' = 0
    BY Zenon DEF IInv, Calls
  <2>4. Calls'
    BY <2>1, <2>2, <2>3, Zenon DEF Calls
  <2>5. CopiedAll'
    <3>1. CASE ~r
      BY <1>1, <3>1, Zenon DEF CopiedAll
    <3>2. CASE r
      <4>1. p = << >>
        BY <2>2, Zenon
      <4>2. Done(<< >>)'
        BY <3>2, <4>1, Zenon
      <4>3. Faithful'
        BY <3>2, Zenon
      <4>4. (Done(<< >>) /\ Faithful => CopiedAll)'
        BY AllCopied, PTL
      <4> QED
        BY <4>2, <4>3, <4>4
    <3> QED
      BY <3>1, <3>2
  <2>6. AbortsForCause'
    BY <2>1, Zenon DEF AbortsForCause
  <2> QED
    BY <1>2, <1>5, <2>1, <2>4, <2>5, <2>6, Zenon DEF IInv
<1>7. CASE Depth # 1
  <2>1. op' = "copy" /\ stack' # << >>
    BY <1>1, <1>7, Zenon
  <2>2. CopyStack' /\ Kids' /\ Amount'
    BY <1>7, ReturnCopyStack, ReturnKids, Zenon
  <2>3. result' => Faithful' /\ Going'
    BY <1>1, <1>7, ReturnGoing, Zenon
  <2>4. Calls'
    BY <1>2, <1>3, <2>1, Zenon DEF IInv, Calls
  <2>5. CopiedAll' /\ AbortsForCause'
    BY <2>1, Zenon DEF CopiedAll, AbortsForCause, Returned
  <2> QED
    BY <1>2, <1>5, <2>1, <2>2, <2>3, <2>4, <2>5, Zenon DEF IInv, CopyInv
<1> QED
  BY <1>6, <1>7

-----------------------------------------------------------------------------
(* A call of a copy goes on. *)

LEMMA CopyAborts ==
  ASSUME IInv, op = "copy", Abort, Aside, temp' = temp,
         \/ first.src[<< >>] = "none" \/ src # first.src
         \/ refused' # {}
         \/ \E p \in Tree : first.src[p] = "directory" /\ first.used + Needed(first.src, p) > TempLimit
  PROVE  IInv'
<1>1. /\ op' = "aborted" /\ stack' = << >> /\ dst' = dst /\ result' = result /\ used' = used
      /\ open' = open /\ src' = src /\ first' = first
  BY Zenon DEF Abort, Aside
<1>2. /\ Shrinks' /\ ~Walking' /\ VisitsInOrder' /\ VisitsAll'
      /\ src' \in SourceTree /\ stop' \in BOOLEAN /\ sb' \in Seq(Name \cup {"root", NUL})
      /\ visited' \in Seq(VisitType) /\ first' \in CallType /\ first.op = "copy" /\ refused' \in SUBSET Tree
  BY <1>1, CopyAside, Zenon
<1>3. << >> \in Seq(FrameType)
  OBVIOUS
<1>4. Typed'
  BY <1>1, <1>2, <1>3, Zenon DEF IInv, Typed
<1>5. Calls'
  BY <1>1, Zenon DEF Calls
<1>6. AbortsForCause'
  BY <1>1, Zenon DEF AbortsForCause
<1>7. CopiedAll'
  BY <1>1, Zenon DEF CopiedAll, Returned
<1> QED
  BY <1>1, <1>2, <1>4, <1>5, <1>6, <1>7, Zenon DEF IInv

\* The last frame becomes f, and perhaps another one is put on it.
Grown(f) == /\ stack' \in Seq(FrameType) /\ f \in FrameType
            /\ Depth' \in {Depth, Depth + 1} /\ stack'[Depth] = f /\ f.path = Top.path /\ f.mark = Top.mark
            /\ \A i \in 1 .. Depth - 1 : stack'[i] = stack[i]
LoopsKept == \A i \in 1 .. Depth - 1 : \A k \in DOMAIN stack[i].kids :
               temp'[stack[i].kids[k]] = temp[stack[i].kids[k]]

LEMMA GrownIs ==
  ASSUME IInv, op = "copy", NEW f, Grown(f)
  PROVE  /\ stack' # << >> /\ DOMAIN stack' = 1 .. Depth' /\ Depth' \in Nat /\ Depth \in Nat /\ Depth >= 1
         /\ DOMAIN stack = 1 .. Depth
         /\ \A i \in 1 .. Depth : stack'[i].path = stack[i].path /\ stack'[i].mark = stack[i].mark
         /\ Depth' = Depth => Top' = f
<1>1. /\ Depth \in Nat /\ Depth >= 1 /\ DOMAIN stack = 1 .. Depth /\ Top = stack[Depth]
  BY Running, Zenon
<1>2. stack' \in Seq(FrameType) /\ Depth' >= 1
  BY <1>1 DEF Grown
<1>3. stack' # << >>
  BY <1>2 DEF Depth
<1>4. DOMAIN stack' = 1 .. Depth' /\ Depth' \in Nat /\ Top' = stack'[Depth']
  BY <1>2, <1>3, RunningPrimed, Zenon
<1>5. \A i \in 1 .. Depth : i = Depth \/ i \in 1 .. Depth - 1
  BY <1>1
<1>6. \A i \in 1 .. Depth : stack'[i].path = stack[i].path /\ stack'[i].mark = stack[i].mark
  BY <1>1, <1>5, Zenon DEF Grown
<1>7. Depth' = Depth => Top' = f
  BY <1>4, Zenon DEF Grown
<1> QED
  BY <1>1, <1>3, <1>4, <1>6, <1>7, Zenon

LEMMA GrownGoing ==
  ASSUME IInv, op = "copy", Aside, OnlyHere, result, NEW f, Grown(f), LoopsKept,
         NEW i \in 1 .. Depth - 1
  PROVE  GoingAt(i)'
<1>1. CopyStack /\ Going
  BY Zenon DEF IInv, CopyInv
<1>2. /\ Depth \in Nat /\ Depth >= 1 /\ DOMAIN stack = 1 .. Depth /\ Top = stack[Depth]
      /\ \A j \in 1 .. Depth : stack[j] \in FrameType
  BY Running, Zenon
<1>3. /\ Depth' \in Nat /\ Depth' \in {Depth, Depth + 1} /\ stack'[i] = stack[i]
      /\ \A j \in 1 .. Depth : stack'[j].path = stack[j].path
  BY GrownIs, Zenon DEF Grown
<1>4. i \in 1 .. Depth /\ i + 1 \in 1 .. Depth /\ i < Depth' /\ i <= Depth /\ i + 1 <= Depth /\ Depth \in 1 .. Depth
  BY <1>2, <1>3
<1>5. first' = first /\ src' = src
  BY Zenon DEF Aside
<1>6. stack[i].path \in Tree /\ Top.path \in Tree
  BY <1>2, <1>4, Fields, Zenon
<1>7. stack[i].at = "loop" /\ stack[i].at \in {"list", "loop"}
  BY <1>1, Zenon DEF CopyStack
<1>8. dst'[stack[i].path] # "none"
  <2>1. dst[stack[i].path] # "none"
    BY <1>1, <1>2, <1>4, <1>7, Zenon DEF Going, GoingAt
  <2> QED
    BY <1>6, <2>1, Zenon DEF OnlyHere
<1>9. ASSUME NEW c \in Children(src, stack[i].path)
      PROVE  Pending(i, c)' \/ Current(i, Append(stack[i].path, c))' \/ Done(Append(stack[i].path, c))'
  <2>1. PICK q : q = Append(stack[i].path, c)
    BY Zenon
  <2>2. q \in Tree
    BY <2>1, Zenon DEF Children
  <2>3. ASSUME stack[i + 1].path = q PROVE Current(i, Append(stack[i].path, c))'
    BY <1>3, <1>4, <2>1, <2>3, Zenon DEF Current
  <2>4. CASE Pending(i, c)
    BY <1>3, <2>4, Zenon DEF Pending, LoopsKept
  <2>5. CASE Current(i, q)
    BY <2>3, <2>5, Zenon DEF Current
  <2>6. CASE Top.path \in Below(q)
    BY <2>1, <2>2, <2>3, <2>6, OnTheWay, Zenon
  <2>7. CASE Top.path \notin Below(q) /\ Done(q)
    <3>1. Done(q)'
      BY <1>5, <1>6, <2>2, <2>7, DoneKept, Zenon DEF OnlyHere
    <3>2. q = Append(stack'[i].path, c)
      BY <1>3, <2>1, Zenon
    <3>3. Done(Append(stack[i].path, c))'
      BY ONLY <3>1, <3>2, Zenon DEF Done, Copied
    <3> QED
      BY <3>3
  <2> QED
    BY <1>1, <1>2, <1>4, <1>7, <2>1, <2>4, <2>5, <2>6, <2>7, Zenon DEF Going, GoingAt
<1> QED
  BY <1>3, <1>5, <1>7, <1>8, <1>9, Zenon DEF GoingAt

LEMMA CellOf ==
  ASSUME NEW S, NEW ks \in Seq(S), NEW k \in DOMAIN ks PROVE ks[k] \in S
  OBVIOUS

\* Without another frame.
LEMMA ToppedStack ==
  ASSUME IInv, op = "copy", Aside, NEW f, Grown(f), Depth' = Depth, f.at \in {"list", "file", "loop"},
         result' \/ f.at = "loop",
         f.at \in {"list", "loop"} => first.src[f.path] = "directory",
         f.at = "file" => first.src[f.path] = "file"
  PROVE  CopyStack'
<1>1. CopyStack /\ first' = first
  BY Zenon DEF IInv, CopyInv, Aside
<1>2. /\ DOMAIN stack' = 1 .. Depth /\ Depth' = Depth /\ Depth \in Nat /\ Depth >= 1
      /\ DOMAIN stack = 1 .. Depth /\ Top' = f
      /\ \A i \in 1 .. Depth : stack'[i].path = stack[i].path /\ stack'[i].mark = stack[i].mark
  BY GrownIs, Zenon
<1>3. /\ 1 \in 1 .. Depth /\ \A i \in 1 .. Depth - 1 : i \in 1 .. Depth /\ i + 1 \in 1 .. Depth
      /\ \A i \in 1 .. Depth : i = Depth \/ i \in 1 .. Depth - 1
  BY <1>2
<1>4. stack'[1].path = << >> /\ stack'[1].mark = first'.used
  BY <1>1, <1>2, <1>3, Zenon DEF CopyStack
<1>5. \A i \in 1 .. Depth' - 1 :
       /\ stack'[i].at = "loop"
       /\ \E c \in Children(first'.src, stack'[i].path) : stack'[i + 1].path = Append(stack'[i].path, c)
  <2>1. ASSUME NEW i \in 1 .. Depth - 1
        PROVE  /\ stack'[i].at = "loop"
               /\ \E c \in Children(first.src, stack'[i].path) : stack'[i + 1].path = Append(stack'[i].path, c)
    <3>1. stack'[i] = stack[i] /\ stack'[i].path = stack[i].path /\ stack'[i + 1].path = stack[i + 1].path
      BY <1>2, <1>3, Zenon DEF Grown
    <3> QED
      BY <1>1, <3>1, Zenon DEF CopyStack
  <2> QED
    BY <1>1, <1>2, <2>1, Zenon
<1>6. \A i, j \in DOMAIN stack' : i <= j => IsPrefix(stack'[i].path, stack'[j].path)
  BY <1>1, <1>2, Zenon DEF CopyStack
<1>7. \A i \in DOMAIN stack' : stack'[i].mark <= TempLimit
  BY <1>1, <1>2, Zenon DEF CopyStack
<1>8. \A i \in DOMAIN stack' :
       /\ stack'[i].at \in {"list", "loop"} => first'.src[stack'[i].path] = "directory"
       /\ stack'[i].at = "file" => first'.src[stack'[i].path] = "file"
  <2>1. ASSUME NEW i \in 1 .. Depth - 1
        PROVE  /\ stack'[i].at \in {"list", "loop"} => first.src[stack'[i].path] = "directory"
               /\ stack'[i].at = "file" => first.src[stack'[i].path] = "file"
    <3>1. stack'[i] = stack[i] /\ i \in DOMAIN stack
      BY <1>2, <1>3, Zenon DEF Grown
    <3> QED
      BY <1>1, <3>1, Zenon DEF CopyStack
  <2>2. stack'[Depth] = f
    BY Zenon DEF Grown
  <2> QED
    BY <1>1, <1>2, <1>3, <2>1, <2>2, Zenon
<1> QED
  BY <1>2, <1>4, <1>5, <1>6, <1>7, <1>8, Zenon DEF CopyStack

LEMMA ToppedKids ==
  ASSUME IInv, op = "copy", Aside, NEW f, Grown(f), Depth' = Depth, LoopsKept,
         used' \in Nat, used' >= used,
         \A k \in DOMAIN f.kids : f.kids[k] <= used' /\ temp'[f.kids[k]] \in {"."} \cup Children(first.src, f.path)
  PROVE  Kids'
<1>1. Kids /\ first' = first
  BY Zenon DEF IInv, CopyInv, Aside
<1>2. /\ DOMAIN stack' = 1 .. Depth /\ Depth' = Depth /\ Depth \in Nat /\ Depth >= 1
      /\ DOMAIN stack = 1 .. Depth
      /\ \A i \in 1 .. Depth : stack'[i].path = stack[i].path /\ stack'[i].mark = stack[i].mark
  BY GrownIs, Zenon
<1>3. /\ \A i \in 1 .. Depth : i = Depth \/ i \in 1 .. Depth - 1
      /\ \A i \in 1 .. Depth : \A j \in i + 1 .. Depth : j \in 1 .. Depth
      /\ \A j \in Depth + 1 .. Depth : FALSE
      /\ \A i \in 1 .. Depth - 1 : i \in 1 .. Depth
  BY <1>2
<1>4. ASSUME NEW i \in 1 .. Depth - 1, NEW k \in DOMAIN stack[i].kids, NEW cell, cell = stack[i].kids[k]
      PROVE  /\ cell <= used' /\ \A j \in i + 1 .. Depth : cell <= stack'[j].mark
             /\ temp'[cell] \in {"."} \cup Children(first.src, stack[i].path)
  <2>1. stack[i] \in FrameType /\ used \in Nat
    <3>1. used \in 0 .. TempLimit /\ TempLimit \in Nat
      BY TreeAssumption, Zenon DEF IInv, Typed
    <3>2. used \in Nat
      BY <3>1
    <3> QED
      BY <1>3, <3>2, Running, Zenon
  <2>2. cell \in Nat
    <3>1. stack[i].kids \in Seq(1 .. TempLimit)
      BY <2>1, Fields, Zenon
    <3>2. cell \in 1 .. TempLimit
      BY <1>4, <3>1, CellOf, Zenon
    <3> QED
      BY <3>2
  <2>3. cell <= used /\ \A j \in i + 1 .. Depth : cell <= stack[j].mark
    BY <1>1, <1>2, <1>3, <1>4, Zenon DEF Kids
  <2>4. temp[cell] \in {"."} \cup Children(first.src, stack[i].path)
    BY <1>1, <1>2, <1>3, <1>4, Zenon DEF Kids
  <2>5. cell <= used'
    BY <2>1, <2>2, <2>3
  <2> QED
    BY <1>2, <1>3, <1>4, <2>3, <2>4, <2>5, Zenon DEF LoopsKept
<1>5. ASSUME NEW i \in 1 .. Depth, NEW k \in DOMAIN stack'[i].kids, NEW cell, cell = stack'[i].kids[k]
      PROVE  /\ cell <= used' /\ \A j \in i + 1 .. Depth : cell <= stack'[j].mark
             /\ temp'[cell] \in {"."} \cup Children(first.src, stack'[i].path)
  <2>1. CASE i = Depth
    BY <1>3, <1>5, <2>1, Zenon DEF Grown
  <2>2. CASE i \in 1 .. Depth - 1
    <3>1. stack'[i] = stack[i]
      BY <2>2, Zenon DEF Grown
    <3> QED
      BY <1>4, <1>5, <2>2, <3>1, Zenon
  <2> QED
    BY <1>3, <2>1, <2>2, Zenon
<1> QED
  BY <1>1, <1>2, <1>5, Zenon DEF Kids

LEMMA ToppedAmount ==
  ASSUME IInv, op = "copy", Aside, NEW f, Grown(f), Depth' = Depth,
         src = first.src => used' = IF f.at = "loop" THEN first.used + Needed(first.src, f.path) ELSE f.mark
  PROVE  Amount'
<1>1. Amount /\ first' = first /\ src' = src
  BY Zenon DEF IInv, CopyInv, Aside
<1>2. /\ Depth' = Depth /\ Depth \in Nat /\ Depth >= 1 /\ Top' = f
      /\ \A i \in 1 .. Depth : stack'[i].path = stack[i].path /\ stack'[i].mark = stack[i].mark
  BY GrownIs, Zenon
<1>3. \A i \in 1 .. Depth - 1 : i \in 1 .. Depth /\ i + 1 \in 1 .. Depth
  BY <1>2
<1> QED
  BY <1>1, <1>2, <1>3, Zenon DEF Amount

-----------------------------------------------------------------------------
(* The entry of the last call. *)

LEMMA CopyTop ==
  ASSUME IInv, op = "copy", NEW p, p = Top.path
  PROVE  /\ p \in Tree /\ Top.mark \in Nat /\ stack # << >>
         /\ src[p] \in {first.src[p], "none"}
         /\ Under(src) /\ Under(dst) /\ Under(first.src) /\ Under(first.dst)
         /\ used \in 0 .. TempLimit /\ used \in Nat /\ dst \in TargetTree
         /\ Depth \in 1 .. Depth /\ Depth \in DOMAIN stack /\ Top = stack[Depth]
<1>1. p \in Tree /\ Top.mark \in Nat
  BY Running, Fields, Zenon
<1>2. src[p] \in {first.src[p], "none"}
  BY <1>1, Zenon DEF IInv, Shrinks
<1>3. first.src \in SourceTree /\ first.dst \in TargetTree
  <2>1. \A f \in CallType : f.src \in SourceTree /\ f.dst \in TargetTree
    BY DEF CallType
  <2> QED
    BY <2>1, Zenon DEF IInv, Typed
<1>4. Under(src) /\ Under(dst) /\ Under(first.src) /\ Under(first.dst)
  <2>1. \A t \in SourceTree : Under(t)
    BY Zenon DEF SourceTree
  <2>2. \A t \in TargetTree : Under(t)
    BY Zenon DEF TargetTree
  <2> QED
    BY <1>3, <2>1, <2>2, Zenon DEF IInv, Typed
<1>5. used \in 0 .. TempLimit /\ TempLimit \in Nat
  BY TreeAssumption, Zenon DEF IInv, Typed
<1>6. used \in Nat
  BY <1>5
<1>7. Depth \in 1 .. Depth /\ Depth \in DOMAIN stack /\ Top = stack[Depth] /\ stack # << >>
  <2>1. Depth \in Nat /\ Depth >= 1
    BY Running, Zenon
  <2>2. Depth \in 1 .. Depth
    BY <2>1
  <2> QED
    BY <2>2, Running, Zenon
<1> QED
  BY <1>1, <1>2, <1>4, <1>5, <1>6, <1>7, Zenon DEF IInv, Typed

\* Only the root's entry need not have been in the source when the call began.
LEMMA CopyChild ==
  ASSUME IInv, op = "copy", NEW p, p = Top.path
  PROVE  \/ Depth = 1 /\ p = << >> /\ Top.mark = first.used
         \/ /\ Depth # 1 /\ Depth - 1 \in 1 .. Depth - 1
            /\ \E q \in Tree : \E c \in Children(first.src, q) : q = stack[Depth - 1].path /\ p = Append(q, c)
            /\ first.src[p] # "none"
            /\ src = first.src => Top.mark = first.used + Needed(first.src, stack[Depth - 1].path)
<1>1. CopyStack /\ Amount
  BY Zenon DEF IInv, CopyInv
<1>2. Depth \in Nat /\ Depth >= 1 /\ Top = stack[Depth]
  BY Running, Zenon
<1>3. CASE Depth = 1
  BY <1>1, <1>2, <1>3, Zenon DEF CopyStack
<1>4. CASE Depth # 1
  <2>1. Depth - 1 \in 1 .. Depth - 1 /\ Depth - 1 \in 1 .. Depth /\ Depth - 1 + 1 = Depth
    BY <1>2, <1>4
  <2>2. stack[Depth - 1].path \in Tree
    BY <2>1, Running, Fields, Zenon
  <2>3. PICK c \in Children(first.src, stack[Depth - 1].path) : p = Append(stack[Depth - 1].path, c)
    <3>1. \E c \in Children(first.src, stack[Depth - 1].path) :
             stack[Depth - 1 + 1].path = Append(stack[Depth - 1].path, c)
      BY <1>1, <2>1, Zenon DEF CopyStack
    <3> QED
      BY <1>2, <2>1, <3>1, Zenon
  <2>4. first.src[p] # "none"
    BY <2>3, Zenon DEF Children
  <2>5. src = first.src => stack[Depth - 1 + 1].mark = first.used + Needed(first.src, stack[Depth - 1].path)
    BY <1>1, <2>1, Zenon DEF Amount
  <2>6. src = first.src => Top.mark = first.used + Needed(first.src, stack[Depth - 1].path)
    BY <1>2, <2>1, <2>5, Zenon
  <2> QED
    BY <1>4, <2>1, <2>2, <2>3, <2>4, <2>6, Zenon
<1> QED
  BY <1>3, <1>4

\* What is stored once the names of the directory are.
LEMMA MarkIs ==
  ASSUME IInv, op = "copy", src = first.src, NEW p, p = Top.path
  PROVE  /\ Top.mark + (Cardinality(Children(src, p)) + 1) = first.used + Needed(first.src, p)
         /\ Cardinality(Children(src, p)) \in Nat
<1>1. p \in Tree /\ Top.mark \in Nat
  BY CopyTop, Zenon
<1>2. \A q \in Tree : Needed(src, q) \in Nat /\ Cardinality(Children(src, q)) \in Nat
  <2>1. ASSUME NEW q \in Tree PROVE Cardinality(Children(src, q)) \in Nat
    BY HeldSize, FS_CardinalityType, Zenon
  <2>2. ASSUME NEW q \in Tree PROVE Needed(src, q) \in Nat
    <3>1. Needed(src, q) = Cardinality(Names(src, q)) + Cardinality(Upward(q))
      BY NeededIs, Zenon
    <3>2. Names(src, q) \in SUBSET Tree /\ Upward(q) \in SUBSET Tree
      BY Zenon DEF Names, Upward
    <3>3. Cardinality(Names(src, q)) \in Nat /\ Cardinality(Upward(q)) \in Nat
      BY <3>2, TreeFinite, FS_CardinalityType, Zenon
    <3> QED
      BY <3>1, <3>3
  <2> QED
    BY <2>1, <2>2, Zenon
<1>3. first.used \in Nat
  <2>1. TempLimit \in Nat
    BY TreeAssumption
  <2>2. \A f \in CallType : f.used \in Nat
    BY <2>1 DEF CallType
  <2> QED
    BY <2>2, Zenon DEF IInv, Typed
<1>4. CASE Depth = 1 /\ p = << >> /\ Top.mark = first.used
  <2>1. Needed(src, p) = Cardinality(Children(src, p)) + 1
    BY <1>4, NeededRoot, Zenon
  <2> QED
    BY <1>1, <1>2, <1>3, <1>4, <2>1
<1>5. CASE Depth # 1
  <2>1. PICK q \in Tree : \E c \in Children(first.src, q) : q = stack[Depth - 1].path /\ p = Append(q, c)
    BY <1>5, CopyChild, Zenon
  <2>2. PICK c \in Children(first.src, q) : q = stack[Depth - 1].path /\ p = Append(q, c)
    BY <2>1, Zenon
  <2>3. Top.mark = first.used + Needed(src, q)
    BY <1>5, <2>2, CopyChild, Zenon
  <2>4. Needed(src, p) = Needed(src, q) + Cardinality(Children(src, p)) + 1
    <3>1. Append(q, c) \in Tree
      BY <1>1, <2>2, Zenon
    <3>2. Needed(src, Append(q, c)) = Needed(src, q) + Cardinality(Children(src, Append(q, c))) + 1
      BY <3>1, NeededChild, Zenon
    <3> QED
      BY <2>2, <3>2, Zenon
  <2> QED
    BY <1>1, <1>2, <1>3, <2>3, <2>4
<1> QED
  BY <1>4, <1>5, CopyChild, Zenon

\* An entry is put where there is a directory to put it in.
PutIn(t, p, k, u) == u \in TargetTree /\ u[p] = k /\ \A q \in Tree : q # p => u[q] = t[q]

LEMMA TargetPut ==
  ASSUME NEW t \in TargetTree, NEW p \in Tree, NEW k \in {"file", "partial", "directory"},
         p = << >> \/ t[Front(p)] = "directory", t[p] = "directory" => k = "directory",
         NEW u, u = [t EXCEPT ![p] = k]
  PROVE  PutIn(t, p, k, u)
<1>1. t \in [Tree -> {"none", "file", "partial", "directory"}] /\ Under(t)
  BY Zenon DEF TargetTree
<1>2. u \in [Tree -> {"none", "file", "partial", "directory"}]
  BY <1>1, Zenon
<1>3. u[p] = k /\ \A q \in Tree : q # p => u[q] = t[q]
  BY <1>1, Zenon
<1>4. ASSUME NEW q \in Tree, NEW r \in Below(q) \ {q}, u[r] # "none" PROVE u[q] = "directory"
  <2>1. r \in Tree /\ IsPrefix(q, r)
    BY <1>4, Zenon DEF Below
  <2>2. CASE r # p
    <3>1. t[q] = "directory"
      BY <1>1, <1>3, <1>4, <2>1, <2>2, Zenon DEF Under
    <3> QED
      BY <1>3, <3>1, Zenon
  <2>3. CASE r = p
    <3>1. p # << >>
      <4>1. q \in Seq(Name) /\ p \in Seq(Name)
        BY Paths, Zenon
      <4>2. Begins(q, p)
        BY <2>1, <2>3, <4>1, PrefixIs, Zenon
      <4>3. p = << >> => q = << >>
        BY <4>1, <4>2 DEF Begins
      <4> QED
        BY <1>4, <2>3, <4>3, Zenon
    <3>2. Front(p) \in Tree /\ p = Append(Front(p), p[Len(p)])
      BY <3>1, FrontIs, Zenon
    <3>3. IsPrefix(q, Append(Front(p), p[Len(p)])) /\ Append(Front(p), p[Len(p)]) \in Tree
      BY <2>1, <2>3, <3>2, Zenon
    <3>4. q = Append(Front(p), p[Len(p)]) \/ IsPrefix(q, Front(p))
      BY <3>2, <3>3, PrefixOfChild, Zenon
    <3>5. IsPrefix(q, Front(p))
      BY <1>4, <2>3, <3>2, <3>4, Zenon
    <3>6. t[q] = "directory"
      <4>1. t[Front(p)] = "directory" /\ "directory" # "none"
        BY <3>1, Zenon
      <4>2. CASE q = Front(p)
        BY <4>1, <4>2, Zenon
      <4>3. CASE q # Front(p)
        <5>1. Front(p) \in Below(q) \ {q}
          BY <3>2, <3>5, <4>3, Zenon DEF Below
        <5> QED
          BY <1>1, <4>1, <5>1, Zenon DEF Under
      <4> QED
        BY <4>2, <4>3
    <3> QED
      BY <1>3, <1>4, <2>3, <3>6, Zenon
  <2> QED
    BY <2>2, <2>3
<1>5. Under(u)
  BY <1>4, Zenon DEF Under
<1> QED
  BY <1>2, <1>3, <1>5, Zenon DEF TargetTree, PutIn

LEMMA CopyGoesOn ==
  ASSUME IInv, op = "copy", op' = "copy", Aside, open' = open, result' \in BOOLEAN, dst' \in TargetTree,
         temp' \in [1 .. TempLimit -> Name \cup {"."}], used' \in 0 .. TempLimit,
         stack' # << >>, stack' \in Seq(FrameType),
         CopyStack', Kids', Amount', result' => Faithful' /\ Going'
  PROVE  IInv'
<1>1. /\ Shrinks' /\ ~Walking' /\ VisitsInOrder' /\ VisitsAll'
      /\ src' \in SourceTree /\ stop' \in BOOLEAN /\ sb' \in Seq(Name \cup {"root", NUL})
      /\ visited' \in Seq(VisitType) /\ first' \in CallType /\ first.op = "copy" /\ refused' \in SUBSET Tree
  BY CopyAside, Zenon
<1>2. first' = first
  BY Zenon DEF Aside
<1>3. Typed'
  BY <1>1, Zenon DEF IInv, Typed
<1>4. Calls'
  BY <1>1, <1>2, Zenon DEF IInv, Calls
<1>5. CopiedAll' /\ AbortsForCause'
  BY Zenon DEF CopiedAll, AbortsForCause, Returned
<1> QED
  BY <1>1, <1>3, <1>4, <1>5, Zenon DEF IInv, CopyInv

-----------------------------------------------------------------------------
(* The steps of a copy. *)

LEMMA SameTarget ==
  ASSUME IInv, op = "copy", dst' = dst PROVE OnlyHere
  BY CopyTop, Zenon DEF OnlyHere

\* A lookup that failed is noted.
LEMMA NotedIs ==
  ASSUME refused \in SUBSET Tree, NEW p \in Tree, NEW type, Note(p, type)
  PROVE  /\ refused \subseteq refused' /\ refused' \in SUBSET Tree
         /\ type = src[p] \/ p \in refused'
<1>1. refused' = refused \cup (IF type # src[p] THEN {p} ELSE {})
  BY Zenon DEF Note
<1> QED
  BY <1>1

LEMMA StepAside ==
  ASSUME IInv, CopyEnter \/ ReadEntireDir \/ NextChild \/ ChildrenDone \/ CopyFile
  PROVE  op = "copy" /\ Aside
<1>1. op = "copy" /\ src' = src /\ sb' = sb /\ stop' = stop /\ visited' = visited /\ first' = first
  BY Zenon DEF CopyEnter, ReadEntireDir, NextChild, ChildrenDone, CopyFile, At
<1>2. refused \in SUBSET Tree /\ Top.path \in Tree
  <2>1. Top \in FrameType
    BY <1>1, Running, Zenon
  <2> QED
    BY <2>1, Fields, Zenon DEF IInv, Typed
<1>3. refused' = refused \/ \E type : Note(Top.path, type)
  BY Zenon DEF CopyEnter, ReadEntireDir, NextChild, ChildrenDone, CopyFile
<1>4. refused \subseteq refused' /\ refused' \in SUBSET Tree
  BY <1>2, <1>3, NotedIs, Zenon
<1> QED
  BY <1>1, <1>4, Zenon DEF Aside

LEMMA Unless ==
  ASSUME IInv, op = "copy", Top.at # "loop"
  PROVE  result /\ (src = first.src => used = Top.mark)
<1>1. CopyStack /\ Amount /\ result \in BOOLEAN
  BY Zenon DEF IInv, CopyInv, Typed
<1> QED
  BY <1>1, Zenon DEF CopyStack, Amount

\* The frame goes on to another step, with what it has.
LEMMA GoesTo ==
  ASSUME IInv, op = "copy", NEW x \in {"list", "file"}, Goto(x), Top.at = "enter", Aside,
         op' = op, result' = result, used' = used, open' = open, temp' = temp, OnlyHere,
         NEW p, p = Top.path, first.src[p] = (IF x = "list" THEN "directory" ELSE "file"),
         Faithful', x = "list" => dst'[p] # "none"
  PROVE  IInv'
<1> DEFINE f == [Top EXCEPT !.at = x]
<1>1. /\ p \in Tree /\ Top.mark \in Nat /\ stack # << >>
      /\ used \in 0 .. TempLimit /\ used \in Nat
      /\ Depth \in 1 .. Depth /\ Depth \in DOMAIN stack /\ Top = stack[Depth]
  BY CopyTop, Zenon
<1>2. Top \in FrameType /\ stack \in Seq(FrameType)
  BY Running, Zenon
<1>3. f \in FrameType /\ f.at = x /\ Alike(Top, f)
  <2>1. x \in Steps
    BY Zenon DEF Steps
  <2> QED
    BY <1>2, <2>1, FrameAt, Zenon
<1>4. stack' = [stack EXCEPT ![Len(stack)] = f]
  BY <1>1, PathExcept, Zenon DEF Goto, Depth
<1>5. stack' \in Seq(FrameType) /\ Topped(stack, f, stack')
  BY <1>1, <1>2, <1>3, <1>4, Tops, Zenon
<1>6. Grown(f) /\ Depth' = Depth
  BY <1>3, <1>5, Zenon DEF Grown, Topped, Depth, Alike
<1> HIDE DEF f
<1>7. result /\ result' /\ (src = first.src => used' = Top.mark)
  BY Unless, Zenon
<1>8. CopyStack /\ Kids /\ first' = first /\ src' = src
  BY Zenon DEF IInv, CopyInv, Aside
<1>9. CopyStack'
  BY <1>3, <1>6, <1>7, <1>1, ToppedStack, Zenon DEF Alike
<1>10. LoopsKept
  BY Zenon DEF LoopsKept
<1>11. Kids'
  <2>1. used' \in Nat /\ used' >= used
    BY <1>1
  <2>2. \A k \in DOMAIN f.kids :
           f.kids[k] <= used' /\ temp'[f.kids[k]] \in {"."} \cup Children(first.src, f.path)
    BY <1>1, <1>3, <1>8, Zenon DEF Kids, Alike
  <2> QED
    BY <1>6, <1>10, <2>1, <2>2, ToppedKids, Zenon
<1>12. Amount'
  <2>1. f.at # "loop" /\ f.mark = Top.mark
    BY <1>3, Zenon DEF Alike
  <2> QED
    BY <1>6, <1>7, <2>1, ToppedAmount, Zenon
<1>13. Going'
  <2>1. ASSUME NEW i \in DOMAIN stack' PROVE GoingAt(i)'
    <3>1. CASE i \in 1 .. Depth - 1
      BY <1>6, <1>7, <1>10, <3>1, GrownGoing, Zenon
    <3>2. CASE i = Depth
      <4>1. stack'[i] = f /\ f.path = p /\ f.at = x
        BY <1>3, <1>6, <3>2, Zenon DEF Grown
      <4> QED
        BY <4>1, Zenon DEF GoingAt
    <3>3. i \in 1 .. Depth - 1 \/ i = Depth
      <4>1. DOMAIN stack' = 1 .. Depth /\ Depth \in Nat
        BY <1>6, GrownIs, Zenon
      <4> QED
        BY <4>1
    <3> QED
      BY <3>1, <3>2, <3>3
  <2> QED
    BY <2>1, Zenon DEF Going
<1>14. stack' # << >> /\ stack' \in Seq(FrameType)
  BY <1>5, <1>6, GrownIs, Zenon
<1> QED
  BY <1>1, <1>7, <1>9, <1>11, <1>12, <1>13, <1>14, CopyGoesOn, Zenon DEF OnlyHere, IInv, Typed

\* What is not a directory is done with all below it when it is done itself.
LEMMA DoneAlone ==
  ASSUME IInv, op = "copy", Aside, NEW p, p = Top.path, src[p] \notin {"directory", "other"},
         src[p] = "file" => dst'[p] = "file"
  PROVE  Done(p)'
<1>1. p \in Tree /\ Under(src) /\ src' = src
  BY CopyTop, Zenon DEF Aside
<1>2. ASSUME NEW q \in Below(p)
      PROVE  src'[q] # "other" /\ (src'[q] \in {"file", "directory"} => Copied(q)')
  <2>1. CASE q = p
    BY <1>1, <2>1, Zenon DEF Copied
  <2>2. CASE q # p
    <3>1. src[q] = "none"
      BY <1>1, <1>2, <2>2, NothingBelow, Zenon
    <3> QED
      BY <1>1, <3>1, Zenon
  <2> QED
    BY <2>1, <2>2
<1> QED
  BY <1>2, Zenon DEF Done

LEMMA FaithfulKept ==
  ASSUME IInv, op = "copy", Aside, result, OnlyHere, NEW p, p = Top.path,
         dst'[p] = dst[p] \/ dst'[p] = first.src[p]
  PROVE  Faithful'
<1>1. Faithful /\ first' = first
  BY Zenon DEF IInv, CopyInv, Aside
<1> QED
  BY <1>1, Zenon DEF Faithful, OnlyHere

LEMMA CopyEnterKeeps == ASSUME IInv, CopyEnter PROVE IInv'
<1>1. op = "copy" /\ Aside /\ temp' = temp /\ At("enter") /\ Top.at = "enter"
  BY StepAside, Zenon DEF CopyEnter, At
<1>2. PICK p : p = Top.path
  BY Zenon
<1>3. /\ p \in Tree /\ src[p] \in {first.src[p], "none"} /\ Under(src) /\ dst \in TargetTree
  BY <1>1, <1>2, CopyTop, Zenon
<1>4. result
  BY <1>1, Unless, Zenon
<1>5. CASE (src[p] = "none" \/ p \in refused') /\ Abort
  <2>1. first.src[<< >>] = "none" \/ src # first.src \/ refused' # {}
    <3>1. CASE p = << >> /\ src = first.src
      BY <1>5, <3>1, Zenon
    <3>2. CASE first.src[p] # "none"
      BY <1>5, <3>2, Zenon
    <3> QED
      BY <1>1, <1>2, <3>1, <3>2, CopyChild, Zenon
  <2> QED
    BY <1>1, <1>5, <2>1, CopyAborts, Zenon
<1>6. CASE src[p] = "directory" /\ MkdirIfNotExists(p) /\ Goto("list") /\ UNCHANGED << op, result, used, open >>
  <2>1. /\ dst' = [dst EXCEPT ![p] = IF dst[p] = "none" THEN "directory" ELSE dst[p]]
        /\ p = << >> \/ dst[Front(p)] = "directory"
    BY <1>6, Zenon DEF MkdirIfNotExists, Placed
  <2>2. dst \in [Tree -> {"none", "file", "partial", "directory"}]
    BY <1>3, Zenon DEF TargetTree
  <2>3. OnlyHere /\ dst'[p] # "none" /\ (dst'[p] = dst[p] \/ dst'[p] = "directory")
    <3>1. CASE dst[p] = "none"
      <4>1. dst' = [dst EXCEPT ![p] = "directory"]
        BY <2>1, <3>1, Zenon
      <4>2. dst' \in TargetTree /\ dst'[p] = "directory" /\ \A q \in Tree : q # p => dst'[q] = dst[q]
        <5>1. "directory" \in {"file", "partial", "directory"}
          OBVIOUS
        <5>2. dst[p] = "directory" => "directory" = "directory"
          OBVIOUS
        <5>3. p \in Tree /\ dst \in TargetTree
          BY <1>3, Zenon
        <5>4. PutIn(dst, p, "directory", dst')
          BY <2>1, <4>1, <5>1, <5>2, <5>3, TargetPut, Zenon
        <5> QED
          BY <5>4, Zenon DEF PutIn
      <4> QED
        BY <1>2, <4>2, Zenon DEF OnlyHere
    <3>2. CASE dst[p] # "none"
      <4>1. dst' = [dst EXCEPT ![p] = dst[p]]
        BY <2>1, <3>2, Zenon
      <4>2. dst' = dst
        BY ONLY <1>3, <2>2, <4>1
      <4> QED
        BY <1>1, <3>2, <4>2, SameTarget, Zenon
    <3> QED
      BY <3>1, <3>2
  <2>4. first.src[p] = "directory"
    BY <1>3, <1>6, Zenon
  <2>5. Faithful'
    BY <1>1, <1>2, <1>4, <2>3, <2>4, FaithfulKept, Zenon
  <2>6. Goto("list") /\ op' = op /\ result' = result /\ used' = used /\ open' = open
    BY <1>6, Zenon
  <2> QED
    BY <1>1, <1>2, <2>3, <2>4, <2>5, <2>6, GoesTo, Zenon
<1>7. CASE Return(FALSE) /\ UNCHANGED << dst, open >>
  <2>1. dst' = dst /\ open' = open
    BY <1>7, Zenon
  <2> QED
    BY <1>1, <1>2, <1>3, <1>7, <2>1, SameTarget, CopyReturns, Zenon
<1>8. CASE src[p] = "file" /\ Goto("file") /\ UNCHANGED << dst, op, result, used, open >>
  <2>1. /\ Goto("file") /\ op' = op /\ result' = result /\ used' = used /\ open' = open /\ dst' = dst
        /\ first.src[p] = "file"
    BY <1>3, <1>8, Zenon
  <2>2. OnlyHere /\ Faithful'
    BY <1>1, <1>2, <1>4, <2>1, SameTarget, FaithfulKept, Zenon
  <2> QED
    BY <1>1, <1>2, <2>1, <2>2, GoesTo, Zenon
<1>9. CASE src[p] = "symlink" /\ Return(TRUE) /\ UNCHANGED << dst, open >>
  <2>1. dst' = dst /\ open' = open
    BY <1>9, Zenon
  <2>2. OnlyHere /\ Faithful'
    BY <1>1, <1>2, <1>4, <2>1, SameTarget, FaithfulKept, Zenon
  <2>3. Done(p)'
    BY <1>1, <1>2, <1>9, DoneAlone, Zenon
  <2> QED
    BY <1>1, <1>2, <1>3, <1>4, <1>9, <2>1, <2>2, <2>3, CopyReturns, Zenon
<1>10. \/ (src[p] = "none" \/ p \in refused') /\ Abort
       \/ src[p] = "directory" /\ MkdirIfNotExists(p) /\ Goto("list") /\ UNCHANGED << op, result, used, open >>
       \/ Return(FALSE) /\ UNCHANGED << dst, open >>
       \/ src[p] = "file" /\ Goto("file") /\ UNCHANGED << dst, op, result, used, open >>
       \/ src[p] = "symlink" /\ Return(TRUE) /\ UNCHANGED << dst, open >>
  <2>1. PICK type \in {src[p], "none"} :
          /\ Note(p, type)
          /\ \/ type = "none" /\ Abort
             \/ type = "directory" /\ MkdirIfNotExists(p) /\ Goto("list")
                  /\ UNCHANGED << op, result, used, open >>
             \/ type = "directory" /\ Return(FALSE) /\ UNCHANGED << dst, open >>
             \/ type = "file" /\ Goto("file") /\ UNCHANGED << dst, op, result, used, open >>
             \/ type = "symlink" /\ Return(TRUE) /\ UNCHANGED << dst, open >>
             \/ type = "other" /\ Return(FALSE) /\ UNCHANGED << dst, open >>
    BY <1>2, Zenon DEF CopyEnter, FileType
  <2>2. type = src[p] \/ p \in refused'
    BY <1>3, <2>1, NotedIs, Zenon DEF IInv, Typed
  <2>3. type # "none" => type = src[p]
    BY <2>1, Zenon
  <2> QED
    BY <2>1, <2>2, <2>3, Zenon
<1> QED
  BY <1>5, <1>6, <1>7, <1>8, <1>9, <1>10

LEMMA CopyFileKeeps == ASSUME IInv, CopyFile PROVE IInv'
<1>1. op = "copy" /\ Aside /\ temp' = temp /\ open' = open /\ Top.at = "file"
  BY StepAside, Zenon DEF CopyFile, At
<1>2. PICK p : p = Top.path
  BY Zenon
<1>3. /\ p \in Tree /\ src[p] \in {first.src[p], "none"} /\ dst \in TargetTree
      /\ Depth \in DOMAIN stack /\ Top = stack[Depth]
  BY <1>1, <1>2, CopyTop, Zenon
<1>4. result /\ first.src[p] = "file"
  <2>1. CopyStack
    BY <1>1, Zenon DEF IInv, CopyInv
  <2> QED
    BY <1>1, <1>2, <1>3, <2>1, Unless, Zenon DEF CopyStack
<1>5. CASE Return(FALSE) /\ UNCHANGED dst
  BY <1>1, <1>2, <1>3, <1>5, SameTarget, CopyReturns, Zenon
<1>6. ASSUME NEW k \in {"file", "partial"}, src[p] # "none", Placed(p), dst[p] # "directory",
             dst' = [dst EXCEPT ![p] = k], Return(k = "file")
      PROVE  IInv'
  <2>1. dst' \in TargetTree /\ dst'[p] = k /\ \A q \in Tree : q # p => dst'[q] = dst[q]
    <3>1. k \in {"file", "partial", "directory"}
      BY <1>6
    <3>2. dst[p] = "directory" => k = "directory"
      BY <1>6, Zenon
    <3>3. p \in Tree /\ dst \in TargetTree /\ (p = << >> \/ dst[Front(p)] = "directory")
      BY <1>3, <1>6, Zenon DEF Placed
    <3>4. PutIn(dst, p, k, dst')
      BY <1>6, <3>1, <3>2, <3>3, TargetPut, Zenon
    <3> QED
      BY <3>4, Zenon DEF PutIn
  <2>2. OnlyHere
    BY <1>2, <2>1, <1>6, Zenon DEF OnlyHere
  <2>3. k = "file" => Faithful' /\ Done(p)'
    <3>1. k = "file" => src[p] \notin {"directory", "other"} /\ dst'[p] = first.src[p] /\ dst'[p] = "file"
      <4>1. src[p] = "file"
        BY <1>3, <1>4, <1>6, Zenon
      <4>2. "file" \notin {"directory", "other"}
        OBVIOUS
      <4> QED
        BY <1>4, <2>1, <4>1, <4>2, Zenon
    <3>2. k = "file" => Faithful'
      BY <1>1, <1>2, <1>4, <2>2, <3>1, FaithfulKept, Zenon
    <3>3. k = "file" => Done(p)'
      BY <1>1, <1>2, <3>1, DoneAlone, Zenon
    <3> QED
      BY <3>2, <3>3, Zenon
  <2> QED
    BY <1>1, <1>2, <1>3, <1>4, <1>6, <2>2, <2>3, CopyReturns, Zenon
<1>7. \/ Return(FALSE) /\ UNCHANGED dst
      \/ /\ src[p] # "none" /\ Placed(p) /\ dst[p] # "directory"
         /\ \/ dst' = [dst EXCEPT ![p] = "file"] /\ Return(TRUE)
            \/ dst' = [dst EXCEPT ![p] = "partial"] /\ Return(FALSE)
  BY <1>2, Zenon DEF CopyFile
<1>8. ("file" = "file") = TRUE /\ ("partial" = "file") = FALSE
  OBVIOUS
<1>9. ASSUME src[p] # "none", Placed(p), dst[p] # "directory", dst' = [dst EXCEPT ![p] = "file"], Return(TRUE)
      PROVE  IInv'
  <2>1. Return("file" = "file")
    BY <1>8, <1>9, Zenon
  <2> QED
    BY <1>6, <1>9, <2>1, Zenon
<1>10. ASSUME src[p] # "none", Placed(p), dst[p] # "directory", dst' = [dst EXCEPT ![p] = "partial"], Return(FALSE)
       PROVE  IInv'
  <2>1. Return("partial" = "file")
    BY <1>8, <1>10, Zenon
  <2> QED
    BY <1>6, <1>10, <2>1, Zenon
<1> QED
  BY <1>5, <1>7, <1>9, <1>10, Zenon

\* A directory is done when all its entries are.
LEMMA LoopDone ==
  ASSUME IInv, op = "copy", Aside, dst' = dst, result, Top.at = "loop", Top.kids = << >>, NEW p, p = Top.path
  PROVE  Done(p)'
<1>1. /\ p \in Tree /\ src[p] \in {first.src[p], "none"} /\ Under(src) /\ Under(dst) /\ Under(first.dst)
      /\ Depth \in DOMAIN stack /\ Top = stack[Depth]
  BY CopyTop, Zenon
<1>2. CopyStack /\ Faithful /\ Going /\ src' = src /\ first' = first
  BY Zenon DEF IInv, CopyInv, Aside
<1>3. first.src[p] = "directory" /\ dst[p] # "none"
  BY <1>1, <1>2, Zenon DEF CopyStack, Going, GoingAt
<1>4. ASSUME NEW c \in Children(src, p) PROVE Done(Append(p, c))
  <2>1. ~Pending(Depth, c)
    <3>1. stack[Depth].kids = << >>
      BY <1>1, Zenon
    <3>2. \A k \in DOMAIN << >> : FALSE
      OBVIOUS
    <3> QED
      BY <3>1, <3>2, Zenon DEF Pending
  <2>2. ~Current(Depth, Append(p, c))
    <3>1. ~(Depth < Depth)
      BY RunningDepth, Zenon
    <3> QED
      BY <3>1, Zenon DEF Current
  <2> QED
    BY <1>1, <1>2, <1>4, <2>1, <2>2, Zenon DEF Going, GoingAt
<1>5. dst[p] # "directory" => first.dst[p] \in {"file", "partial"}
  <2>1. dst[p] # first.dst[p] => dst[p] = "directory"
    BY <1>1, <1>2, <1>3, Zenon DEF Faithful
  <2>2. dst \in [Tree -> {"none", "file", "partial", "directory"}]
    BY Zenon DEF IInv, Typed, TargetTree
  <2>3. dst[p] \in {"none", "file", "partial", "directory"}
    BY <1>1, <2>2, Zenon
  <2> QED
    BY <1>3, <2>1, <2>3, Zenon
<1>6. ASSUME NEW q \in Below(p) \ {p}, src[q] # "none"
      PROVE  /\ src[q] # "other" /\ (src[q] \in {"file", "directory"} => Copied(q))
             /\ dst[p] # "directory" => src[q] = "symlink"
  <2>0. q \in Below(p) /\ q # p
    BY <1>6, Zenon
  <2>1. PICK c \in Name : Append(p, c) \in Tree /\ q \in Below(Append(p, c))
    BY <1>1, <1>6, BelowSplit, Zenon
  <2>2. src[Append(p, c)] # "none"
    <3>1. CASE q = Append(p, c)
      BY <1>6, <3>1, Zenon
    <3>2. CASE q # Append(p, c)
      <4>1. src[Append(p, c)] = "none" => src[Append(p, c)] # "directory"
        OBVIOUS
      <4>2. Under(src) /\ Append(p, c) \in Tree /\ q \in Below(Append(p, c))
        BY <1>1, <2>1, Zenon
      <4>3. src[Append(p, c)] # "directory" => src[q] = "none"
        BY ONLY <3>2, <4>2, NothingBelow, Zenon
      <4> QED
        BY <1>6, <4>1, <4>3, Zenon
    <3> QED
      BY <3>1, <3>2
  <2>3. Done(Append(p, c))
    BY <1>4, <2>1, <2>2, Zenon DEF Children
  <2>4. src[q] # "other" /\ (src[q] \in {"file", "directory"} => Copied(q))
    BY <2>1, <2>3, Zenon DEF Done
  <2>5. ASSUME dst[p] # "directory", src[q] \in {"file", "directory"} PROVE FALSE
    <3>1. Copied(q)
      BY <2>4, <2>5, Zenon
    <3>2. dst[q] = "none"
      BY <1>1, <2>0, <2>5, NothingBelow, Zenon
    <3>3. first.dst[q] = "none"
      <4>1. first.dst[p] # "directory"
        BY <1>5, <2>5, Zenon
      <4>2. Under(first.dst) /\ p \in Tree
        BY <1>1, Zenon
      <4> QED
        BY ONLY <2>0, <4>1, <4>2, NothingBelow, Zenon
    <3> QED
      BY <1>6, <3>1, <3>2, <3>3, Zenon DEF Copied
  <2>6. src[q] \in Kind
    <3>1. src \in [Tree -> Kind \cup {"none"}] /\ q \in Tree
      BY <1>6, Zenon DEF IInv, Typed, SourceTree, Below
    <3> QED
      BY <1>6, <3>1, Zenon
  <2> QED
    BY <2>4, <2>5, <2>6, Zenon DEF Kind
<1>7. Copied(p) \/ src[p] # "directory"
  BY <1>5, <1>6, Zenon DEF Copied
<1>8. ASSUME NEW q \in Below(p)
      PROVE  src[q] # "other" /\ (src[q] \in {"file", "directory"} => Copied(q))
  <2>1. CASE q = p
    BY <1>1, <1>3, <1>7, <2>1, Zenon
  <2>2. CASE q # p /\ src[q] = "none"
    BY <2>2, Zenon
  <2>3. CASE q # p /\ src[q] # "none"
    BY <1>6, <1>8, <2>3, Zenon
  <2> QED
    BY <2>1, <2>2, <2>3
<1>9. Done(p)
  BY <1>8, Zenon DEF Done
<1> QED
  BY <1>2, <1>9, Zenon DEF Done, Copied

LEMMA ChildrenDoneKeeps == ASSUME IInv, ChildrenDone PROVE IInv'
<1>1. op = "copy" /\ Aside /\ temp' = temp /\ open' = open /\ dst' = dst /\ Top.at = "loop"
  BY StepAside, Zenon DEF ChildrenDone, At
<1>2. PICK p : p = Top.path
  BY Zenon
<1>3. p \in Tree /\ OnlyHere
  BY <1>1, <1>2, CopyTop, SameTarget, Zenon
<1>4. CASE Return(FALSE)
  BY <1>1, <1>2, <1>3, <1>4, CopyReturns, Zenon
<1>5. CASE result /\ Top.kids = << >> /\ Return(TRUE)
  <2>1. Done(p)'
    BY <1>1, <1>2, <1>5, LoopDone, Zenon
  <2>2. Faithful'
    BY <1>1, <1>2, <1>3, <1>5, FaithfulKept, Zenon
  <2> QED
    BY <1>1, <1>2, <1>3, <1>5, <2>1, <2>2, CopyReturns, Zenon
<1> QED
  BY <1>4, <1>5, Zenon DEF ChildrenDone, GivesUp

-----------------------------------------------------------------------------
(* The loop over the names of a directory. *)

\* What is left of the names when the first has been taken.
LEMMA TailIs ==
  ASSUME NEW S, NEW s \in Seq(S), s # << >>
  PROVE  /\ Tail(s) \in Seq(S) /\ 1 \in DOMAIN s /\ Head(s) = s[1]
         /\ \A k \in DOMAIN Tail(s) : k + 1 \in DOMAIN s /\ Tail(s)[k] = s[k + 1]
         /\ \A k \in DOMAIN s : k = 1 \/ (k - 1 \in DOMAIN Tail(s) /\ Tail(s)[k - 1] = s[k])
  OBVIOUS

\* The loop goes on with the names it has left.
Looping(f) == /\ Grown(f) /\ f.at = "loop" /\ f.kids = Tail(Top.kids) /\ result' = TRUE
              /\ dst' = dst /\ op' = op /\ temp' = temp /\ used' = used /\ open' = open

LEMMA LoopingKids ==
  ASSUME IInv, op = "copy", Aside, Top.at = "loop", Top.kids # << >>, NEW f, Looping(f), NEW p, p = Top.path
  PROVE  /\ f.kids \in Seq(1 .. TempLimit)
         /\ \A k \in DOMAIN f.kids :
              f.kids[k] <= used /\ f.kids[k] \in Nat /\ temp[f.kids[k]] \in {"."} \cup Children(first.src, p)
         /\ temp[Head(Top.kids)] \in {"."} \cup Children(first.src, p)
         /\ \A c : Pending(Depth, c) => c = temp[Head(Top.kids)] \/ \E k \in DOMAIN f.kids : temp[f.kids[k]] = c
<1>1. /\ Top.kids \in Seq(1 .. TempLimit) /\ Depth \in DOMAIN stack /\ Top = stack[Depth]
  BY Running, Fields, CopyTop, Zenon
<1>2. f.kids = Tail(Top.kids)
  BY Zenon DEF Looping
<1>3. /\ f.kids \in Seq(1 .. TempLimit) /\ 1 \in DOMAIN Top.kids /\ Head(Top.kids) = Top.kids[1]
      /\ \A k \in DOMAIN f.kids : k + 1 \in DOMAIN Top.kids /\ f.kids[k] = Top.kids[k + 1]
      /\ \A k \in DOMAIN Top.kids : k = 1 \/ (k - 1 \in DOMAIN f.kids /\ f.kids[k - 1] = Top.kids[k])
  <2> DEFINE S == 1 .. TempLimit
  <2>1. Top.kids \in Seq(S)
    BY <1>1, Zenon
  <2> HIDE DEF S
  <2>2. /\ Tail(Top.kids) \in Seq(S) /\ 1 \in DOMAIN Top.kids /\ Head(Top.kids) = Top.kids[1]
        /\ \A k \in DOMAIN Tail(Top.kids) : k + 1 \in DOMAIN Top.kids /\ Tail(Top.kids)[k] = Top.kids[k + 1]
        /\ \A k \in DOMAIN Top.kids : k = 1 \/ (k - 1 \in DOMAIN Tail(Top.kids) /\ Tail(Top.kids)[k - 1] = Top.kids[k])
    <3>1. Top.kids # << >>
      OBVIOUS
    <3> QED
      BY ONLY <2>1, <3>1, TailIs
  <2> QED
    BY <1>2, <2>2, Zenon DEF S
<1>4. \A k \in DOMAIN Top.kids : Top.kids[k] <= used /\ temp[Top.kids[k]] \in {"."} \cup Children(first.src, p)
  BY <1>1, Zenon DEF IInv, CopyInv, Kids
<1>5. \A k \in DOMAIN f.kids :
         f.kids[k] <= used /\ f.kids[k] \in Nat /\ temp[f.kids[k]] \in {"."} \cup Children(first.src, p)
  <2>1. ASSUME NEW k \in DOMAIN f.kids PROVE f.kids[k] \in Nat
    <3>1. f.kids[k] \in 1 .. TempLimit
      BY <1>3, CellOf, Zenon
    <3> QED
      BY <3>1
  <2> QED
    BY <1>3, <1>4, <2>1, Zenon
<1>6. ASSUME NEW c, Pending(Depth, c)
      PROVE  c = temp[Head(Top.kids)] \/ \E k \in DOMAIN f.kids : temp[f.kids[k]] = c
  <2>1. PICK k \in DOMAIN Top.kids : temp[Top.kids[k]] = c
    BY <1>1, <1>6, Zenon DEF Pending
  <2> QED
    BY <1>3, <2>1, Zenon
<1> QED
  BY <1>3, <1>4, <1>5, <1>6, Zenon

\* The entry for "." is passed over; a name of the directory is never that.
LEMMA LoopingOn ==
  ASSUME IInv, op = "copy", Aside, Top.at = "loop", Top.kids # << >>, result, NEW f, Looping(f),
         Depth' = Depth, temp[Head(Top.kids)] = "."
  PROVE  IInv'
<1>1. PICK p : p = Top.path
  BY Zenon
<1>2. /\ p \in Tree /\ stack # << >> /\ used \in 0 .. TempLimit /\ used \in Nat /\ dst \in TargetTree
      /\ Depth \in 1 .. Depth /\ Depth \in DOMAIN stack /\ Top = stack[Depth]
  BY <1>1, CopyTop, Zenon
<1>3. /\ Grown(f) /\ f.at = "loop" /\ result' = TRUE /\ f.path = p
      /\ dst' = dst /\ op' = op /\ temp' = temp /\ used' = used /\ open' = open
  BY <1>1, Zenon DEF Looping, Grown
<1>4. /\ \A k \in DOMAIN f.kids :
           f.kids[k] <= used /\ f.kids[k] \in Nat /\ temp[f.kids[k]] \in {"."} \cup Children(first.src, p)
      /\ \A c : Pending(Depth, c) => c = temp[Head(Top.kids)] \/ \E k \in DOMAIN f.kids : temp[f.kids[k]] = c
  BY <1>1, LoopingKids, Zenon
<1>5. CopyStack /\ Amount /\ Faithful /\ Going /\ first' = first /\ src' = src
  BY Zenon DEF IInv, CopyInv, Aside
<1>6. LoopsKept
  BY <1>3, Zenon DEF LoopsKept
<1>7. CopyStack'
  <2>1. first.src[p] = "directory"
    BY <1>1, <1>2, <1>5, Zenon DEF CopyStack
  <2>2. f.at \in {"list", "file", "loop"} /\ f.at # "file"
    BY <1>3, Zenon
  <2> QED
    BY <1>3, <2>1, <2>2, ToppedStack, Zenon
<1>8. Kids'
  <2>1. used' \in Nat /\ used' >= used
    BY <1>2, <1>3
  <2>2. \A k \in DOMAIN f.kids :
           f.kids[k] <= used' /\ temp'[f.kids[k]] \in {"."} \cup Children(first.src, f.path)
    BY <1>3, <1>4, Zenon
  <2> QED
    BY <1>3, <1>6, <2>1, <2>2, ToppedKids, Zenon
<1>9. Amount'
  <2>1. src = first.src => used' = first.used + Needed(first.src, f.path)
    BY <1>1, <1>3, <1>5, Zenon DEF Amount
  <2> QED
    BY <1>3, <2>1, ToppedAmount, Zenon
<1>10. OnlyHere /\ Faithful'
  BY <1>1, <1>3, SameTarget, FaithfulKept, Zenon
<1>11. GoingAt(Depth)'
  <2>1. stack'[Depth] = f /\ stack'[Depth'] = f
    BY <1>3, Zenon DEF Grown
  <2>2. GoingAt(Depth)
    BY <1>2, <1>5, Zenon DEF Going
  <2>3. dst'[p] # "none"
    BY <1>1, <1>2, <1>3, <2>2, Zenon DEF GoingAt
  <2>4. ASSUME NEW c \in Children(src, p) PROVE Pending(Depth, c)' \/ Done(Append(p, c))'
    <3>1. Pending(Depth, c) \/ Current(Depth, Append(p, c)) \/ Done(Append(p, c))
      BY <1>1, <1>2, <2>2, <2>4, Zenon DEF GoingAt
    <3>2. ~Current(Depth, Append(p, c))
      <4>1. ~(Depth < Depth)
        BY RunningDepth, Zenon
      <4> QED
        BY <4>1, Zenon DEF Current
    <3>3. ASSUME Pending(Depth, c) PROVE Pending(Depth, c)'
      <4>1. c # "."
        BY <2>4, TreeAssumption, Zenon DEF Children
      <4>2. \E k \in DOMAIN f.kids : temp[f.kids[k]] = c
        BY <1>4, <3>3, <4>1, Zenon
      <4> QED
        BY <1>3, <2>1, <4>2, Zenon DEF Pending
    <3>4. ASSUME Done(Append(p, c)) PROVE Done(Append(p, c))'
      <4>1. dst' = dst /\ src' = src /\ first' = first /\ p' = p
        BY <1>3, <1>5, Zenon
      <4> QED
        BY ONLY <3>4, <4>1, Zenon DEF Done, Copied
    <3> QED
      BY <3>1, <3>2, <3>3, <3>4, Zenon
  <2> QED
    BY <1>3, <1>5, <2>1, <2>3, <2>4, Zenon DEF GoingAt
<1>12. Going'
  <2>1. ASSUME NEW i \in DOMAIN stack' PROVE i \in 1 .. Depth - 1 \/ i = Depth
    <3>1. DOMAIN stack' = 1 .. Depth /\ Depth \in Nat
      BY <1>3, GrownIs, Zenon
    <3> QED
      BY <3>1
  <2>2. ASSUME NEW i \in 1 .. Depth - 1 PROVE GoingAt(i)'
    BY <1>3, <1>6, <1>10, GrownGoing, Zenon
  <2>3. (\A i \in DOMAIN stack : GoingAt(i))'
    BY <1>11, <2>1, <2>2, Zenon
  <2> QED
    BY <2>3, Zenon DEF Going
<1>13. stack' # << >> /\ stack' \in Seq(FrameType)
  BY <1>3, GrownIs, Zenon DEF Grown
<1> QED
  BY <1>2, <1>3, <1>7, <1>8, <1>9, <1>10, <1>12, <1>13, CopyGoesOn, Zenon DEF IInv, Typed

\* The loop calls the copy of the next entry.
Called(g, q) == /\ Depth' = Depth + 1 /\ stack'[Depth'] = g /\ g.path = q /\ g.at = "enter" /\ g.mark = used
                /\ g.kids = << >>

LEMMA CalledStack ==
  ASSUME IInv, op = "copy", Aside, Top.at = "loop", NEW f, Looping(f), NEW p, p = Top.path,
         NEW c \in Children(first.src, p), NEW g, Called(g, Append(p, c))
  PROVE  CopyStack'
<1>1. /\ p \in Tree /\ used \in 0 .. TempLimit /\ used \in Nat /\ TempLimit \in Nat
      /\ Depth \in 1 .. Depth /\ Depth \in DOMAIN stack /\ Top = stack[Depth]
  BY CopyTop, TreeAssumption, Zenon
<1>2. CopyStack /\ first' = first
  BY Zenon DEF IInv, CopyInv, Aside
<1>3. /\ Grown(f) /\ f.at = "loop" /\ result' = TRUE /\ f.path = p
  BY Zenon DEF Looping, Grown
<1>4. /\ stack' # << >> /\ DOMAIN stack' = 1 .. Depth' /\ Depth' = Depth + 1 /\ Depth' \in Nat
      /\ Depth \in Nat /\ Depth >= 1 /\ DOMAIN stack = 1 .. Depth
      /\ \A i \in 1 .. Depth : stack'[i].path = stack[i].path /\ stack'[i].mark = stack[i].mark
      /\ stack' \in Seq(FrameType)
  BY <1>3, GrownIs, Zenon DEF Called, Grown
<1>5. /\ 1 \in 1 .. Depth /\ \A i \in 1 .. Depth - 1 : i \in 1 .. Depth /\ i + 1 \in 1 .. Depth
      /\ \A i \in 1 .. Depth : i = Depth \/ i \in 1 .. Depth - 1
      /\ \A i \in 1 .. Depth' : i = Depth' \/ i \in 1 .. Depth
      /\ Depth' - 1 = Depth /\ Depth' \notin 1 .. Depth
      /\ \A i \in 1 .. Depth : ~(Depth' <= i) /\ i <= Depth
  BY <1>4
<1>6. Append(p, c) \in Tree /\ stack'[Depth'].path = Append(p, c) /\ stack'[Depth'].at = "enter"
  BY Zenon DEF Called, Children
<1>7. stack'[1].path = << >> /\ stack'[1].mark = first'.used
  BY <1>2, <1>4, <1>5, Zenon DEF CopyStack
<1>8. \A i \in 1 .. Depth : stack'[i].at = "loop"
  BY <1>2, <1>3, <1>4, <1>5, Zenon DEF CopyStack, Grown
<1>9. ASSUME NEW i \in 1 .. Depth
      PROVE  \E d \in Children(first.src, stack'[i].path) : stack'[i + 1].path = Append(stack'[i].path, d)
  <2>1. CASE i = Depth
    <3>1. stack'[i].path = p /\ i + 1 = Depth'
      BY <1>1, <1>4, <2>1, Zenon
    <3> QED
      BY <1>6, <3>1, Zenon
  <2>2. CASE i \in 1 .. Depth - 1
    <3>1. stack'[i].path = stack[i].path /\ stack'[i + 1].path = stack[i + 1].path
      BY <1>4, <1>5, <2>2, Zenon
    <3> QED
      BY <1>2, <2>2, <3>1, Zenon DEF CopyStack
  <2> QED
    BY <1>5, <2>1, <2>2, Zenon
<1>10. ASSUME NEW i \in 1 .. Depth', NEW j \in 1 .. Depth', i <= j
       PROVE  IsPrefix(stack'[i].path, stack'[j].path)
  <2>1. \A k \in 1 .. Depth : stack[k].path \in Tree
    BY Running, Fields, Zenon
  <2>2. CASE i \in 1 .. Depth /\ j \in 1 .. Depth
    BY <1>2, <1>4, <1>10, <2>2, Zenon DEF CopyStack
  <2>3. CASE i \in 1 .. Depth /\ j = Depth'
    <3>1. IsPrefix(stack[i].path, p)
      BY <1>1, <1>2, <1>4, <1>5, <2>3, Zenon DEF CopyStack
    <3>2. IsPrefix(p, Append(p, c))
      BY <1>1, <1>6, ChildIs, Zenon DEF Below
    <3>3. IsPrefix(stack[i].path, Append(p, c))
      BY <1>1, <1>6, <2>1, <2>3, <3>1, <3>2, PrefixOn, Zenon
    <3> QED
      BY <1>4, <1>6, <2>3, <3>3, Zenon
  <2>4. CASE i = Depth' /\ j = Depth'
    BY <1>6, <2>4, PrefixSelf, Zenon
  <2> QED
    BY <1>5, <1>10, <2>2, <2>3, <2>4, Zenon
<1>11. \A i \in 1 .. Depth' : stack'[i].mark <= TempLimit
  <2>1. used <= TempLimit
    BY <1>1
  <2> QED
    BY <1>2, <1>4, <1>5, <2>1, Zenon DEF CopyStack, Called
<1>12. ASSUME NEW i \in 1 .. Depth'
       PROVE  /\ stack'[i].at \in {"list", "loop"} => first.src[stack'[i].path] = "directory"
              /\ stack'[i].at = "file" => first.src[stack'[i].path] = "file"
  <2>1. CASE i \in 1 .. Depth
    <3>1. stack[i].at = "loop"
      BY <1>1, <1>2, <1>5, <2>1, Zenon DEF CopyStack
    <3>2. first.src[stack[i].path] = "directory"
      BY <1>2, <1>4, <2>1, <3>1, Zenon DEF CopyStack
    <3> QED
      BY <1>4, <1>8, <2>1, <3>2, Zenon
  <2>2. CASE i = Depth'
    BY <1>6, <2>2, Zenon
  <2> QED
    BY <1>5, <2>1, <2>2, Zenon
<1>13. Top' = stack'[Depth']
  BY <1>4, RunningPrimed, Zenon
<1>14. \A i \in 1 .. Depth' - 1 :
        /\ stack'[i].at = "loop"
        /\ \E d \in Children(first'.src, stack'[i].path) : stack'[i + 1].path = Append(stack'[i].path, d)
  BY <1>2, <1>5, <1>8, <1>9, Zenon
<1>15. \A i, j \in DOMAIN stack' : i <= j => IsPrefix(stack'[i].path, stack'[j].path)
  BY <1>4, <1>10, Zenon
<1>16. \A i \in DOMAIN stack' :
        /\ stack'[i].mark <= TempLimit
        /\ stack'[i].at \in {"list", "loop"} => first'.src[stack'[i].path] = "directory"
        /\ stack'[i].at = "file" => first'.src[stack'[i].path] = "file"
  BY <1>2, <1>4, <1>11, <1>12, Zenon
<1> QED
  BY <1>3, <1>6, <1>7, <1>13, <1>14, <1>15, <1>16, Zenon DEF CopyStack

LEMMA CalledKids ==
  ASSUME IInv, op = "copy", Aside, Top.at = "loop", Top.kids # << >>, NEW f, Looping(f), NEW p, p = Top.path,
         NEW q, NEW g, Called(g, q)
  PROVE  Kids'
<1>1. Kids /\ first' = first
  BY Zenon DEF IInv, CopyInv, Aside
<1>2. /\ Grown(f) /\ f.at = "loop" /\ result' = TRUE /\ f.path = p /\ temp' = temp /\ used' = used
  BY Zenon DEF Looping, Grown
<1>3. /\ DOMAIN stack' = 1 .. Depth' /\ Depth' = Depth + 1 /\ Depth \in Nat /\ Depth >= 1
      /\ DOMAIN stack = 1 .. Depth
      /\ \A i \in 1 .. Depth : stack'[i].path = stack[i].path /\ stack'[i].mark = stack[i].mark
  BY <1>2, GrownIs, Zenon DEF Called
<1>4. /\ \A i \in 1 .. Depth' : i \in 1 .. Depth - 1 \/ i = Depth \/ i = Depth'
      /\ \A i \in 1 .. Depth : \A j \in i + 1 .. Depth' : j = Depth' \/ (j \in 1 .. Depth /\ j \in i + 1 .. Depth)
      /\ \A j \in Depth + 1 .. Depth' : j = Depth'
      /\ \A i \in 1 .. Depth - 1 : i \in 1 .. Depth
      /\ Depth \in 1 .. Depth
  BY <1>3
<1>5. stack'[Depth'].mark = used /\ stack'[Depth'].kids = << >>
  BY Zenon DEF Called
<1>6. ASSUME NEW i \in 1 .. Depth - 1, NEW k \in DOMAIN stack'[i].kids, NEW cell, cell = stack'[i].kids[k]
      PROVE  /\ cell <= used' /\ \A j \in i + 1 .. Depth' : cell <= stack'[j].mark
             /\ temp'[cell] \in {"."} \cup Children(first.src, stack'[i].path)
  <2>1. stack'[i] = stack[i]
    BY <1>2, Zenon DEF Grown
  <2>2. /\ cell <= used /\ \A j \in i + 1 .. Depth : cell <= stack[j].mark
        /\ temp[cell] \in {"."} \cup Children(first.src, stack[i].path)
    BY <1>1, <1>3, <1>4, <1>6, <2>1, Zenon DEF Kids
  <2> QED
    BY <1>2, <1>3, <1>4, <1>5, <2>1, <2>2, Zenon
<1>7. ASSUME NEW k \in DOMAIN stack'[Depth].kids, NEW cell, cell = stack'[Depth].kids[k]
      PROVE  /\ cell <= used' /\ \A j \in Depth + 1 .. Depth' : cell <= stack'[j].mark
             /\ temp'[cell] \in {"."} \cup Children(first.src, stack'[Depth].path)
  <2>1. stack'[Depth] = f
    BY <1>2, Zenon DEF Grown
  <2>2. cell <= used /\ temp[cell] \in {"."} \cup Children(first.src, p)
    BY <1>7, <2>1, LoopingKids, Zenon
  <2> QED
    BY <1>2, <1>4, <1>5, <2>1, <2>2, Zenon
<1>8. \A k \in DOMAIN stack'[Depth'].kids : FALSE
  <2>1. \A k \in DOMAIN << >> : FALSE
    OBVIOUS
  <2> QED
    BY <1>5, <2>1, Zenon
<1>9. ASSUME NEW i \in DOMAIN stack', NEW k \in DOMAIN stack'[i].kids, NEW cell, cell = stack'[i].kids[k]
      PROVE  /\ cell <= used' /\ \A j \in i + 1 .. Depth' : cell <= stack'[j].mark
             /\ temp'[cell] \in {"."} \cup Children(first.src, stack'[i].path)
  <2>1. CASE i \in 1 .. Depth - 1
    BY <1>6, <1>9, <2>1, Zenon
  <2>2. CASE i = Depth
    BY <1>7, <1>9, <2>2, Zenon
  <2>3. CASE i = Depth'
    BY <1>8, <1>9, <2>3, Zenon
  <2> QED
    BY <1>3, <1>4, <2>1, <2>2, <2>3, Zenon
<1> QED
  BY <1>1, <1>9, Zenon DEF Kids

LEMMA CalledAmount ==
  ASSUME IInv, op = "copy", Aside, Top.at = "loop", NEW f, Looping(f), NEW q, NEW g, Called(g, q)
  PROVE  Amount'
<1>1. Amount /\ first' = first /\ src' = src
  BY Zenon DEF IInv, CopyInv, Aside
<1>2. /\ Grown(f) /\ used' = used
  BY Zenon DEF Looping
<1>3. /\ stack' # << >> /\ DOMAIN stack' = 1 .. Depth' /\ Depth' = Depth + 1 /\ Depth \in Nat /\ Depth >= 1
      /\ \A i \in 1 .. Depth : stack'[i].path = stack[i].path /\ stack'[i].mark = stack[i].mark
      /\ stack' \in Seq(FrameType) /\ Top = stack[Depth]
  BY <1>2, GrownIs, CopyTop, Zenon DEF Called, Grown
<1>4. /\ \A i \in 1 .. Depth' - 1 : i = Depth \/ (i \in 1 .. Depth - 1 /\ i \in 1 .. Depth /\ i + 1 \in 1 .. Depth)
      /\ Depth \in 1 .. Depth
  BY <1>3
<1>5. Top' = stack'[Depth'] /\ Top'.at # "loop" /\ Top'.mark = used
  BY <1>3, RunningPrimed, Zenon DEF Called
<1>6. ASSUME src = first.src, NEW i \in 1 .. Depth' - 1
      PROVE  stack'[i + 1].mark = first.used + Needed(first.src, stack'[i].path)
  <2>1. CASE i = Depth
    <3>1. used = first.used + Needed(first.src, Top.path)
      BY <1>1, <1>6, Zenon DEF Amount
    <3>2. stack'[i + 1].mark = used /\ stack'[i].path = Top.path
      BY <1>3, <1>4, <2>1, Zenon DEF Called
    <3> QED
      BY <3>1, <3>2, Zenon
  <2>2. CASE i \in 1 .. Depth - 1 /\ i \in 1 .. Depth /\ i + 1 \in 1 .. Depth
    BY <1>1, <1>3, <1>6, <2>2, Zenon DEF Amount
  <2> QED
    BY <1>4, <2>1, <2>2, Zenon
<1> QED
  BY <1>1, <1>2, <1>5, <1>6, Zenon DEF Amount

LEMMA CalledGoing ==
  ASSUME IInv, op = "copy", Aside, Top.at = "loop", Top.kids # << >>, result, NEW f, Looping(f),
         NEW p, p = Top.path, NEW q, q = Append(p, temp[Head(Top.kids)]), NEW g, Called(g, q)
  PROVE  Going'
<1>1. /\ p \in Tree /\ Depth \in 1 .. Depth /\ Depth \in DOMAIN stack /\ Top = stack[Depth]
  BY CopyTop, Zenon
<1>2. /\ Grown(f) /\ f.at = "loop" /\ f.path = p
      /\ dst' = dst /\ op' = op /\ temp' = temp /\ used' = used /\ open' = open
  BY Zenon DEF Looping, Grown
<1>3. Going /\ first' = first /\ src' = src
  BY Zenon DEF IInv, CopyInv, Aside
<1>4. /\ DOMAIN stack' = 1 .. Depth' /\ Depth' = Depth + 1 /\ Depth \in Nat /\ Depth < Depth'
      /\ \A i \in DOMAIN stack' : i \in 1 .. Depth - 1 \/ i = Depth \/ i = Depth'
  <2>1. DOMAIN stack' = 1 .. Depth' /\ Depth \in Nat /\ Depth' = Depth + 1
    BY <1>2, GrownIs, Zenon DEF Called
  <2> QED
    BY <2>1
<1>5. OnlyHere /\ LoopsKept
  BY <1>2, SameTarget, Zenon DEF LoopsKept
<1>6. PICK d : d = Depth
  BY Zenon
<1>7. GoingAt(d)'
  <2>1. stack'[d] = f /\ stack'[d + 1] = g /\ g.path = q /\ d < Depth'
    BY <1>2, <1>4, <1>6, Zenon DEF Grown, Called
  <2>2. GoingAt(d)
    BY <1>1, <1>3, <1>6, Zenon DEF Going
  <2>3. stack[d].path = p /\ stack[d].at = "loop" /\ dst'[p] # "none"
    BY <1>1, <1>2, <1>6, <2>2, Zenon DEF GoingAt
  <2>4. ASSUME NEW c \in Children(src, p)
        PROVE  Pending(d, c)' \/ Current(d, Append(p, c))' \/ Done(Append(p, c))'
    <3>1. Pending(d, c) \/ Current(d, Append(p, c)) \/ Done(Append(p, c))
      BY <2>2, <2>3, <2>4, Zenon DEF GoingAt
    <3>2. ~Current(d, Append(p, c))
      <4>1. ~(d < Depth)
        BY <1>4, <1>6
      <4> QED
        BY <4>1, Zenon DEF Current
    <3>3. ASSUME c = temp[Head(Top.kids)] PROVE Current(d, Append(p, c))'
      <4>1. q = Append(p, c)
        BY <3>3, Zenon
      <4> QED
        BY <2>1, <4>1, Zenon DEF Current
    <3>4. ASSUME Pending(d, c), c # temp[Head(Top.kids)] PROVE Pending(d, c)'
      <4>1. \E k \in DOMAIN f.kids : temp[f.kids[k]] = c
        BY <1>6, <3>4, LoopingKids, Zenon
      <4> QED
        BY <1>2, <2>1, <4>1, Zenon DEF Pending
    <3>5. ASSUME Done(Append(p, c)) PROVE Done(Append(p, c))'
      <4>1. dst' = dst /\ src' = src /\ first' = first
        BY <1>2, <1>3, Zenon
      <4> QED
        BY ONLY <3>5, <4>1, Zenon DEF Done, Copied
    <3> QED
      BY <3>1, <3>2, <3>3, <3>4, <3>5, Zenon
  <2> QED
    BY <1>2, <1>3, <2>1, <2>3, <2>4, Zenon DEF GoingAt
<1>8. ASSUME NEW i \in DOMAIN stack', i = Depth' PROVE GoingAt(i)'
  <2>1. stack'[i].at = "enter"
    BY <1>8, Zenon DEF Called
  <2> QED
    BY <2>1, Zenon DEF GoingAt
<1>9. ASSUME NEW i \in 1 .. Depth - 1 PROVE GoingAt(i)'
  BY <1>2, <1>5, <1>9, GrownGoing, Zenon
<1>10. ASSUME NEW i \in DOMAIN stack' PROVE GoingAt(i)'
  BY <1>4, <1>6, <1>7, <1>8, <1>9, <1>10, Zenon
<1> QED
  BY <1>10, Zenon DEF Going

LEMMA NextChildKeeps == ASSUME IInv, NextChild PROVE IInv'
<1> DEFINE name == temp[Head(Top.kids)]
           f == [Top EXCEPT !.kids = Tail(Top.kids)]
           rest == [stack EXCEPT ![Len(stack)].kids = Tail(@)]
<1>1. /\ op = "copy" /\ Aside /\ temp' = temp /\ open' = open /\ dst' = dst /\ op' = op /\ used' = used
      /\ Top.at = "loop" /\ result /\ Top.kids # << >> /\ result' = TRUE
      /\ stack' = IF name = "." THEN rest ELSE Append(rest, Frame(Append(Top.path, name)))
  BY StepAside, Zenon DEF NextChild, At, GivesUp, memory
<1>2. PICK p : p = Top.path
  BY Zenon
<1>3. /\ p \in Tree /\ used \in 0 .. TempLimit /\ used \in Nat /\ TempLimit \in Nat
      /\ Depth \in 1 .. Depth /\ Depth \in DOMAIN stack /\ Top = stack[Depth] /\ stack # << >>
  BY <1>1, <1>2, CopyTop, TreeAssumption, Zenon
<1>4. Top \in FrameType /\ stack \in Seq(FrameType) /\ Depth \in Nat /\ Depth >= 1
  BY <1>1, Running, Zenon
<1>5. Top.kids \in Seq(1 .. TempLimit) /\ Tail(Top.kids) \in Seq(1 .. TempLimit)
  <2>1. Top.kids \in Seq(1 .. TempLimit)
    BY <1>4, Fields, Zenon
  <2> QED
    BY <1>1, <2>1, TailIs, Zenon
<1>6. f \in FrameType /\ f.kids = Tail(Top.kids) /\ f.at = "loop" /\ f.path = p /\ f.mark = Top.mark
  <2>1. PICK ks \in Seq(1 .. TempLimit) : ks = Tail(Top.kids)
    BY <1>5, Zenon
  <2>2. PICK h : h = f
    BY Zenon
  <2>3. h = [Top EXCEPT !.kids = ks]
    BY <2>1, <2>2, Zenon
  <2>4. h \in FrameType /\ h.kids = ks /\ h.at = Top.at /\ h.path = Top.path /\ h.mark = Top.mark
    <3>1. Drops(Top, ks, h)
      BY <1>4, <2>3, FrameKids, Zenon
    <3> QED
      BY <3>1, Zenon DEF Drops
  <2> QED
    BY <1>1, <1>2, <2>1, <2>2, <2>4, Zenon
<1>7. rest = [stack EXCEPT ![Len(stack)] = f]
  BY <1>3, PathExcept, Zenon DEF Depth
<1>8. rest \in Seq(FrameType) /\ Topped(stack, f, rest)
  BY <1>3, <1>4, <1>6, <1>7, Tops, Zenon
<1> HIDE DEF f, rest
<1>9. CASE name = "."
  <2>1. stack' = rest
    BY <1>1, <1>9, Zenon
  <2>2. Grown(f) /\ Depth' = Depth
    BY <1>2, <1>6, <1>8, <2>1, Zenon DEF Grown, Topped, Depth
  <2>3. Looping(f)
    BY <1>1, <1>6, <2>2, Zenon DEF Looping
  <2> QED
    BY <1>1, <1>9, <2>2, <2>3, LoopingOn, Zenon
<1>10. CASE name # "."
  <2>1. PICK q : q = Append(p, name)
    BY Zenon
  <2>2. PICK g : g = Frame(q)
    BY Zenon
  <2>3. stack' = Append(rest, g)
    BY <1>1, <1>2, <1>10, <2>1, <2>2, Zenon
  <2>4. name \in {"."} \cup Children(first.src, p)
    <3>1. Kids
      BY <1>1, Zenon DEF IInv, CopyInv
    <3>2. 1 \in DOMAIN Top.kids /\ Head(Top.kids) = Top.kids[1]
      <4> DEFINE S == 1 .. TempLimit
      <4>1. Top.kids \in Seq(S) /\ Top.kids # << >>
        BY <1>1, <1>5, Zenon
      <4> HIDE DEF S
      <4> QED
        BY ONLY <4>1, TailIs
    <3> QED
      BY <1>2, <1>3, <3>1, <3>2, Zenon DEF Kids
  <2>5. name \in Children(first.src, p) /\ q \in Tree
    BY <1>10, <2>1, <2>4, Zenon DEF Children
  <2>6. /\ g \in FrameType /\ g.path = q /\ g.at = "enter" /\ g.mark = used /\ g.kids = << >>
    BY <1>3, <2>2, <2>5, FrameNew, Zenon
  <2>7. stack' \in Seq(FrameType) /\ Pushed(rest, g, stack')
    BY <1>8, <2>3, <2>6, Pushes, Zenon
  <2>8. Len(rest) = Depth /\ Depth' = Depth + 1 /\ stack'[Depth'] = g /\ stack'[Depth] = f
        /\ \A i \in 1 .. Depth - 1 : stack'[i] = stack[i]
    <3>1. Len(rest) = Depth /\ rest[Depth] = f /\ \A i \in 1 .. Depth - 1 : rest[i] = stack[i]
      BY <1>8, Zenon DEF Topped, Depth
    <3>2. Depth' = Depth + 1 /\ stack'[Depth + 1] = g /\ \A i \in 1 .. Depth : stack'[i] = rest[i]
      BY <2>7, <3>1, Zenon DEF Pushed, Depth
    <3>3. \A i \in 1 .. Depth - 1 : i \in 1 .. Depth
      BY <1>4
    <3> QED
      BY <1>3, <3>1, <3>2, <3>3, Zenon
  <2>9. Grown(f)
    BY <1>2, <1>6, <2>7, <2>8, Zenon DEF Grown
  <2>10. Looping(f) /\ Called(g, q)
    BY <1>1, <1>6, <2>6, <2>8, <2>9, Zenon DEF Looping, Called
  <2>11. CopyStack' /\ Kids' /\ Amount' /\ Going'
    <3>1. CopyStack'
      <4>1. Called(g, Append(p, name))
        BY <2>1, <2>10, Zenon
      <4> QED
        BY <1>1, <1>2, <2>5, <2>10, <4>1, CalledStack, Zenon
    <3>2. Kids'
      BY <1>1, <1>2, <2>10, CalledKids, Zenon
    <3>3. Amount'
      BY <1>1, <2>10, CalledAmount, Zenon
    <3>4. Going'
      BY <1>1, <1>2, <2>1, <2>10, CalledGoing, Zenon
    <3> QED
      BY <3>1, <3>2, <3>3, <3>4
  <2>12. Faithful'
    BY <1>1, <1>2, SameTarget, FaithfulKept, Zenon
  <2>13. stack' # << >>
    BY <1>1, <2>9, GrownIs, Zenon
  <2> QED
    BY <1>1, <2>7, <2>11, <2>12, <2>13, CopyGoesOn, Zenon DEF IInv, Typed
<1> QED
  BY <1>9, <1>10

-----------------------------------------------------------------------------
(* The names of a directory are stored. *)

\* A sequence of all elements of a set, each once, leaves none out.
LEMMA AllOf ==
  ASSUME NEW S, IsFiniteSet(S), NEW s \in SetToSeqs(S)
  PROVE  /\ s \in Seq(S) /\ Len(s) = Cardinality(S)
         /\ \A c \in S : \E k \in DOMAIN s : s[k] = c
<1> DEFINE N == Cardinality(S)
           D == 1 .. N
<1>1. N \in Nat
  BY FS_CardinalityType
<1>2. s \in [D -> S] /\ \A i, j \in D : i # j => s[i] # s[j]
  BY Zenon DEF SetToSeqs
<1>3. IsFiniteSet(D) /\ Cardinality(D) = N
  BY <1>1, FS_Interval
<1>4. ASSUME NEW c \in S, \A k \in D : s[k] # c PROVE FALSE
  <2>1. s \in [D -> S \ {c}]
    BY <1>2, <1>4
  <2>2. IsFiniteSet(S \ {c}) /\ Cardinality(S \ {c}) = N - 1
    BY <1>4, FS_RemoveElement
  <2>3. Cardinality(S \ {c}) < Cardinality(D)
    BY <1>1, <1>3, <2>2
  <2> HIDE DEF D
  <2>4. \E i, j \in D : i # j /\ s[i] = s[j]
    BY ONLY <1>3, <2>1, <2>2, <2>3, FS_PigeonHole, Zenon
  <2> QED
    BY <1>2, <2>4, Zenon
<1>5. s \in Seq(S) /\ Len(s) = N /\ DOMAIN s = D
  BY <1>1, <1>2
<1> QED
  BY <1>4, <1>5, Zenon

StoredAs(S, all) ==
  /\ DOMAIN all = 1 .. Len(all) /\ Len(all) \in Nat
  /\ temp' \in [1 .. TempLimit -> Name \cup {"."}]
  /\ \A k \in DOMAIN all : used + k \in 1 .. TempLimit /\ temp'[used + k] = all[k] /\ all[k] \in {"."} \cup S
  /\ \A cell \in 1 .. TempLimit : cell <= used => temp'[cell] = temp[cell]

LEMMA StoredIs ==
  ASSUME NEW S \in SUBSET Name, NEW all \in Seq({"."} \cup S),
         temp \in [1 .. TempLimit -> Name \cup {"."}], used \in Nat, TempLimit \in Nat,
         used + Len(all) <= TempLimit, temp' = Stored(all)
  PROVE  StoredAs(S, all)
<1>1. /\ DOMAIN all = 1 .. Len(all) /\ Len(all) \in Nat
      /\ \A k \in DOMAIN all : all[k] \in {"."} \cup S
  OBVIOUS
<1>2. \A k \in DOMAIN all : all[k] \in Name \cup {"."}
  BY <1>1, Zenon
<1>3. DOMAIN temp = 1 .. TempLimit /\ \A k \in 1 .. TempLimit : temp[k] \in Name \cup {"."}
  BY Zenon
<1>4. temp' = [k \in 1 .. TempLimit |-> IF k - used \in DOMAIN all THEN all[k - used] ELSE temp[k]]
  BY <1>3, Zenon DEF Stored
<1>5. temp' \in [1 .. TempLimit -> Name \cup {"."}]
  <2>1. \A k \in 1 .. TempLimit : (IF k - used \in DOMAIN all THEN all[k - used] ELSE temp[k]) \in Name \cup {"."}
    BY <1>2, <1>3, Zenon
  <2> QED
    BY ONLY <1>4, <2>1, Zenon
<1>6. ASSUME NEW k \in DOMAIN all PROVE used + k \in 1 .. TempLimit /\ temp'[used + k] = all[k]
  <2>1. used + k \in 1 .. TempLimit /\ (used + k) - used = k
    BY <1>1
  <2> QED
    BY <1>4, <2>1, Zenon
<1>7. ASSUME NEW cell \in 1 .. TempLimit, cell <= used PROVE temp'[cell] = temp[cell]
  <2>1. cell - used \notin DOMAIN all
    BY <1>1, <1>7
  <2> QED
    BY <1>4, <2>1, Zenon
<1> QED
  BY <1>1, <1>5, <1>6, <1>7, Zenon DEF StoredAs

LEMMA InSeq ==
  ASSUME NEW S, NEW n \in Nat, NEW s \in [1 .. n -> S] PROVE s \in Seq(S)
  OBVIOUS

LEMMA ReadEntireDirKeeps == ASSUME IInv, ReadEntireDir PROVE IInv'
<1>1. op = "copy" /\ Aside /\ Top.at = "list"
  BY StepAside, Zenon DEF ReadEntireDir, At
<1>2. PICK p : p = Top.path
  BY Zenon
<1>3. /\ p \in Tree /\ used \in 0 .. TempLimit /\ used \in Nat /\ dst \in TargetTree
      /\ src[p] \in {first.src[p], "none"} /\ Top.mark \in Nat
      /\ Depth \in 1 .. Depth /\ Depth \in DOMAIN stack /\ Top = stack[Depth] /\ stack # << >>
  BY <1>1, <1>2, CopyTop, Zenon
<1>4. /\ Top \in FrameType /\ stack \in Seq(FrameType) /\ Depth \in Nat /\ Depth >= 1
      /\ temp \in [1 .. TempLimit -> Name \cup {"."}] /\ TempLimit \in Nat
  BY <1>1, Running, TreeAssumption, Zenon DEF IInv, Typed
<1>5. result /\ (src = first.src => used = Top.mark)
  BY <1>1, Unless, Zenon
<1>6. first.src[p] = "directory" /\ CopyStack /\ Kids /\ Amount /\ Going /\ first' = first /\ src' = src
  <2>1. CopyStack /\ Kids /\ Amount /\ Going /\ first' = first /\ src' = src
    BY <1>1, <1>5, Zenon DEF IInv, CopyInv, Aside
  <2> QED
    BY <1>1, <1>2, <1>3, <2>1, Zenon DEF CopyStack
<1>7. CASE Return(FALSE) /\ UNCHANGED << dst, temp, open >>
  <2>1. dst' = dst /\ temp' = temp /\ open' = open
    BY <1>7, Zenon
  <2> QED
    BY <1>1, <1>2, <1>3, <1>7, <2>1, SameTarget, CopyReturns, Zenon
<1>8. ASSUME NEW S, S = Children(src, p), NEW all \in SetToSeqs({"."} \cup S)
      PROVE  /\ S \subseteq Name /\ all \in Seq({"."} \cup S) /\ Len(all) = Cardinality(S) + 1
             /\ Len(all) \in Nat
             /\ \A c \in S : \E k \in DOMAIN all : all[k] = c
             /\ S \subseteq Children(first.src, p)
             /\ src = first.src => used + Len(all) = first.used + Needed(first.src, p)
  <2>1. S \subseteq Name
    BY <1>8, Zenon DEF Children
  <2>2. IsFiniteSet(S)
    BY <1>3, <1>8, HeldSize, Zenon
  <2>3. IsFiniteSet({"."} \cup S) /\ Cardinality({"."} \cup S) = Cardinality(S) + 1
    <3>1. "." \notin S
      BY <2>1, TreeAssumption
    <3>2. IsFiniteSet(S \cup {"."}) /\ Cardinality(S \cup {"."}) = Cardinality(S) + 1
      BY <2>2, <3>1, FS_AddElement
    <3>3. S \cup {"."} = {"."} \cup S
      OBVIOUS
    <3> QED
      BY <3>2, <3>3
  <2>4. all \in Seq({"."} \cup S) /\ Len(all) = Cardinality(S) + 1 /\ \A c \in S : \E k \in DOMAIN all : all[k] = c
    <3>1. PICK T : T = {"."} \cup S
      BY Zenon
    <3>2. IsFiniteSet(T) /\ Cardinality(T) = Cardinality(S) + 1 /\ all \in SetToSeqs(T)
      BY <1>8, <2>3, <3>1, Zenon
    <3>3. all \in Seq(T) /\ Len(all) = Cardinality(T) /\ \A c \in T : \E k \in DOMAIN all : all[k] = c
      BY <3>2, AllOf, Zenon
    <3> QED
      BY <3>1, <3>2, <3>3, Zenon
  <2>5. Len(all) \in Nat
    BY <2>4
  <2>6. S \subseteq Children(first.src, p)
    BY <1>8, Zenon DEF IInv, Shrinks, Children
  <2>7. src = first.src => used + Len(all) = first.used + Needed(first.src, p)
    BY <1>1, <1>2, <1>5, <1>8, <2>4, MarkIs, Zenon
  <2> QED
    BY <2>1, <2>4, <2>5, <2>6, <2>7, Zenon
<1>9. ASSUME NEW all \in SetToSeqs({"."} \cup Children(src, p)),
             NoRoom(Len(all)), Abort, temp' = temp
      PROVE  IInv'
  <2>1. used + Len(all) > TempLimit
    BY <1>9, Zenon DEF NoRoom
  <2>2. src = first.src => first.used + Needed(first.src, p) > TempLimit
    BY <1>8, <1>9, <2>1, Zenon
  <2> QED
    BY <1>1, <1>3, <1>6, <1>9, <2>2, CopyAborts, Zenon
<1>10. ASSUME NEW all \in SetToSeqs({"."} \cup Children(src, p)),
              ~NoRoom(Len(all)), temp' = Stored(all), used' = used + Len(all),
              stack' = [stack EXCEPT ![Len(stack)] =
                          [@ EXCEPT !.at = "loop", !.kids = [k \in DOMAIN all |-> used + k]]],
              UNCHANGED << dst, op, result, open >>
       PROVE  IInv'
  <2> DEFINE S == Children(src, p)
             ks == [k \in DOMAIN all |-> used + k]
             f == [Top EXCEPT !.at = "loop", !.kids = ks]
  <2>1. /\ S \subseteq Name /\ all \in Seq({"."} \cup S) /\ Len(all) = Cardinality(S) + 1
        /\ Len(all) \in Nat
        /\ \A c \in S : \E k \in DOMAIN all : all[k] = c
        /\ S \subseteq Children(first.src, p)
        /\ src = first.src => used + Len(all) = first.used + Needed(first.src, p)
    BY <1>8, <1>10, Zenon
  <2>2. used + Len(all) <= TempLimit
    <3>1. ~(used + Len(all) > TempLimit)
      BY <1>10, Zenon DEF NoRoom
    <3> QED
      BY <1>3, <1>4, <2>1, <3>1
  <2>3. stack' = [stack EXCEPT ![Len(stack)] = f]
    BY <1>3, <1>10, Zenon DEF Depth
  <2> HIDE DEF S
  <2>4. /\ DOMAIN all = 1 .. Len(all) /\ Len(all) \in Nat
        /\ temp' \in [1 .. TempLimit -> Name \cup {"."}]
        /\ \A k \in DOMAIN all : used + k \in 1 .. TempLimit /\ temp'[used + k] = all[k] /\ all[k] \in {"."} \cup S
        /\ \A cell \in 1 .. TempLimit : cell <= used => temp'[cell] = temp[cell]
    <3>1. StoredAs(S, all)
      BY <1>3, <1>4, <1>10, <2>1, <2>2, StoredIs, Zenon
    <3> QED
      BY <3>1, Zenon DEF StoredAs
  <2>5. ks \in Seq(1 .. TempLimit) /\ DOMAIN ks = DOMAIN all /\ \A k \in DOMAIN all : ks[k] = used + k
    <3>1. Len(all) \in Nat
      BY <2>1
    <3>2. DOMAIN ks = DOMAIN all /\ \A k \in DOMAIN all : ks[k] = used + k
      BY Zenon
    <3>3. ks \in [1 .. Len(all) -> 1 .. TempLimit]
      BY <2>4, Zenon
    <3> HIDE DEF ks
    <3>4. ks \in Seq(1 .. TempLimit)
      BY <3>1, <3>3, InSeq, Zenon
    <3> QED
      BY <3>2, <3>4
  <2> HIDE DEF ks
  <2>6. f \in FrameType /\ f.kids = ks /\ f.at = "loop" /\ f.path = p /\ f.mark = Top.mark
    <3>1. LoopsOver(Top, ks, f)
      BY <1>4, <2>5, FrameLoops, Zenon
    <3> QED
      BY <1>2, <3>1, Zenon DEF LoopsOver
  <2> HIDE DEF f
  <2>7. stack' \in Seq(FrameType) /\ Topped(stack, f, stack')
    BY <1>3, <1>4, <2>3, <2>6, Tops, Zenon
  <2>8. Grown(f) /\ Depth' = Depth
    BY <1>2, <2>6, <2>7, Zenon DEF Grown, Topped, Depth
  <2>9. dst' = dst /\ op' = op /\ result' = result /\ open' = open
    BY <1>10, Zenon
  <2>10. LoopsKept
    <3>1. ASSUME NEW i \in 1 .. Depth - 1, NEW k \in DOMAIN stack[i].kids
          PROVE  temp'[stack[i].kids[k]] = temp[stack[i].kids[k]]
      <4>1. i \in DOMAIN stack /\ i \in 1 .. Depth
        <5>1. i \in 1 .. Depth
          BY <1>4
        <5> QED
          BY <1>1, <5>1, Running, Zenon
      <4>2. stack[i].kids \in Seq(1 .. TempLimit)
        BY <1>1, <4>1, Running, Fields, Zenon
      <4>3. stack[i].kids[k] \in 1 .. TempLimit
        BY <4>2, <3>1, CellOf, Zenon
      <4>4. stack[i].kids[k] <= used
        BY <1>6, <3>1, <4>1, Zenon DEF Kids
      <4> QED
        BY <2>4, <4>3, <4>4, Zenon
    <3> QED
      BY <3>1, Zenon DEF LoopsKept
  <2>11. CopyStack'
    <3>1. f.at \in {"list", "file", "loop"} /\ f.at # "file"
      BY <2>6, Zenon
    <3> QED
      BY <1>1, <1>6, <2>6, <2>8, <3>1, ToppedStack, Zenon
  <2>12. Kids'
    <3>1. used' \in Nat /\ used' >= used /\ \A k \in DOMAIN all : used + k <= used'
      BY <1>3, <1>10, <2>1, <2>4
    <3>2. \A k \in DOMAIN f.kids :
            f.kids[k] <= used' /\ temp'[f.kids[k]] \in {"."} \cup Children(first.src, f.path)
      <4>1. ASSUME NEW k \in DOMAIN all
            PROVE  f.kids[k] = used + k /\ temp'[used + k] \in {"."} \cup Children(first.src, p)
        BY <2>1, <2>4, <2>5, <2>6, <4>1, Zenon
      <4> QED
        BY <2>5, <2>6, <3>1, <4>1, Zenon
    <3> QED
      BY <1>1, <2>8, <2>10, <3>1, <3>2, ToppedKids, Zenon
  <2>13. Amount'
    <3>1. src = first.src => used' = first.used + Needed(first.src, f.path)
      BY <1>10, <2>1, <2>6, Zenon
    <3> QED
      BY <1>1, <2>6, <2>8, <3>1, ToppedAmount, Zenon
  <2>14. OnlyHere /\ Faithful'
    BY <1>1, <1>2, <1>5, <2>9, SameTarget, FaithfulKept, Zenon
  <2>15. PICK d : d = Depth
    BY Zenon
  <2>16. GoingAt(d)'
    <3>1. stack'[d] = f
      BY <2>8, <2>15, Zenon DEF Grown
    <3>2. dst'[p] # "none"
      BY <1>1, <1>2, <1>3, <1>6, <2>9, Zenon DEF Going, GoingAt
    <3>3. ASSUME NEW c \in Children(src, p) PROVE Pending(d, c)'
      <4>1. PICK k \in DOMAIN all : all[k] = c
        BY <2>1, <3>3, Zenon DEF S
      <4>2. k \in DOMAIN f.kids /\ temp'[f.kids[k]] = c
        BY <2>4, <2>5, <2>6, <4>1, Zenon
      <4> QED
        BY <3>1, <4>2, Zenon DEF Pending
    <3> QED
      BY <1>6, <2>6, <3>1, <3>2, <3>3, Zenon DEF GoingAt
  <2>17. ASSUME NEW i \in DOMAIN stack' PROVE GoingAt(i)'
    <3>1. i \in 1 .. Depth - 1 \/ i = Depth
      <4>1. DOMAIN stack' = 1 .. Depth
        BY <1>1, <2>8, GrownIs, Zenon
      <4> QED
        BY <1>4, <4>1
    <3>2. CASE i \in 1 .. Depth - 1
      BY <1>1, <1>5, <2>8, <2>10, <2>14, <3>2, GrownGoing, Zenon
    <3> QED
      BY <2>15, <2>16, <3>1, <3>2, Zenon
  <2>18. Going'
    BY <2>17, Zenon DEF Going
  <2>19. stack' # << >>
    BY <1>1, <2>8, GrownIs, Zenon
  <2>20. used' \in 0 .. TempLimit
    BY <1>3, <1>4, <1>10, <2>1, <2>2
  <2> QED
    BY <1>1, <1>3, <2>4, <2>7, <2>9, <2>11, <2>12, <2>13, <2>14, <2>18, <2>19, <2>20, CopyGoesOn,
       Zenon DEF IInv, Typed
<1> QED
  BY <1>2, <1>7, <1>9, <1>10, Zenon DEF ReadEntireDir, Taken

-----------------------------------------------------------------------------
(* The path of a walk. *)

Letter == Name \cup {"root", NUL}

LEMMA PathInIs ==
  ASSUME NEW s \in Seq(Letter), NEW n \in DOMAIN s, s[n] = NUL, \A j \in 1 .. n - 1 : s[j] # NUL
  PROVE  PathIn(s) = SubSeq(s, 2, n - 1)
<1> DEFINE First(k) == s[k] = NUL /\ \A j \in 1 .. k - 1 : s[j] # NUL
           m == CHOOSE k \in DOMAIN s : First(k)
<1>1. n \in DOMAIN s /\ First(n)
  BY Zenon
<1>2. m \in DOMAIN s /\ First(m)
  BY <1>1, Zenon
<1>3. m = n
  <2>1. m \in Nat /\ n \in Nat /\ m >= 1 /\ n >= 1
    BY <1>2
  <2>2. m < n => m \in 1 .. n - 1
    BY <2>1
  <2>3. n < m => n \in 1 .. m - 1
    BY <2>1
  <2>4. ~(m < n) /\ ~(n < m)
    BY <1>1, <1>2, <2>2, <2>3, Zenon
  <2> QED
    BY <2>1, <2>4
<1>4. PathIn(s) = SubSeq(s, 2, m - 1)
  BY Zenon DEF PathIn
<1> QED
  BY <1>3, <1>4, Zenon

\* Two strings that begin alike hold the same paths there.
LEMMA SamePart ==
  ASSUME NEW S, NEW s \in Seq(S), NEW t \in Seq(S), NEW n \in Nat, n <= Len(s), n <= Len(t),
         \A j \in 1 .. n : s[j] = t[j], NEW i \in 1 .. n
  PROVE  SubSeq(s, 2, i) = SubSeq(t, 2, i)
<1>1. /\ SubSeq(s, 2, i) \in Seq(S) /\ SubSeq(t, 2, i) \in Seq(S)
      /\ Len(SubSeq(s, 2, i)) = i - 1 /\ Len(SubSeq(t, 2, i)) = i - 1
  OBVIOUS
<1>2. \A j \in 1 .. i - 1 : SubSeq(s, 2, i)[j] = s[j + 1] /\ SubSeq(t, 2, i)[j] = t[j + 1] /\ s[j + 1] = t[j + 1]
  OBVIOUS
<1>3. \A j \in 1 .. Len(SubSeq(s, 2, i)) : SubSeq(s, 2, i)[j] = SubSeq(t, 2, i)[j]
  BY <1>1, <1>2
<1> QED
  BY <1>1, <1>3

LEMMA PartOf ==
  ASSUME NEW S, NEW s \in Seq(S), NEW n \in 1 .. Len(s)
  PROVE  /\ SubSeq(s, 2, n) \in Seq(S) /\ Len(SubSeq(s, 2, n)) = n - 1
         /\ \A j \in 1 .. n - 1 : SubSeq(s, 2, n)[j] = s[j + 1]
         /\ \A i \in 1 .. n : SubSeq(SubSeq(s, 2, n), 1, i - 1) = SubSeq(s, 2, i)
         /\ n < Len(s) => SubSeq(s, 2, n + 1) = Append(SubSeq(s, 2, n), s[n + 1])
<1>1. /\ SubSeq(s, 2, n) \in Seq(S) /\ Len(SubSeq(s, 2, n)) = n - 1
      /\ \A j \in 1 .. n - 1 : SubSeq(s, 2, n)[j] = s[j + 1]
  OBVIOUS
<1>2. ASSUME NEW i \in 1 .. n PROVE SubSeq(SubSeq(s, 2, n), 1, i - 1) = SubSeq(s, 2, i)
  <2> DEFINE a == SubSeq(SubSeq(s, 2, n), 1, i - 1)
             b == SubSeq(s, 2, i)
  <2>1. a \in Seq(S) /\ b \in Seq(S) /\ Len(a) = i - 1 /\ Len(b) = i - 1
    BY <1>1
  <2>2. \A j \in 1 .. i - 1 : a[j] = b[j]
    BY <1>1
  <2> HIDE DEF a, b
  <2>3. a = b
    BY <2>1, <2>2
  <2> QED
    BY <2>3 DEF a, b
<1>3. ASSUME n < Len(s) PROVE SubSeq(s, 2, n + 1) = Append(SubSeq(s, 2, n), s[n + 1])
  <2> DEFINE a == SubSeq(s, 2, n + 1)
             b == Append(SubSeq(s, 2, n), s[n + 1])
  <2>1. a \in Seq(S) /\ b \in Seq(S) /\ Len(a) = n /\ Len(b) = n
    BY <1>1, <1>3
  <2>2. \A j \in 1 .. n : a[j] = b[j]
    BY <1>1, <1>3
  <2> HIDE DEF a, b
  <2>3. a = b
    BY <2>1, <2>2
  <2> QED
    BY <2>3 DEF a, b
<1> QED
  BY <1>1, <1>2, <1>3

LEMMA WalkFacts ==
  ASSUME IInv, Walking
  PROVE  /\ op \in {"pre", "post"} /\ first.op = op /\ WalkInv /\ used = first.used
         /\ sb \in Seq(Letter) /\ Len(sb) \in Nat /\ Len(sb) >= Depth + 1
         /\ \A j \in 1 .. Depth : sb[j] # NUL
         /\ \A i \in 1 .. Depth : Way(i) \in Tree
         /\ \A i \in 1 .. Depth - 1 : sb[i + 1] \in Name /\ Append(Way(i), sb[i + 1]) = Way(i + 1)
         /\ \A i \in 1 .. Depth : Len(Way(i)) = i - 1
         /\ \A i \in 1 .. Depth : IsPrefix(Way(i), Way(Depth))
<1>1. op \in {"pre", "post"} /\ first.op = op /\ WalkInv /\ used = first.used
  <2>1. op \in {"pre", "post"} /\ WalkInv
    BY Zenon DEF IInv, Walking
  <2>2. CASE op = "pre"
    BY <2>1, <2>2, Zenon DEF IInv, Calls
  <2>3. CASE op = "post"
    BY <2>1, <2>3, Zenon DEF IInv, Calls
  <2> QED
    BY <2>1, <2>2, <2>3, Zenon
<1>2. /\ sb \in Seq(Letter) /\ Len(sb) \in {Depth + 1, Depth + 2} /\ sb[1] = "root"
      /\ \A j \in 2 .. Len(sb) - 1 : sb[j] \in Name
      /\ Way(Depth) \in Tree
  BY <1>1, Zenon DEF WalkInv, PathHeld, IInv, Typed, Letter
<1>3. Depth \in Nat /\ Depth >= 1
  BY <1>1, Running, Zenon
<1>4. Len(sb) \in Nat /\ Len(sb) >= Depth + 1
  BY <1>2, <1>3
<1>5. \A j \in 1 .. Depth : sb[j] # NUL
  <2>1. \A j \in 1 .. Depth : j = 1 \/ j \in 2 .. Len(sb) - 1
    BY <1>3, <1>4
  <2>2. "root" # NUL
    BY DEF NUL
  <2>3. NUL \notin Name
    BY TreeAssumption, Zenon
  <2> QED
    BY <1>2, <2>1, <2>2, <2>3, Zenon
<1>6. Depth \in 1 .. Len(sb) /\ Depth < Len(sb)
  BY <1>3, <1>4
<1>7. /\ Way(Depth) \in Seq(Letter) /\ Len(Way(Depth)) = Depth - 1
      /\ \A j \in 1 .. Depth - 1 : Way(Depth)[j] = sb[j + 1]
      /\ \A i \in 1 .. Depth : SubSeq(Way(Depth), 1, i - 1) = Way(i)
  BY <1>2, <1>6, PartOf, Zenon DEF Way
<1>8. \A i \in 1 .. Depth : Way(i) \in Tree
  <2>1. \A i \in 1 .. Depth : i - 1 \in 0 .. Len(Way(Depth))
    BY <1>3, <1>7
  <2> QED
    BY <1>2, <1>7, <2>1, Paths, Zenon
<1>9. \A i \in 1 .. Depth - 1 : sb[i + 1] \in Name /\ Append(Way(i), sb[i + 1]) = Way(i + 1)
  <2>1. ASSUME NEW i \in 1 .. Depth - 1 PROVE i \in 1 .. Len(sb) /\ i < Len(sb) /\ i + 1 \in 2 .. Len(sb) - 1
    BY <1>3, <1>4
  <2> QED
    BY <1>2, <2>1, PartOf, Zenon DEF Way
<1>10. \A i \in 1 .. Depth : Len(Way(i)) = i - 1
  <2>1. \A i \in 1 .. Depth : i \in 1 .. Len(sb)
    BY <1>3, <1>4
  <2> QED
    BY <1>2, <2>1, PartOf, Zenon DEF Way
<1>11. ASSUME NEW i \in 1 .. Depth PROVE IsPrefix(Way(i), Way(Depth))
  <2>1. \A j \in 1 .. i - 1 : Way(i)[j] = sb[j + 1]
    <3>1. i \in 1 .. Len(sb)
      BY <1>3, <1>4
    <3> QED
      BY <1>2, <3>1, PartOf, Zenon DEF Way
  <2>2. Begins(Way(i), Way(Depth))
    <3>1. Len(Way(i)) = i - 1 /\ i - 1 <= Depth - 1 /\ \A j \in 1 .. i - 1 : j \in 1 .. Depth - 1
      BY <1>3, <1>10
    <3> QED
      BY <1>7, <2>1, <3>1, Zenon DEF Begins
  <2> QED
    BY <1>2, <1>8, <2>2, Paths, PrefixIs, Zenon
<1> QED
  BY <1>1, <1>2, <1>4, <1>5, <1>8, <1>9, <1>10, <1>11, Zenon

LEMMA WalkDepth ==
  ASSUME IInv, Walking
  PROVE  /\ Depth \in Nat /\ Depth >= 1 /\ Depth \in 1 .. Depth /\ Depth \in 1 .. Len(sb)
         /\ \A i \in 1 .. Depth - 1 : i \in 1 .. Depth
<1>1. Depth \in Nat /\ Depth >= 1 /\ Len(sb) \in Nat /\ Len(sb) >= Depth + 1
  BY WalkFacts, RunningDepth, Zenon
<1> QED
  BY <1>1

\* The last call: its frame, its path and its mark.
LEMMA WalkTop ==
  ASSUME IInv, Walking, NEW p, p = Way(Depth)
  PROVE  /\ Depth \in 1 .. Depth /\ Depth \in DOMAIN stack /\ Top = stack[Depth] /\ Top \in FrameType
         /\ p \in Tree /\ p = Way(Depth) /\ stack # << >> /\ stack \in Seq(FrameType)
         /\ CallAt(Depth, p) /\ LastAt(Depth, p) /\ (result /\ ~stop => CoveredAt(Depth, p))
         /\ Top.mark = Depth + 1
<1>1. Depth \in Nat /\ Depth >= 1 /\ Top = stack[Depth] /\ Top \in FrameType /\ Depth \in DOMAIN stack
      /\ stack # << >> /\ stack \in Seq(FrameType)
  BY WalkFacts, Running, Zenon
<1>2. Depth \in 1 .. Depth
  BY <1>1
<1>3. p \in Tree
  BY <1>2, WalkFacts, Zenon
<1>4. CallAt(Depth, p) /\ LastAt(Depth, p) /\ (result /\ ~stop => CoveredAt(Depth, p))
  BY <1>1, <1>3, WalkFacts, Zenon DEF WalkInv
<1> QED
  BY <1>1, <1>2, <1>3, <1>4, Zenon DEF CallAt

\* The path is cut back to that of the last call.
LEMMA CutIs ==
  ASSUME IInv, Walking, NEW s, s = Cut(Top.mark)
  PROVE  /\ s \in Seq(Letter) /\ Len(s) = Depth + 1 /\ s[Depth + 1] = NUL
         /\ \A j \in 1 .. Depth : s[j] = sb[j]
         /\ PathIn(s) = Way(Depth)
<1>1. /\ sb \in Seq(Letter) /\ Len(sb) \in Nat /\ Len(sb) >= Depth + 1 /\ \A j \in 1 .. Depth : sb[j] # NUL
      /\ Top.mark = Depth + 1 /\ Depth \in Nat /\ Depth >= 1
  BY WalkFacts, WalkTop, Running, Zenon
<1>2. NUL \in Letter
  BY DEF Letter
<1>3. s = [SubSeq(sb, 1, Depth + 1) EXCEPT ![Depth + 1] = NUL]
  BY <1>1, Zenon DEF Cut
<1>4. /\ SubSeq(sb, 1, Depth + 1) \in Seq(Letter) /\ Len(SubSeq(sb, 1, Depth + 1)) = Depth + 1
      /\ \A j \in 1 .. Depth + 1 : SubSeq(sb, 1, Depth + 1)[j] = sb[j]
  BY <1>1
<1>5. s \in Seq(Letter) /\ Len(s) = Depth + 1 /\ s[Depth + 1] = NUL /\ \A j \in 1 .. Depth : s[j] = sb[j]
  <2> DEFINE t == SubSeq(sb, 1, Depth + 1)
             n == Depth + 1
  <2>1. t \in Seq(Letter) /\ Len(t) = n /\ n \in Nat /\ n >= 1 /\ s = [t EXCEPT ![n] = NUL]
        /\ \A j \in 1 .. n : t[j] = sb[j]
    BY <1>1, <1>3, <1>4
  <2> HIDE DEF t, n
  <2>2. s \in Seq(Letter) /\ Len(s) = n /\ s[n] = NUL /\ \A j \in 1 .. n - 1 : s[j] = sb[j]
    BY <1>2, <2>1
  <2> QED
    BY <1>1, <2>2 DEF n
<1>6. Depth + 1 \in DOMAIN s /\ (Depth + 1) - 1 = Depth
  BY <1>1, <1>5
<1>7. \A j \in 1 .. (Depth + 1) - 1 : s[j] # NUL
  BY <1>1, <1>5, <1>6, Zenon
<1>8. PathIn(s) = SubSeq(s, 2, (Depth + 1) - 1)
  BY <1>5, <1>6, <1>7, PathInIs, Zenon
<1>9. SubSeq(s, 2, Depth) = Way(Depth)
  <2>1. Depth <= Len(s) /\ Depth <= Len(sb) /\ Depth \in 1 .. Depth
    BY <1>1, <1>5
  <2> QED
    BY <1>1, <1>5, <2>1, SamePart, Zenon DEF Way
<1> QED
  BY <1>5, <1>6, <1>8, <1>9, Zenon

LEMMA PathIs ==
  ASSUME IInv, Walking, Top.at # "next"
  PROVE  PathIn(sb) = Way(Depth) /\ Len(sb) = Depth + 1
<1>1. /\ sb \in Seq(Letter) /\ Len(sb) \in Nat /\ \A j \in 1 .. Depth : sb[j] # NUL
      /\ Depth \in Nat /\ Depth >= 1 /\ WalkInv
  BY WalkFacts, Running, Zenon
<1>2. Len(sb) = Depth + 1
  BY WalkTop, Zenon DEF LastAt
<1>3. sb[Depth + 1] = NUL
  BY <1>1, <1>2, Zenon DEF WalkInv, PathHeld
<1>4. Depth + 1 \in DOMAIN sb /\ (Depth + 1) - 1 = Depth
  BY <1>1, <1>2
<1>5. \A j \in 1 .. (Depth + 1) - 1 : sb[j] # NUL
  BY <1>1, <1>4, Zenon
<1>6. PathIn(sb) = SubSeq(sb, 2, (Depth + 1) - 1)
  BY <1>1, <1>3, <1>4, <1>5, PathInIs, Zenon
<1> QED
  BY <1>2, <1>4, <1>6, Zenon DEF Way

-----------------------------------------------------------------------------
(* A step of a walk. *)

WalkAside == /\ src' = src /\ dst' = dst /\ temp' = temp /\ used' = used /\ first' = first
             /\ refused \subseteq refused' /\ refused' \in SUBSET Tree

\* The visits are as before but for one to p, perhaps.
VisitsOn(p) ==
  /\ visited' \in Seq(VisitType)
  /\ \A k \in DOMAIN visited : k \in DOMAIN visited' /\ visited'[k] = visited[k]
  /\ \A k \in DOMAIN visited' : (k \in DOMAIN visited /\ visited'[k] = visited[k]) \/ visited'[k].path = p

\* The calls above the last one, and the path of that one.
Above == /\ \A i \in 1 .. Depth - 1 : stack'[i] = stack[i]
         /\ sb' \in Seq(Letter) /\ Len(sb') >= Depth /\ \A j \in 1 .. Depth : sb'[j] = sb[j]

LEMMA SeenOn ==
  ASSUME src' = src, first' = first, refused \subseteq refused', NEW p, VisitsOn(p), NEW q
  PROVE  (SeenAt(q) => SeenAt(q)') /\ (Seen(q) => Seen(q)')
<1>1. ASSUME NEW r, SeenAt(r) PROVE SeenAt(r)'
  <2>1. \A k \in DOMAIN visited : k \in DOMAIN visited' /\ visited'[k] = visited[k]
    BY Zenon DEF VisitsOn
  <2> QED
    BY <1>1, <2>1, Zenon DEF SeenAt
<1>2. ASSUME Seen(q) PROVE Seen(q)'
  <2>1. ASSUME NEW r \in Below(q), src'[r] # "none" PROVE SeenAt(r)'
    BY <1>1, <1>2, <2>1, Zenon DEF Seen
  <2> QED
    BY <2>1, Zenon DEF Seen
<1> QED
  BY <1>1, <1>2, Zenon

\* Paths of different calls differ, and so do what is below their different entries.
LEMMA WaysApart ==
  ASSUME IInv, Walking, NEW i \in 1 .. Depth - 1, NEW c, Append(Way(i), c) \in Tree,
         IsPrefix(Append(Way(i), c), Way(Depth))
  PROVE  c = sb[i + 1]
<1>1. i \in 1 .. Depth /\ i + 1 \in 1 .. Depth /\ Depth \in 1 .. Depth
  <2>1. Depth \in Nat
    BY Running, WalkFacts, Zenon
  <2> QED
    BY <2>1
<1>2. Append(Way(i), sb[i + 1]) = Way(i + 1) /\ Way(i + 1) \in Tree /\ Way(i) \in Tree /\ Way(Depth) \in Tree
      /\ IsPrefix(Way(i + 1), Way(Depth))
  BY <1>1, WalkFacts, Zenon
<1>3. Way(Depth) \in Below(Append(Way(i), c)) /\ Way(Depth) \in Below(Append(Way(i), sb[i + 1]))
      /\ Append(Way(i), sb[i + 1]) \in Tree
  BY <1>2, Zenon DEF Below
<1> QED
  BY <1>2, <1>3, BelowOne, Zenon

LEMMA AboveKept ==
  ASSUME IInv, Walking, WalkAside, Above, VisitsOn(Way(Depth)), NEW i \in 1 .. Depth - 1
  PROVE  /\ Way(i)' = Way(i) /\ Way(i) \in Tree /\ stack'[i] = stack[i] /\ sb'[i + 1] = sb[i + 1]
         /\ LoopAt(i) /\ LoopAt(i)'
         /\ \A c \in stack[i].left : Fresh(Append(Way(i), c))'
         /\ op = "post" => \A k \in DOMAIN visited' : visited'[k].path # Way(i)
<1>1. i \in 1 .. Depth /\ i + 1 \in 1 .. Depth /\ i < Depth /\ i # Depth /\ Depth \in Nat /\ Depth \in 1 .. Depth
  <2>1. Depth \in Nat
    BY Running, WalkFacts, Zenon
  <2> QED
    BY <2>1
<1>2. Way(i)' = Way(i)
  <2>1. sb \in Seq(Letter) /\ sb' \in Seq(Letter) /\ Depth <= Len(sb) /\ Depth <= Len(sb')
        /\ \A j \in 1 .. Depth : sb[j] = sb'[j]
    <3>1. sb \in Seq(Letter) /\ Len(sb) >= Depth + 1 /\ Len(sb) \in Nat
      BY WalkFacts, Zenon
    <3>2. sb' \in Seq(Letter) /\ Len(sb') >= Depth /\ \A j \in 1 .. Depth : sb'[j] = sb[j]
      BY Zenon DEF Above
    <3>3. Depth <= Len(sb) /\ Depth <= Len(sb')
      BY <1>1, <3>1, <3>2
    <3> QED
      BY <3>1, <3>2, <3>3, Zenon
  <2>2. SubSeq(sb, 2, i) = SubSeq(sb', 2, i)
    BY <1>1, <2>1, SamePart, Zenon
  <2> QED
    BY <2>2, Zenon DEF Way
<1>3. Way(i) \in Tree /\ Way(Depth) \in Tree /\ i \in DOMAIN stack
  BY <1>1, WalkFacts, Running, Zenon
<1>4. stack'[i] = stack[i] /\ sb'[i + 1] = sb[i + 1]
  BY <1>1, Zenon DEF Above
<1>5. CallAt(i, Way(i)) /\ LoopAt(i)
  BY <1>1, <1>3, WalkFacts, Zenon DEF WalkInv
<1>6. LoopAt(i)'
  BY <1>4, <1>5, Zenon DEF LoopAt
<1>7. ASSUME NEW c \in stack[i].left, NEW q, q = Append(Way(i), c) PROVE Fresh(q)'
  <2>1. Fresh(q) /\ c \in Children(first.src, Way(i)) /\ c # sb[i + 1]
    BY <1>5, <1>7, Zenon DEF CallAt, LoopAt
  <2>2. q \in Tree
    BY <1>7, <2>1, Zenon DEF Children
  <2>3. ~IsPrefix(q, Way(Depth))
    BY <1>7, <2>1, <2>2, WaysApart, Zenon
  <2> QED
    BY <2>1, <2>3, Zenon DEF Fresh, VisitsOn
<1>8. ASSUME NEW c \in stack[i].left PROVE Fresh(Append(Way(i), c))'
  <2>1. PICK q : q = Append(Way(i), c)
    BY Zenon
  <2>2. Fresh(q)'
    BY <1>7, <1>8, <2>1, Zenon
  <2>3. q = Append(Way(i)', c)
    BY <1>2, <2>1, Zenon
  <2> QED
    BY ONLY <2>2, <2>3, Zenon DEF Fresh
<1>9. ASSUME op = "post", NEW k \in DOMAIN visited' PROVE visited'[k].path # Way(i)
  <2>1. Way(i) # Way(Depth)
    <3>1. Len(Way(i)) = i - 1 /\ Len(Way(Depth)) = Depth - 1 /\ i - 1 # Depth - 1
      <4>1. Len(Way(i)) = i - 1 /\ Len(Way(Depth)) = Depth - 1
        BY <1>1, WalkFacts, Zenon
      <4> QED
        BY <1>1, <4>1
    <3> QED
      BY <3>1, Zenon
  <2> QED
    BY <1>5, <1>9, <2>1, Zenon DEF CallAt, VisitsOn
<1> QED
  BY <1>2, <1>3, <1>4, <1>5, <1>6, <1>8, <1>9, Zenon

LEMMA AboveCall ==
  ASSUME IInv, Walking, WalkAside, Above, VisitsOn(Way(Depth)), op' = op,
         NEW i \in 1 .. Depth - 1, NEW p, p = Way(i)
  PROVE  CallAt(i, p)'
<1>1. /\ Way(i)' = Way(i) /\ Way(i) \in Tree /\ stack'[i] = stack[i]
      /\ \A c \in stack[i].left : Fresh(Append(Way(i), c))'
      /\ op = "post" => \A k \in DOMAIN visited' : visited'[k].path # Way(i)
  BY AboveKept, Zenon
<1>2. src' = src /\ first' = first /\ refused \subseteq refused'
  BY Zenon DEF WalkAside
<1>3. CallAt(i, p)
  <2>1. i \in DOMAIN stack
    <3>1. i \in 1 .. Depth
      BY WalkDepth, Zenon
    <3> QED
      BY <3>1, WalkFacts, Running, Zenon
  <2> QED
    BY <1>1, <2>1, WalkFacts, Zenon DEF WalkInv
<1>4. ASSUME NEW c \in stack[i].left PROVE Fresh(Append(p, c))'
  <2>1. Fresh(Append(Way(i), c))'
    BY <1>1, <1>4, Zenon
  <2>2. Append(p, c) = Append(Way(i)', c)
    BY <1>1, Zenon
  <2> QED
    BY ONLY <2>1, <2>2, Zenon DEF Fresh
<1> QED
  BY <1>1, <1>2, <1>3, <1>4, Zenon DEF CallAt, Told

LEMMA AboveCovered ==
  ASSUME IInv, Walking, WalkAside, Above, VisitsOn(Way(Depth)), result, ~stop,
         NEW i \in 1 .. Depth - 1, NEW p, p = Way(i)
  PROVE  /\ \A c \in Children(src', p) :
              c \in stack'[i].left \/ sb'[i + 1] = c \/ Seen(Append(p, c))'
         /\ op = "pre" => SeenAt(p)'
<1>1. i \in DOMAIN stack /\ p \in Tree /\ i \in 1 .. Depth
  <2>1. i \in 1 .. Depth
    BY WalkDepth, Zenon
  <2> QED
    BY <2>1, WalkFacts, Running, Zenon
<1>2. CoveredAt(i, p) /\ LoopAt(i)
  BY <1>1, AboveKept, WalkFacts, Zenon DEF WalkInv
<1>3. src' = src /\ first' = first /\ stack'[i] = stack[i] /\ sb'[i + 1] = sb[i + 1] /\ refused \subseteq refused'
  BY AboveKept, Zenon DEF WalkAside
<1>4. \A q : (SeenAt(q) => SeenAt(q)') /\ (Seen(q) => Seen(q)')
  BY <1>3, SeenOn, Zenon
<1>5. ASSUME NEW c \in Children(src, p), NEW q, q = Append(p, c)
      PROVE  c \in stack'[i].left \/ sb'[i + 1] = c \/ Seen(q)'
  BY <1>2, <1>3, <1>4, <1>5, Zenon DEF CoveredAt, LoopAt
<1>6. ASSUME op = "pre" PROVE SeenAt(p)'
  BY <1>2, <1>4, <1>6, Zenon DEF CoveredAt, LoopAt
<1> QED
  BY <1>3, <1>5, <1>6, Zenon

LEMMA NoVisit ==
  ASSUME IInv, visited' = visited, src' = src, first' = first, refused \subseteq refused', NEW p
  PROVE  VisitsOn(p) /\ VisitsInOrder'
<1>1. visited \in Seq(VisitType)
  BY Zenon DEF IInv, Typed
<1>2. VisitsOn(p)
  BY <1>1, Zenon DEF VisitsOn
<1>3. VisitsInOrder'
  BY Zenon DEF IInv, VisitsInOrder
<1> QED
  BY <1>2, <1>3

\* A visit is added at the end.
Adds(s, v, t) ==
  /\ t \in Seq(VisitType) /\ DOMAIN s = 1 .. Len(s) /\ DOMAIN t = 1 .. Len(s) + 1 /\ Len(s) \in Nat
  /\ t[Len(s) + 1] = v /\ \A k \in 1 .. Len(s) : t[k] = s[k]

LEMMA AddsIs ==
  ASSUME NEW s \in Seq(VisitType), NEW v \in VisitType PROVE Adds(s, v, Append(s, v))
  BY DEF Adds

LEMMA OneVisit ==
  ASSUME IInv, Walking, WalkAside, NEW p, p = Way(Depth), NEW v \in VisitType, v.path = p,
         Told(p, v.type), visited' = Append(visited, v),
         result, ~stop, op = "pre" => Fresh(p)
  PROVE  /\ VisitsOn(p) /\ VisitsInOrder'
         /\ \E k \in DOMAIN visited' : visited'[k] = v
         /\ \A k \in DOMAIN visited' : (k \in DOMAIN visited /\ visited'[k] = visited[k]) \/ visited'[k] = v
<1> DEFINE n == Len(visited)
<1>1. Adds(visited, v, visited')
  <2>1. visited \in Seq(VisitType)
    BY Zenon DEF IInv, Typed
  <2> QED
    BY <2>1, AddsIs, Zenon
<1>2. /\ visited' \in Seq(VisitType) /\ DOMAIN visited = 1 .. n /\ DOMAIN visited' = 1 .. n + 1 /\ n \in Nat
      /\ visited'[n + 1] = v /\ \A k \in 1 .. n : visited'[k] = visited[k]
  BY <1>1, Zenon DEF Adds
<1> HIDE DEF n
<1>3. /\ \A k \in 1 .. n : k \in 1 .. n + 1 /\ \A j \in 1 .. k - 1 : j \in 1 .. n
      /\ \A k \in 1 .. n + 1 : k \in 1 .. n \/ k = n + 1
      /\ n + 1 \in 1 .. n + 1 /\ \A j \in 1 .. (n + 1) - 1 : j \in 1 .. n
  BY <1>2
<1>4. VisitsOn(p)
  BY <1>2, <1>3, Zenon DEF VisitsOn
<1>5. src' = src /\ first' = first /\ refused \subseteq refused' /\ op \in {"pre", "post"} /\ first.op = op
  BY WalkFacts, Zenon DEF WalkAside
<1>6. ASSUME NEW j \in 1 .. n
      PROVE  /\ Told(visited[j].path, visited[j].type)
             /\ \A k \in 1 .. j - 1 :
                  /\ visited[k].answer \in {"cont", "skip"}
                  /\ ~IsPrefix(IF first.op = "pre" THEN visited[j].path ELSE visited[k].path,
                               IF first.op = "pre" THEN visited[k].path ELSE visited[j].path)
  BY <1>2, <1>6, Zenon DEF IInv, VisitsInOrder, Told
<1>7. ASSUME NEW k \in 1 .. n
      PROVE  /\ visited[k].answer \in {"cont", "skip"}
             /\ ~IsPrefix(IF first.op = "pre" THEN p ELSE visited[k].path,
                          IF first.op = "pre" THEN visited[k].path ELSE p)
  <2>1. visited[k] \in VisitType
    BY <1>2, <1>7 DEF IInv, Typed
  <2>2. visited[k].answer \in {"cont", "skip", "stop", "fail"} /\ visited[k].path \in Tree
    BY <2>1 DEF VisitType
  <2>3. visited[k].answer # "fail" /\ visited[k].answer # "stop"
    BY <1>2, <1>7, WalkFacts, Zenon DEF WalkInv, Answers
  <2>4. CASE op = "pre"
    <3>1. ~IsPrefix(p, visited[k].path)
      BY <1>2, <1>7, <2>4, Zenon DEF Fresh
    <3> QED
      BY <1>5, <2>2, <2>3, <2>4, <3>1, Zenon
  <2>5. CASE op = "post"
    <3>1. ASSUME IsPrefix(visited[k].path, p) PROVE FALSE
      <4>1. p \in Tree /\ Len(p) = Depth - 1 /\ Depth \in Nat /\ Depth >= 1 /\ sb \in Seq(Letter)
            /\ Depth \in 1 .. Len(sb) /\ DOMAIN stack = 1 .. Depth
        <5>1. Depth \in 1 .. Depth /\ Depth \in 1 .. Len(sb)
          BY WalkDepth, Zenon
        <5> QED
          BY <5>1, WalkFacts, Running, Zenon
      <4>2. Begins(visited[k].path, p)
        BY <2>2, <3>1, <4>1, Paths, PrefixIs, Zenon
      <4>3. PICK i \in 1 .. Depth : i = Len(visited[k].path) + 1
        <5>1. visited[k].path \in Seq(Name)
          BY <2>2, Paths, Zenon
        <5>2. Len(visited[k].path) + 1 \in 1 .. Depth
          BY <4>1, <4>2, <5>1 DEF Begins
        <5> QED
          BY <5>2, Zenon
      <4>4. visited[k].path = SubSeq(p, 1, i - 1)
        <5>1. visited[k].path \in Seq(Name) /\ p \in Seq(Name)
          BY <2>2, <4>1, Paths, Zenon
        <5> QED
          BY <4>1, <4>2, <4>3, <5>1 DEF Begins
      <4>5. SubSeq(p, 1, i - 1) = Way(i)
        BY <4>1, <4>3, PartOf, Zenon DEF Way
      <4>6. CallAt(i, Way(i))
        BY <4>1, <4>3, WalkFacts, Zenon DEF WalkInv
      <4> QED
        BY <1>2, <1>7, <2>5, <4>4, <4>5, <4>6, Zenon DEF CallAt
    <3> QED
      BY <1>5, <2>2, <2>3, <2>5, <3>1, Zenon
  <2> QED
    BY <1>5, <2>4, <2>5, Zenon
<1>8. ASSUME NEW j \in 1 .. n + 1
      PROVE  /\ Told(visited'[j].path, visited'[j].type)
             /\ \A k \in 1 .. j - 1 :
                  /\ visited'[k].answer \in {"cont", "skip"}
                  /\ ~IsPrefix(IF first.op = "pre" THEN visited'[j].path ELSE visited'[k].path,
                               IF first.op = "pre" THEN visited'[k].path ELSE visited'[j].path)
  <2>1. CASE j \in 1 .. n
    BY <1>2, <1>3, <1>6, <2>1, Zenon
  <2>2. CASE j = n + 1
    <3>1. visited'[j] = v /\ \A k \in 1 .. j - 1 : k \in 1 .. n
      BY <1>2, <1>3, <2>2, Zenon
    <3> QED
      BY <1>2, <1>7, <3>1, Zenon
  <2> QED
    BY <1>3, <2>1, <2>2, Zenon
<1>9. VisitsInOrder'
  BY <1>2, <1>5, <1>8, Zenon DEF VisitsInOrder, Told
<1> QED
  BY <1>2, <1>3, <1>4, <1>9, Zenon

LEMMA WalkGoesOn ==
  ASSUME IInv, Walking, WalkAside, op' = op, stack' # << >>, stack' \in Seq(FrameType),
         result' \in BOOLEAN, stop' \in BOOLEAN, sb' \in Seq(Letter), open' \in Nat,
         visited' \in Seq(VisitType), VisitsInOrder', WalkInv'
  PROVE  IInv'
<1>1. op \in {"pre", "post"} /\ first.op = op /\ used = first.used /\ first' = first /\ src' = src /\ dst' = dst
      /\ temp' = temp /\ used' = used /\ refused' \in SUBSET Tree
  BY WalkFacts, Zenon DEF WalkAside
<1>2. Typed'
  BY <1>1, Zenon DEF IInv, Typed, Letter
<1>3. Shrinks'
  BY <1>1, Zenon DEF IInv, Shrinks
<1>4. Calls'
  BY <1>1, Zenon DEF Calls
<1>5. CopiedAll' /\ AbortsForCause' /\ VisitsAll' /\ op' # "copy"
  BY <1>1, Zenon DEF CopiedAll, AbortsForCause, VisitsAll, Returned
<1> QED
  BY <1>2, <1>3, <1>4, <1>5, Zenon DEF IInv

\* What a call of a walk has done when it returns.
LEMMA WalkReturns ==
  ASSUME IInv, Walking, WalkAside, NEW r \in BOOLEAN, Defer(r), NEW p, p = Way(Depth),
         VisitsOn(p), VisitsInOrder', stop' \in BOOLEAN, stop' => r,
         \A k \in DOMAIN visited' :
           (visited'[k].answer = "fail" => ~r) /\ (visited'[k].answer = "stop" => stop'),
         r /\ ~stop' => result /\ ~stop /\ Seen(p)'
  PROVE  IInv'
<1>1. /\ op \in {"pre", "post"} /\ first.op = op /\ used = first.used /\ first' = first /\ src' = src /\ dst' = dst
      /\ temp' = temp /\ used' = used /\ visited' \in Seq(VisitType) /\ refused' \in SUBSET Tree
  BY WalkFacts, Zenon DEF WalkAside, VisitsOn
<1>2. /\ Depth \in 1 .. Depth /\ Depth \in DOMAIN stack /\ Top = stack[Depth] /\ stack # << >>
      /\ stack \in Seq(FrameType) /\ DOMAIN stack = 1 .. Depth
      /\ p \in Tree /\ CallAt(Depth, p) /\ LastAt(Depth, p) /\ Depth \in Nat /\ Depth >= 1
  BY WalkTop, Running, WalkFacts, Zenon
<1>3. /\ result' = r /\ stack' = Front(stack) /\ sb' = Cut(Top.mark) /\ open' = open - Closed(Top)
      /\ op' = IF Depth = 1 THEN "idle" ELSE op
  BY Zenon DEF Defer, Depth
<1>4. /\ stack' \in Seq(FrameType) /\ Depth' = Depth - 1 /\ \A i \in 1 .. Depth - 1 : stack'[i] = stack[i]
  <2>1. stack' \in Seq(FrameType) /\ Popped(stack, stack')
    BY <1>2, <1>3, Pops, Zenon
  <2> QED
    BY <2>1, Zenon DEF Popped, Depth
<1>5. stack' = << >> <=> Depth = 1
  <2>1. stack' = << >> <=> Depth' = 0
    BY <1>4 DEF Depth
  <2> QED
    BY <1>2, <1>4, <2>1
<1>6. /\ sb' \in Seq(Letter) /\ Len(sb') = Depth + 1 /\ sb'[Depth + 1] = NUL
      /\ \A j \in 1 .. Depth : sb'[j] = sb[j]
  BY <1>3, CutIs, Zenon
<1>7. Above /\ VisitsOn(Way(Depth))
  <2>1. Len(sb') >= Depth
    BY <1>2, <1>6
  <2> QED
    BY <1>4, <1>6, <2>1, Zenon DEF Above
<1>8. open' = Depth - 1 /\ open' \in Nat
  <2>1. open = Depth - 1 + Closed(Top) /\ Closed(Top) \in Nat
    BY <1>2, Zenon DEF LastAt, Closed
  <2>2. Depth \in Nat /\ Depth >= 1 /\ open' = open - Closed(Top)
    BY <1>2, <1>3, Zenon
  <2> QED
    BY ONLY <2>1, <2>2
<1>9. CASE Depth = 1
  <2>1. op' = "idle" /\ stack' = << >> /\ open' = 0 /\ p = << >>
    <3>1. p = << >>
      <4>1. p \in Seq(Name) /\ Len(p) = 0
        <5>1. Len(p) = Depth - 1
          BY <1>2, WalkFacts, Zenon
        <5> QED
          BY <1>2, <1>9, <5>1, Paths
      <4> QED
        BY <4>1
    <3> QED
      BY <1>3, <1>5, <1>8, <1>9, <3>1
  <2>2. Typed'
    BY <1>1, <1>3, <1>4, <1>6, <1>8, <2>1, Zenon DEF IInv, Typed, Letter
  <2>3. Shrinks'
    BY <1>1, Zenon DEF IInv, Shrinks
  <2>4. Calls'
    BY <1>1, <2>1, Zenon DEF Calls
  <2>5. CopiedAll' /\ AbortsForCause' /\ op' # "copy" /\ ~Walking'
    BY <1>1, <2>1, Zenon DEF CopiedAll, AbortsForCause, Returned, Walking
  <2>6. VisitsAll'
    <3>1. \A k \in DOMAIN visited' : visited'[k] \in ToSet(visited')
      BY Zenon DEF ToSet
    <3>2. \A v \in ToSet(visited') : \E k \in DOMAIN visited' : v = visited'[k]
      BY Zenon DEF ToSet
    <3>3. ASSUME r, ~stop', NEW q \in Tree, src'[q] # "none"
          PROVE  \/ \E v \in ToSet(visited') :
                      \/ v.path = q
                      \/ first'.op = "pre" /\ v.answer = "skip" /\ IsPrefix(v.path, q)
                 \/ \E b \in refused' \ {q} : IsPrefix(b, q)
      <4>1. Seen(<< >>)'
        BY <2>1, <3>3, Zenon
      <4>2. SeenAt(q)'
        BY <3>3, <4>1, AllBelow, Zenon DEF Seen
      <4> QED
        BY <3>1, <4>2, Zenon DEF SeenAt
    <3>4. \A v \in ToSet(visited') : v.answer = "fail" => ~result'
      BY <1>3, <3>2, Zenon
    <3>5. stop' => result'
      BY <1>3, Zenon
    <3> QED
      BY <1>3, <3>3, <3>4, <3>5, Zenon DEF VisitsAll
  <2> QED
    BY <2>1, <2>2, <2>3, <2>4, <2>5, <2>6, Zenon DEF IInv
<1>10. CASE Depth # 1
  <2>1. op' = op /\ stack' # << >> /\ Depth' \in 1 .. Depth - 1 /\ DOMAIN stack' = 1 .. Depth - 1
        /\ \A i \in 1 .. Depth - 1 : i < Depth' \/ i = Depth'
    <3>1. op' = op /\ stack' # << >>
      BY <1>3, <1>5, <1>10, Zenon
    <3>2. DOMAIN stack' = 1 .. Depth'
      BY <1>4, <3>1, RunningPrimed, Zenon
    <3> QED
      BY <1>2, <1>4, <1>10, <3>1, <3>2
  <2>2. PICK d \in 1 .. Depth - 1 : d = Depth'
    BY <2>1, Zenon
  <2>3. PathHeld'
    <3>1. Len(sb') = Depth' + 2 /\ Len(sb') = Depth + 1 /\ \A j \in 2 .. Len(sb') - 1 : j \in 1 .. Depth /\ j \in 2 .. Len(sb) - 1
      <4>1. Len(sb) \in Nat /\ Len(sb) >= Depth + 1
        BY WalkFacts, Zenon
      <4> QED
        BY <1>2, <1>4, <1>6, <4>1
    <3>2. sb'[1] = "root" /\ \A j \in 2 .. Len(sb') - 1 : sb'[j] \in Name
      <4>1. PathHeld /\ 1 \in 1 .. Depth
        <5>1. PathHeld
          BY WalkFacts, Zenon DEF WalkInv
        <5>2. 1 \in 1 .. Depth
          BY ONLY <1>2
        <5> QED
          BY <5>1, <5>2
      <4> QED
        BY <1>6, <3>1, <4>1, Zenon DEF PathHeld
    <3>3. SubSeq(sb', 2, Depth') \in Tree
      <4>1. Way(d)' = Way(d) /\ Way(d) \in Tree
        BY <1>7, AboveKept, Zenon
      <4> QED
        BY <2>2, <4>1, Zenon DEF Way
    <3> QED
      BY <1>6, <3>1, <3>2, <3>3, Zenon DEF PathHeld, Way
  <2>4. Answers'
    BY <1>3, Zenon DEF Answers
  <2>5. ASSUME NEW i \in 1 .. Depth - 1, NEW q \in Tree, q = Way(i)'
        PROVE  /\ CallAt(i, q)' /\ LoopAt(i)'
               /\ i = Depth' => LastAt(i, q)'
               /\ r /\ ~stop' => CoveredAt(i, q)'
    <3>1. /\ q = Way(i) /\ stack'[i] = stack[i] /\ sb'[i + 1] = sb[i + 1] /\ LoopAt(i)'
      BY <1>7, <2>5, AboveKept, Zenon
    <3>2. CallAt(i, q)'
      BY <1>7, <2>1, <3>1, AboveCall, Zenon
    <3>3. stack'[i].at = "next" /\ stack'[i].opened
      BY <3>1, <3>2, Zenon DEF LoopAt, CallAt
    <3>4. ASSUME i = Depth' PROVE LastAt(i, q)'
      <4>1. open' = i - 1 + Closed(stack'[i])
        <5>1. Closed(stack'[i]) = 1
          BY <3>3, Zenon DEF Closed
        <5> QED
          BY <1>2, <1>4, <1>8, <3>4, <5>1
      <4>2. Closed(stack[i])' = Closed(stack'[i])
        BY Zenon DEF Closed
      <4> QED
        BY <2>1, <3>3, <4>1, <4>2, Zenon DEF LastAt
    <3>5. ASSUME r, ~stop' PROVE CoveredAt(i, q)'
      <4>1. /\ \A c \in Children(src', q) :
                 c \in stack'[i].left \/ sb'[i + 1] = c \/ Seen(Append(q, c))'
            /\ op = "pre" => SeenAt(q)'
        BY <1>7, <3>1, <3>5, AboveCovered, Zenon
      <4>2. ASSUME NEW c \in Children(src', q), i = Depth', sb'[i + 1] = c PROVE Seen(Append(q, c))'
        <5>1. i + 1 = Depth
          BY <1>2, <1>4, <4>2
        <5>2. p = Append(q, c)
          BY <3>1, <4>2, <5>1, WalkFacts, Zenon
        <5> QED
          BY <3>5, <5>2, Zenon
      <4> QED
        BY <2>1, <3>3, <4>1, <4>2, Zenon DEF CoveredAt
    <3> QED
      BY <3>1, <3>2, <3>4, <3>5, Zenon
  <2>6. WalkInv'
    <3>1. \A i \in DOMAIN stack', q \in Tree : q = Way(i)' =>
            /\ CallAt(i, q)'
            /\ i < Depth' => LoopAt(i)'
            /\ i = Depth' => LastAt(i, q)'
            /\ result' /\ ~stop' => CoveredAt(i, q)'
      BY <1>3, <2>1, <2>5, Zenon
    <3> QED
      BY <2>3, <2>4, <3>1, Zenon DEF WalkInv
  <2> QED
    BY <1>1, <1>3, <1>4, <1>6, <1>8, <2>1, <2>6, WalkGoesOn, Zenon
<1> QED
  BY <1>9, <1>10

\* The frame of the last call becomes f.
Becomes(f) == /\ stack' = [stack EXCEPT ![Len(stack)] = f] /\ f \in FrameType /\ f.mark = Top.mark
              /\ sb' = sb \/ sb' = Cut(Top.mark)

LEMMA BecomesIs ==
  ASSUME IInv, Walking, NEW f, Becomes(f)
  PROVE  /\ stack' \in Seq(FrameType) /\ stack' # << >> /\ Depth' = Depth /\ stack'[Depth] = f
         /\ DOMAIN stack' = 1 .. Depth /\ f.mark = Depth + 1
         /\ Above /\ Len(sb') \in {Depth + 1, Depth + 2} /\ sb'[Len(sb')] = NUL
         /\ \A j \in 2 .. Len(sb') - 1 : sb'[j] \in Name
         /\ Way(Depth)' = Way(Depth) /\ SubSeq(sb', 2, Depth') = Way(Depth) /\ sb'[1] = "root"
<1>1. /\ Depth \in 1 .. Depth /\ Depth \in DOMAIN stack /\ Top = stack[Depth] /\ stack # << >>
      /\ stack \in Seq(FrameType) /\ DOMAIN stack = 1 .. Depth /\ Depth \in Nat /\ Depth >= 1
      /\ Top.mark = Depth + 1
  BY WalkTop, Running, WalkFacts, Zenon
<1>2. stack' \in Seq(FrameType) /\ Topped(stack, f, stack')
  BY <1>1, Tops, Zenon DEF Becomes
<1>3. Depth' = Depth /\ stack'[Depth] = f /\ \A i \in 1 .. Depth - 1 : stack'[i] = stack[i]
  BY <1>2, Zenon DEF Topped, Depth
<1>4. stack' # << >>
  <2>1. Len(stack') >= 1
    BY <1>1, <1>3 DEF Depth
  <2> QED
    BY <2>1
<1>5. DOMAIN stack' = 1 .. Depth
  BY <1>2, <1>3, <1>4, RunningPrimed, Zenon
<1>6. /\ sb \in Seq(Letter) /\ Len(sb) \in {Depth + 1, Depth + 2} /\ sb[1] = "root" /\ sb[Len(sb)] = NUL
      /\ \A j \in 2 .. Len(sb) - 1 : sb[j] \in Name
  BY WalkFacts, Zenon DEF WalkInv, PathHeld
<1>7. /\ sb' \in Seq(Letter) /\ Len(sb') \in {Depth + 1, Depth + 2} /\ sb'[1] = "root" /\ sb'[Len(sb')] = NUL
      /\ \A j \in 2 .. Len(sb') - 1 : sb'[j] \in Name
      /\ \A j \in 1 .. Depth : sb'[j] = sb[j]
  <2>1. CASE sb' = sb
    BY <1>6, <2>1, Zenon
  <2>2. CASE sb' = Cut(Top.mark)
    <3>1. /\ sb' \in Seq(Letter) /\ Len(sb') = Depth + 1 /\ sb'[Depth + 1] = NUL
          /\ \A j \in 1 .. Depth : sb'[j] = sb[j]
      BY <2>2, CutIs, Zenon
    <3>2. 1 \in 1 .. Depth /\ \A j \in 2 .. Len(sb') - 1 : j \in 1 .. Depth /\ j \in 2 .. Len(sb) - 1
      <4>1. Len(sb) \in Nat /\ Len(sb) >= Depth + 1
        BY WalkFacts, Zenon
      <4> QED
        BY <1>1, <3>1, <4>1
    <3> QED
      BY <1>6, <3>1, <3>2, Zenon
  <2> QED
    BY <2>1, <2>2, Zenon DEF Becomes
<1>8. Above
  <2>1. Len(sb') >= Depth
    BY <1>1, <1>7
  <2> QED
    BY <1>3, <1>7, <2>1, Zenon DEF Above
<1>9. SubSeq(sb', 2, Depth) = SubSeq(sb, 2, Depth)
  <2>1. Depth <= Len(sb') /\ Depth <= Len(sb)
    BY <1>1, <1>6, <1>7
  <2> QED
    BY <1>1, <1>6, <1>7, <2>1, SamePart, Zenon
<1>10. SubSeq(sb', 2, Depth') = Way(Depth) /\ Way(Depth)' = Way(Depth)
  BY <1>3, <1>9, Zenon DEF Way
<1>11. f.mark = Depth + 1
  BY <1>1, Zenon DEF Becomes
<1> QED
  BY <1>2, <1>3, <1>4, <1>5, <1>7, <1>8, <1>10, <1>11, Zenon

LEMMA WalkTopped ==
  ASSUME IInv, Walking, WalkAside, op' = op, result' = result, stop' = stop, open' \in Nat,
         NEW f, Becomes(f), NEW d, d = Depth, NEW p, p = Way(d), VisitsOn(p), VisitsInOrder', Answers',
         CallAt(d, p)', LastAt(d, p)', result /\ ~stop => CoveredAt(d, p)'
  PROVE  IInv'
<1>1. /\ stack' \in Seq(FrameType) /\ stack' # << >> /\ Depth' = Depth /\ stack'[Depth] = f
      /\ DOMAIN stack' = 1 .. Depth
      /\ Above /\ Len(sb') \in {Depth + 1, Depth + 2} /\ sb'[Len(sb')] = NUL
      /\ \A j \in 2 .. Len(sb') - 1 : sb'[j] \in Name
      /\ Way(Depth)' = Way(Depth) /\ SubSeq(sb', 2, Depth') = Way(Depth) /\ sb'[1] = "root"
  BY BecomesIs, Zenon
<1>2. /\ p \in Tree /\ Depth \in Nat /\ Depth >= 1 /\ d \in 1 .. Depth
      /\ \A i \in 1 .. Depth : i = d \/ i \in 1 .. Depth - 1
      /\ \A i \in 1 .. Depth - 1 : i < Depth /\ i # Depth /\ ~(Depth < Depth)
  <2>1. Depth \in Nat /\ Depth >= 1 /\ p \in Tree
    BY WalkTop, Running, WalkFacts, Zenon
  <2> QED
    BY <2>1
<1>3. PathHeld'
  BY <1>1, <1>2, Zenon DEF PathHeld, Way
<1>4. VisitsOn(Way(Depth))
  BY Zenon
<1>5. ASSUME NEW i \in 1 .. Depth - 1, NEW q \in Tree, q = Way(i)'
      PROVE  CallAt(i, q)' /\ LoopAt(i)' /\ (result /\ ~stop => CoveredAt(i, q)')
  <2>1. q = Way(i) /\ LoopAt(i)' /\ CallAt(i, q)'
    BY <1>1, <1>4, <1>5, AboveKept, AboveCall, Zenon
  <2>2. ASSUME result, ~stop PROVE CoveredAt(i, q)'
    <3>1. /\ \A c \in Children(src', q) :
               c \in stack'[i].left \/ sb'[i + 1] = c \/ Seen(Append(q, c))'
          /\ op = "pre" => SeenAt(q)'
      BY <1>1, <1>4, <2>1, <2>2, AboveCovered, Zenon
    <3>2. stack'[i].at = "next" /\ i < Depth'
      BY <1>1, <1>2, <2>1, Zenon DEF LoopAt
    <3> QED
      BY <3>1, <3>2, Zenon DEF CoveredAt
  <2> QED
    BY <2>1, <2>2, Zenon
<1>7. ASSUME NEW i \in DOMAIN stack', NEW q \in Tree, q = Way(i)'
      PROVE  /\ CallAt(i, q)'
             /\ i < Depth' => LoopAt(i)'
             /\ i = Depth' => LastAt(i, q)'
             /\ result' /\ ~stop' => CoveredAt(i, q)'
  <2>1. CASE i = d
    <3>1. SubSeq(sb', 2, d) = p
      BY <1>1, Zenon
    <3>2. q = p
      BY <1>7, <2>1, <3>1, Zenon DEF Way
    <3>3. CallAt(i, q)'
      BY <2>1, <3>2, Zenon
    <3>4. LastAt(i, q)'
      BY <2>1, <3>2, Zenon
    <3>5. ~(i < Depth')
      <4>1. d = Depth /\ Depth' = Depth /\ Depth \in Nat
        BY <1>1, <1>2, Zenon
      <4> QED
        BY ONLY <2>1, <4>1
    <3>6. result' /\ ~stop' => CoveredAt(i, q)'
      BY <2>1, <3>2, Zenon
    <3> QED
      BY <3>3, <3>4, <3>5, <3>6, Zenon
  <2>2. CASE i \in 1 .. Depth - 1
    BY <1>1, <1>2, <1>5, <1>7, <2>2, Zenon
  <2> QED
    BY <1>1, <1>2, <2>1, <2>2, Zenon
<1>8. WalkInv'
  BY <1>3, <1>7, Zenon DEF WalkInv
<1>9. sb' \in Seq(Letter) /\ visited' \in Seq(VisitType) /\ result \in BOOLEAN /\ stop \in BOOLEAN
  BY <1>1, Zenon DEF Above, VisitsOn, IInv, Typed
<1> QED
  BY <1>1, <1>8, <1>9, WalkGoesOn, Zenon

-----------------------------------------------------------------------------
(* The steps of a walk. *)

\* A call returns and nothing was visited.
LEMMA PlainReturn ==
  ASSUME IInv, Walking, WalkAside, NEW r \in BOOLEAN, Defer(r), NEW p, p = Way(Depth),
         visited' = visited, stop' = stop, r => result, stop => r, r /\ ~stop => Seen(p)
  PROVE  IInv'
<1>1. VisitsOn(p) /\ VisitsInOrder' /\ src' = src /\ first' = first /\ refused \subseteq refused'
  BY NoVisit, Zenon DEF WalkAside
<1>2. Seen(p) => Seen(p)'
  BY <1>1, SeenOn, Zenon
<1>3. Answers /\ stop \in BOOLEAN
  BY WalkFacts, Zenon DEF WalkInv, IInv, Typed
<1>4. \A k \in DOMAIN visited' :
        (visited'[k].answer = "fail" => ~r) /\ (visited'[k].answer = "stop" => stop')
  BY <1>3, Zenon DEF Answers
<1> QED
  BY <1>1, <1>2, <1>3, <1>4, WalkReturns, Zenon

LEMMA WalkStepAside ==
  ASSUME IInv, WalkEnter \/ Visit \/ OpenDir \/ NextEntry \/ EntriesDone
  PROVE  Walking /\ WalkAside
<1>1. Walking /\ src' = src /\ dst' = dst /\ temp' = temp /\ used' = used /\ first' = first
  BY Zenon DEF WalkEnter, Visit, OpenDir, NextEntry, EntriesDone, WalkAt, memory
<1>2. CASE WalkEnter
  <2>1. Top.at # "next"
    BY <1>2, Zenon DEF WalkEnter, WalkAt
  <2>2. PathIn(sb) \in Tree
    BY <1>1, <2>1, PathIs, WalkTop, Zenon
  <2>3. refused \in SUBSET Tree /\ \E type : Note(PathIn(sb), type)
    BY <1>2, Zenon DEF WalkEnter, IInv, Typed
  <2>4. refused \subseteq refused' /\ refused' \in SUBSET Tree
    BY <2>2, <2>3, NotedIs, Zenon
  <2> QED
    BY <1>1, <2>4, Zenon DEF WalkAside
<1>3. CASE ~WalkEnter
  <2>1. refused' = refused
    BY <1>3, Zenon DEF Visit, OpenDir, NextEntry, EntriesDone
  <2> QED
    BY <1>1, <2>1, Zenon DEF WalkAside, IInv, Typed
<1> QED
  BY <1>2, <1>3

\* The entry of the last call.
LEMMA WalkEntry ==
  ASSUME IInv, Walking, NEW p, p = Way(Depth)
  PROVE  /\ p \in Tree /\ src[p] \in {first.src[p], "none"} /\ Under(src) /\ src[p] \in Kind \cup {"none"}
         /\ Children(src, p) \subseteq Children(first.src, p)
<1>1. p \in Tree /\ src \in SourceTree
  BY WalkTop, Zenon DEF IInv, Typed
<1>2. Children(src, p) \subseteq Children(first.src, p)
  BY Zenon DEF IInv, Shrinks, Children
<1> QED
  BY <1>1, <1>2, Zenon DEF IInv, Shrinks, SourceTree

\* What is at a path is seen, and all below it, when its entries are.
LEMMA SeenAll ==
  ASSUME IInv, Walking, WalkAside, NEW p, p = Way(Depth), VisitsOn(p), SeenAt(p)',
         \A c \in Children(src, p) : Seen(Append(p, c))
  PROVE  Seen(p)'
<1>1. p \in Tree /\ Under(src) /\ src' = src /\ first' = first /\ refused \subseteq refused'
  BY WalkEntry, Zenon DEF WalkAside
<1>2. \A q : SeenAt(q) => SeenAt(q)'
  BY <1>1, SeenOn, Zenon
<1>3. ASSUME NEW q \in Below(p), src[q] # "none" PROVE SeenAt(q)'
  <2>1. CASE q = p
    BY <2>1, Zenon
  <2>2. CASE q # p
    <3>1. PICK c \in Name : Append(p, c) \in Tree /\ q \in Below(Append(p, c))
      BY <1>1, <1>3, <2>2, BelowSplit, Zenon
    <3>2. src[Append(p, c)] # "none"
      <4>1. src[Append(p, c)] = "none" => src[Append(p, c)] # "directory"
        OBVIOUS
      <4>2. q # Append(p, c) /\ src[Append(p, c)] # "directory" => src[q] = "none"
        <5>1. Under(src) /\ Append(p, c) \in Tree /\ q \in Below(Append(p, c))
          BY <1>1, <3>1, Zenon
        <5> QED
          BY ONLY <5>1, NothingBelow, Zenon
      <4> QED
        BY <1>3, <4>1, <4>2, Zenon
    <3>3. Seen(Append(p, c))
      BY <3>1, <3>2, Zenon DEF Children
    <3> QED
      BY <1>2, <1>3, <3>1, <3>3, Zenon DEF Seen
  <2> QED
    BY <2>1, <2>2
<1> QED
  BY <1>1, <1>3, Zenon DEF Seen

LEMMA WalkEnterKeeps == ASSUME IInv, WalkEnter PROVE IInv'
<1>1. /\ Walking /\ WalkAside /\ op' = op /\ result' = result /\ stop' = stop /\ open' = open
      /\ sb' = sb /\ visited' = visited /\ Top.at = "enter"
  BY WalkStepAside, Zenon DEF WalkEnter, WalkAt
<1>2. PICK d : d = Depth
  BY Zenon
<1>3. PICK p : p = Way(d)
  BY Zenon
<1>4. /\ Top = stack[d] /\ Top \in FrameType /\ CallAt(d, p) /\ LastAt(d, p) /\ d \in DOMAIN stack
  BY <1>1, <1>2, <1>3, WalkTop, Zenon
<1>5. PathIn(sb) = p
  <2>1. Top.at # "next"
    BY <1>1, Zenon
  <2> QED
    BY <1>1, <1>2, <1>3, <2>1, PathIs, Zenon
<1>6. p \in Tree /\ src[p] \in {first.src[p], "none"} /\ src[p] \in Kind \cup {"none"}
  BY <1>1, <1>2, <1>3, WalkEntry, Zenon
<1>7. PICK type \in {src[p], "none"} :
         /\ Note(p, type)
         /\ stack' = [stack EXCEPT ![Len(stack)] =
              [@ EXCEPT !.type = type, !.at = IF op = "pre" THEN "visit" ELSE "open"]]
  BY <1>5, Zenon DEF WalkEnter, FileType
<1>8. /\ (type = first.src[p] \/ (type = "none" /\ (src[p] = "none" \/ p \in refused')))
       /\ type \in Kind \cup {"none"}
  <2>1. type = src[p] \/ p \in refused'
    BY <1>6, <1>7, NotedIs, Zenon DEF IInv, Typed
  <2> QED
    BY <1>6, <1>7, <2>1, Zenon
<1> DEFINE x == IF op = "pre" THEN "visit" ELSE "open"
           f == [Top EXCEPT !.type = type, !.at = x]
<1>9. Enters(Top, x, type, f)
  <2>1. x \in Steps
    BY DEF Steps
  <2> QED
    BY <1>4, <1>8, <2>1, FrameEntered, Zenon
<1>10. stack' = [stack EXCEPT ![Len(stack)] = f]
  BY <1>2, <1>4, <1>7, Zenon DEF Depth
<1>11. op \in {"pre", "post"} /\ (op = "pre" => x = "visit") /\ (op = "post" => x = "open")
  BY <1>1, WalkFacts, Zenon
<1>12. x \in {"visit", "open"}
  BY <1>11, Zenon
<1> HIDE DEF f, x
<1>13. /\ f \in FrameType /\ f.at = x /\ f.type = type /\ f.mark = Top.mark /\ f.left = Top.left
       /\ f.opened = Top.opened
  BY <1>9, Zenon DEF Enters
<1>14. Becomes(f)
  BY <1>1, <1>10, <1>13, Zenon DEF Becomes
<1>15. stack'[d] = f
  BY <1>1, <1>2, <1>14, BecomesIs, Zenon
<1>16. VisitsOn(p) /\ VisitsInOrder' /\ src' = src /\ first' = first /\ refused \subseteq refused'
  BY <1>1, NoVisit, Zenon DEF WalkAside
<1>17. CallAt(d, p)'
  <2>1. f.mark = d + 1
    BY <1>4, <1>13, Zenon DEF CallAt, Told
  <2> QED
    BY <1>1, <1>4, <1>12, <1>13, <1>15, <1>16, <1>8, <2>1, Zenon DEF CallAt, Told
<1>18. LastAt(d, p)'
  <2>1. Fresh(p)' /\ ~Top.opened /\ result /\ ~stop /\ Len(sb) = d + 1 /\ open = d - 1 + Closed(Top)
    BY <1>1, <1>4, Zenon DEF LastAt, Fresh
  <2>2. Closed(stack[d])' = Closed(Top)
    BY <1>13, <1>15, Zenon DEF Closed
  <2> QED
    BY <1>1, <1>11, <1>12, <1>13, <1>15, <2>1, <2>2, Zenon DEF LastAt
<1>19. CoveredAt(d, p)'
  BY <1>1, <1>11, <1>12, <1>13, <1>15, Zenon DEF CoveredAt
<1>20. Answers' /\ open' \in Nat
  BY <1>1, WalkFacts, Zenon DEF WalkInv, Answers, IInv, Typed
<1> QED
  BY <1>1, <1>2, <1>3, <1>14, <1>16, <1>17, <1>18, <1>19, <1>20, WalkTopped, Zenon

Went(x, f) == Becomes(f) /\ stack'[Depth] = f /\ f.at = x /\ Alike(Top, f)

LEMMA WentTo ==
  ASSUME IInv, Walking, NEW x \in Steps, Goto(x), sb' = sb \/ sb' = Cut(Top.mark)
  PROVE  \E f : Went(x, f)
<1> DEFINE f == [Top EXCEPT !.at = x]
<1>1. /\ Top = stack[Depth] /\ Top \in FrameType /\ Depth \in DOMAIN stack
  BY WalkTop, Zenon
<1>2. f \in FrameType /\ f.at = x /\ Alike(Top, f)
  BY <1>1, FrameAt, Zenon
<1>3. stack' = [stack EXCEPT ![Len(stack)] = f]
  BY <1>1, PathExcept, Zenon DEF Goto, Depth
<1> HIDE DEF f
<1>4. Becomes(f)
  BY <1>2, <1>3, Zenon DEF Becomes, Alike
<1>5. stack'[Depth] = f
  BY <1>4, BecomesIs, Zenon
<1> QED
  BY <1>2, <1>4, <1>5, Zenon DEF Went

LEMMA VisitGoesOn ==
  ASSUME IInv, Walking, WalkAside, op = "pre", Top.at = "visit", Goto("open"),
         op' = op, result' = result, sb' = sb, open' = open, stop' = stop,
         NEW p, p = Way(Depth), NEW v \in VisitType, v.path = p, v.type = Top.type, v.answer = "cont",
         visited' = Append(visited, v)
  PROVE  IInv'
<1>1. PICK d : d = Depth
  BY Zenon
<1>2. /\ Top = stack[d] /\ CallAt(d, p) /\ LastAt(d, p) /\ p \in Tree
  BY <1>1, WalkTop, Zenon
<1>3. result /\ ~stop /\ Len(sb) = d + 1 /\ ~Top.opened /\ Fresh(p) /\ open = d - 1 + Closed(Top)
      /\ Told(p, v.type)
  BY <1>2, Zenon DEF LastAt, CallAt
<1>4. /\ VisitsOn(p) /\ VisitsInOrder'
      /\ \E k \in DOMAIN visited' : visited'[k] = v
      /\ \A k \in DOMAIN visited' : (k \in DOMAIN visited /\ visited'[k] = visited[k]) \/ visited'[k] = v
  BY <1>3, OneVisit, Zenon
<1>5. PICK f : Went("open", f)
  <2>1. "open" \in Steps
    BY DEF Steps
  <2> QED
    BY <2>1, WentTo, Zenon
<1>6. /\ stack'[d] = f /\ f.at = "open" /\ f.type = Top.type /\ f.mark = Top.mark /\ f.opened = Top.opened
      /\ Becomes(f)
  BY <1>1, <1>5, Zenon DEF Went, Alike
<1>7. src' = src /\ first' = first /\ refused \subseteq refused'
  BY Zenon DEF WalkAside
<1>8. CallAt(d, p)'
  BY <1>2, <1>6, <1>7, Zenon DEF CallAt, Told
<1>9. LastAt(d, p)'
  <2>1. Closed(stack[d])' = Closed(Top)
    BY <1>6, Zenon DEF Closed
  <2>2. \A k \in DOMAIN visited' : IsPrefix(p, visited'[k].path) => visited'[k].path = p
    BY <1>3, <1>4, Zenon DEF Fresh
  <2> QED
    BY <1>3, <1>6, <2>1, <2>2, Zenon DEF LastAt
<1>10. CoveredAt(d, p)'
  <2>1. SeenAt(p)'
    BY <1>4, Zenon DEF SeenAt
  <2> QED
    BY <1>6, <2>1, Zenon DEF CoveredAt
<1>11. Answers' /\ open' \in Nat
  <2>1. Answers /\ open' \in Nat
    BY WalkFacts, Zenon DEF WalkInv, IInv, Typed
  <2> QED
    BY <1>4, <2>1, Zenon DEF Answers
<1> QED
  BY <1>1, <1>4, <1>6, <1>8, <1>9, <1>10, <1>11, WalkTopped, Zenon

LEMMA VisitReturns ==
  ASSUME IInv, Walking, WalkAside, Top.at = "visit",
         NEW p, p = Way(Depth), NEW v \in VisitType, v.path = p, v.type = Top.type,
         visited' = Append(visited, v), stop' = (stop \/ v.answer = "stop"),
         ~(op = "pre" /\ v.answer = "cont"), Defer(v.answer # "fail")
  PROVE  IInv'
<1>1. /\ CallAt(Depth, p) /\ LastAt(Depth, p) /\ (result /\ ~stop => CoveredAt(Depth, p)) /\ Top = stack[Depth]
      /\ p \in Tree
  BY WalkTop, Zenon
<1>2. result /\ ~stop /\ Told(p, v.type) /\ (op = "pre" => Fresh(p))
      /\ CoveredAt(Depth, p)
  BY <1>1, Zenon DEF LastAt, CallAt
<1>3. /\ VisitsOn(p) /\ VisitsInOrder'
      /\ \E k \in DOMAIN visited' : visited'[k] = v
      /\ \A k \in DOMAIN visited' : (k \in DOMAIN visited /\ visited'[k] = visited[k]) \/ visited'[k] = v
  BY <1>2, OneVisit, Zenon
<1>4. src' = src /\ first' = first /\ op \in {"pre", "post"} /\ first.op = op /\ refused \subseteq refused'
  BY WalkFacts, Zenon DEF WalkAside
<1>5. PICK r \in BOOLEAN : r = (v.answer # "fail")
  BY Zenon
<1>6. Defer(r)
  BY <1>5, Zenon
<1>7. stop' \in BOOLEAN /\ (stop' <=> v.answer = "stop")
  BY <1>2
<1>8. stop' => r
  <2>1. v.answer = "stop" => v.answer # "fail"
    OBVIOUS
  <2> QED
    BY <1>5, <1>7, <2>1, Zenon
<1>9. ASSUME NEW k \in DOMAIN visited'
      PROVE  (visited'[k].answer = "fail" => ~r) /\ (visited'[k].answer = "stop" => stop')
  <2>1. CASE k \in DOMAIN visited /\ visited'[k] = visited[k]
    BY <1>2, <2>1, WalkFacts, Zenon DEF WalkInv, Answers
  <2>2. CASE visited'[k] = v
    BY <1>5, <1>7, <2>2, Zenon
  <2> QED
    BY <1>3, <2>1, <2>2, Zenon
<1>10. SeenAt(p)'
  BY <1>3, Zenon DEF SeenAt
<1>11. ASSUME r, ~stop' PROVE Seen(p)'
  <2>1. v.answer \in {"cont", "skip"}
    <3>1. v.answer \in {"cont", "skip", "stop", "fail"}
      BY DEF VisitType
    <3> QED
      BY <1>5, <1>7, <1>11, <3>1, Zenon
  <2>2. CASE op = "pre"
    <3>1. v.answer = "skip"
      BY <2>1, <2>2, Zenon
    <3>2. ASSUME NEW q \in Below(p) PROVE SeenAt(q)'
      <4>1. IsPrefix(v.path, q)
        BY <3>2, Zenon DEF Below
      <4> QED
        BY <1>3, <1>4, <2>2, <3>1, <4>1, Zenon DEF SeenAt
    <3> QED
      BY <3>2, Zenon DEF Seen
  <2>3. CASE op = "post"
    <3>1. \A c \in Children(src, p) : Seen(Append(p, c))
      BY <1>1, <1>2, <2>3, Zenon DEF CoveredAt
    <3> QED
      BY <1>3, <1>10, <3>1, SeenAll, Zenon
  <2> QED
    BY <1>4, <2>2, <2>3, Zenon
<1> QED
  BY <1>2, <1>3, <1>6, <1>7, <1>8, <1>9, <1>11, WalkReturns, Zenon

LEMMA VisitKeeps == ASSUME IInv, Visit PROVE IInv'
<1>1. /\ Walking /\ WalkAside /\ Top.at = "visit"
  BY WalkStepAside, Zenon DEF Visit, WalkAt
<1>2. PICK p : p = Way(Depth)
  BY Zenon
<1>3. PathIn(sb) = p /\ p \in Tree /\ Top \in FrameType
  <2>1. Top.at # "next"
    BY <1>1, Zenon
  <2> QED
    BY <1>1, <1>2, <2>1, PathIs, WalkTop, Zenon
<1>4. PICK answer \in {"cont", "skip", "stop", "fail"} :
        /\ visited' = Append(visited, [path |-> PathIn(sb), type |-> Top.type, answer |-> answer])
        /\ stop' = (stop \/ answer = "stop")
        /\ IF op = "pre" /\ answer = "cont"
           THEN Goto("open") /\ UNCHANGED << op, result, sb, open >>
           ELSE Defer(answer # "fail")
  BY Zenon DEF Visit
<1>5. PICK v : v = [path |-> p, type |-> Top.type, answer |-> answer]
  BY Zenon
<1>6. v \in VisitType /\ v.path = p /\ v.type = Top.type /\ v.answer = answer /\ visited' = Append(visited, v)
  <2>1. Top.type \in Kind \cup {"none"}
    BY <1>3, Fields, Zenon
  <2>2. v \in VisitType /\ v.path = p /\ v.type = Top.type /\ v.answer = answer
    BY <1>3, <1>5, <2>1 DEF VisitType
  <2> QED
    BY <1>3, <1>4, <1>5, <2>2, Zenon
<1>7. CASE op = "pre" /\ answer = "cont"
  <2>1. Goto("open") /\ op' = op /\ result' = result /\ sb' = sb /\ open' = open
    BY <1>4, <1>7, Zenon
  <2>2. stop' = stop
    <3>1. stop \in BOOLEAN /\ answer # "stop"
      BY <1>7, Zenon DEF IInv, Typed
    <3> QED
      BY <1>4, <3>1
  <2> QED
    BY <1>1, <1>2, <1>6, <1>7, <2>1, <2>2, VisitGoesOn, Zenon
<1>8. CASE ~(op = "pre" /\ answer = "cont")
  <2>1. Defer(v.answer # "fail") /\ stop' = (stop \/ v.answer = "stop") /\ ~(op = "pre" /\ v.answer = "cont")
    BY <1>4, <1>6, <1>8, Zenon
  <2> QED
    BY <1>1, <1>2, <1>6, <2>1, VisitReturns, Zenon
<1> QED
  BY <1>7, <1>8

\* In post-order the visit comes when the entries are through.
LEMMA GoesToVisit ==
  ASSUME IInv, Walking, WalkAside, op = "post", Goto("visit"), result, ~stop,
         op' = op, result' = result, open' = open, stop' = stop, visited' = visited,
         \/ sb' = sb /\ Len(sb) = Depth + 1
         \/ sb' = Cut(Top.mark),
         NEW p, p = Way(Depth), Top.at # "enter", \A c \in Children(src, p) : Seen(Append(p, c))
  PROVE  IInv'
<1>1. PICK d : d = Depth
  BY Zenon
<1>2. /\ Top = stack[d] /\ CallAt(d, p) /\ LastAt(d, p) /\ p \in Tree
  BY <1>1, WalkTop, Zenon
<1>3. PICK f : Went("visit", f)
  <2>1. "visit" \in Steps
    BY DEF Steps
  <2> QED
    BY <2>1, WentTo, Zenon
<1>4. /\ stack'[d] = f /\ f.at = "visit" /\ f.type = Top.type /\ f.mark = Top.mark /\ f.opened = Top.opened
      /\ Becomes(f)
  BY <1>1, <1>3, Zenon DEF Went, Alike
<1>5. VisitsOn(p) /\ VisitsInOrder' /\ src' = src /\ first' = first /\ refused \subseteq refused'
  BY NoVisit, Zenon DEF WalkAside
<1>6. CallAt(d, p)'
  BY <1>2, <1>4, <1>5, Zenon DEF CallAt, Told
<1>7. LastAt(d, p)'
  <2>1. Closed(stack[d])' = Closed(Top)
    BY <1>4, Zenon DEF Closed
  <2>2. Len(sb') = d + 1
    BY <1>1, CutIs, Zenon
  <2>3. open = d - 1 + Closed(Top)
    BY <1>2, Zenon DEF LastAt
  <2> QED
    BY <1>4, <2>1, <2>2, <2>3, Zenon DEF LastAt
<1>8. CoveredAt(d, p)'
  <2>1. \A c \in Children(src, p) : Seen(Append(p, c))'
    BY <1>5, SeenOn, Zenon
  <2> QED
    BY <1>4, <1>5, <2>1, Zenon DEF CoveredAt
<1>9. Answers' /\ open' \in Nat
  BY WalkFacts, Zenon DEF WalkInv, Answers, IInv, Typed
<1> QED
  BY <1>1, <1>4, <1>5, <1>6, <1>7, <1>8, <1>9, WalkTopped, Zenon

\* In pre-order the call returns then.
LEMMA Returns ==
  ASSUME IInv, Walking, WalkAside, Defer(TRUE), result, ~stop, stop' = stop, visited' = visited,
         NEW p, p = Way(Depth), SeenAt(p), \A c \in Children(src, p) : Seen(Append(p, c))
  PROVE  IInv'
<1>1. VisitsOn(p) /\ VisitsInOrder' /\ src' = src /\ first' = first /\ refused \subseteq refused'
  BY NoVisit, Zenon DEF WalkAside
<1>2. SeenAt(p)'
  BY <1>1, SeenOn, Zenon
<1>3. Seen(p)'
  BY <1>1, <1>2, SeenAll, Zenon
<1>4. Answers /\ stop \in BOOLEAN
  BY WalkFacts, Zenon DEF WalkInv, IInv, Typed
<1>5. \A k \in DOMAIN visited' :
        (visited'[k].answer = "fail" => ~TRUE) /\ (visited'[k].answer = "stop" => stop')
  BY <1>4, Zenon DEF Answers
<1> QED
  BY <1>1, <1>3, <1>4, <1>5, WalkReturns, Zenon

LEMMA OpenDirKeeps == ASSUME IInv, OpenDir PROVE IInv'
<1>1. /\ Walking /\ WalkAside /\ stop' = stop /\ visited' = visited /\ Top.at = "open"
  BY WalkStepAside, Zenon DEF OpenDir, WalkAt
<1>2. PICK d : d = Depth
  BY Zenon
<1>3. PICK p : p = Way(d)
  BY Zenon
<1>4. /\ Top = stack[d] /\ Top \in FrameType /\ CallAt(d, p) /\ LastAt(d, p)
      /\ (result /\ ~stop => CoveredAt(d, p)) /\ d \in DOMAIN stack /\ d \in Nat
  BY <1>1, <1>2, <1>3, WalkTop, Running, WalkFacts, Zenon
<1>5. result /\ ~stop /\ Len(sb) = d + 1 /\ ~Top.opened /\ open = d - 1 + Closed(Top)
      /\ Told(p, Top.type) /\ CoveredAt(d, p)
  BY <1>1, <1>4, Zenon DEF LastAt, CallAt
<1>6. PathIn(sb) = p
  <2>1. Top.at # "next"
    BY <1>1, Zenon
  <2> QED
    BY <1>1, <1>2, <1>3, <2>1, PathIs, Zenon
<1>7. /\ p \in Tree /\ src[p] \in {first.src[p], "none"} /\ Under(src) /\ src[p] \in Kind \cup {"none"}
      /\ Children(src, p) \subseteq Children(first.src, p)
  BY <1>1, <1>2, <1>3, WalkEntry, Zenon
<1>8. op \in {"pre", "post"} /\ (op = "pre" => SeenAt(p))
  BY <1>1, <1>4, <1>5, WalkFacts, Zenon DEF CoveredAt
<1>9. CASE Top.type # "directory" /\ AfterEntries /\ (op = "post" => UNCHANGED sb)
  <2>1. \A c \in Children(src, p) : Seen(Append(p, c))
    <3>1. ASSUME NEW c \in Children(src, p), NEW q \in Below(Append(p, c)) PROVE SeenAt(q)
      <4>1. src[p] = "directory" /\ Append(p, c) \in Tree
        BY <1>7, <3>1, ChildUnder, Zenon DEF Children
      <4>2. p \in refused
        BY <1>5, <1>7, <1>9, <4>1, Zenon DEF Told
      <4>3. q \in Below(p) /\ q # p
        <5>1. p \in Tree /\ Append(p, c) \in Tree /\ q \in Below(Append(p, c))
          BY <1>7, <3>1, <4>1, Zenon
        <5> QED
          BY ONLY <5>1, BelowChild, Zenon
      <4> QED
        BY <4>2, <4>3, Zenon DEF SeenAt, Below
    <3> QED
      BY <3>1, Zenon DEF Seen
  <2>2. CASE op = "post"
    <3>1. Goto("visit") /\ op' = op /\ result' = result /\ open' = open /\ sb' = sb
      BY <1>9, <2>2, Zenon DEF AfterEntries
    <3>2. Top.at # "enter"
      BY <1>1, Zenon
    <3> QED
      BY <1>1, <1>2, <1>3, <1>5, <2>1, <2>2, <3>1, <3>2, GoesToVisit, Zenon
  <2>3. CASE op = "pre"
    <3>1. Defer(TRUE)
      BY <1>9, <2>3, Zenon DEF AfterEntries
    <3> QED
      BY <1>1, <1>2, <1>3, <1>5, <1>8, <2>1, <2>3, <3>1, Returns, Zenon
  <2> QED
    BY <1>8, <2>2, <2>3, Zenon
<1>10. CASE /\ Top.type = "directory" /\ src[PathIn(sb)] = "directory"
            /\ stack' = [stack EXCEPT ![Len(stack)] =
                 [@ EXCEPT !.left = Children(src, PathIn(sb)), !.opened = TRUE, !.at = "next"]]
            /\ open' = open + 1
            /\ UNCHANGED << op, result, sb >>
  <2> DEFINE L == Children(src, p)
             f == [Top EXCEPT !.left = L, !.opened = TRUE, !.at = "next"]
  <2>1. Opens(Top, L, f)
    <3>1. L \in SUBSET Name
      BY Zenon DEF Children
    <3> QED
      BY <1>4, <3>1, FrameOpened, Zenon
  <2>2. stack' = [stack EXCEPT ![Len(stack)] = f]
    BY <1>2, <1>4, <1>6, <1>10, Zenon DEF Depth
  <2> HIDE DEF f
  <2>3. f \in FrameType /\ f.at = "next" /\ f.type = Top.type /\ f.mark = Top.mark /\ f.left = Children(src, p)
        /\ f.opened = TRUE
    BY <2>1, Zenon DEF Opens
  <2>4. op' = op /\ result' = result /\ sb' = sb /\ open' = open + 1
    BY <1>10, Zenon
  <2>5. Becomes(f)
    BY <2>2, <2>3, <2>4, Zenon DEF Becomes
  <2>6. stack'[d] = f /\ Depth' = Depth
    BY <1>1, <1>2, <2>5, BecomesIs, Zenon
  <2>7. VisitsOn(p) /\ VisitsInOrder' /\ src' = src /\ first' = first /\ refused \subseteq refused'
    BY <1>1, NoVisit, Zenon DEF WalkAside
  <2>8. ASSUME NEW c \in Children(src, p), NEW q, q = Append(p, c) PROVE Fresh(q)'
    <3>1. q \in Tree
      BY <2>8, Zenon DEF Children
    <3>2. ASSUME NEW k \in DOMAIN visited, IsPrefix(q, visited[k].path) PROVE FALSE
      <4>1. visited[k].path \in Tree
        <5>1. visited[k] \in VisitType
          BY <3>2 DEF IInv, Typed
        <5> QED
          BY <5>1 DEF VisitType
      <4>2. visited[k].path \in Below(q)
        BY <3>2, <4>1, Zenon DEF Below
      <4>3. visited[k].path \in Below(p) /\ visited[k].path # p
        <5>1. PICK b : b = visited[k].path
          BY Zenon
        <5>2. Append(p, c) \in Tree /\ b \in Below(Append(p, c)) /\ p \in Tree
          BY <1>7, <2>8, <3>1, <4>2, <5>1, Zenon
        <5>3. b \in Below(p) /\ b # p
          BY ONLY <5>2, BelowChild, Zenon
        <5> QED
          BY <5>1, <5>3, Zenon
      <4>4. IsPrefix(p, visited[k].path)
        BY <4>3, Zenon DEF Below
      <4>5. op = "pre" => visited[k].path = p
        BY <1>1, <1>4, <3>2, <4>4, Zenon DEF LastAt
      <4>6. op = "post" => Fresh(p)
        BY <1>1, <1>4, Zenon DEF LastAt
      <4> QED
        BY <1>8, <3>2, <4>3, <4>4, <4>5, <4>6, Zenon DEF Fresh
    <3> QED
      BY <1>1, <3>2, Zenon DEF Fresh
  <2>9. CallAt(d, p)'
    <3>1. f.mark = d + 1
      BY <1>4, <2>3, Zenon DEF CallAt, Told
    <3>2. op' = "post" => \A k \in DOMAIN visited' : visited'[k].path # p
      BY <1>1, <1>4, <2>4, Zenon DEF CallAt, Told
    <3>3. \A c \in f.left : Fresh(Append(p, c))'
      BY <2>3, <2>8, Zenon
    <3> QED
      BY <1>5, <1>7, <2>3, <2>6, <2>7, <3>1, <3>2, <3>3, Zenon DEF CallAt, Told
  <2>10. LastAt(d, p)'
    <3>1. open' = d - 1 + Closed(stack'[d])
      <4>1. Closed(Top) = 0 /\ Closed(stack'[d]) = 1
        BY <1>5, <2>3, <2>6, Zenon DEF Closed
      <4> QED
        BY <1>4, <1>5, <2>4, <4>1
    <3>2. Closed(stack[d])' = Closed(stack'[d])
      BY Zenon DEF Closed
    <3> QED
      BY <2>3, <2>6, <3>1, <3>2, Zenon DEF LastAt
  <2>11. CoveredAt(d, p)'
    <3>1. op = "pre" => SeenAt(p)'
      BY <1>8, <2>7, SeenOn, Zenon
    <3> QED
      BY <2>3, <2>4, <2>6, <2>7, <3>1, Zenon DEF CoveredAt
  <2>12. Answers' /\ open' \in Nat
    <3>1. Answers /\ open \in Nat
      BY <1>1, WalkFacts, Zenon DEF WalkInv, IInv, Typed
    <3>2. open' \in Nat
      BY <2>4, <3>1
    <3> QED
      BY <1>1, <2>4, <3>1, <3>2, Zenon DEF Answers
  <2> QED
    BY <1>1, <1>2, <1>3, <2>4, <2>5, <2>7, <2>9, <2>10, <2>11, <2>12, WalkTopped, Zenon
<1>11. CASE Defer(FALSE)
  BY <1>1, <1>2, <1>3, <1>5, <1>11, PlainReturn, Zenon
<1> QED
  BY <1>9, <1>10, <1>11, Zenon DEF OpenDir

LEMMA EntriesDoneKeeps == ASSUME IInv, EntriesDone PROVE IInv'
<1>1. /\ Walking /\ WalkAside /\ stop' = stop /\ visited' = visited /\ Top.at = "next"
  BY WalkStepAside, Zenon DEF EntriesDone, WalkAt
<1>2. PICK d : d = Depth
  BY Zenon
<1>3. PICK p : p = Way(d)
  BY Zenon
<1>4. /\ Top = stack[d] /\ (result /\ ~stop => CoveredAt(d, p)) /\ Answers /\ d \in Nat
      /\ op \in {"pre", "post"}
  BY <1>1, <1>2, <1>3, WalkTop, WalkFacts, Running, Zenon DEF WalkInv
<1>5. CASE ~result /\ Defer(FALSE)
  BY <1>1, <1>2, <1>3, <1>4, <1>5, PlainReturn, Zenon DEF Answers
<1>6. CASE result /\ stop /\ Defer(TRUE)
  BY <1>1, <1>2, <1>3, <1>6, PlainReturn, Zenon
<1>7. CASE result /\ ~stop /\ Defer(FALSE)
  BY <1>1, <1>2, <1>3, <1>7, PlainReturn, Zenon
<1>8. CASE result /\ ~stop /\ Top.left = {} /\ AfterEntries /\ (op = "post" => sb' = RestoredPath)
  <2>1. CoveredAt(d, p)
    BY <1>4, <1>8, Zenon
  <2>2. ~(d < Depth)
    BY <1>2, <1>4
  <2>3. \A c \in Children(src, p) : Seen(Append(p, c))
    <3>1. \A c : c \notin stack[d].left
      BY <1>4, <1>8, Zenon
    <3> QED
      BY <1>1, <1>4, <2>1, <2>2, <3>1, Zenon DEF CoveredAt
  <2>4. CASE op = "post"
    <3>1. Goto("visit") /\ op' = op /\ result' = result /\ open' = open /\ sb' = Cut(Top.mark)
      BY <1>8, <2>4, Zenon DEF AfterEntries, RestoredPath
    <3>2. Top.at # "enter"
      BY <1>1, Zenon
    <3> QED
      BY <1>1, <1>2, <1>3, <1>8, <2>3, <2>4, <3>1, <3>2, GoesToVisit, Zenon
  <2>5. CASE op = "pre"
    <3>1. Defer(TRUE)
      BY <1>8, <2>5, Zenon DEF AfterEntries
    <3>2. SeenAt(p)
      BY <1>1, <1>4, <2>1, <2>5, Zenon DEF CoveredAt
    <3> QED
      BY <1>1, <1>2, <1>3, <1>8, <2>3, <3>1, <3>2, Returns, Zenon
  <2> QED
    BY <1>4, <2>4, <2>5, Zenon
<1> QED
  BY <1>5, <1>6, <1>7, <1>8, Zenon DEF EntriesDone, Propagated

\* t is the first d of s and then a and b.
Longer(s, d, a, b, t) ==
  /\ Len(t) = d + 2 /\ t[d + 1] = a /\ t[d + 2] = b
  /\ \A j \in 1 .. d : t[j] = s[j]

LEMMA Lengthened ==
  ASSUME NEW S, NEW s \in Seq(S), NEW d \in Nat, d <= Len(s), NEW a \in S, NEW b \in S
  PROVE  Longer(s, d, a, b, SubSeq(s, 1, d) \o << a, b >>)
<1>1. PICK t \in Seq(S) : t = SubSeq(s, 1, d) /\ Len(t) = d /\ \A j \in 1 .. d : t[j] = s[j]
  <2>1. SubSeq(s, 1, d) \in Seq(S) /\ Len(SubSeq(s, 1, d)) = d /\ \A j \in 1 .. d : SubSeq(s, 1, d)[j] = s[j]
    OBVIOUS
  <2> QED
    BY <2>1, Zenon
<1>2. Len(t \o << a, b >>) = d + 2 /\ (t \o << a, b >>)[d + 1] = a /\ (t \o << a, b >>)[d + 2] = b
      /\ \A j \in 1 .. d : (t \o << a, b >>)[j] = t[j]
  BY <1>1
<1> QED
  BY <1>1, <1>2, Zenon DEF Longer

\* The calls go on with one entry less to come to.
LEMMA EntryTaken ==
  ASSUME IInv, Walking, WalkAside, Top.at = "next", op' = op, visited' = visited,
         NEW n \in Top.left, NEW f, Leaves(Top, Top.left \ {n}, f),
         NEW d, d = Depth, stack'[d] = f, NEW p, p = Way(d)
  PROVE  CallAt(d, p)' /\ f.at = "next" /\ f.left = Top.left \ {n} /\ f.mark = Top.mark /\ f.opened
<1>1. /\ Top = stack[d] /\ CallAt(d, p)
  BY WalkTop, Zenon
<1>2. /\ f.at = "next" /\ f.left = Top.left \ {n} /\ f.mark = Top.mark /\ f.opened = Top.opened /\ f.type = Top.type
  BY Zenon DEF Leaves
<1>3. src' = src /\ first' = first /\ refused \subseteq refused'
  BY Zenon DEF WalkAside
<1>4. f.opened /\ f.mark = d + 1
  BY <1>1, <1>2, Zenon DEF CallAt, Told
<1>5. \A c \in f.left : c \in Children(first.src, p) /\ Fresh(Append(p, c))'
  <2>1. ASSUME NEW q, Fresh(q) PROVE Fresh(q)'
    BY <2>1, Zenon DEF Fresh
  <2> QED
    BY <1>1, <1>2, <2>1, Zenon DEF CallAt, Told
<1>6. CallAt(d, p)'
  BY <1>1, <1>2, <1>3, <1>4, <1>5, Zenon DEF CallAt, Told
<1> QED
  BY <1>2, <1>4, <1>6, Zenon

LEMMA EntryGone ==
  ASSUME IInv, Walking, WalkAside, Top.at = "next", result, ~stop,
         NEW n \in Top.left, NEW f, Leaves(Top, Top.left \ {n}, f), Becomes(f),
         sb' = sb, op' = op, result' = result, open' = open, stop' = stop, visited' = visited,
         NEW p, p = Way(Depth), src[Append(p, n)] = "none"
  PROVE  IInv'
<1>1. PICK d : d = Depth
  BY Zenon
<1>2. Top = stack[d] /\ LastAt(d, p) /\ CoveredAt(d, p)
  BY <1>1, WalkTop, Zenon
<1>3. stack'[d] = f /\ Depth' = Depth
  BY <1>1, BecomesIs, Zenon
<1>4. CallAt(d, p)' /\ f.at = "next" /\ f.left = Top.left \ {n} /\ f.mark = Top.mark /\ f.opened
  BY <1>1, <1>3, EntryTaken, Zenon
<1>5. VisitsOn(p) /\ VisitsInOrder' /\ src' = src /\ first' = first /\ refused \subseteq refused'
  BY NoVisit, Zenon DEF WalkAside
<1>6. LastAt(d, p)'
  <2>1. Closed(stack[d])' = Closed(Top)
    <3>1. Top.opened
      BY <1>1, WalkTop, Zenon DEF CallAt
    <3> QED
      BY <1>3, <1>4, <3>1, Zenon DEF Closed
  <2>2. open' = d - 1 + Closed(Top)
    BY <1>2, Zenon DEF LastAt
  <2> QED
    BY <1>3, <1>4, <2>1, <2>2, Zenon DEF LastAt
<1>7. CoveredAt(d, p)'
  <2>1. \A q : (SeenAt(q) => SeenAt(q)') /\ (Seen(q) => Seen(q)')
    BY <1>5, SeenOn, Zenon
  <2>2. n \notin Children(src, p)
    BY Zenon DEF Children
  <2>3. \A c \in Children(src, p) : c \in f.left \/ (d < Depth /\ sb[d + 1] = c) \/ Seen(Append(p, c))'
    BY <1>2, <1>4, <2>1, <2>2, Zenon DEF CoveredAt
  <2>4. op = "pre" => SeenAt(p)'
    BY <1>2, <2>1, Zenon DEF CoveredAt
  <2> QED
    BY <1>3, <1>4, <1>5, <2>3, <2>4, Zenon DEF CoveredAt
<1>8. Answers' /\ open' \in Nat
  BY WalkFacts, Zenon DEF WalkInv, Answers, IInv, Typed
<1> QED
  BY <1>1, <1>4, <1>5, <1>6, <1>7, <1>8, WalkTopped, Zenon

\* The walk goes down to the entry.
LEMMA EntryCalled ==
  ASSUME IInv, Walking, WalkAside, Top.at = "next", result, ~stop,
         NEW n \in Top.left, NEW f, Leaves(Top, Top.left \ {n}, f),
         NEW rest, rest = [stack EXCEPT ![Len(stack)] = f],
         NEW g \in FrameType, g.at = "enter", g.mark = Top.mark + 1, g.left = {}, g.opened = FALSE,
         stack' = Append(rest, g), sb' = SubSeq(sb, 1, Top.mark - 1) \o << n, NUL >>,
         op' = op, result' = result, open' = open, stop' = stop, visited' = visited
  PROVE  IInv'
<1>1. PICK d : d = Depth
  BY Zenon
<1>2. PICK p : p = Way(d)
  BY Zenon
<1>3. PICK e : e = d + 1
  BY Zenon
<1>4. PICK q : q = Append(p, n)
  BY Zenon
<1>5. /\ Top = stack[d] /\ CallAt(d, p) /\ LastAt(d, p) /\ CoveredAt(d, p) /\ p \in Tree
      /\ Top.mark = d + 1 /\ d \in Nat /\ d >= 1 /\ stack # << >> /\ stack \in Seq(FrameType)
      /\ Top.at = "next" /\ d \in 1 .. d
  BY <1>1, <1>2, WalkTop, Running, WalkFacts, Zenon
<1>6. n \in Children(first.src, p) /\ Fresh(q) /\ Top.opened /\ q \in Tree /\ n \in Name
  BY <1>4, <1>5, Zenon DEF CallAt, Children
<1>7. /\ stack' \in Seq(FrameType) /\ Depth' = e /\ stack'[d] = f /\ stack'[e] = g
      /\ \A i \in 1 .. d - 1 : stack'[i] = stack[i]
  <2>1. f \in FrameType
    BY Zenon DEF Leaves
  <2>2. rest \in Seq(FrameType) /\ Topped(stack, f, rest)
    BY <1>5, <2>1, Tops, Zenon
  <2>3. stack' \in Seq(FrameType) /\ Pushed(rest, g, stack')
    BY <2>2, Pushes, Zenon
  <2>4. Len(rest) = d /\ rest[d] = f /\ \A i \in 1 .. d - 1 : rest[i] = stack[i]
    BY <1>1, <2>2, Zenon DEF Topped, Depth
  <2>5. Depth' = e /\ stack'[e] = g /\ \A i \in 1 .. d : stack'[i] = rest[i]
    BY <1>3, <2>3, <2>4, Zenon DEF Pushed, Depth
  <2>6. \A i \in 1 .. d - 1 : i \in 1 .. d
    BY <1>5
  <2> QED
    BY <1>5, <2>3, <2>4, <2>5, <2>6, Zenon
<1>8. /\ sb' \in Seq(Letter) /\ Len(sb') = d + 2 /\ sb'[d + 1] = n /\ sb'[d + 2] = NUL
      /\ \A j \in 1 .. d : sb'[j] = sb[j]
  <2>1. sb \in Seq(Letter) /\ Len(sb) >= d + 1 /\ Len(sb) \in Nat
    BY <1>1, WalkFacts, Zenon
  <2>2. n \in Letter /\ NUL \in Letter /\ Top.mark - 1 = d
    BY <1>5, <1>6 DEF Letter
  <2>3. sb' = SubSeq(sb, 1, d) \o << n, NUL >>
    BY <2>2, Zenon
  <2>4. d <= Len(sb) /\ d \in Nat
    BY <1>5, <2>1
  <2>5. Longer(sb, d, n, NUL, sb')
    <3>1. Longer(sb, d, n, NUL, SubSeq(sb, 1, d) \o << n, NUL >>)
      BY ONLY <2>1, <2>2, <2>4, Lengthened, Zenon
    <3> QED
      BY ONLY <2>3, <3>1, Zenon
  <2>6. sb' \in Seq(Letter)
    <3>1. SubSeq(sb, 1, d) \in Seq(Letter) /\ << n, NUL >> \in Seq(Letter)
      BY ONLY <2>1, <2>2, <2>4
    <3> QED
      BY ONLY <2>3, <3>1
  <2> QED
    BY <2>5, <2>6, Zenon DEF Longer
<1>9. Above
  <2>1. Len(sb') >= Depth
    BY <1>1, <1>5, <1>8
  <2> QED
    BY <1>1, <1>7, <1>8, <2>1, Zenon DEF Above
<1>10. VisitsOn(Way(Depth)) /\ VisitsInOrder' /\ src' = src /\ first' = first /\ refused \subseteq refused'
  BY NoVisit, Zenon DEF WalkAside
<1>11. /\ stack' # << >> /\ DOMAIN stack' = 1 .. e /\ e \in Nat
       /\ \A i \in 1 .. e : i = e \/ i = d \/ i \in 1 .. d - 1
       /\ d < e /\ d # e /\ ~(e < e) /\ \A i \in 1 .. d - 1 : i # e
  <2>1. stack' # << >>
    BY <1>3, <1>5, <1>7 DEF Depth
  <2>2. DOMAIN stack' = 1 .. e
    BY <1>7, <2>1, RunningPrimed, Zenon
  <2> QED
    BY <1>3, <1>5, <2>1, <2>2
<1>12. SubSeq(sb', 2, d) = p /\ SubSeq(sb', 2, e) = q
  <2>1. d <= Len(sb) /\ d <= Len(sb') /\ d \in 1 .. Len(sb') /\ d < Len(sb') /\ sb \in Seq(Letter)
    <3>1. sb \in Seq(Letter) /\ Len(sb) >= d + 1 /\ Len(sb) \in Nat
      BY <1>1, WalkFacts, Zenon
    <3> QED
      BY <1>5, <1>8, <3>1
  <2>2. SubSeq(sb', 2, d) = SubSeq(sb, 2, d)
    <3>1. /\ sb' \in Seq(Letter) /\ sb \in Seq(Letter) /\ d <= Len(sb) /\ d <= Len(sb') /\ d \in 1 .. d /\ d \in Nat
          /\ \A j \in 1 .. d : sb'[j] = sb[j]
      BY <1>5, <1>8, <2>1, Zenon
    <3> QED
      BY ONLY <3>1, SamePart, Zenon
  <2>3. SubSeq(sb', 2, d + 1) = Append(SubSeq(sb', 2, d), sb'[d + 1])
    BY <1>8, <2>1, PartOf, Zenon
  <2> QED
    BY <1>2, <1>3, <1>4, <1>8, <2>2, <2>3, Zenon DEF Way
<1>13. PathHeld'
  <2>1. Len(sb') = Depth' + 1 /\ \A j \in 2 .. Len(sb') - 1 : j = d + 1 \/ (j \in 1 .. d /\ j \in 2 .. Len(sb) - 1)
    <3>1. Len(sb) \in Nat /\ Len(sb) >= d + 1 /\ Depth' = d + 1 /\ d \in Nat /\ Len(sb') = d + 2
      BY <1>1, <1>3, <1>5, <1>7, <1>8, WalkFacts, Zenon
    <3>2. d = 0 \/ d >= 1
      BY <3>1
    <3> QED
      BY ONLY <3>1, <3>2
  <2>2. 1 \in 1 .. d
    BY <1>5
  <2>3. Len(sb') = d + 2 => sb'[Len(sb')] = NUL
    BY <1>8, Zenon
  <2> QED
    BY <1>6, <1>7, <1>8, <1>12, <2>1, <2>2, <2>3, WalkFacts, Zenon DEF PathHeld, WalkInv, Way
<1>14. CallAt(d, p)' /\ f.at = "next" /\ f.left = Top.left \ {n} /\ f.mark = Top.mark /\ f.opened
  <2>1. stack'[d] = f
    BY <1>7, Zenon
  <2> QED
    BY ONLY IInv, Walking, WalkAside, Top.at = "next", op' = op, visited' = visited, n \in Top.left,
       Leaves(Top, Top.left \ {n}, f), <1>1, <1>2, <2>1, EntryTaken, Zenon
<1>15. LoopAt(d)'
  BY <1>7, <1>8, <1>14, Zenon DEF LoopAt
<1>16. \A r : (SeenAt(r) => SeenAt(r)') /\ (Seen(r) => Seen(r)')
  BY <1>10, SeenOn, Zenon
<1>17. CoveredAt(d, p)'
  <2>1. \A c \in Children(src, p) : c \in f.left \/ c = n \/ Seen(Append(p, c))'
    <3>1. ~(d < Depth)
      BY <1>1, <1>5
    <3> QED
      BY <1>5, <1>14, <1>16, <3>1, Zenon DEF CoveredAt
  <2>2. op = "pre" => SeenAt(p)'
    BY <1>5, <1>16, Zenon DEF CoveredAt
  <2> QED
    <3>1. stack'[d] = f /\ d < Depth' /\ sb'[d + 1] = n /\ src' = src /\ f.at = "next"
      <4>1. d < Depth'
        <5>1. d < e /\ Depth' = e
          BY <1>7, <1>11, Zenon
        <5> QED
          BY ONLY <5>1
      <4>2. stack'[d] = f /\ sb'[d + 1] = n /\ src' = src
        BY <1>7, <1>8, <1>10, Zenon
      <4> QED
        BY <1>14, <4>1, <4>2, Zenon
    <3> QED
      BY ONLY <2>1, <2>2, <3>1, op' = op, Zenon DEF CoveredAt
<1>18. Fresh(q)'
  BY <1>6, Zenon DEF Fresh
<1>19. CallAt(e, q)'
  <2>1. \A k \in DOMAIN visited' : visited'[k].path # q
    BY <1>6, <1>18, PrefixSelf, Zenon DEF Fresh
  <2>2. g.mark = e + 1
    BY <1>3, <1>5
  <2> QED
    BY <1>7, <2>1, <2>2, Zenon DEF CallAt
<1>20. LastAt(e, q)'
  <2>1. open' = e - 1 + Closed(stack'[e])
    <3>1. open = d - 1 + Closed(Top) /\ Closed(Top) = 1 /\ Closed(stack'[e]) = 0
      BY <1>5, <1>6, <1>7, Zenon DEF LastAt, Closed
    <3>2. d \in Nat /\ open' = open
      BY <1>5, Zenon
    <3> QED
      BY ONLY <1>3, <3>1, <3>2
  <2>2. Closed(stack[e])' = Closed(stack'[e])
    BY Zenon DEF Closed
  <2>3. Len(sb') = e + 1
    BY <1>3, <1>5, <1>8
  <2> QED
    BY <1>7, <1>18, <2>1, <2>2, <2>3, Zenon DEF LastAt
<1>21. CoveredAt(e, q)'
  BY <1>7, Zenon DEF CoveredAt
<1>22. ASSUME NEW i \in 1 .. d - 1, NEW r \in Tree, r = Way(i)'
       PROVE  CallAt(i, r)' /\ LoopAt(i)' /\ CoveredAt(i, r)'
  <2>1. r = Way(i) /\ LoopAt(i)' /\ CallAt(i, r)'
    BY <1>1, <1>9, <1>10, <1>22, AboveKept, AboveCall, Zenon
  <2>2. /\ \A c \in Children(src', r) :
             c \in stack'[i].left \/ sb'[i + 1] = c \/ Seen(Append(r, c))'
        /\ op = "pre" => SeenAt(r)'
    BY <1>1, <1>9, <1>10, <1>22, <2>1, AboveCovered, Zenon
  <2>3. stack'[i].at = "next" /\ i < Depth'
    <3>1. i < e
      BY <1>3, <1>5
    <3> QED
      BY <1>7, <2>1, <3>1, Zenon DEF LoopAt
  <2> QED
    BY <2>1, <2>2, <2>3, Zenon DEF CoveredAt
<1>23. ASSUME NEW r \in Tree PROVE (r = Way(d)' => r = p) /\ (r = Way(e)' => r = q)
  BY <1>12, Zenon DEF Way
<1>24. \A i \in DOMAIN stack', r \in Tree : r = Way(i)' =>
         /\ CallAt(i, r)'
         /\ i < Depth' => LoopAt(i)'
         /\ i = Depth' => LastAt(i, r)'
         /\ CoveredAt(i, r)'
  BY <1>7, <1>11, <1>14, <1>15, <1>17, <1>19, <1>20, <1>21, <1>22, <1>23, Zenon
<1>25. Answers' /\ open' \in Nat /\ result' \in BOOLEAN /\ stop' \in BOOLEAN /\ visited' \in Seq(VisitType)
  BY WalkFacts, Zenon DEF WalkInv, Answers, IInv, Typed
<1>26. WalkInv'
  BY <1>13, <1>24, <1>25, Zenon DEF WalkInv
<1> QED
  BY <1>7, <1>8, <1>10, <1>11, <1>25, <1>26, WalkGoesOn, Zenon

LEMMA NextEntryKeeps == ASSUME IInv, NextEntry PROVE IInv'
<1>1. /\ Walking /\ WalkAside /\ stop' = stop /\ visited' = visited /\ Top.at = "next" /\ result /\ ~stop
      /\ op' = op /\ result' = result /\ open' = open
  BY WalkStepAside, Zenon DEF NextEntry, WalkAt
<1>2. PICK p : p = Way(Depth)
  BY Zenon
<1>3. /\ Top \in FrameType /\ Depth \in DOMAIN stack /\ Top = stack[Depth] /\ Top.left \in SUBSET Name
      /\ Top.mark \in Nat /\ used \in Nat
  <2>1. used \in 0 .. TempLimit /\ TempLimit \in Nat
    BY TreeAssumption, Zenon DEF IInv, Typed
  <2>2. used \in Nat
    BY <2>1
  <2> QED
    BY <1>1, <2>2, WalkTop, Fields, Zenon
<1>4. PICK n \in Top.left :
        LET rest == [stack EXCEPT ![Len(stack)].left = @ \ {n}]
        IN  \/ /\ sb' = SubSeq(sb, 1, Top.mark - 1) \o << n, NUL >>
               /\ stack' = Append(rest, [Frame(<< >>) EXCEPT !.mark = Top.mark + 1])
            \/ /\ src[Append(PathIn(Cut(Top.mark)), n)] = "none"
               /\ stack' = rest
               /\ sb' = sb
  BY Zenon DEF NextEntry
<1> DEFINE f == [Top EXCEPT !.left = Top.left \ {n}]
           rest == [stack EXCEPT ![Len(stack)].left = @ \ {n}]
<1>5. Leaves(Top, Top.left \ {n}, f)
  <2>1. Top.left \ {n} \in SUBSET Name
    BY <1>3, Zenon
  <2> QED
    BY <1>3, <2>1, FrameLeft, Zenon
<1>6. rest = [stack EXCEPT ![Len(stack)] = f]
  BY <1>3, PathExcept, Zenon DEF Depth
<1> HIDE DEF f, rest
<1>7. f \in FrameType /\ f.mark = Top.mark
  BY <1>5, Zenon DEF Leaves
<1>8. CASE /\ src[Append(PathIn(Cut(Top.mark)), n)] = "none"
           /\ stack' = rest
           /\ sb' = sb
  <2>1. src[Append(p, n)] = "none"
    BY <1>1, <1>2, <1>8, CutIs, Zenon
  <2>2. Becomes(f)
    BY <1>6, <1>7, <1>8, Zenon DEF Becomes
  <2> QED
    BY <1>1, <1>2, <1>5, <1>8, <2>1, <2>2, EntryGone, Zenon
<1>9. CASE /\ sb' = SubSeq(sb, 1, Top.mark - 1) \o << n, NUL >>
           /\ stack' = Append(rest, [Frame(<< >>) EXCEPT !.mark = Top.mark + 1])
  <2>1. PICK m \in Nat : m = Top.mark + 1
    BY <1>3
  <2>2. PICK g : g = [Frame(<< >>) EXCEPT !.mark = m]
    BY Zenon
  <2>3. g \in FrameType /\ g.at = "enter" /\ g.mark = m /\ g.left = {} /\ g.opened = FALSE
    BY <1>3, <2>2, FrameMarked, Zenon
  <2>4. stack' = Append(rest, g)
    BY <1>9, <2>1, <2>2, Zenon
  <2> QED
    BY <1>1, <1>5, <1>6, <1>9, <2>1, <2>3, <2>4, EntryCalled, Zenon
<1> QED
  BY <1>4, <1>8, <1>9, Zenon DEF rest

-----------------------------------------------------------------------------
(* The calls begin, entries vanish, the program is over. *)

\* The stack of a call that begins.
LEMMA OneFrame ==
  ASSUME NEW g \in FrameType, NEW s, s = << g >>
  PROVE  /\ s \in Seq(FrameType) /\ s # << >> /\ Len(s) = 1 /\ DOMAIN s = 1 .. 1 /\ s[1] = g /\ Last(s) = g
         /\ \A i \in 1 .. 1 : i = 1
<1>1. s \in Seq(FrameType) /\ s # << >> /\ Len(s) = 1 /\ DOMAIN s = 1 .. 1 /\ s[1] = g /\ \A i \in 1 .. 1 : i = 1
  OBVIOUS
<1>2. Last(s) = g
  BY <1>1, Zenon DEF Last
<1> QED
  BY <1>1, <1>2, Zenon

LEMMA CallBegins ==
  ASSUME NEW c \in {"copy", "pre", "post"}, Typed, NEW f, f = Now(c)
  PROVE  f \in CallType /\ f.op = c /\ f.src = src /\ f.dst = dst /\ f.used = used
  BY DEF Typed, Now, CallType

LEMMA EmptyWay == << >> \in Tree /\ IsPrefix(<< >>, << >>)
<1>1. << >> \in Tree
  BY TreeAssumption, Zenon
<1> QED
  BY <1>1, PrefixSelf, Zenon

LEMMA CopyKeeps == ASSUME IInv, Copy PROVE IInv'
<1>1. /\ op = "idle" /\ op' = "copy" /\ stack' = << Frame(<< >>) >> /\ result' = TRUE /\ first' = Now("copy")
      /\ visited' = << >> /\ refused' = {} /\ sb' = << >> /\ stop' = FALSE /\ src' = src /\ dst' = dst /\ temp' = temp
      /\ used' = used /\ open' = open
  BY Zenon DEF Copy, memory
<1>2. Typed /\ open = 0 /\ used = first.used
  BY <1>1, Zenon DEF IInv, Calls
<1>3. used \in Nat /\ used <= TempLimit
  <2>1. TempLimit \in Nat /\ used \in 0 .. TempLimit
    BY <1>2, TreeAssumption, Zenon DEF Typed
  <2> QED
    BY <2>1
<1>4. PICK f : f = Now("copy")
  BY Zenon
<1>5. first' = f /\ f \in CallType /\ f.op = "copy" /\ f.src = src /\ f.dst = dst /\ f.used = used
  BY <1>1, <1>2, <1>4, CallBegins, Zenon
<1>6. PICK g : g = Frame(<< >>)
  BY Zenon
<1>7. /\ g \in FrameType /\ g.path = << >> /\ g.at = "enter" /\ g.mark = used /\ g.kids = << >>
  BY <1>3, <1>6, EmptyWay, FrameNew, Zenon
<1>8. /\ stack' \in Seq(FrameType) /\ stack' # << >> /\ Len(stack') = 1 /\ DOMAIN stack' = 1 .. 1
      /\ stack'[1] = g /\ Last(stack') = g /\ \A i \in 1 .. 1 : i = 1
  <2>1. stack' = << g >>
    BY <1>1, <1>6, Zenon
  <2> QED
    BY <1>7, <2>1, OneFrame, Zenon
<1>9. Depth' = 1 /\ Top' = g
  BY <1>8, Zenon DEF Depth, Top
<1>10. Typed'
  <2>1. << >> \in Seq(VisitType) /\ << >> \in Seq(Name \cup {"root", NUL})
    OBVIOUS
  <2> QED
    BY <1>1, <1>2, <1>5, <1>8, <2>1, Zenon DEF Typed
<1>11. Shrinks' /\ Calls'
  BY <1>1, <1>2, <1>5, <1>8, Zenon DEF Shrinks, Calls
<1>12. ~Walking' /\ CopiedAll' /\ AbortsForCause' /\ VisitsAll'
  BY <1>1, Zenon DEF Walking, CopiedAll, AbortsForCause, VisitsAll, Returned
<1>13. VisitsInOrder'
  <2>1. \A j \in DOMAIN visited' : FALSE
    BY <1>1
  <2> QED
    BY <2>1, Zenon DEF VisitsInOrder
<1>14. CopyStack'
  <2>1. \A i \in 1 .. Depth' - 1 : FALSE
    BY <1>9
  <2>2. \A i \in DOMAIN stack' : stack'[i] = g
    BY <1>8, Zenon
  <2> QED
    BY <1>1, <1>3, <1>5, <1>7, <1>8, <1>9, <2>1, <2>2, EmptyWay, Zenon DEF CopyStack
<1>15. Kids'
  <2>1. \A k \in DOMAIN g.kids : FALSE
    BY <1>7
  <2> QED
    BY <1>8, <2>1, Zenon DEF Kids
<1>16. Amount'
  <2>1. \A i \in 1 .. Depth' - 1 : FALSE
    BY <1>9
  <2> QED
    BY <1>1, <1>7, <1>9, <2>1, Zenon DEF Amount
<1>17. Faithful' /\ Going'
  BY <1>1, <1>5, <1>7, <1>8, Zenon DEF Faithful, Going, GoingAt
<1> QED
  BY <1>10, <1>11, <1>12, <1>13, <1>14, <1>15, <1>16, <1>17, Zenon DEF IInv, CopyInv

LEMMA WalkKeeps == ASSUME IInv, Walk PROVE IInv'
<1>1. PICK c \in {"pre", "post"} : op' = c
  BY Zenon DEF Walk
<1>2. /\ op = "idle" /\ stack' = << [Frame(<< >>) EXCEPT !.mark = 2] >> /\ result' = TRUE
      /\ first' = Now(c) /\ visited' = << >> /\ refused' = {} /\ sb' = << "root", NUL >> /\ stop' = FALSE /\ src' = src
      /\ dst' = dst /\ temp' = temp /\ used' = used /\ open' = open
  BY <1>1, Zenon DEF Walk, memory
<1>3. Typed /\ open = 0 /\ used = first.used
  BY <1>2, Zenon DEF IInv, Calls
<1>4. used \in Nat
  <2>1. TempLimit \in Nat /\ used \in 0 .. TempLimit
    BY <1>3, TreeAssumption, Zenon DEF Typed
  <2> QED
    BY <2>1
<1>5. first' \in CallType /\ first'.op = c /\ first'.src = src /\ first'.dst = dst /\ first'.used = used
  <2>1. PICK f : f = Now(c)
    BY Zenon
  <2>2. f \in CallType /\ f.op = c /\ f.src = src /\ f.dst = dst /\ f.used = used
    BY <1>1, <1>3, <2>1, CallBegins, Zenon
  <2> QED
    BY <1>2, <2>1, <2>2, Zenon
<1>6. PICK m \in Nat : m = 2
  BY Zenon
<1>7. PICK g : g = [Frame(<< >>) EXCEPT !.mark = m]
  BY Zenon
<1>8. g \in FrameType /\ g.at = "enter" /\ g.mark = m /\ g.left = {} /\ g.opened = FALSE
  BY <1>4, <1>6, <1>7, FrameMarked, Zenon
<1>9. /\ stack' \in Seq(FrameType) /\ stack' # << >> /\ Len(stack') = 1 /\ DOMAIN stack' = 1 .. 1
      /\ stack'[1] = g /\ Last(stack') = g /\ \A i \in 1 .. 1 : i = 1
  <2>1. stack' = << g >>
    BY <1>2, <1>6, <1>7, Zenon
  <2> QED
    BY <1>8, <2>1, OneFrame, Zenon
<1>10. Depth' = 1
  BY <1>9, Zenon DEF Depth
<1>11. /\ sb' \in Seq(Name \cup {"root", NUL}) /\ Len(sb') = 2 /\ sb'[1] = "root" /\ sb'[2] = NUL
       /\ SubSeq(sb', 2, 1) = << >> /\ \A j \in 2 .. Len(sb') - 1 : FALSE
  BY <1>2
<1>12. Typed'
  <2>1. << >> \in Seq(VisitType)
    OBVIOUS
  <2> QED
    BY <1>1, <1>2, <1>3, <1>5, <1>9, <1>11, <2>1, Zenon DEF Typed
<1>13. Shrinks' /\ Calls'
  BY <1>1, <1>2, <1>3, <1>5, <1>9, Zenon DEF Shrinks, Calls
<1>14. op' # "copy" /\ CopiedAll' /\ AbortsForCause' /\ VisitsAll'
  BY <1>1, Zenon DEF CopiedAll, AbortsForCause, VisitsAll, Returned
<1>15. \A j \in DOMAIN visited' : FALSE
  BY <1>2
<1>16. VisitsInOrder' /\ Answers'
  BY <1>2, <1>15, Zenon DEF VisitsInOrder, Answers
<1>17. PathHeld'
  <2>1. Len(sb') = Depth' + 1 /\ sb'[Len(sb')] = NUL
    BY <1>10, <1>11
  <2>2. SubSeq(sb', 2, Depth') \in Tree
    BY <1>10, <1>11, EmptyWay, Zenon
  <2> QED
    BY <1>11, <2>1, <2>2, Zenon DEF PathHeld, Way
<1>18. ASSUME NEW i \in DOMAIN stack', NEW p \in Tree, p = Way(i)'
       PROVE  /\ CallAt(i, p)'
              /\ ~(i < Depth')
              /\ LastAt(i, p)'
              /\ CoveredAt(i, p)'
  <2>1. i = 1 /\ stack'[i] = g
    BY <1>9, Zenon
  <2>2. CallAt(i, p)'
    <3>1. g.mark = i + 1
      BY <1>6, <1>8, <2>1
    <3> QED
      BY <1>8, <1>15, <2>1, <3>1, Zenon DEF CallAt
  <2>3. ~(i < Depth')
    BY <1>10, <2>1
  <2>4. LastAt(i, p)'
    <3>1. Closed(stack'[i]) = 0
      BY <1>8, <2>1, Zenon DEF Closed
    <3>2. open' = i - 1 + Closed(stack'[i]) /\ Len(sb') = i + 1
      BY ONLY <1>2, <1>3, <1>11, <2>1, <3>1
    <3>3. Closed(stack[i])' = Closed(stack'[i])
      BY Zenon DEF Closed
    <3>4. Fresh(p)'
      BY <1>15, Zenon DEF Fresh
    <3> QED
      BY <1>2, <1>8, <1>15, <2>1, <3>2, <3>3, <3>4, Zenon DEF LastAt
  <2>5. CoveredAt(i, p)'
    BY <1>8, <2>1, Zenon DEF CoveredAt
  <2> QED
    BY <2>2, <2>3, <2>4, <2>5, Zenon
<1>19. WalkInv'
  BY <1>16, <1>17, <1>18, Zenon DEF WalkInv
<1> QED
  BY <1>12, <1>13, <1>14, <1>16, <1>19, Zenon DEF IInv

\* What vanishes leaves a tree: nothing is left below what is gone.
LEMMA StaysTree ==
  ASSUME NEW t \in SourceTree, NEW p \in Tree,
         NEW u, u = [q \in Tree |-> IF q \in Below(p) THEN "none" ELSE t[q]]
  PROVE  u \in SourceTree /\ u[p] = "none" /\ \A q \in Tree : u[q] = t[q] \/ u[q] = "none"
<1>1. t \in [Tree -> Kind \cup {"none"}] /\ Under(t)
  BY Zenon DEF SourceTree
<1>2. \A q \in Tree : u[q] = IF q \in Below(p) THEN "none" ELSE t[q]
  BY Zenon
<1>3. u \in [Tree -> Kind \cup {"none"}]
  BY <1>1, Zenon
<1>4. ASSUME NEW q \in Tree, NEW r \in Below(q) \ {q}, u[r] # "none" PROVE u[q] = "directory"
  <2>1. r \in Tree /\ IsPrefix(q, r)
    BY Zenon DEF Below
  <2>2. r \notin Below(p) /\ u[r] = t[r]
    BY <1>2, <1>4, <2>1, Zenon
  <2>3. q \notin Below(p)
    <3>1. ASSUME IsPrefix(p, q) PROVE FALSE
      <4>1. IsPrefix(p, r)
        BY <2>1, <3>1, PrefixOn, Zenon
      <4> QED
        BY <2>1, <2>2, <4>1, Zenon DEF Below
    <3> QED
      BY <3>1, Zenon DEF Below
  <2>4. t[q] = "directory"
    BY <1>1, <1>4, <2>2, Zenon DEF Under
  <2> QED
    BY <1>2, <2>3, <2>4, Zenon
<1>5. Under(u)
  BY <1>4, Zenon DEF Under
<1>6. p \in Below(p)
  BY PrefixSelf, Zenon DEF Below
<1>7. u[p] = "none"
  BY <1>2, <1>6, Zenon
<1>8. \A q \in Tree : u[q] = t[q] \/ u[q] = "none"
  BY <1>2, Zenon
<1> QED
  BY <1>3, <1>5, <1>7, <1>8, Zenon DEF SourceTree

\* All but the source stays.
Still == /\ dst' = dst /\ op' = op /\ stack' = stack /\ result' = result /\ temp' = temp /\ used' = used
         /\ sb' = sb /\ stop' = stop /\ open' = open /\ visited' = visited /\ first' = first
         /\ refused' = refused
Fewer == \A q \in Tree : src'[q] = src[q] \/ src'[q] = "none"

LEMMA GoingKept ==
  ASSUME Still, Fewer PROVE Going => Going'
<1>1. dst' = dst /\ stack' = stack /\ temp' = temp /\ first' = first
  BY Zenon DEF Still
<1>2. ASSUME NEW q, Done(q) PROVE Done(q)'
  <2>1. ASSUME NEW r \in Below(q)
        PROVE  /\ src'[r] # "other"
               /\ src'[r] \in {"file", "directory"} =>
                    \/ dst[r] = src'[r]
                    \/ /\ src'[r] = "directory" /\ first.dst[r] \in {"file", "partial"}
                       /\ \A s \in Below(r) \ {r} : src'[s] \in {"none", "symlink"}
    <3>1. r \in Tree /\ (src'[r] = src[r] \/ src'[r] = "none")
      BY Zenon DEF Below, Fewer
    <3>2. src[r] # "other" /\ (src[r] \in {"file", "directory"} => Copied(r))
      BY <1>2, Zenon DEF Done
    <3>3. ASSUME \A s \in Below(r) \ {r} : src[s] \in {"none", "symlink"}
          PROVE  \A s \in Below(r) \ {r} : src'[s] \in {"none", "symlink"}
      BY <3>3, Zenon DEF Below, Fewer
    <3> QED
      BY <3>1, <3>2, <3>3, Zenon DEF Copied
  <2> QED
    BY <1>1, <2>1, Zenon DEF Done, Copied
<1>3. ASSUME NEW i \in DOMAIN stack, GoingAt(i) PROVE GoingAt(i)'
  <2>1. ASSUME stack[i].at = "loop", NEW c \in Children(src', stack[i].path),
               NEW q, q = Append(stack[i].path, c)
        PROVE  Pending(i, c)' \/ Current(i, q)' \/ Done(q)'
    <3>1. c \in Children(src, stack[i].path)
      BY <2>1, Zenon DEF Children, Fewer
    <3>2. Pending(i, c) \/ Current(i, q) \/ Done(q)
      BY <1>3, <2>1, <3>1, Zenon DEF GoingAt
    <3> QED
      BY <1>1, <1>2, <3>2, Zenon DEF Pending, Current, Depth
  <2>2. ASSUME stack[i].at = "loop", NEW c \in Children(src', stack[i].path)
        PROVE  Pending(i, c)' \/ Current(i, Append(stack[i].path, c))' \/ Done(Append(stack[i].path, c))'
    <3>1. PICK q : q = Append(stack[i].path, c)
      BY Zenon
    <3>2. Pending(i, c)' \/ Current(i, q)' \/ Done(q)'
      BY <2>1, <2>2, <3>1, Zenon
    <3>3. q = Append(stack'[i].path, c)
      BY <1>1, <3>1, Zenon
    <3>4. Current(i, q)' => Current(i, Append(stack[i].path, c))'
      BY ONLY <3>3, Zenon DEF Current, Depth
    <3>5. Done(q)' => Done(Append(stack[i].path, c))'
      BY ONLY <3>3, Zenon DEF Done, Copied
    <3> QED
      BY <3>2, <3>4, <3>5, Zenon
  <2> QED
    BY <1>1, <1>3, <2>2, Zenon DEF GoingAt
<1>4. Going => Going'
  BY <1>1, <1>3, Zenon DEF Going
<1> QED
  BY <1>4, Zenon

LEMMA VanishCopy ==
  ASSUME IInv, op = "copy", Still, Fewer, src' # first.src PROVE CopyInv'
<1>1. /\ CopyStack /\ Kids /\ Amount /\ (result => Faithful /\ Going)
  BY Zenon DEF IInv, CopyInv
<1>2. /\ dst' = dst /\ stack' = stack /\ result' = result /\ temp' = temp /\ used' = used /\ first' = first
  BY Zenon DEF Still
<1>3. CopyStack'
  BY <1>1, <1>2, Zenon DEF CopyStack, Depth, Top
<1>4. Kids'
  BY <1>1, <1>2, Zenon DEF Kids, Depth
<1>5. Amount'
  BY <1>2, Zenon DEF Amount
<1>6. Faithful => Faithful'
  BY <1>2, Zenon DEF Faithful
<1>7. Going => Going'
  BY GoingKept, Zenon
<1> QED
  BY <1>1, <1>2, <1>3, <1>4, <1>5, <1>6, <1>7, Zenon DEF CopyInv

LEMMA VanishWalk ==
  ASSUME IInv, Walking, Still, Fewer PROVE WalkInv'
<1>1. /\ PathHeld /\ Answers /\ WalkInv
  BY WalkFacts, Zenon DEF WalkInv
<1>2. /\ op' = op /\ stack' = stack /\ result' = result /\ sb' = sb /\ stop' = stop /\ open' = open
      /\ visited' = visited /\ first' = first /\ refused' = refused
  BY Zenon DEF Still
<1>3. PathHeld' /\ Answers'
  BY <1>1, <1>2, Zenon DEF PathHeld, Answers, Depth, Way
<1>4. ASSUME NEW q, Seen(q) PROVE Seen(q)'
  <2>1. ASSUME NEW r \in Below(q), src'[r] # "none" PROVE SeenAt(r)'
    <3>1. src[r] # "none"
      BY <2>1, Zenon DEF Fewer, Below
    <3> QED
      BY <1>2, <1>4, <3>1, Zenon DEF Seen, SeenAt
  <2> QED
    BY <2>1, Zenon DEF Seen
<1>5. ASSUME NEW i \in DOMAIN stack, NEW p \in Tree, p = SubSeq(sb, 2, i)
      PROVE  /\ CallAt(i, p)'
             /\ i < Depth' => LoopAt(i)'
             /\ i = Depth' => LastAt(i, p)'
             /\ result' /\ ~stop' => CoveredAt(i, p)'
  <2>1. /\ CallAt(i, p)
        /\ i < Depth => LoopAt(i)
        /\ i = Depth => LastAt(i, p)
        /\ result /\ ~stop => CoveredAt(i, p)
    BY <1>1, <1>5, Zenon DEF WalkInv, Way
  <2>2. CallAt(i, p)'
    <3>1. src[p] = "none" => src'[p] = "none"
      BY Zenon DEF Fewer
    <3>2. ASSUME NEW q, Fresh(q) PROVE Fresh(q)'
      BY <1>2, <3>2, Zenon DEF Fresh
    <3> QED
      BY <1>2, <2>1, <3>1, <3>2, Zenon DEF CallAt, Told
  <2>3. Depth' = Depth /\ (LoopAt(i) => LoopAt(i)')
    BY <1>2, Zenon DEF LoopAt, Depth
  <2>4. LastAt(i, p) => LastAt(i, p)'
    BY <1>2, Zenon DEF LastAt, Fresh, Closed
  <2>5. CoveredAt(i, p) => CoveredAt(i, p)'
    <3>1. Children(src', p) \subseteq Children(src, p)
      BY Zenon DEF Children, Fewer
    <3>2. SeenAt(p) => SeenAt(p)'
      BY <1>2, Zenon DEF SeenAt
    <3> QED
      BY <1>2, <1>4, <2>3, <3>1, <3>2, Zenon DEF CoveredAt
  <2> QED
    BY <1>2, <2>1, <2>2, <2>3, <2>4, <2>5, Zenon
<1>6. \A i \in DOMAIN stack', p \in Tree : p = Way(i)' =>
        /\ CallAt(i, p)'
        /\ i < Depth' => LoopAt(i)'
        /\ i = Depth' => LastAt(i, p)'
        /\ result' /\ ~stop' => CoveredAt(i, p)'
  BY <1>2, <1>5, Zenon DEF Way
<1> QED
  BY <1>3, <1>6, Zenon DEF WalkInv

LEMMA VanishKeeps == ASSUME IInv, Vanish PROVE IInv'
<1>1. Still /\ op # "idle" /\ src = first.src
  BY Zenon DEF Vanish, Still, memory
<1>2. PICK p \in Tree : src[p] # "none" /\ src' = [q \in Tree |-> IF q \in Below(p) THEN "none" ELSE src[q]]
  BY Zenon DEF Vanish
<1>3. Typed /\ src \in SourceTree
  BY Zenon DEF IInv, Typed
<1>4. src' \in SourceTree /\ src'[p] = "none" /\ \A q \in Tree : src'[q] = src[q] \/ src'[q] = "none"
  BY <1>2, <1>3, StaysTree, Zenon
<1>5. Fewer /\ src' # first.src
  BY <1>1, <1>2, <1>4, Zenon DEF Fewer
<1>6. /\ dst' = dst /\ op' = op /\ stack' = stack /\ result' = result /\ temp' = temp /\ used' = used
      /\ sb' = sb /\ stop' = stop /\ open' = open /\ visited' = visited /\ first' = first /\ refused' = refused
  BY <1>1, Zenon DEF Still
<1>7. Typed'
  BY <1>3, <1>4, <1>6, Zenon DEF Typed
<1>8. Shrinks'
  BY <1>1, <1>4, <1>6, Zenon DEF Shrinks
<1>9. Calls'
  BY <1>6, Zenon DEF IInv, Calls
<1>10. op' = "copy" => CopyInv'
  BY <1>1, <1>5, <1>6, VanishCopy, Zenon
<1>11. Walking' => WalkInv'
  <2>1. Walking' => Walking
    BY <1>6, Zenon DEF Walking
  <2> QED
    BY <1>1, <1>5, <2>1, VanishWalk, Zenon
<1>12. CopiedAll' /\ VisitsAll' /\ AbortsForCause'
  BY <1>1, <1>5, <1>6, Zenon DEF CopiedAll, VisitsAll, AbortsForCause, Returned
<1>13. VisitsInOrder'
  <2>1. ASSUME NEW j \in DOMAIN visited
        PROVE  \/ visited[j].type = first.src[visited[j].path]
               \/ /\ visited[j].type = "none"
                  /\ src'[visited[j].path] = "none" \/ visited[j].path \in refused
    <3>1. visited[j].path \in Tree
      <4>1. visited[j] \in VisitType
        BY <1>3, <2>1 DEF Typed
      <4> QED
        BY <4>1 DEF VisitType
    <3>2. \/ visited[j].type = first.src[visited[j].path]
          \/ /\ visited[j].type = "none"
             /\ src[visited[j].path] = "none" \/ visited[j].path \in refused
      BY <2>1, Zenon DEF IInv, VisitsInOrder
    <3> QED
      BY <1>4, <3>1, <3>2, Zenon
  <2> QED
    BY <1>6, <2>1, Zenon DEF IInv, VisitsInOrder
<1> QED
  BY <1>7, <1>8, <1>9, <1>10, <1>11, <1>12, <1>13, Zenon DEF IInv

LEMMA HeapFailsKeeps == ASSUME IInv, HeapFails PROVE IInv'
<1>1. /\ op' = "starved" /\ stack' = << >> /\ src' = src /\ dst' = dst /\ result' = result /\ temp' = temp
      /\ used' = used /\ sb' = sb /\ stop' = stop /\ open' = open /\ visited' = visited /\ first' = first
      /\ refused' = refused
  BY Zenon DEF HeapFails, memory
<1>2. << >> \in Seq(FrameType)
  OBVIOUS
<1>3. Typed' /\ Shrinks'
  BY <1>1, <1>2, Zenon DEF IInv, Typed, Shrinks
<1>4. Calls' /\ op' # "copy" /\ ~Walking' /\ CopiedAll' /\ AbortsForCause' /\ VisitsAll'
  BY <1>1, Zenon DEF Calls, Walking, CopiedAll, AbortsForCause, VisitsAll, Returned
<1>5. VisitsInOrder'
  BY <1>1, Zenon DEF IInv, VisitsInOrder
<1> QED
  BY <1>3, <1>4, <1>5, Zenon DEF IInv

LEMMA StutterKeeps == ASSUME IInv, UNCHANGED vars PROVE IInv'
<1>1. Still /\ src' = src
  BY Zenon DEF vars, memory, Still
<1>2. /\ src' = src /\ dst' = dst /\ op' = op /\ stack' = stack /\ result' = result /\ temp' = temp
      /\ used' = used /\ sb' = sb /\ stop' = stop /\ open' = open /\ visited' = visited /\ first' = first
      /\ refused' = refused
  BY <1>1, Zenon DEF Still
<1>3. Typed' /\ Shrinks' /\ Calls'
  BY <1>2, Zenon DEF IInv, Typed, Shrinks, Calls
<1>4. op' = "copy" => CopyInv'
  <2>1. op = "copy" => CopyInv
    BY Zenon DEF IInv
  <2>2. CopyStack => CopyStack'
    BY <1>2, Zenon DEF CopyStack, Depth, Top
  <2>3. Kids => Kids'
    BY <1>2, Zenon DEF Kids, Depth
  <2>4. Amount => Amount'
    BY <1>2, Zenon DEF Amount, Depth, Top
  <2>5. Faithful => Faithful'
    BY <1>2, Zenon DEF Faithful
  <2>6. Going => Going'
    <3>1. Fewer
      BY <1>2, Zenon DEF Fewer
    <3> QED
      BY <1>1, <3>1, GoingKept, Zenon
  <2> QED
    BY <1>2, <2>1, <2>2, <2>3, <2>4, <2>5, <2>6, Zenon DEF CopyInv
<1>5. Walking' => WalkInv'
  <2>1. Walking' => Walking
    BY <1>2, Zenon DEF Walking
  <2>2. Fewer
    BY <1>2, Zenon DEF Fewer
  <2> QED
    BY <1>1, <2>1, <2>2, VanishWalk, Zenon
<1>6. CopiedAll'
  BY <1>2, Zenon DEF IInv, CopiedAll, Returned
<1>7. AbortsForCause'
  BY <1>2, Zenon DEF IInv, AbortsForCause
<1>8. VisitsInOrder'
  BY <1>2, Zenon DEF IInv, VisitsInOrder
<1>9. VisitsAll'
  BY <1>2, Zenon DEF IInv, VisitsAll, Returned
<1> QED
  BY <1>3, <1>4, <1>5, <1>6, <1>7, <1>8, <1>9, Zenon DEF IInv

-----------------------------------------------------------------------------
(* The invariant holds of every behaviour. *)

LEMMA InitIInv == Init => IInv
<1> SUFFICES ASSUME Init PROVE IInv
  OBVIOUS
<1>1. /\ src \in Sources /\ dst \in Targets /\ op = "idle" /\ stack = << >> /\ result = TRUE
      /\ temp = [k \in 1 .. TempLimit |-> "."] /\ used \in {0, 1} /\ sb = << >> /\ stop = FALSE /\ open = 0
      /\ visited = << >> /\ first = Now("none") /\ refused = {}
  BY Zenon DEF Init
<1>2. src \in SourceTree /\ dst \in TargetTree /\ used \in 0 .. TempLimit
  <2>1. TempLimit \in Nat /\ TempLimit # 0
    BY TreeAssumption, Zenon
  <2>2. used \in 0 .. TempLimit
    BY <1>1, <2>1
  <2> QED
    BY <1>1, <2>2, TreeAssumption, Zenon
<1>3. PICK f : f = Now("none")
  BY Zenon
<1>4. f \in CallType /\ f.op = "none" /\ f.src = src /\ f.dst = dst /\ f.used = used
  BY <1>2, <1>3 DEF Now, CallType
<1>5. first = f
  BY <1>1, <1>3, Zenon
<1>6. Typed
  <2>1. << >> \in Seq(FrameType) /\ << >> \in Seq(Name \cup {"root", NUL}) /\ << >> \in Seq(VisitType) /\ 0 \in Nat
    OBVIOUS
  <2>2. temp \in [1 .. TempLimit -> Name \cup {"."}]
    BY <1>1, Zenon
  <2> QED
    BY <1>1, <1>2, <1>4, <1>5, <2>1, <2>2, Zenon DEF Typed
<1>7. Shrinks /\ Calls /\ ~Walking /\ op # "copy"
  BY <1>1, <1>4, <1>5, Zenon DEF Shrinks, Calls, Walking
<1>8. CopiedAll /\ AbortsForCause /\ VisitsAll
  BY <1>1, <1>4, <1>5, Zenon DEF CopiedAll, AbortsForCause, VisitsAll, Returned
<1>9. VisitsInOrder
  <2>1. \A j \in DOMAIN visited : FALSE
    BY <1>1
  <2> QED
    BY <2>1, Zenon DEF VisitsInOrder
<1> QED
  BY <1>6, <1>7, <1>8, <1>9, Zenon DEF IInv

LEMMA NextIInv == IInv /\ [Next]_vars => IInv'
<1> SUFFICES ASSUME IInv, [Next]_vars PROVE IInv'
  OBVIOUS
<1>1. CASE Copy
  BY <1>1, CopyKeeps, Zenon
<1>2. CASE Walk
  BY <1>2, WalkKeeps, Zenon
<1>3. CASE Step
  <2>1. CASE CopyEnter
    BY <2>1, CopyEnterKeeps, Zenon
  <2>2. CASE ReadEntireDir
    BY <2>2, ReadEntireDirKeeps, Zenon
  <2>3. CASE NextChild
    BY <2>3, NextChildKeeps, Zenon
  <2>4. CASE ChildrenDone
    BY <2>4, ChildrenDoneKeeps, Zenon
  <2>5. CASE CopyFile
    BY <2>5, CopyFileKeeps, Zenon
  <2>6. CASE WalkEnter
    BY <2>6, WalkEnterKeeps, Zenon
  <2>7. CASE Visit
    BY <2>7, VisitKeeps, Zenon
  <2>8. CASE OpenDir
    BY <2>8, OpenDirKeeps, Zenon
  <2>9. CASE NextEntry
    BY <2>9, NextEntryKeeps, Zenon
  <2>10. CASE EntriesDone
    BY <2>10, EntriesDoneKeeps, Zenon
  <2> QED
    BY <1>3, <2>1, <2>2, <2>3, <2>4, <2>5, <2>6, <2>7, <2>8, <2>9, <2>10, Zenon DEF Step
<1>4. CASE Vanish
  BY <1>4, VanishKeeps, Zenon
<1>5. CASE Over
  BY <1>5, StutterKeeps, Zenon DEF Over
<1>6. CASE HeapFails
  BY <1>6, HeapFailsKeeps, Zenon
<1>7. CASE UNCHANGED vars
  BY <1>7, StutterKeeps, Zenon
<1> QED
  BY <1>1, <1>2, <1>3, <1>4, <1>5, <1>6, <1>7, Zenon DEF Next

LEMMA Inductive == Spec => []IInv
  BY InitIInv, NextIInv, PTL DEF Spec

LEMMA TypesOf == IInv => TypeOK
<1> SUFFICES ASSUME IInv PROVE TypeOK
  OBVIOUS
<1>1. Typed
  BY Zenon DEF IInv
<1>2. src \in [Tree -> Kind \cup {"none"}] /\ dst \in [Tree -> {"none", "file", "partial", "directory"}]
  BY <1>1, Zenon DEF Typed, SourceTree, TargetTree
<1>3. ASSUME NEW f \in ToSet(stack)
      PROVE  /\ f.at \in {"enter", "list", "file", "loop", "visit", "open", "next"}
             /\ f.path \in Tree
             /\ f.mark \in Nat
             /\ f.kids \in Seq(1 .. TempLimit)
             /\ f.type \in Kind \cup {"none"}
             /\ f.left \subseteq Name
             /\ f.opened \in BOOLEAN
  <2>1. PICK i \in DOMAIN stack : f = stack[i]
    BY Zenon DEF ToSet
  <2>2. f \in FrameType
    BY <1>1, <2>1 DEF Typed
  <2> QED
    BY <2>2, Fields, Zenon DEF Steps
<1> QED
  BY <1>1, <1>2, <1>3, Zenon DEF Typed, TypeOK

\* The types of the variables: the kinds of the entries, the steps at which the frames of
\* nob_copy_directory_recursively() and of nob_walk_dir() can be, and nob_temp_size, which is
\* never above NOB_TEMP_CAPACITY.
THEOREM Types == Spec => []TypeOK
  BY Inductive, TypesOf, PTL

\* nob_copy_directory_recursively() that returns true has copied every directory and every
\* file that is still there to the end and nothing else, for any trees, whatever is in the
\* target, and whatever vanishes or fails meanwhile.
THEOREM CopiesAll == Spec => []CopiedAll
<1>1. IInv => CopiedAll
  BY Zenon DEF IInv
<1> QED
  BY <1>1, Inductive, PTL

\* However a copy or a walk returned, nob_temp_size is what it was before, no more and no
\* less, and each directory opened by nob_walk_dir() is closed.
THEOREM LeavesNothing == Spec => []NothingLeft
<1>1. IInv => NothingLeft
  BY Zenon DEF IInv, Calls, NothingLeft
<1> QED
  BY <1>1, Inductive, PTL

\* As long as the heap lasts, a copy ends the tool only since the lookup of an entry failed,
\* of one that is gone or of one that is there, or since the names in the directories from
\* the root down to one of the tree do not fit in nob_temp: what is kept of a directory is
\* given back when its call returns.
THEOREM AbortsOnlyForCause == Spec => []AbortsForCause
<1>1. IInv => AbortsForCause
  BY Zenon DEF IInv
<1> QED
  BY <1>1, Inductive, PTL

\* nob_walk_dir() gives its function no path twice, a directory before or after all that is
\* below it, and nothing after an answer that ends the walk: the one string builder, which
\* all calls share, holds the right path at every visit.  The type given with a path is what
\* the entry is, or -1 if it is gone or its lookup failed.
THEOREM VisitsKeepOrder == Spec => []VisitsInOrder
<1>1. IInv => VisitsInOrder
  BY Zenon DEF IInv
<1> QED
  BY <1>1, Inductive, PTL

\* nob_walk_dir() that returns true, and was not stopped, has given its function all that is
\* there to the end, but for what is below a directory whose lookup failed (which was given
\* itself, with type -1) or, in pre-order, was to be skipped; and it returns false when the
\* function failed.
THEOREM VisitsEverything == Spec => []VisitsAll
<1>1. IInv => VisitsAll
  BY Zenon DEF IInv
<1> QED
  BY <1>1, Inductive, PTL
==============================================================================
