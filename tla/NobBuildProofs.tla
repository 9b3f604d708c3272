-------------------------- MODULE NobBuildProofs ---------------------------
(***************************************************************************)
(* What holds of the commands of nob.c for any sources, tests and versions *)
(* and any number of changes of the sources, whatever fails and wherever   *)
(* the tool is killed.  The list of the steps that are left serves as the  *)
(* program counter: what a step may rely on is what the step before it in  *)
(* the list has done.                                                      *)
(***************************************************************************)
EXTENDS NobBuild, TLAPS, WellFoundedInduction

AllSteps == {"collect", "build dir", "objects", "ar", "link", "version", "mkdtemp", "layout",
             "headers", "copy a", "copy so", "tar", "rm", "tests dir", "collect tests", "tests",
             "checks", "docs dir", "doxyfile", "doxygen", "collect headers", "clang-format",
             "bear", "cppcheck", "ctags", "clean"}
Packing == {"version", "mkdtemp", "layout", "headers", "copy a", "copy so", "tar", "rm"}

In(s) == {s[k] : k \in DOMAIN s}

\* Where a command stands, and what it has still to do.
Step == IF steps = << >> THEN "none" ELSE Head(steps)
Rest == In(steps)

\* It goes on as it was meant to, or did so to its end.
Fine == verdict = "true" \/ (verdict = "running" /\ Step # "rm failed")

-----------------------------------------------------------------------------
(* The lists of steps. *)

\* Which step y comes behind which step x, for those that rely on it.
Follows(x, y) ==
  /\ x # "rm"
  /\ y \in {"ar", "link"} => x = "objects"
  /\ y = "objects" => x = "build dir"
  /\ y = "build dir" => x = "collect"
  /\ y \in {"tests", "checks"} => x = "collect tests"
  /\ y = "tests dir" => x = "build dir"
  /\ y # "docs dir"
  /\ y = "mkdtemp" => x = "version"
  /\ y = "layout" => x = "mkdtemp"
  /\ y = "headers" => x = "layout"
  /\ y = "copy a" => x = "headers"
  /\ y = "copy so" => x = "copy a"
  /\ y = "tar" => x = "copy so"
  /\ y = "rm" => x = "tar"

\* Every step has the one it relies on before it, and there is one archive to make.
Straight(s) ==
  /\ s \in Seq(AllSteps)
  /\ \A j, k \in 1 .. Len(s) : k = j + 1 => Follows(s[j], s[k])
  /\ \A j, k \in 1 .. Len(s) : s[j] = "ar" /\ s[k] = "ar" => j = k

\* Which command a step belongs to.
Owns(name, S) ==
  /\ "clean" \in S => name = "clean"
  /\ "ar" \in S \/ "link" \in S => name # "clean"
  /\ S \cap Packing # {} => name = "pack"
  /\ "tests" \in S => name = "test"
  /\ "checks" \in S => name \in {"valgrind", "strace"}
  /\ "tests dir" \in S => name \in {"test", "valgrind", "strace"}
  /\ "docs dir" \in S => name = "docs"
  /\ "build dir" \in S => name \notin {"valgrind", "strace", "docs"}
  /\ "objects" \in S => name # "test"

\* How a command ends.
Ends(name, x) ==
  /\ name = "pack" => x = "rm"
  /\ name \in {"test", "valgrind", "strace"} => x \in {"tests", "checks"}

\* What is to know of a list: the steps in it, the first and the last.
IsPlan(s, S, first, last) ==
  Straight(s) /\ In(s) = S /\ Len(s) > 0 /\ s[1] = first /\ s[Len(s)] = last

Planned(name, s) == Straight(s) /\ Owns(name, In(s)) /\ (s # << >> => Ends(name, s[Len(s)]))

\* How it begins.
Begins(name, x) ==
  /\ x \notin {"objects", "ar", "link", "tests", "checks", "rm failed"}
  /\ x \notin Packing
  /\ name = "test" <=> x = "build dir"
  /\ name \in {"valgrind", "strace"} => x = "tests dir"
  /\ name = "docs" => x = "docs dir"

-----------------------------------------------------------------------------
(* The inductive invariant. *)

Course ==
  /\ Fine => Planned(cmd.name, steps)
  /\ Step = "rm failed" => steps = << "rm failed" >> /\ stage.in

\* The sources collected and compiled are those of the time the command runs.
Sources ==
  /\ verdict = "running" => \A s \in Srcs : src[s] \in held[s]
  /\ Fine /\ (Step \in {"objects", "ar", "link"} \/ (Step = "build dir" /\ cmd.name # "test")) =>
       \A s \in Srcs \ names : 0 \in held[s]
  /\ Fine /\ Step = "objects" => left \subseteq names /\ \A s \in names \ left : obj[s] \in held[s]
  /\ Fine /\ Step \in {"ar", "link"} => \A s \in names : obj[s] \in held[s]

\* The libraries are current once their steps are done.
Libs ==
  /\ Fine /\ Has("link") /\ "link" \notin Rest => \A s \in Srcs : shared[s] \in held[s]
  /\ Fine /\ Has("ar") /\ "ar" \notin Rest => \A s \in Srcs :
       \/ archive[s] \in held[s]
       \/ 0 \in held[s] /\ archive[s] = begun.archive[s]
  /\ Fine /\ "ar" \in Rest => archive = begun.archive

\* A test not yet tried is still to come, and one that failed is not forgotten.
Tested ==
  /\ Fine /\ Step \in {"tests", "checks"} =>
       left \subseteq Tests /\ \A t \in Tests : tried[t] = "no" => t \in left
  /\ Fine => \A t \in Tests : tried[t] = "failed" => Step = "tests"
  /\ Fine /\ Step = "none" /\ cmd.name \in {"test", "valgrind", "strace"} =>
       \A t \in Tests : tried[t] = "ok"
  /\ Fine /\ cmd.name = "test" /\ Step # "build dir" => ".build" \in dirs
  /\ verdict = "false" /\ cmd.name = "test" /\ blame = {} => \A t \in Tests : tried[t] # "no"

\* What no run of it can do, said with the code's own test of the version.
Barred ==
  \/ cmd.name \in {"valgrind", "strace", "docs"} /\ ".build" \notin begun.dirs
  \/ cmd.name = "pack" /\ (cmd.prefix = "nowhere" \/ (cmd.version # << >> /\ ~IsValidSemver(cmd.version)))

Cause == Barred \/ blame \ {"rm"} # {} \/ \E t \in Tests : tried[t] = "failed"

\* What failed the command is kept, and what would have is ruled out on the way.
Caused ==
  /\ verdict = "false" \/ Step = "rm failed" => Cause
  /\ Fine => blame \subseteq {"rm"}
  /\ Fine /\ cmd.name \in {"valgrind", "strace", "docs"} =>
       IF Step \in {"tests dir", "docs dir"} THEN dirs = begun.dirs ELSE ".build" \in begun.dirs
  /\ Fine /\ cmd.name = "pack" /\ Step \in (Packing \ {"version"}) \cup {"none"} =>
       cmd.version = << >> \/ IsValidSemver(cmd.version)
  /\ Fine /\ cmd.name = "pack" /\ Step \in (Packing \ {"version", "mkdtemp", "layout"}) \cup {"none"} =>
       cmd.prefix # "nowhere"

\* The staging directory fills up step by step; what is left of a pack without it is outside.
Packed ==
  /\ stage.in => cmd.name = "pack" /\ (verdict \in {"running", "killed"} \/ "rm" \in blame)
  /\ stage # Absent => cmd.name = "pack" /\ (stage.in \/ cmd.prefix = "outside")
  /\ Fine /\ Step \in {"layout", "headers", "copy a", "copy so", "tar", "rm"} => stage.in
  /\ Fine /\ Step \in {"copy a", "copy so", "tar"} => stage.headers
  /\ Fine /\ Step \in {"copy so", "tar"} => stage.a = archive
  /\ Fine /\ Step = "tar" => stage.so = shared
  /\ Fine /\ (Step = "rm" \/ (Step = "none" /\ cmd.name = "pack")) =>
       tarball = [in |-> TRUE, headers |-> TRUE, a |-> archive, so |-> shared]

IInv == BuildTypeOK /\ Course /\ Sources /\ Libs /\ Tested /\ Caused /\ Packed

-----------------------------------------------------------------------------
(* What the lists of StepsOf() are. *)

LEMMA Joined ==
  ASSUME NEW S, NEW s \in Seq(S), NEW t \in Seq(S)
  PROVE  /\ s \o t \in Seq(S) /\ Len(s \o t) = Len(s) + Len(t)
         /\ \A k \in 1 .. Len(s \o t) : (s \o t)[k] = IF k <= Len(s) THEN s[k] ELSE t[k - Len(s)]
  OBVIOUS

LEMMA InList ==
  ASSUME NEW S, NEW s \in Seq(S) PROVE \A x : x \in In(s) <=> \E k \in 1 .. Len(s) : x = s[k]
<1>1. DOMAIN s = 1 .. Len(s)
  OBVIOUS
<1> QED
  BY <1>1, Zenon DEF In

\* Two lists, one behind the other, the second of which begins with a step that relies on none.
LEMMA JoinedPlans ==
  ASSUME NEW s, NEW S, NEW a, NEW b, IsPlan(s, S, a, b),
         NEW t, NEW T, NEW c, NEW d, IsPlan(t, T, c, d),
         Follows(b, c), "ar" \notin S \/ "ar" \notin T
  PROVE  IsPlan(s \o t, S \cup T, a, d)
<1> USE DEF IsPlan
<1> DEFINE u == s \o t
<1>1. s \in Seq(AllSteps) /\ t \in Seq(AllSteps)
  BY DEF Straight
<1>2. /\ u \in Seq(AllSteps) /\ Len(u) = Len(s) + Len(t)
      /\ \A k \in 1 .. Len(u) : u[k] = IF k <= Len(s) THEN s[k] ELSE t[k - Len(s)]
  BY <1>1, Joined
<1>3. Len(s) \in Nat /\ Len(t) \in Nat
  BY <1>1
<1> HIDE DEF u
<1>4. \A k \in 1 .. Len(u) : \/ k \in 1 .. Len(s) /\ u[k] = s[k]
                             \/ k - Len(s) \in 1 .. Len(t) /\ u[k] = t[k - Len(s)]
  BY <1>2, <1>3
<1>5. /\ \A k \in 1 .. Len(s) : k \in 1 .. Len(u) /\ u[k] = s[k]
      /\ \A k \in 1 .. Len(t) : k + Len(s) \in 1 .. Len(u) /\ u[k + Len(s)] = t[k]
  BY <1>2, <1>3
<1>6. In(u) = In(s) \cup In(t)
  <2>1. \A x : x \in In(u) <=> \E k \in 1 .. Len(u) : x = u[k]
    BY <1>2, InList, Zenon
  <2>2. \A x : x \in In(s) <=> \E k \in 1 .. Len(s) : x = s[k]
    BY <1>1, InList, Zenon
  <2>3. \A x : x \in In(t) <=> \E k \in 1 .. Len(t) : x = t[k]
    BY <1>1, InList, Zenon
  <2>4. ASSUME NEW x \in In(u) PROVE x \in In(s) \cup In(t)
    <3>1. PICK k \in 1 .. Len(u) : x = u[k]
      BY <2>1, Zenon
    <3>2. CASE k \in 1 .. Len(s) /\ u[k] = s[k]
      BY <2>2, <3>1, <3>2, Zenon
    <3>3. CASE k - Len(s) \in 1 .. Len(t) /\ u[k] = t[k - Len(s)]
      BY <2>3, <3>1, <3>3, Zenon
    <3> QED
      BY <1>4, <3>2, <3>3, Zenon
  <2>5. ASSUME NEW x \in In(s) \cup In(t) PROVE x \in In(u)
    <3>1. CASE x \in In(s)
      BY <1>5, <2>1, <2>2, <3>1, Zenon
    <3>2. CASE x \in In(t)
      <4>1. PICK k \in 1 .. Len(t) : x = t[k]
        BY <2>3, <3>2, Zenon
      <4>2. k + Len(s) \in 1 .. Len(u) /\ u[k + Len(s)] = x
        BY <1>5, <4>1, Zenon
      <4> QED
        BY <2>1, <4>2, Zenon
    <3> QED
      BY <2>5, <3>1, <3>2, Zenon
  <2> QED
    BY <2>4, <2>5, Zenon
<1>7. ASSUME NEW j \in 1 .. Len(u), NEW k \in 1 .. Len(u), k = j + 1 PROVE Follows(u[j], u[k])
  <2>1. CASE k \in 1 .. Len(s)
    <3>1. j \in 1 .. Len(s)
      BY <1>7, <2>1, <1>3
    <3> QED
      BY <1>5, <1>7, <2>1, <3>1 DEF Straight
  <2>2. CASE k = Len(s) + 1
    <3>1. u[j] = s[Len(s)] /\ u[k] = t[1]
      BY <1>2, <1>3, <1>7, <2>2
    <3> QED
      BY <3>1
  <2>3. CASE k > Len(s) + 1
    <3> DEFINE m == j - Len(s)
               n == k - Len(s)
    <3>1. j > Len(s) /\ k > Len(s) /\ n = m + 1
      BY <1>3, <1>7, <2>3
    <3>2. ~(j \in 1 .. Len(s)) /\ ~(k \in 1 .. Len(s))
      BY <1>3, <3>1
    <3>3. m \in 1 .. Len(t) /\ u[j] = t[m]
      BY <1>4, <3>2, Zenon
    <3>4. n \in 1 .. Len(t) /\ u[k] = t[n]
      BY <1>4, <3>2, Zenon
    <3> HIDE DEF m, n
    <3> QED
      BY <3>1, <3>3, <3>4, Zenon DEF Straight
  <2> QED
    BY <1>3, <1>7, <2>1, <2>2, <2>3
<1>8. ASSUME NEW j \in 1 .. Len(u), NEW k \in 1 .. Len(u), u[j] = "ar", u[k] = "ar" PROVE j = k
  <2>1. \A i \in 1 .. Len(u) :
           u[i] = "ar" => \/ i \in 1 .. Len(s) /\ s[i] = "ar" /\ "ar" \in In(s)
                          \/ i - Len(s) \in 1 .. Len(t) /\ t[i - Len(s)] = "ar" /\ "ar" \in In(t)
    BY <1>1, <1>4, InList, Zenon
  <2>2. CASE "ar" \notin In(t)
    BY <1>8, <2>1, <2>2, Zenon DEF Straight
  <2>3. CASE "ar" \notin In(s)
    <3>1. j - Len(s) = k - Len(s)
      BY <1>8, <2>1, <2>3, Zenon DEF Straight
    <3> QED
      BY <1>3, <3>1
  <2> QED
    BY <2>2, <2>3
<1>9. u[1] = s[1] /\ u[Len(u)] = t[Len(t)] /\ Len(u) > 0
  BY <1>2, <1>3
<1>10. Straight(u)
  BY <1>2, <1>7, <1>8, Zenon DEF Straight
<1> QED
  BY <1>6, <1>9, <1>10, Zenon DEF u

LEMMA Tuple1 ==
  ASSUME NEW S, NEW a \in S
  PROVE  << a >> \in Seq(S) /\ Len(<< a >>) = 1 /\ << a >>[1] = a
  OBVIOUS

LEMMA Tuple3 ==
  ASSUME NEW S, NEW a \in S, NEW b \in S, NEW c \in S
  PROVE  /\ << a, b, c >> \in Seq(S) /\ Len(<< a, b, c >>) = 3
         /\ << a, b, c >>[1] = a /\ << a, b, c >>[2] = b /\ << a, b, c >>[3] = c
  OBVIOUS

LEMMA Tuple4 ==
  ASSUME NEW S, NEW a \in S, NEW b \in S, NEW c \in S, NEW d \in S
  PROVE  /\ << a, b, c, d >> \in Seq(S) /\ Len(<< a, b, c, d >>) = 4
         /\ << a, b, c, d >>[1] = a /\ << a, b, c, d >>[2] = b /\ << a, b, c, d >>[3] = c
         /\ << a, b, c, d >>[4] = d
  OBVIOUS

LEMMA Tuple8 ==
  ASSUME NEW S, NEW a \in S, NEW b \in S, NEW c \in S, NEW d \in S,
         NEW e \in S, NEW f \in S, NEW g \in S, NEW h \in S
  PROVE  << a, b, c, d, e, f, g, h >> \in Seq(S)
  OBVIOUS

\* The places of short lists.
LEMMA Places3 ==
  /\ 1 \in 1 .. 3 /\ 2 \in 1 .. 3 /\ 3 \in 1 .. 3
  /\ \A k \in 1 .. 3 : k = 1 \/ k = 2 \/ k = 3
  /\ \A j, k \in 1 .. 3 : k = j + 1 => (j = 1 /\ k = 2) \/ (j = 2 /\ k = 3)
  OBVIOUS

LEMMA Places4 ==
  /\ 1 \in 1 .. 4 /\ 2 \in 1 .. 4 /\ 3 \in 1 .. 4 /\ 4 \in 1 .. 4
  /\ \A k \in 1 .. 4 : k = 1 \/ k = 2 \/ k = 3 \/ k = 4
  /\ \A j, k \in 1 .. 4 : k = j + 1 => (j = 1 /\ k = 2) \/ (j = 2 /\ k = 3) \/ (j = 3 /\ k = 4)
  OBVIOUS

LEMMA Places8 ==
  /\ 1 \in 1 .. 8 /\ 2 \in 1 .. 8 /\ 3 \in 1 .. 8 /\ 4 \in 1 .. 8
  /\ 5 \in 1 .. 8 /\ 6 \in 1 .. 8 /\ 7 \in 1 .. 8 /\ 8 \in 1 .. 8
  /\ \A k \in 1 .. 8 : k = 1 \/ k = 2 \/ k = 3 \/ k = 4 \/ k = 5 \/ k = 6 \/ k = 7 \/ k = 8
  /\ \A j, k \in 1 .. 8 :
       k = j + 1 => \/ j = 1 /\ k = 2
                    \/ j = 2 /\ k = 3
                    \/ j = 3 /\ k = 4
                    \/ j = 4 /\ k = 5
                    \/ j = 5 /\ k = 6
                    \/ j = 6 /\ k = 7
                    \/ j = 7 /\ k = 8
  OBVIOUS

\* Lists of one step, of three and of four.
LEMMA OnePlan ==
  ASSUME NEW a \in AllSteps
  PROVE  IsPlan(<< a >>, {a}, a, a)
<1> DEFINE s == << a >>
<1>1. s \in Seq(AllSteps) /\ Len(s) = 1 /\ s[1] = a
  BY Tuple1
<1> HIDE DEF s
<1>2. \A j, k \in 1 .. Len(s) : j = k /\ k # j + 1
  BY <1>1
<1>3. Straight(s)
  BY <1>1, <1>2, Zenon DEF Straight
<1>4. In(s) = {a}
  <2>1. 1 \in 1 .. Len(s) /\ \A k \in 1 .. Len(s) : k = 1
    BY <1>1
  <2> QED
    BY <1>1, <2>1, InList, Zenon
<1>5. Len(s) > 0 /\ s[Len(s)] = a
  BY <1>1
<1> QED
  BY <1>1, <1>3, <1>4, <1>5, Zenon DEF IsPlan, s

LEMMA ThreePlan ==
  ASSUME NEW a \in AllSteps, NEW b \in AllSteps, NEW c \in AllSteps,
         Follows(a, b), Follows(b, c), a # "ar", b # "ar"
  PROVE  IsPlan(<< a, b, c >>, {a, b, c}, a, c)
<1> DEFINE s == << a, b, c >>
<1>1. s \in Seq(AllSteps)
  BY Tuple3, Zenon
<1>2. Len(s) = 3 /\ s[1] = a /\ s[2] = b /\ s[3] = c
  BY Tuple3, Zenon
<1> HIDE DEF s
<1>3. \A j, k \in 1 .. 3 : k = j + 1 => Follows(s[j], s[k])
  BY <1>2, Places3, Zenon
<1>4. \A j, k \in 1 .. 3 : s[j] = "ar" /\ s[k] = "ar" => j = k
  BY <1>2, Places3, Zenon
<1>5. Straight(s)
  BY <1>1, <1>2, <1>3, <1>4, Zenon DEF Straight
<1>6. \A y : y \in In(s) <=> \E k \in 1 .. 3 : y = s[k]
  <2>1. \A y : y \in In(s) <=> \E k \in 1 .. Len(s) : y = s[k]
    BY <1>1, InList, Zenon
  <2> QED
    BY <1>2, <2>1, Zenon
<1>7. ASSUME NEW y \in In(s) PROVE y \in {a, b, c}
  BY <1>2, <1>6, Places3, Zenon
<1>8. a \in In(s) /\ b \in In(s) /\ c \in In(s)
  BY <1>2, <1>6, Places3, Zenon
<1>9. In(s) = {a, b, c}
  BY <1>7, <1>8, Zenon
<1>10. Len(s) = 3 /\ s[3] = c
  BY <1>2, Zenon
<1>11. Len(s) > 0 /\ s[Len(s)] = c
  BY <1>10
<1> QED
  BY <1>2, <1>5, <1>9, <1>11, Zenon DEF IsPlan, s

LEMMA FourPlan ==
  ASSUME NEW a \in AllSteps, NEW b \in AllSteps, NEW c \in AllSteps, NEW d \in AllSteps,
         Follows(a, b), Follows(b, c), Follows(c, d), a # "ar", b # "ar", c # "ar"
  PROVE  IsPlan(<< a, b, c, d >>, {a, b, c, d}, a, d)
<1> DEFINE s == << a, b, c, d >>
<1>1. s \in Seq(AllSteps)
  BY Tuple4, Zenon
<1>2. Len(s) = 4 /\ s[1] = a /\ s[2] = b /\ s[3] = c /\ s[4] = d
  BY Tuple4, Zenon
<1> HIDE DEF s
<1>3. ASSUME NEW j \in 1 .. 4, NEW k \in 1 .. 4, k = j + 1 PROVE Follows(s[j], s[k])
  <2>1. CASE j = 1 /\ k = 2
    BY <1>2, <2>1, Zenon
  <2>2. CASE j = 2 /\ k = 3
    BY <1>2, <2>2, Zenon
  <2>3. CASE j = 3 /\ k = 4
    BY <1>2, <2>3, Zenon
  <2> QED
    BY <1>3, <2>1, <2>2, <2>3, Places4, Zenon
<1>4. \A j, k \in 1 .. 4 : s[j] = "ar" /\ s[k] = "ar" => j = k
  BY <1>2, Places4, Zenon
<1>5. Straight(s)
  BY <1>1, <1>2, <1>3, <1>4, Zenon DEF Straight
<1>6. \A y : y \in In(s) <=> \E k \in 1 .. 4 : y = s[k]
  <2>1. \A y : y \in In(s) <=> \E k \in 1 .. Len(s) : y = s[k]
    BY <1>1, InList, Zenon
  <2> QED
    BY <1>2, <2>1, Zenon
<1>7. ASSUME NEW y \in In(s) PROVE y \in {a, b, c, d}
  <2>1. PICK k \in 1 .. 4 : y = s[k]
    BY <1>6, Zenon
  <2>2. y = s[1] \/ y = s[2] \/ y = s[3] \/ y = s[4]
    BY <2>1, Places4, Zenon
  <2> QED
    BY <1>2, <2>2, Zenon
<1>8. a \in In(s) /\ b \in In(s) /\ c \in In(s) /\ d \in In(s)
  BY <1>2, <1>6, Places4, Zenon
<1>9. In(s) = {a, b, c, d}
  BY <1>7, <1>8, Zenon
<1>10. Len(s) = 4 /\ s[4] = d
  BY <1>2, Zenon
<1>11. Len(s) > 0 /\ s[Len(s)] = d
  BY <1>10
<1> QED
  BY <1>2, <1>5, <1>9, <1>11, Zenon DEF IsPlan, s

LEMMA PackStepsPlan ==
  IsPlan(PackSteps, Packing, "version", "rm")
<1> DEFINE s == PackSteps
<1>1. /\ "version" \in AllSteps /\ "mkdtemp" \in AllSteps /\ "layout" \in AllSteps
      /\ "headers" \in AllSteps /\ "copy a" \in AllSteps /\ "copy so" \in AllSteps
      /\ "tar" \in AllSteps /\ "rm" \in AllSteps
  BY Zenon DEF AllSteps
<1>2. s \in Seq(AllSteps)
  <2>1. s = << "version", "mkdtemp", "layout", "headers", "copy a", "copy so", "tar", "rm" >>
    BY DEF PackSteps
  <2> HIDE DEF s
  <2> QED
    BY <1>1, <2>1, Tuple8
<1>3. /\ Len(s) = 8
      /\ s[1] = "version" /\ s[2] = "mkdtemp" /\ s[3] = "layout" /\ s[4] = "headers"
      /\ s[5] = "copy a" /\ s[6] = "copy so" /\ s[7] = "tar" /\ s[8] = "rm"
  BY DEF PackSteps
<1> HIDE DEF s
<1>4. ASSUME NEW j \in 1 .. 8, NEW k \in 1 .. 8, k = j + 1 PROVE Follows(s[j], s[k])
  <2>1. CASE j = 1 /\ k = 2
    BY <1>3, <2>1, Zenon DEF Follows
  <2>2. CASE j = 2 /\ k = 3
    BY <1>3, <2>2, Zenon DEF Follows
  <2>3. CASE j = 3 /\ k = 4
    BY <1>3, <2>3, Zenon DEF Follows
  <2>4. CASE j = 4 /\ k = 5
    BY <1>3, <2>4, Zenon DEF Follows
  <2>5. CASE j = 5 /\ k = 6
    BY <1>3, <2>5, Zenon DEF Follows
  <2>6. CASE j = 6 /\ k = 7
    BY <1>3, <2>6, Zenon DEF Follows
  <2>7. CASE j = 7 /\ k = 8
    BY <1>3, <2>7, Zenon DEF Follows
  <2>8. \/ j = 1 /\ k = 2
        \/ j = 2 /\ k = 3
        \/ j = 3 /\ k = 4
        \/ j = 4 /\ k = 5
        \/ j = 5 /\ k = 6
        \/ j = 6 /\ k = 7
        \/ j = 7 /\ k = 8
    BY <1>4, Places8
  <2> QED
    BY <2>1, <2>2, <2>3, <2>4, <2>5, <2>6, <2>7, <2>8, Zenon
<1>5. \A j, k \in 1 .. 8 : s[j] = "ar" /\ s[k] = "ar" => j = k
  <2>1. \A j \in 1 .. 8 : s[j] # "ar"
    BY <1>3, Places8, Zenon
  <2> QED
    BY <2>1, Zenon
<1>6. Straight(s)
  BY <1>2, <1>3, <1>4, <1>5, Zenon DEF Straight
<1>7. \A y : y \in In(s) <=> \E k \in 1 .. 8 : y = s[k]
  <2>1. \A y : y \in In(s) <=> \E k \in 1 .. Len(s) : y = s[k]
    BY <1>2, InList, Zenon
  <2> QED
    BY <1>3, <2>1, Zenon
<1>8. ASSUME NEW y \in In(s) PROVE y \in Packing
  <2>1. PICK k \in 1 .. 8 : y = s[k]
    BY <1>7, Zenon
  <2>2. y = s[1] \/ y = s[2] \/ y = s[3] \/ y = s[4] \/ y = s[5] \/ y = s[6] \/ y = s[7] \/ y = s[8]
    BY <2>1, Places8, Zenon
  <2> QED
    BY <1>3, <2>2, Zenon DEF Packing
<1>9. ASSUME NEW y \in Packing PROVE y \in In(s)
  <2>1. y = s[1] \/ y = s[2] \/ y = s[3] \/ y = s[4] \/ y = s[5] \/ y = s[6] \/ y = s[7] \/ y = s[8]
    BY <1>3, Zenon DEF Packing
  <2> QED
    BY <1>7, <2>1, Places8, Zenon
<1>10. In(s) = Packing
  BY <1>8, <1>9, Zenon
<1>11. Len(s) = 8 /\ s[8] = "rm"
  BY <1>3, Zenon
<1>12. Len(s) > 0 /\ s[Len(s)] = "rm"
  BY <1>11
<1> QED
  BY <1>3, <1>6, <1>10, <1>12, Zenon DEF IsPlan, s

LEMMA LibPlan ==
  ASSUME NEW x \in {"ar", "link"}
  PROVE  IsPlan(Objects \o << x >>, {"collect", "build dir", "objects", x}, "collect", x)
<1>1. /\ "collect" \in AllSteps /\ "build dir" \in AllSteps /\ "objects" \in AllSteps /\ x \in AllSteps
  BY Zenon DEF AllSteps
<1>2. Follows("collect", "build dir") /\ Follows("build dir", "objects") /\ Follows("objects", x)
  BY Zenon DEF Follows
<1>3. IsPlan(Objects, {"collect", "build dir", "objects"}, "collect", "objects")
  BY <1>1, <1>2, ThreePlan, Zenon DEF Objects
<1>4. IsPlan(<< x >>, {x}, x, x)
  BY <1>1, OnePlan, Zenon
<1>5. IsPlan(Objects \o << x >>, {"collect", "build dir", "objects"} \cup {x}, "collect", x)
  <2>1. "ar" \notin {"collect", "build dir", "objects"}
    BY Zenon
  <2> QED
    BY <1>2, <1>3, <1>4, <2>1, JoinedPlans, Zenon
<1>6. {"collect", "build dir", "objects"} \cup {x} = {"collect", "build dir", "objects", x}
  BY Zenon
<1> QED
  BY <1>5, <1>6, Zenon

\* Both libraries.
Built == {"collect", "build dir", "objects", "ar"} \cup {"collect", "build dir", "objects", "link"}

LEMMA BuildPlan == IsPlan(Static \o Dynamic, Built, "collect", "link")
<1>1. IsPlan(Static, {"collect", "build dir", "objects", "ar"}, "collect", "ar")
  BY LibPlan, Zenon DEF Static
<1>2. IsPlan(Dynamic, {"collect", "build dir", "objects", "link"}, "collect", "link")
  BY LibPlan, Zenon DEF Dynamic
<1>3. Follows("ar", "collect") /\ "ar" \notin {"collect", "build dir", "objects", "link"}
  BY Zenon DEF Follows
<1> QED
  BY <1>1, <1>2, <1>3, JoinedPlans, Zenon DEF Built

\* More steps behind those of the build.
LEMMA LongPlan ==
  ASSUME NEW t, NEW T, NEW x \in {"version", "bear"}, NEW y, IsPlan(t, T, x, y), "ar" \notin T
  PROVE  IsPlan(Static \o Dynamic \o t, Built \cup T, "collect", y)
<1>1. Follows("link", x)
  BY Zenon DEF Follows
<1> QED
  BY <1>1, BuildPlan, JoinedPlans, Zenon

LEMMA TestPlan ==
  ASSUME NEW loop \in {"tests", "checks"}
  PROVE  IsPlan(TestSteps(loop), {"tests dir", "collect", "collect tests", loop}, "tests dir", loop)
<1>1. /\ "tests dir" \in AllSteps /\ "collect" \in AllSteps /\ "collect tests" \in AllSteps
      /\ loop \in AllSteps
  BY Zenon DEF AllSteps
<1>2. /\ Follows("tests dir", "collect") /\ Follows("collect", "collect tests")
      /\ Follows("collect tests", loop)
  BY Zenon DEF Follows
<1> QED
  BY <1>1, <1>2, FourPlan, Zenon DEF TestSteps

\* A list of its own steps, that begins and ends as it has to, is a plan for a command.
LEMMA PlanFor ==
  ASSUME NEW name, NEW s, NEW S, NEW x, NEW y, IsPlan(s, S, x, y),
         Owns(name, S), Begins(name, x), Ends(name, y)
  PROVE  Planned(name, s) /\ Len(s) > 0 /\ Begins(name, s[1])
  BY Zenon DEF IsPlan, Planned

LEMMA Plans ==
  ASSUME NEW name \in Plain \cup {"pack"}, NEW s, s = StepsOf(name)
  PROVE  Planned(name, s) /\ Len(s) > 0 /\ Begins(name, s[1])
<1> SUFFICES \E S, x, y : IsPlan(s, S, x, y) /\ Owns(name, S) /\ Begins(name, x) /\ Ends(name, y)
  BY PlanFor, Zenon
<1>1. CASE name \in {"static", "dynamic"}
  <2>1. PICK x \in {"ar", "link"} : s = Objects \o << x >>
    BY <1>1 DEF StepsOf, Static, Dynamic
  <2>2. /\ Owns(name, {"collect", "build dir", "objects", x})
        /\ Begins(name, "collect") /\ Ends(name, x)
    BY <1>1, Zenon DEF Owns, Ends, Begins, Packing
  <2> QED
    BY <2>1, <2>2, LibPlan, Zenon
<1>2. CASE name = "build"
  <2>1. s = Static \o Dynamic
    BY <1>2 DEF StepsOf
  <2>2. Owns(name, Built) /\ Begins(name, "collect") /\ Ends(name, "link")
    BY <1>2, Zenon DEF Owns, Ends, Begins, Packing, Built
  <2> QED
    BY <2>1, <2>2, BuildPlan, Zenon
<1>3. CASE name = "pack"
  <2>1. s = Static \o Dynamic \o PackSteps
    BY <1>3 DEF StepsOf
  <2>2. "ar" \notin Packing
    BY Zenon DEF Packing
  <2>3. Owns(name, Built \cup Packing) /\ Begins(name, "collect") /\ Ends(name, "rm")
    BY <1>3, Zenon DEF Owns, Ends, Begins, Packing, Built
  <2> QED
    BY <2>1, <2>2, <2>3, PackStepsPlan, LongPlan, Zenon
<1>4. CASE name = "compile-commands"
  <2>1. s = Static \o Dynamic \o << "bear" >>
    BY <1>4 DEF StepsOf
  <2>2. "bear" \in AllSteps /\ "ar" \notin {"bear"}
    BY Zenon DEF AllSteps
  <2>3. Owns(name, Built \cup {"bear"}) /\ Begins(name, "collect") /\ Ends(name, "bear")
    BY <1>4, Zenon DEF Owns, Ends, Begins, Packing, Built
  <2>4. IsPlan(<< "bear" >>, {"bear"}, "bear", "bear")
    BY <2>2, OnePlan, Zenon
  <2>5. IsPlan(s, Built \cup {"bear"}, "collect", "bear")
    BY <2>1, <2>2, <2>4, LongPlan, Zenon
  <2> QED
    BY <2>3, <2>5, Zenon
<1>5. CASE name = "test"
  <2> DEFINE T == {"build dir"} \cup {"tests dir", "collect", "collect tests", "tests"}
  <2>1. s = << "build dir" >> \o TestSteps("tests")
    BY <1>5 DEF StepsOf
  <2>2. /\ "build dir" \in AllSteps /\ "ar" \notin {"build dir"}
        /\ Follows("build dir", "tests dir")
    BY Zenon DEF AllSteps, Follows
  <2>3. IsPlan(s, T, "build dir", "tests")
    <3>1. IsPlan(<< "build dir" >>, {"build dir"}, "build dir", "build dir")
      BY <2>2, OnePlan, Zenon
    <3>2. IsPlan(TestSteps("tests"), {"tests dir", "collect", "collect tests", "tests"}, "tests dir", "tests")
      BY TestPlan, Zenon
    <3>3. IsPlan(<< "build dir" >> \o TestSteps("tests"), T, "build dir", "tests")
      BY ONLY <2>2, <3>1, <3>2, JoinedPlans, Zenon
    <3> QED
      BY <2>1, <3>3, Zenon
  <2>4. Owns(name, T) /\ Begins(name, "build dir") /\ Ends(name, "tests")
    BY <1>5, Zenon DEF Owns, Ends, Begins, Packing
  <2> QED
    BY <2>3, <2>4, Zenon
<1>6. CASE name \in {"valgrind", "strace"}
  <2>1. s = TestSteps("checks")
    BY <1>6 DEF StepsOf
  <2>2. /\ Owns(name, {"tests dir", "collect", "collect tests", "checks"})
        /\ Begins(name, "tests dir") /\ Ends(name, "checks")
    BY <1>6, Zenon DEF Owns, Ends, Begins, Packing
  <2> QED
    BY <2>1, <2>2, TestPlan, Zenon
<1>7. CASE name = "docs"
  <2>1. s = << "docs dir", "doxyfile", "doxygen" >>
    BY <1>7 DEF StepsOf
  <2>2. /\ "docs dir" \in AllSteps /\ "doxyfile" \in AllSteps /\ "doxygen" \in AllSteps
        /\ Follows("docs dir", "doxyfile") /\ Follows("doxyfile", "doxygen")
    BY Zenon DEF AllSteps, Follows
  <2>3. /\ Owns(name, {"docs dir", "doxyfile", "doxygen"})
        /\ Begins(name, "docs dir") /\ Ends(name, "doxygen")
    BY <1>7, Zenon DEF Owns, Begins, Ends, Packing
  <2>4. IsPlan(s, {"docs dir", "doxyfile", "doxygen"}, "docs dir", "doxygen")
    BY <2>1, <2>2, ThreePlan, Zenon
  <2> QED
    BY <2>3, <2>4, Zenon
<1>8. CASE name = "fmt"
  <2>1. s = << "collect", "collect headers", "clang-format" >>
    BY <1>8 DEF StepsOf
  <2>2. /\ "collect" \in AllSteps /\ "collect headers" \in AllSteps /\ "clang-format" \in AllSteps
        /\ Follows("collect", "collect headers") /\ Follows("collect headers", "clang-format")
    BY Zenon DEF AllSteps, Follows
  <2>3. /\ Owns(name, {"collect", "collect headers", "clang-format"})
        /\ Begins(name, "collect") /\ Ends(name, "clang-format")
    BY <1>8, Zenon DEF Owns, Begins, Ends, Packing
  <2>4. IsPlan(s, {"collect", "collect headers", "clang-format"}, "collect", "clang-format")
    BY <2>1, <2>2, ThreePlan, Zenon
  <2> QED
    BY <2>3, <2>4, Zenon
<1>9. CASE name \in {"cppcheck", "ctags", "clean"}
  <2>1. s = << name >>
    BY <1>9 DEF StepsOf
  <2>2. name \in AllSteps
    BY <1>9, Zenon DEF AllSteps
  <2>3. Owns(name, {name}) /\ Begins(name, name) /\ Ends(name, name)
    BY <1>9, Zenon DEF Owns, Ends, Begins, Packing
  <2> QED
    BY <2>1, <2>2, <2>3, OnePlan, Zenon
<1> QED
  BY <1>1, <1>2, <1>3, <1>4, <1>5, <1>6, <1>7, <1>8, <1>9, Zenon DEF Plain

-----------------------------------------------------------------------------
(* From one step of a list to the next. *)

LEMMA EmptyList == ASSUME NEW S, NEW s \in Seq(S) PROVE s = << >> <=> Len(s) = 0
  OBVIOUS

LEMMA TailOf ==
  ASSUME NEW s, Straight(s), s # << >>, NEW t, t = Tail(s)
  PROVE  /\ Straight(t) /\ Head(s) \in AllSteps
         /\ Head(s) \in In(s) /\ In(t) \subseteq In(s) /\ In(s) \subseteq {Head(s)} \cup In(t)
         /\ Head(s) = "ar" => "ar" \notin In(t)
         /\ t # << >> => Head(t) \in In(t) /\ Follows(Head(s), Head(t)) /\ t[Len(t)] = s[Len(s)]
         /\ t = << >> => In(t) = {} /\ s[Len(s)] = Head(s)
         /\ Len(s) = 1 <=> t = << >>
<1>1. s \in Seq(AllSteps)
  BY DEF Straight
<1>0. t \in Seq(AllSteps)
  BY <1>1
<1>2. Len(t) = Len(s) - 1 /\ Head(s) = s[1] /\ Len(s) \in Nat /\ Len(s) > 0 /\ Len(t) \in Nat
  BY <1>1
<1>3. \A k \in 1 .. Len(t) : k + 1 \in 1 .. Len(s) /\ t[k] = s[k + 1]
  BY <1>1, <1>2
<1>4. \A k \in 1 .. Len(s) : k = 1 \/ (k - 1 \in 1 .. Len(t) /\ k = (k - 1) + 1)
  BY <1>2
<1>5. 1 \in 1 .. Len(s) /\ s[1] \in AllSteps
  BY <1>1, <1>2
<1>6. \A x : x \in In(s) <=> \E k \in 1 .. Len(s) : x = s[k]
  BY <1>1, InList, Zenon
<1>7. \A x : x \in In(t) <=> \E k \in 1 .. Len(t) : x = t[k]
  BY <1>0, InList, Zenon
<1>8. Straight(t)
  <2>1. ASSUME NEW j \in 1 .. Len(t), NEW k \in 1 .. Len(t), k = j + 1 PROVE Follows(t[j], t[k])
    <3>1. k + 1 = (j + 1) + 1
      BY <2>1
    <3> QED
      BY <1>3, <3>1, Zenon DEF Straight
  <2>2. ASSUME NEW j \in 1 .. Len(t), NEW k \in 1 .. Len(t), t[j] = "ar", t[k] = "ar" PROVE j = k
    <3>1. j + 1 = k + 1
      BY <1>3, <2>2, Zenon DEF Straight
    <3> QED
      BY <3>1
  <2> QED
    BY <1>0, <2>1, <2>2, Zenon DEF Straight
<1>9. Head(s) \in In(s)
  BY <1>2, <1>5, <1>6, Zenon
<1>10. In(t) \subseteq In(s)
  <2>1. ASSUME NEW x \in In(t) PROVE x \in In(s)
    <3>1. PICK k \in 1 .. Len(t) : x = t[k]
      BY <1>7, Zenon
    <3>2. k + 1 \in 1 .. Len(s) /\ x = s[k + 1]
      BY <1>3, <3>1, Zenon
    <3> QED
      BY <1>6, <3>2, Zenon
  <2> QED
    BY <2>1, Zenon
<1>11. ASSUME NEW x \in In(s) PROVE x \in {Head(s)} \cup In(t)
  <2>1. PICK k \in 1 .. Len(s) : x = s[k]
    BY <1>6, Zenon
  <2>2. CASE k = 1
    BY <1>2, <2>1, <2>2, Zenon
  <2>3. CASE k - 1 \in 1 .. Len(t) /\ k = (k - 1) + 1
    <3>1. t[k - 1] = x
      BY <1>3, <2>1, <2>3, Zenon
    <3> QED
      BY <1>7, <2>3, <3>1, Zenon
  <2> QED
    BY <1>4, <2>2, <2>3, Zenon
<1>12. ASSUME Head(s) = "ar", "ar" \in In(t) PROVE FALSE
  <2>1. PICK k \in 1 .. Len(t) : "ar" = t[k]
    BY <1>7, <1>12, Zenon
  <2>2. k + 1 \in 1 .. Len(s) /\ s[k + 1] = "ar" /\ s[1] = "ar"
    BY <1>2, <1>3, <1>12, <2>1, Zenon
  <2>3. k + 1 = 1
    BY <1>5, <2>2, Zenon DEF Straight
  <2> QED
    BY <2>3
<1>13. ASSUME t # << >>
       PROVE  Head(t) \in In(t) /\ Follows(Head(s), Head(t)) /\ t[Len(t)] = s[Len(s)]
  <2>1. Head(t) = t[1] /\ 1 \in 1 .. Len(t) /\ Len(t) \in 1 .. Len(t) /\ 2 \in 1 .. Len(s)
    BY <1>0, <1>2, <1>13
  <2>2. t[1] = s[2] /\ t[Len(t)] = s[Len(s)]
    <3>1. 1 + 1 = 2 /\ Len(t) + 1 = Len(s)
      BY <1>2
    <3> QED
      BY <1>3, <2>1, <3>1, Zenon
  <2>3. Follows(s[1], s[2])
    <3>1. 2 = 1 + 1
      OBVIOUS
    <3> QED
      BY <1>5, <2>1, <3>1, Zenon DEF Straight
  <2> QED
    BY <1>2, <1>7, <2>1, <2>2, <2>3, Zenon
<1>14. ASSUME t = << >> PROVE In(t) = {} /\ s[Len(s)] = Head(s)
  <2>1. Len(t) = 0
    BY <1>0, <1>14, EmptyList, Zenon
  <2>2. Len(s) = 1
    BY <1>2, <2>1
  <2>3. \A k \in 1 .. Len(t) : FALSE
    BY <2>1
  <2>4. In(t) = {}
    BY <1>7, <2>3, Zenon
  <2> QED
    BY <1>2, <2>2, <2>4, Zenon
<1>15. Len(s) = 1 <=> t = << >>
  <2>1. Len(s) = 1 <=> Len(t) = 0
    BY <1>2
  <2> QED
    BY <1>0, <2>1, EmptyList, Zenon
<1> QED
  BY <1>0, <1>2, <1>5, <1>8, <1>9, <1>10, <1>11, <1>12, <1>13, <1>14, <1>15, Zenon

\* What is known of a command that is on its way.
LEMMA OnTheWay ==
  ASSUME Fine, Course, steps # << >>, verdict = "running" <=> steps # << >>
  PROVE  /\ verdict = "running" /\ Step = Head(steps) /\ Step \in Rest /\ Step \in AllSteps
         /\ Owns(cmd.name, Rest)
  BY TailOf, Zenon DEF Course, Planned, Step, Rest

LEMMA Advances ==
  ASSUME Fine, Course, steps # << >>, verdict = "running" <=> steps # << >>, Continue, cmd' = cmd
  PROVE  /\ Fine' /\ Course' /\ Planned(cmd.name, steps)'
         /\ verdict' = (IF steps' = << >> THEN "true" ELSE "running")
         /\ Rest' \subseteq Rest /\ Rest \subseteq {Step} \cup Rest'
         /\ Step = "ar" => "ar" \notin Rest'
         /\ Step' # "none" => Step' \in Rest' /\ Follows(Step, Step')
         /\ Step' = "none" => Rest' = {} /\ Ends(cmd.name, Step) /\ verdict' = "true"
<1> DEFINE s == steps
           t == steps'
<1>1. Planned(cmd.name, s) /\ s # << >>
  BY Zenon DEF Course
<1>2. t = Tail(s) /\ verdict' = (IF Len(s) = 1 THEN "true" ELSE "running")
  BY DEF Continue
<1>3. Step = Head(s) /\ Rest = In(s) /\ Rest' = In(t)
  BY <1>1, Zenon DEF Step, Rest
<1>4. Step' = IF t = << >> THEN "none" ELSE Head(t)
  BY Zenon DEF Step
<1> HIDE DEF s, t
<1>5. Straight(s)
  BY <1>1, Zenon DEF Planned
<1>6. /\ Straight(t) /\ Head(s) \in AllSteps
      /\ Head(s) \in In(s) /\ In(t) \subseteq In(s) /\ In(s) \subseteq {Head(s)} \cup In(t)
      /\ Head(s) = "ar" => "ar" \notin In(t)
      /\ t # << >> => Head(t) \in In(t) /\ Follows(Head(s), Head(t)) /\ t[Len(t)] = s[Len(s)]
      /\ t = << >> => In(t) = {} /\ s[Len(s)] = Head(s)
      /\ Len(s) = 1 <=> t = << >>
  BY <1>1, <1>2, <1>5, TailOf, Zenon
<1>7. \A S, T : T \subseteq S /\ Owns(cmd.name, S) => Owns(cmd.name, T)
  BY Zenon DEF Owns
<1>8. Planned(cmd.name, t)
  BY <1>1, <1>6, <1>7, Zenon DEF Planned
<1>9. t # << >> => Head(t) \in AllSteps
  BY <1>6, TailOf, Zenon
<1>10. Step' # "rm failed" /\ (Step' = "none" <=> t = << >>)
  BY <1>4, <1>9, Zenon DEF AllSteps
<1>11. verdict' = (IF t = << >> THEN "true" ELSE "running")
  BY <1>2, <1>6, Zenon
<1>12. Fine'
  BY <1>10, <1>11, Zenon DEF Fine
<1>13. Planned(cmd.name, steps)'
  BY <1>8, Zenon DEF t
<1>14. Course'
  BY <1>10, <1>13, Zenon DEF Course
<1>15. Step = "ar" => "ar" \notin Rest'
  BY <1>3, <1>6, Zenon
<1>16. Step' # "none" => Step' \in Rest' /\ Follows(Step, Step')
  BY <1>3, <1>4, <1>6, <1>10, Zenon
<1>17. Step' = "none" => Rest' = {} /\ Ends(cmd.name, Step) /\ verdict' = "true"
  BY <1>1, <1>3, <1>6, <1>10, <1>11, Zenon DEF Planned
<1> QED
  BY <1>3, <1>6, <1>11, <1>12, <1>13, <1>14, <1>15, <1>16, <1>17, Zenon DEF t

\* "return false", and the way to "fail:".
LEMMA Fails ==
  ASSUME Fail, stage' = stage
  PROVE  /\ ~Fine' /\ Course' /\ verdict' \in {"running", "false"}
         /\ verdict' = "running" <=> steps' # << >>
         /\ verdict' = "running" <=> stage.in
         /\ steps' = << >> \/ steps' = << "rm failed" >>
<1>1. CASE stage.in
  <2>1. steps' = << "rm failed" >> /\ verdict' = "running"
    BY <1>1 DEF Fail, OnFailure
  <2> DEFINE s == << "rm failed" >>
  <2>2. s # << >> /\ Head(s) = "rm failed"
    OBVIOUS
  <2>3. Step' = "rm failed"
    BY <2>1, <2>2, Zenon DEF Step
  <2> QED
    BY <1>1, <2>1, <2>2, <2>3, Zenon DEF Fine, Course
<1>2. CASE ~stage.in
  <2>1. steps' = << >> /\ verdict' = "false"
    BY <1>2 DEF Fail, OnFailure
  <2>2. Step' = "none"
    BY <2>1, Zenon DEF Step
  <2> QED
    BY <1>2, <2>1, <2>2, Zenon DEF Fine, Course
<1> QED
  BY <1>1, <1>2

-----------------------------------------------------------------------------
(* What a step that goes on leaves of the invariant, whatever it does. *)

Moved ==
  /\ Fine /\ Fine' /\ Course' /\ cmd' = cmd
  /\ verdict = "running" /\ verdict' = (IF steps' = << >> THEN "true" ELSE "running")
  /\ Step = Head(steps) /\ Step \in Rest /\ Step \in AllSteps /\ Owns(cmd.name, Rest)
  /\ Rest' \subseteq Rest /\ Rest \subseteq {Step} \cup Rest'
  /\ Step = "ar" => "ar" \notin Rest'
  /\ Step' # "none" => Step' \in Rest' /\ Follows(Step, Step')
  /\ Step' = "none" => Rest' = {} /\ Ends(cmd.name, Step) /\ verdict' = "true"

LEMMA Moves ==
  ASSUME IInv, Fine, steps # << >>, Continue, cmd' = cmd
  PROVE  Moved
<1>1. Course /\ (verdict = "running" <=> steps # << >>)
  BY Zenon DEF IInv, BuildTypeOK
<1>2. /\ verdict = "running" /\ Step = Head(steps) /\ Step \in Rest /\ Step \in AllSteps
      /\ Owns(cmd.name, Rest)
  BY <1>1, OnTheWay, Zenon
<1>3. /\ Fine' /\ Course' /\ Planned(cmd.name, steps)'
      /\ verdict' = (IF steps' = << >> THEN "true" ELSE "running")
      /\ Rest' \subseteq Rest /\ Rest \subseteq {Step} \cup Rest'
      /\ Step = "ar" => "ar" \notin Rest'
      /\ Step' # "none" => Step' \in Rest' /\ Follows(Step, Step')
      /\ Step' = "none" => Rest' = {} /\ Ends(cmd.name, Step) /\ verdict' = "true"
  BY <1>1, Advances, Zenon
<1> QED
  BY <1>2, <1>3, Zenon DEF Moved

LEMMA SourcesMoved ==
  ASSUME Sources, Moved, UNCHANGED << src, held, names >>, Step \notin {"collect", "build dir", "objects"}
  PROVE  Sources'
<1>1. Step' \notin {"objects", "ar", "link", "build dir"}
  BY Zenon DEF Moved, Follows
<1> QED
  BY <1>1, Zenon DEF Sources, Moved

LEMMA LibsMoved ==
  ASSUME Libs, Moved, UNCHANGED << shared, archive, held, begun >>, Step \notin {"ar", "link"}
  PROVE  Libs'
<1>1. \A x \in {"ar", "link"} : x \in Rest <=> x \in Rest'
  BY Zenon DEF Moved
<1>2. \A x : Has(x)' <=> Has(x)
  BY Zenon DEF Moved, Has
<1>3. Fine /\ Fine'
  BY DEF Moved
<1> QED
  BY <1>1, <1>2, <1>3, Zenon DEF Libs

LEMMA TestedMoved ==
  ASSUME Tested, Moved, UNCHANGED << tried, blame >>, dirs \subseteq dirs',
         Step \notin {"collect tests", "tests", "checks"}, Step = "build dir" => ".build" \in dirs'
  PROVE  Tested'
<1>1. Step' \notin {"tests", "checks"} /\ verdict' # "false"
  BY Zenon DEF Moved, Follows
<1>2. Step' = "none" => cmd'.name \notin {"test", "valgrind", "strace"}
  BY Zenon DEF Moved, Ends
<1>3. \A t \in Tests : tried'[t] # "failed"
  BY Zenon DEF Tested, Moved
<1>4. cmd'.name = "test" => ".build" \in dirs'
  BY Zenon DEF Tested, Moved
<1> QED
  BY <1>1, <1>2, <1>3, <1>4, Zenon DEF Tested

LEMMA CausedMoved ==
  ASSUME Caused, Moved, UNCHANGED << blame, begun >>,
         Step \in {"tests dir", "docs dir"} /\ cmd.name \in {"valgrind", "strace", "docs"} =>
           ".build" \in begun.dirs,
         Step = "version" => cmd.version = << >> \/ IsValidSemver(cmd.version),
         Step = "layout" => cmd.prefix # "nowhere"
  PROVE  Caused'
<1>1. verdict' # "false" /\ Step' # "rm failed"
  <2>1. verdict' # "false"
    BY Zenon DEF Moved
  <2>2. CASE steps' = << >>
    <3>1. Step' = "none"
      BY <2>2, Zenon DEF Step
    <3> QED
      BY <2>1, <3>1, Zenon
  <2>3. CASE steps' # << >>
    BY <2>1, <2>3, Zenon DEF Moved, Fine
  <2> QED
    BY <2>2, <2>3
<1>2. cmd.name \in {"valgrind", "strace", "docs"} =>
        Step' \notin {"tests dir", "docs dir"} /\ ".build" \in begun.dirs
  <2>1. SUFFICES ASSUME cmd.name \in {"valgrind", "strace", "docs"}
                 PROVE  Step' \notin {"tests dir", "docs dir"} /\ ".build" \in begun.dirs
    OBVIOUS
  <2>2. Step # "build dir"
    BY <2>1, Zenon DEF Moved, Owns
  <2>3. Step' \notin {"tests dir", "docs dir"}
    BY <2>2, Zenon DEF Moved, Follows
  <2>4. ".build" \in begun.dirs
    BY <2>1, Zenon DEF Caused, Moved
  <2> QED
    BY <2>3, <2>4, Zenon
<1>3. ASSUME cmd.name = "pack", Step' \in (Packing \ {"version"}) \cup {"none"}
      PROVE  cmd.version = << >> \/ IsValidSemver(cmd.version)
  <2>1. Step \in Packing
    BY <1>3, Zenon DEF Moved, Follows, Ends, Packing
  <2> QED
    BY <1>3, <2>1, Zenon DEF Caused, Moved
<1>4. ASSUME cmd.name = "pack", Step' \in (Packing \ {"version", "mkdtemp", "layout"}) \cup {"none"}
      PROVE  cmd.prefix # "nowhere"
  <2>1. Step \in Packing \ {"version", "mkdtemp"}
    BY <1>4, Zenon DEF Moved, Follows, Ends, Packing
  <2> QED
    BY <1>4, <2>1, Zenon DEF Caused, Moved
<1>5. cmd' = cmd /\ Fine
  BY DEF Moved
<1> QED
  BY <1>1, <1>2, <1>3, <1>4, <1>5, Zenon DEF Caused

LEMMA PackedMoved ==
  ASSUME Packed, Moved, UNCHANGED << stage, blame >>,
         Step \notin {"mkdtemp", "headers", "copy a", "copy so", "tar", "rm"}
  PROVE  Packed'
<1>1. Step' \notin {"layout", "copy a", "copy so", "tar", "rm"} /\ (Step' = "headers" => Step = "layout")
  BY Zenon DEF Moved, Follows
<1>2. Step' = "none" => cmd'.name # "pack"
  BY Zenon DEF Moved, Ends
<1>3. stage'.in => cmd'.name = "pack" /\ verdict' = "running"
  <2>1. stage'.in => cmd'.name = "pack"
    BY Zenon DEF Packed, Moved
  <2>2. cmd'.name = "pack" => steps' # << >>
    BY <1>2, Zenon DEF Step
  <2> QED
    BY <2>1, <2>2, Zenon DEF Moved
<1>4. Step = "layout" => stage'.in
  BY Zenon DEF Packed, Moved
<1>5. stage' # Absent => cmd'.name = "pack" /\ (stage'.in \/ cmd'.prefix = "outside")
  BY Zenon DEF Packed, Moved
<1> QED
  BY <1>1, <1>2, <1>3, <1>4, <1>5, Zenon DEF Packed

-----------------------------------------------------------------------------
(* What a step that fails leaves of it, and what one leaves that stays where it is. *)

Failed ==
  /\ ~Fine' /\ Course' /\ cmd' = cmd /\ stage' = stage
  /\ verdict = "running" /\ verdict' \in {"running", "false"}
  /\ verdict' = "running" <=> steps' # << >>
  /\ verdict' = "running" <=> stage.in
  /\ steps' = << >> \/ steps' = << "rm failed" >>

LEMMA FailsSo ==
  ASSUME IInv, steps # << >>, Fail, stage' = stage, cmd' = cmd
  PROVE  Failed
<1>1. verdict = "running"
  BY Zenon DEF IInv, BuildTypeOK
<1> QED
  BY <1>1, Fails, Zenon DEF Failed

LEMMA AllFailed ==
  ASSUME IInv, Failed, UNCHANGED << src, held >>, Cause',
         cmd.name = "test" /\ blame' = {} => \A t \in Tests : tried'[t] # "no"
  PROVE  Course' /\ Sources' /\ Libs' /\ Tested' /\ Caused' /\ Packed'
<1>1. Sources'
  BY Zenon DEF IInv, Sources, Failed
<1>2. Libs'
  BY Zenon DEF Libs, Failed
<1>3. Tested'
  BY Zenon DEF Tested, Failed
<1>4. Caused'
  BY Zenon DEF Caused, Failed
<1>5. Packed'
  BY Zenon DEF IInv, Packed, Failed
<1> QED
  BY <1>1, <1>2, <1>3, <1>4, <1>5, Zenon DEF Failed

\* The steps stay typed.
StepsTyped ==
  /\ Rest \subseteq {"rm failed"} \cup In(StepsOf(cmd.name))
  /\ verdict \in {"running", "true", "false", "killed"} /\ (verdict = "running" <=> steps # << >>)

LEMMA TypedSteps ==
  StepsTyped <=>
    /\ \A k \in DOMAIN steps : steps[k] \in {"rm failed"} \cup {StepsOf(cmd.name)[j] : j \in DOMAIN StepsOf(cmd.name)}
    /\ verdict \in {"running", "true", "false", "killed"} /\ (verdict = "running" <=> steps # << >>)
  BY Zenon DEF StepsTyped, Rest, In

\* The rest of the types.
Typed ==
  /\ src \in Members /\ edits \in 0 .. MaxEdits
  /\ dirs \subseteq {".build", "tests", "docs"} /\ (dirs # {} => ".build" \in dirs)
  /\ obj \in Members /\ archive \in Members /\ shared \in Members
  /\ stage \in Stage /\ tarball \in Stage
  /\ cmd \in Command
  /\ names \subseteq Srcs /\ left \subseteq Srcs \cup Tests
  /\ begun \in [dirs : SUBSET {".build", "tests", "docs"}, archive : Members]
  /\ held \in [Srcs -> SUBSET Content]
  /\ tried \in [Tests -> {"no", "ok", "failed"}]

LEMMA TypesSplit == BuildTypeOK <=> Typed /\ StepsTyped
  BY TypedSteps, Zenon DEF BuildTypeOK, Typed

LEMMA TypesSplitPrimed == Typed' /\ StepsTyped' => BuildTypeOK'
  BY TypesSplit, PTL

LEMMA StepsTypedMoved == ASSUME StepsTyped, Moved PROVE StepsTyped'
<1>1. Rest' \subseteq {"rm failed"} \cup In(StepsOf(cmd'.name))
  BY Zenon DEF StepsTyped, Moved
<1>2. verdict' \in {"running", "true", "false", "killed"} /\ (verdict' = "running" <=> steps' # << >>)
  BY Zenon DEF Moved
<1> QED
  BY <1>1, <1>2, Zenon DEF StepsTyped

LEMMA StepsTypedFailed == ASSUME Failed PROVE StepsTyped'
<1>1. Rest' \subseteq {"rm failed"}
  <2>1. CASE steps' = << >>
    <3>1. In(<< >>) = {}
      BY DEF In
    <3> QED
      BY <2>1, <3>1, Zenon DEF Rest
  <2>2. CASE steps' = << "rm failed" >>
    <3>1. \A x : x \in Rest' <=> \E k \in 1 .. Len(steps') : x = steps'[k]
      <4>1. steps' \in Seq({"rm failed"})
        BY <2>2, Tuple1, Zenon
      <4> QED
        BY <4>1, InList, Zenon DEF Rest
    <3>2. Len(steps') = 1 /\ steps'[1] = "rm failed"
      BY <2>2, Tuple1, Zenon
    <3>3. \A k \in 1 .. Len(steps') : k = 1
      <4>1. \A k \in 1 .. 1 : k = 1
        OBVIOUS
      <4> QED
        BY <3>2, <4>1, Zenon
    <3> QED
      BY <3>1, <3>2, <3>3, Zenon
  <2> QED
    BY <2>1, <2>2, Zenon DEF Failed
<1> QED
  BY <1>1, Zenon DEF StepsTyped, Failed

\* The step stays the one it is.
Stays ==
  /\ steps' = steps /\ verdict' = verdict /\ cmd' = cmd

LEMMA StaysSo ==
  ASSUME Stays
  PROVE  /\ Step' = Step /\ Rest' = Rest /\ (Fine' <=> Fine) /\ (StepsTyped => StepsTyped')
         /\ Planned(cmd.name, steps)' <=> Planned(cmd.name, steps)
         /\ \A x : Has(x)' <=> Has(x)
<1>1. Step' = Step /\ Rest' = Rest
  BY Zenon DEF Stays, Step, Rest
<1>2. Fine' <=> Fine
  BY <1>1, Zenon DEF Stays, Fine
<1>3. StepsTyped => StepsTyped'
  BY <1>1, Zenon DEF Stays, StepsTyped
<1>4. Planned(cmd.name, steps)' <=> Planned(cmd.name, steps)
  BY Zenon DEF Stays
<1>5. \A x : Has(x)' <=> Has(x)
  BY Zenon DEF Stays, Has
<1> QED
  BY <1>1, <1>2, <1>3, <1>4, <1>5

-----------------------------------------------------------------------------
(* The initial states. *)

LEMMA EditsCounted == MaxEdits \in Nat
  BY BuildAssumption

USE EditsCounted

LEMMA NothingYet == 0 \in Content /\ None \in Members /\ Absent \in Stage
<1>1. 0 \in Content
  BY DEF Content
<1>2. None \in Members
  BY <1>1 DEF None, Members
<1> QED
  BY <1>1, <1>2 DEF Absent, Stage

\* A list of no steps is a plan that is done.
LEMMA EmptyPlan ==
  ASSUME NEW name, NEW s, s = << >> PROVE Planned(name, s) /\ In(s) = {}
<1>1. In(<< >>) = {}
  BY DEF In
<1>2. Straight(<< >>)
  BY DEF Straight
<1>3. Owns(name, {})
  BY Zenon DEF Owns
<1> QED
  BY <1>1, <1>2, <1>3, Zenon DEF Planned

LEMMA CommandNames == \A c \in Command : c.name \in Plain \cup {"pack"}
  BY DEF Command

\* What a command is to do.
LEMMA HasIn == \A x : Has(x) <=> x \in In(StepsOf(cmd.name))
  BY Zenon DEF Has, In

LEMMA Initially ==
  ASSUME BuildInit PROVE IInv
<1>1. /\ cmd.name = "clean" /\ steps = << >> /\ verdict = "true" /\ blame = {} /\ stage.in = FALSE /\ stage = Absent
      /\ \A t \in Tests : tried[t] = "no"
  BY DEF BuildInit, Absent
<1>2. Step = "none" /\ Fine /\ Rest = {} /\ Planned(cmd.name, steps)
  BY <1>1, EmptyPlan, Zenon DEF Step, Fine, Rest
<1>3. ~Has("link") /\ ~Has("ar")
  <2>1. Planned("clean", StepsOf("clean"))
    BY Plans, Zenon DEF Plain
  <2>2. "ar" \notin In(StepsOf("clean")) /\ "link" \notin In(StepsOf("clean"))
    BY <2>1, Zenon DEF Planned, Owns
  <2> QED
    BY <1>1, <2>2, HasIn, Zenon
<1>4. Typed
  <2>1. src \in Members
    <3>1. {0, 1} \subseteq Content
      BY DEF Content
    <3> QED
      BY <3>1 DEF BuildInit, Members
  <2>2. cmd \in Command
    BY DEF BuildInit, Command, Plain, Prefix
  <2>3. held \in [Srcs -> SUBSET Content]
    BY <2>1 DEF BuildInit, Members
  <2>4. edits \in 0 .. MaxEdits /\ dirs = {} /\ names = {} /\ left = {}
    BY DEF BuildInit
  <2>5. /\ obj \in Members /\ archive \in Members /\ shared \in Members
        /\ stage \in Stage /\ tarball \in Stage
    BY NothingYet, Zenon DEF BuildInit
  <2>6. begun \in [dirs : SUBSET {".build", "tests", "docs"}, archive : Members]
    BY NothingYet DEF BuildInit
  <2>7. tried \in [Tests -> {"no", "ok", "failed"}]
    BY DEF BuildInit
  <2> QED
    BY <2>1, <2>2, <2>3, <2>4, <2>5, <2>6, <2>7, Zenon DEF Typed
<1>5. StepsTyped
  BY <1>1, <1>2, Zenon DEF StepsTyped
<1>6. BuildTypeOK
  BY <1>4, <1>5, TypesSplit, Zenon
<1>7. Course
  BY <1>2, Zenon DEF Course
<1>8. Sources
  BY <1>1, <1>2, Zenon DEF Sources
<1>9. Libs
  BY <1>2, <1>3, Zenon DEF Libs
<1>10. Tested
  BY <1>1, <1>2, Zenon DEF Tested
<1>11. Caused
  BY <1>1, <1>2, Zenon DEF Caused
<1>12. Packed
  BY <1>1, <1>2, Zenon DEF Packed
<1> QED
  BY <1>6, <1>7, <1>8, <1>9, <1>10, <1>11, <1>12, Zenon DEF IInv

-----------------------------------------------------------------------------
(* The steps, one by one. *)

LEMMA Here ==
  ASSUME IInv, NEW x, At(x), x # "rm failed"
  PROVE  steps # << >> /\ verdict = "running" /\ Step = x /\ Fine
<1>1. steps # << >> /\ Step = x
  BY Zenon DEF At, Step
<1>2. verdict = "running"
  BY <1>1, Zenon DEF IInv, BuildTypeOK
<1> QED
  BY <1>1, <1>2, Zenon DEF Fine

LEMMA MovedKeeps ==
  ASSUME IInv, Moved, Typed', Sources', Libs', Tested', Caused', Packed'
  PROVE  IInv'
<1>1. StepsTyped
  BY TypesSplit, Zenon DEF IInv
<1>2. BuildTypeOK'
  BY <1>1, StepsTypedMoved, TypesSplitPrimed
<1> QED
  BY <1>2, Zenon DEF IInv, Moved

LEMMA FailedKeeps ==
  ASSUME IInv, Failed, Typed', UNCHANGED << src, held >>, Cause',
         cmd.name = "test" /\ blame' = {} => \A t \in Tests : tried'[t] # "no"
  PROVE  IInv'
<1>1. BuildTypeOK'
  BY StepsTypedFailed, TypesSplitPrimed
<1>2. Course' /\ Sources' /\ Libs' /\ Tested' /\ Caused' /\ Packed'
  BY AllFailed, Zenon
<1> QED
  BY <1>1, <1>2, Zenon DEF IInv

LEMMA TypedAlready == IInv => Typed
  BY TypesSplit, Zenon DEF IInv

LEMMA TypedSame ==
  ASSUME Typed, UNCHANGED << src, edits, files, cmd, names, left, begun, held, tried >>
  PROVE  Typed'
  BY Zenon DEF Typed, files

LEMMA BarredSame ==
  ASSUME cmd' = cmd, begun' = begun PROVE Barred' <=> Barred
  BY Zenon DEF Barred

LEMMA BreaksKeeps == ASSUME IInv, Breaks PROVE IInv'
<1>1. /\ steps # << >> /\ Fail /\ stage' = stage /\ cmd' = cmd
      /\ src' = src /\ held' = held /\ blame' = blame \cup {Head(steps)} /\ Head(steps) # "rm"
  BY Zenon DEF Breaks
<1>2. Failed
  BY <1>1, FailsSo, Zenon
<1>3. Typed'
  <2>1. tarball' \in {tarball, Absent}
    BY Zenon DEF Breaks
  <2>2. tarball' \in Stage
    BY <2>1, TypedAlready, NothingYet, Zenon DEF Typed
  <2> QED
    BY <2>2, TypedAlready, Zenon DEF Typed, Breaks
<1>4. blame' # {} /\ Cause'
  BY <1>1, Zenon DEF Cause
<1> QED
  BY <1>1, <1>2, <1>3, <1>4, FailedKeeps, Zenon

LEMMA RunsKeeps == ASSUME IInv, Runs PROVE IInv'
<1>1. PICK x \in {"collect headers", "clang-format", "doxyfile", "doxygen", "cppcheck", "ctags", "bear"} :
        At(x)
  BY Zenon DEF Runs
<1>2. steps # << >> /\ Fine /\ Step = x
  BY <1>1, Here, Zenon
<1>3. /\ Continue /\ cmd' = cmd /\ src' = src /\ held' = held /\ names' = names /\ shared' = shared
      /\ archive' = archive /\ begun' = begun /\ tried' = tried /\ blame' = blame /\ dirs' = dirs
      /\ stage' = stage
  BY Zenon DEF Runs, files, past
<1>4. Moved
  BY <1>2, <1>3, Moves, Zenon
<1>5. Typed'
  BY TypedAlready, TypedSame, Zenon DEF Runs, past
<1>6. Sources'
  BY <1>2, <1>3, <1>4, SourcesMoved, Zenon DEF IInv
<1>7. Libs'
  BY <1>2, <1>3, <1>4, LibsMoved, Zenon DEF IInv
<1>8. Tested'
  BY <1>2, <1>3, <1>4, TestedMoved, Zenon DEF IInv
<1>9. Caused'
  BY <1>2, <1>3, <1>4, CausedMoved, Zenon DEF IInv
<1>10. Packed'
  BY <1>2, <1>3, <1>4, PackedMoved, Zenon DEF IInv
<1> QED
  BY <1>4, <1>5, <1>6, <1>7, <1>8, <1>9, <1>10, MovedKeeps, Zenon

LEMMA CollectKeeps == ASSUME IInv, Collect PROVE IInv'
<1>1. steps # << >> /\ Fine /\ Step = "collect" /\ verdict = "running"
  BY Here, Zenon DEF Collect
<1>2. /\ Continue /\ cmd' = cmd /\ src' = src /\ held' = held /\ shared' = shared
      /\ archive' = archive /\ begun' = begun /\ tried' = tried /\ blame' = blame /\ dirs' = dirs
      /\ stage' = stage /\ names' = {s \in Srcs : src[s] # 0}
  BY Zenon DEF Collect, files, past
<1>3. Moved
  BY <1>1, <1>2, Moves, Zenon
<1>4. Typed'
  BY TypedAlready, Zenon DEF Typed, Collect, files, past
<1>5. Sources'
  <2>1. \A s \in Srcs : src[s] \in held[s]
    BY <1>1, Zenon DEF IInv, Sources
  <2>2. \A s \in Srcs \ names' : 0 \in held'[s]
    BY <1>2, <2>1, Zenon
  <2>3. Step' \notin {"objects", "ar", "link"}
    BY <1>1, <1>3, Zenon DEF Moved, Follows
  <2> QED
    BY <1>2, <2>1, <2>2, <2>3, Zenon DEF Sources
<1>6. Libs'
  BY <1>1, <1>2, <1>3, LibsMoved, Zenon DEF IInv
<1>7. Tested'
  BY <1>1, <1>2, <1>3, TestedMoved, Zenon DEF IInv
<1>8. Caused'
  BY <1>1, <1>2, <1>3, CausedMoved, Zenon DEF IInv
<1>9. Packed'
  BY <1>1, <1>2, <1>3, PackedMoved, Zenon DEF IInv
<1> QED
  BY <1>3, <1>4, <1>5, <1>6, <1>7, <1>8, <1>9, MovedKeeps, Zenon

LEMMA CollectTestsKeeps == ASSUME IInv, CollectTests PROVE IInv'
<1>1. steps # << >> /\ Fine /\ Step = "collect tests" /\ verdict = "running"
  BY Here, Zenon DEF CollectTests
<1>2. /\ Continue /\ cmd' = cmd /\ src' = src /\ held' = held /\ names' = names /\ shared' = shared
      /\ archive' = archive /\ begun' = begun /\ tried' = tried /\ blame' = blame /\ dirs' = dirs
      /\ stage' = stage /\ left' = Tests
  BY Zenon DEF CollectTests, files, past
<1>3. Moved
  BY <1>1, <1>2, Moves, Zenon
<1>4. Typed'
  BY TypedAlready, Zenon DEF Typed, CollectTests, files, past
<1>5. Sources'
  BY <1>1, <1>2, <1>3, SourcesMoved, Zenon DEF IInv
<1>6. Libs'
  BY <1>1, <1>2, <1>3, LibsMoved, Zenon DEF IInv
<1>7. Tested'
  <2>1. Step' # "none" \/ cmd'.name \notin {"test", "valgrind", "strace"}
    BY <1>1, <1>2, <1>3, Zenon DEF Moved, Ends
  <2>2. \A t \in Tests : tried[t] # "failed"
    BY <1>1, Zenon DEF IInv, Tested
  <2>3. cmd.name = "test" => ".build" \in dirs
    BY <1>1, Zenon DEF IInv, Tested
  <2>4. verdict' # "false"
    BY <1>3, Zenon DEF Moved
  <2> QED
    BY <1>2, <2>1, <2>2, <2>3, <2>4, Zenon DEF Tested
<1>8. Caused'
  BY <1>1, <1>2, <1>3, CausedMoved, Zenon DEF IInv
<1>9. Packed'
  BY <1>1, <1>2, <1>3, PackedMoved, Zenon DEF IInv
<1> QED
  BY <1>3, <1>4, <1>5, <1>6, <1>7, <1>8, <1>9, MovedKeeps, Zenon

LEMMA BuildDirKeeps == ASSUME IInv, BuildDir PROVE IInv'
<1>1. steps # << >> /\ Fine /\ Step = "build dir" /\ verdict = "running"
  BY Here, Zenon DEF BuildDir
<1>2. /\ Continue /\ cmd' = cmd /\ src' = src /\ held' = held /\ names' = names /\ shared' = shared
      /\ archive' = archive /\ begun' = begun /\ tried' = tried /\ blame' = blame
      /\ dirs' = dirs \cup {".build"} /\ stage' = stage /\ left' = names
  BY Zenon DEF BuildDir, past
<1>3. Moved
  BY <1>1, <1>2, Moves, Zenon
<1>4. Typed'
  BY TypedAlready, Zenon DEF Typed, BuildDir, past
<1>5. Sources'
  <2>1. \A s \in Srcs : src[s] \in held[s]
    BY <1>1, Zenon DEF IInv, Sources
  <2>2. Step' \notin {"ar", "link", "build dir"}
    BY <1>1, <1>3, Zenon DEF Moved, Follows
  <2>3. Step' = "objects" => cmd.name # "test"
    BY <1>3, Zenon DEF Moved, Owns
  <2>4. Step' = "objects" => \A s \in Srcs \ names : 0 \in held[s]
    BY <1>1, <2>3, Zenon DEF IInv, Sources
  <2> QED
    BY <1>2, <2>1, <2>2, <2>4, Zenon DEF Sources
<1>6. Libs'
  BY <1>1, <1>2, <1>3, LibsMoved, Zenon DEF IInv
<1>7. Tested'
  BY <1>1, <1>2, <1>3, TestedMoved, Zenon DEF IInv
<1>8. Caused'
  BY <1>1, <1>2, <1>3, CausedMoved, Zenon DEF IInv
<1>9. Packed'
  BY <1>1, <1>2, <1>3, PackedMoved, Zenon DEF IInv
<1> QED
  BY <1>3, <1>4, <1>5, <1>6, <1>7, <1>8, <1>9, MovedKeeps, Zenon

LEMMA SubDirKeeps == ASSUME IInv, SubDir PROVE IInv'
<1>1. PICK dir \in {"tests", "docs"} :
        /\ At(IF dir = "tests" THEN "tests dir" ELSE "docs dir")
        /\ dirs' = dirs \cup Made(dir)
        /\ IF Made(dir) = {} THEN Fail ELSE Continue
  BY Zenon DEF SubDir
<1>2. /\ cmd' = cmd /\ src' = src /\ held' = held /\ names' = names /\ shared' = shared
      /\ archive' = archive /\ begun' = begun /\ tried' = tried /\ blame' = blame /\ stage' = stage
  BY Zenon DEF SubDir, past
<1>3. /\ steps # << >> /\ Fine /\ Step \in {"tests dir", "docs dir"} /\ verdict = "running"
      /\ Owns(cmd.name, Rest) /\ Step \in Rest
  <2>1. steps # << >> /\ Fine /\ Step \in {"tests dir", "docs dir"} /\ verdict = "running"
    BY <1>1, Here, Zenon
  <2> QED
    BY <2>1, OnTheWay, Zenon DEF IInv, BuildTypeOK
<1>4. Typed'
  <2>1. /\ dirs' \subseteq {".build", "tests", "docs"} /\ (dirs' # {} => ".build" \in dirs')
    BY <1>1, TypedAlready, Zenon DEF Typed, Made
  <2> QED
    BY <2>1, TypedAlready, Zenon DEF Typed, SubDir, past
<1>5. cmd.name \in {"valgrind", "strace", "docs"} => dirs = begun.dirs
  BY <1>3, Zenon DEF IInv, Caused
<1>6. CASE ".build" \notin dirs
  <2>1. Fail
    BY <1>1, <1>6, Zenon DEF Made
  <2>2. Failed
    BY <1>2, <1>3, <2>1, FailsSo, Zenon
  <2>3. cmd.name # "test"
    BY <1>3, <1>6, Zenon DEF IInv, Tested
  <2>4. cmd.name \in {"valgrind", "strace", "docs"}
    BY <1>3, <2>3, Zenon DEF Owns
  <2>5. Barred'
    BY <1>2, <1>5, <1>6, <2>4, BarredSame, Zenon DEF Barred
  <2> QED
    BY <1>2, <1>4, <2>2, <2>3, <2>5, FailedKeeps, Zenon DEF Cause
<1>7. CASE ".build" \in dirs
  <2>1. Continue
    BY <1>1, <1>7, Zenon DEF Made
  <2>2. Moved
    BY <1>2, <1>3, <2>1, Moves, Zenon
  <2>3. Sources'
    BY <1>2, <1>3, <2>2, SourcesMoved, Zenon DEF IInv
  <2>4. Libs'
    BY <1>2, <1>3, <2>2, LibsMoved, Zenon DEF IInv
  <2>5. Tested'
    BY <1>1, <1>2, <1>3, <2>2, TestedMoved, Zenon DEF IInv
  <2>6. Caused'
    BY <1>2, <1>3, <1>5, <1>7, <2>2, CausedMoved, Zenon DEF IInv
  <2>7. Packed'
    BY <1>2, <1>3, <2>2, PackedMoved, Zenon DEF IInv
  <2> QED
    BY <1>4, <2>2, <2>3, <2>4, <2>5, <2>6, <2>7, MovedKeeps, Zenon
<1> QED
  BY <1>6, <1>7

LEMMA CompileOneKeeps == ASSUME IInv, CompileOne PROVE IInv'
<1>1. steps # << >> /\ Fine /\ Step = "objects" /\ verdict = "running"
  BY Here, Zenon DEF CompileOne
<1>2. PICK s \in left : obj' = [obj EXCEPT ![s] = src[s]] /\ left' = left \ {s}
  BY Zenon DEF CompileOne
<1>3. Stays /\ cmd' = cmd
  BY Zenon DEF CompileOne, Stays
<1>4. /\ Step' = Step /\ Rest' = Rest /\ (Fine' <=> Fine) /\ (StepsTyped => StepsTyped')
      /\ Planned(cmd.name, steps)' <=> Planned(cmd.name, steps)
      /\ \A x : Has(x)' <=> Has(x)
  BY <1>3, StaysSo, Zenon
<1>5. /\ src' = src /\ held' = held /\ names' = names /\ shared' = shared /\ verdict' = verdict
      /\ archive' = archive /\ begun' = begun /\ tried' = tried /\ blame' = blame /\ dirs' = dirs
      /\ stage' = stage /\ tarball' = tarball /\ steps' = steps
  BY Zenon DEF CompileOne, past
<1>6. /\ left \subseteq names /\ names \subseteq Srcs /\ s \in Srcs
      /\ \A r \in Srcs : src[r] \in held[r]
      /\ \A r \in names \ left : obj[r] \in held[r]
      /\ src \in Members /\ obj \in Members
  BY <1>1, TypedAlready, Zenon DEF IInv, Sources, Typed
<1>7. obj' \in Members /\ \A r \in Srcs : obj'[r] = IF r = s THEN src[r] ELSE obj[r]
  BY <1>2, <1>6 DEF Members
<1>8. BuildTypeOK'
  <2>1. Typed'
    BY <1>2, <1>7, TypedAlready, Zenon DEF Typed, CompileOne, past
  <2>2. StepsTyped'
    BY <1>4, TypesSplit, Zenon DEF IInv
  <2> QED
    BY <2>1, <2>2, TypesSplitPrimed
<1>9. Sources'
  <2>1. left' \subseteq names' /\ \A r \in names' \ left' : obj'[r] \in held'[r]
    BY <1>2, <1>5, <1>6, <1>7, Zenon
  <2>2. \A r \in Srcs \ names : 0 \in held[r]
    BY <1>1, Zenon DEF IInv, Sources
  <2> QED
    BY <1>1, <1>4, <1>5, <1>6, <2>1, <2>2, Zenon DEF Sources
<1>10. Course'
  BY <1>3, <1>4, <1>5, Zenon DEF IInv, Course
<1>11. Libs'
  BY <1>3, <1>4, <1>5, Zenon DEF IInv, Libs
<1>12. Tested'
  BY <1>1, <1>3, <1>4, <1>5, Zenon DEF IInv, Tested
<1>13. Caused'
  BY <1>3, <1>4, <1>5, Zenon DEF IInv, Caused, Cause, Barred
<1>14. Packed'
  BY <1>3, <1>4, <1>5, Zenon DEF IInv, Packed
<1> QED
  BY <1>8, <1>9, <1>10, <1>11, <1>12, <1>13, <1>14, Zenon DEF IInv

LEMMA ObjectsDoneKeeps == ASSUME IInv, ObjectsDone PROVE IInv'
<1>1. steps # << >> /\ Fine /\ Step = "objects" /\ verdict = "running"
  BY Here, Zenon DEF ObjectsDone
<1>2. /\ Continue /\ cmd' = cmd /\ src' = src /\ held' = held /\ names' = names /\ shared' = shared
      /\ archive' = archive /\ begun' = begun /\ tried' = tried /\ blame' = blame /\ dirs' = dirs
      /\ stage' = stage /\ obj' = obj /\ left = {}
  BY Zenon DEF ObjectsDone, files, past
<1>3. Moved
  BY <1>1, <1>2, Moves, Zenon
<1>4. Typed'
  BY TypedAlready, TypedSame, Zenon DEF ObjectsDone, past
<1>5. Sources'
  <2>1. /\ \A s \in Srcs : src[s] \in held[s]
        /\ \A s \in Srcs \ names : 0 \in held[s]
        /\ \A s \in names \ left : obj[s] \in held[s]
    BY <1>1, Zenon DEF IInv, Sources
  <2>2. Step' \notin {"objects", "build dir"}
    BY <1>1, <1>3, Zenon DEF Moved, Follows
  <2> QED
    BY <1>2, <2>1, <2>2, Zenon DEF Sources
<1>6. Libs'
  BY <1>1, <1>2, <1>3, LibsMoved, Zenon DEF IInv
<1>7. Tested'
  BY <1>1, <1>2, <1>3, TestedMoved, Zenon DEF IInv
<1>8. Caused'
  BY <1>1, <1>2, <1>3, CausedMoved, Zenon DEF IInv
<1>9. Packed'
  BY <1>1, <1>2, <1>3, PackedMoved, Zenon DEF IInv
<1> QED
  BY <1>3, <1>4, <1>5, <1>6, <1>7, <1>8, <1>9, MovedKeeps, Zenon

LEMMA ArKeeps == ASSUME IInv, Ar PROVE IInv'
<1>1. steps # << >> /\ Fine /\ Step = "ar" /\ verdict = "running"
  BY Here, Zenon DEF Ar
<1>2. /\ Continue /\ cmd' = cmd /\ src' = src /\ held' = held /\ names' = names /\ shared' = shared
      /\ begun' = begun /\ tried' = tried /\ blame' = blame /\ dirs' = dirs /\ stage' = stage
      /\ archive' = [s \in Srcs |-> IF s \in names THEN obj[s] ELSE archive[s]]
  BY Zenon DEF Ar, past
<1>3. Moved
  BY <1>1, <1>2, Moves, Zenon
<1>4. Typed'
  <2>1. archive' \in Members
    <3>1. obj \in Members /\ archive \in Members
      BY TypedAlready, Zenon DEF Typed
    <3> QED
      BY <1>2, <3>1 DEF Members
  <2> QED
    BY <2>1, TypedAlready, Zenon DEF Typed, Ar, past
<1>5. Sources'
  BY <1>1, <1>2, <1>3, SourcesMoved, Zenon DEF IInv
<1>6. Libs'
  <2>1. "ar" \in Rest /\ "ar" \notin Rest' /\ ("link" \in Rest => "link" \in Rest')
    BY <1>1, <1>3, Zenon DEF Moved
  <2>2. archive = begun.archive
    BY <1>1, <2>1, Zenon DEF IInv, Libs
  <2>3. /\ \A s \in Srcs \ names : 0 \in held[s]
        /\ \A s \in names : obj[s] \in held[s]
    BY <1>1, Zenon DEF IInv, Sources
  <2>4. \A s \in Srcs : archive'[s] \in held'[s] \/ (0 \in held'[s] /\ archive'[s] = begun'.archive[s])
    <3>1. \A s \in Srcs : archive'[s] = IF s \in names THEN obj[s] ELSE archive[s]
      BY <1>2, Zenon
    <3> QED
      BY <1>2, <2>2, <2>3, <3>1, Zenon
  <2>5. Has("link")' /\ "link" \notin Rest' => \A s \in Srcs : shared'[s] \in held'[s]
    BY <1>1, <1>2, <2>1, Zenon DEF IInv, Libs, Has
  <2> QED
    BY <2>1, <2>4, <2>5, Zenon DEF Libs
<1>7. Tested'
  BY <1>1, <1>2, <1>3, TestedMoved, Zenon DEF IInv
<1>8. Caused'
  BY <1>1, <1>2, <1>3, CausedMoved, Zenon DEF IInv
<1>9. Packed'
  BY <1>1, <1>2, <1>3, PackedMoved, Zenon DEF IInv
<1> QED
  BY <1>3, <1>4, <1>5, <1>6, <1>7, <1>8, <1>9, MovedKeeps, Zenon

LEMMA LinkKeeps == ASSUME IInv, Link PROVE IInv'
<1>1. steps # << >> /\ Fine /\ Step = "link" /\ verdict = "running"
  BY Here, Zenon DEF Link
<1>2. /\ Continue /\ cmd' = cmd /\ src' = src /\ held' = held /\ names' = names
      /\ archive' = archive /\ begun' = begun /\ tried' = tried /\ blame' = blame /\ dirs' = dirs
      /\ stage' = stage /\ shared' = [s \in Srcs |-> IF s \in names THEN obj[s] ELSE 0]
  BY Zenon DEF Link, past, Linked
<1>3. Moved
  BY <1>1, <1>2, Moves, Zenon
<1>4. Typed'
  <2>1. shared' \in Members
    <3>1. obj \in Members
      BY TypedAlready, Zenon DEF Typed
    <3> QED
      BY <1>2, <3>1, NothingYet DEF Members
  <2> QED
    BY <2>1, TypedAlready, Zenon DEF Typed, Link, past
<1>5. Sources'
  BY <1>1, <1>2, <1>3, SourcesMoved, Zenon DEF IInv
<1>6. Libs'
  <2>1. "ar" \in Rest <=> "ar" \in Rest'
    BY <1>1, <1>3, Zenon DEF Moved
  <2>2. /\ \A s \in Srcs \ names : 0 \in held[s]
        /\ \A s \in names : obj[s] \in held[s]
    BY <1>1, Zenon DEF IInv, Sources
  <2>3. \A s \in Srcs : shared'[s] \in held'[s]
    <3>1. \A s \in Srcs : shared'[s] = IF s \in names THEN obj[s] ELSE 0
      BY <1>2, Zenon
    <3> QED
      BY <1>2, <2>2, <3>1, Zenon
  <2>4. Has("ar")' <=> Has("ar")
    BY <1>2, Zenon DEF Has
  <2> QED
    BY <1>1, <1>2, <2>1, <2>3, <2>4, Zenon DEF IInv, Libs
<1>7. Tested'
  BY <1>1, <1>2, <1>3, TestedMoved, Zenon DEF IInv
<1>8. Caused'
  BY <1>1, <1>2, <1>3, CausedMoved, Zenon DEF IInv
<1>9. Packed'
  BY <1>1, <1>2, <1>3, PackedMoved, Zenon DEF IInv
<1> QED
  BY <1>3, <1>4, <1>5, <1>6, <1>7, <1>8, <1>9, MovedKeeps, Zenon

LEMMA TestOneKeeps == ASSUME IInv, TestOne PROVE IInv'
<1>1. PICK loop \in {"tests", "checks"}, t \in left, result \in {"ok", "failed"} :
        /\ At(loop)
        /\ tried' = [tried EXCEPT ![t] = result]
        /\ left' = left \ {t}
        /\ IF result = "failed" /\ ~GoesOn(loop) THEN Fail ELSE UNCHANGED << steps, verdict >>
  BY Zenon DEF TestOne
<1>2. /\ cmd' = cmd /\ src' = src /\ held' = held /\ names' = names /\ shared' = shared
      /\ archive' = archive /\ begun' = begun /\ blame' = blame /\ dirs' = dirs
      /\ stage' = stage /\ tarball' = tarball /\ obj' = obj /\ edits' = edits
  BY Zenon DEF TestOne, files
<1>3. /\ steps # << >> /\ Fine /\ Step = loop /\ verdict = "running"
      /\ Owns(cmd.name, Rest) /\ Step \in Rest
  <2>1. steps # << >> /\ Fine /\ Step = loop /\ verdict = "running"
    BY <1>1, Here, Zenon
  <2> QED
    BY <2>1, OnTheWay, Zenon DEF IInv, BuildTypeOK
<1>4. left \subseteq Tests /\ t \in Tests
  BY <1>1, <1>3, Zenon DEF IInv, Tested
<1>5. /\ tried' \in [Tests -> {"no", "ok", "failed"}]
      /\ \A r \in Tests : tried'[r] = IF r = t THEN result ELSE tried[r]
  <2>1. tried \in [Tests -> {"no", "ok", "failed"}]
    BY TypedAlready, Zenon DEF Typed
  <2> QED
    BY <1>1, <1>4, <2>1
<1>6. Typed'
  <2>1. left' \subseteq Srcs \cup Tests
    BY <1>1, <1>4, Zenon
  <2> QED
    BY <1>2, <1>5, <2>1, TypedAlready, Zenon DEF Typed
<1>7. CASE result = "failed" /\ loop = "checks"
  <2>1. Fail
    BY <1>1, <1>7, Zenon DEF GoesOn
  <2>2. Failed
    BY <1>2, <1>3, <2>1, FailsSo, Zenon
  <2>3. cmd.name # "test"
    BY <1>3, <1>7, Zenon DEF Owns
  <2>4. Cause'
    BY <1>4, <1>5, <1>7, Zenon DEF Cause
  <2> QED
    BY <1>2, <1>6, <2>2, <2>3, <2>4, FailedKeeps, Zenon
<1>8. CASE result = "ok" \/ loop = "tests"
  <2>1. Stays
    BY <1>1, <1>2, <1>8, Zenon DEF GoesOn, Stays
  <2>2. /\ Step' = Step /\ Rest' = Rest /\ (Fine' <=> Fine) /\ (StepsTyped => StepsTyped')
        /\ Planned(cmd.name, steps)' <=> Planned(cmd.name, steps)
        /\ \A x : Has(x)' <=> Has(x)
    BY <2>1, StaysSo, Zenon
  <2>3. verdict' = verdict /\ steps' = steps
    BY <2>1, Zenon DEF Stays
  <2>4. BuildTypeOK'
    <3>1. StepsTyped'
      BY <2>2, TypesSplit, Zenon DEF IInv
    <3> QED
      BY <1>6, <3>1, TypesSplitPrimed
  <2>5. Course'
    BY <1>2, <2>2, <2>3, Zenon DEF IInv, Course
  <2>6. Sources'
    <3>1. Step' \notin {"build dir", "objects", "ar", "link"}
      BY <1>3, <2>2, Zenon
    <3> QED
      BY <1>2, <2>3, <3>1, Zenon DEF IInv, Sources
  <2>7. Libs'
    BY <1>2, <2>2, Zenon DEF IInv, Libs
  <2>8. Tested'
    <3>1. left' \subseteq Tests /\ \A r \in Tests : tried'[r] = "no" => r \in left'
      BY <1>1, <1>3, <1>4, <1>5, Zenon DEF IInv, Tested
    <3>2. \A r \in Tests : tried'[r] = "failed" => Step' = "tests"
      BY <1>3, <1>5, <1>8, <2>2, Zenon DEF IInv, Tested
    <3>3. Step' \in {"tests", "checks"} /\ verdict' = "running"
      BY <1>3, <2>2, <2>3, Zenon
    <3>4. Fine' /\ cmd'.name = "test" /\ Step' # "build dir" => ".build" \in dirs'
      BY <1>2, <2>2, Zenon DEF IInv, Tested
    <3> QED
      BY <3>1, <3>2, <3>3, <3>4, Zenon DEF Tested
  <2>9. Caused'
    <3>1. verdict' = "running" /\ Step' # "rm failed"
      BY <1>3, <2>2, <2>3, Zenon
    <3> QED
      BY <1>2, <2>2, <3>1, Zenon DEF IInv, Caused
  <2>10. Packed'
    BY <1>2, <2>2, <2>3, Zenon DEF IInv, Packed
  <2> QED
    BY <2>4, <2>5, <2>6, <2>7, <2>8, <2>9, <2>10, Zenon DEF IInv
<1> QED
  BY <1>7, <1>8, Zenon

LEMMA TestsDoneKeeps == ASSUME IInv, TestsDone PROVE IInv'
<1>1. /\ steps # << >> /\ Fine /\ Step \in {"tests", "checks"} /\ verdict = "running"
  BY Here, Zenon DEF TestsDone
<1>2. /\ cmd' = cmd /\ src' = src /\ held' = held /\ names' = names /\ shared' = shared
      /\ archive' = archive /\ begun' = begun /\ tried' = tried /\ blame' = blame /\ dirs' = dirs
      /\ stage' = stage
  BY Zenon DEF TestsDone, files, past
<1>3. Typed'
  BY TypedAlready, TypedSame, Zenon DEF TestsDone, past
<1>4. \A t \in Tests : tried[t] # "no"
  BY <1>1, Zenon DEF IInv, Tested, TestsDone
<1>5. CASE \E t \in Tests : tried[t] = "failed"
  <2>1. Failed
    BY <1>1, <1>2, <1>5, FailsSo, Zenon DEF TestsDone
  <2>2. Cause'
    BY <1>2, <1>5, Zenon DEF Cause
  <2> QED
    BY <1>2, <1>3, <1>4, <2>1, <2>2, FailedKeeps, Zenon
<1>6. CASE ~ \E t \in Tests : tried[t] = "failed"
  <2>1. Continue
    BY <1>6, Zenon DEF TestsDone
  <2>2. Moved
    BY <1>1, <1>2, <2>1, Moves, Zenon
  <2>3. Sources'
    BY <1>1, <1>2, <2>2, SourcesMoved, Zenon DEF IInv
  <2>4. Libs'
    BY <1>1, <1>2, <2>2, LibsMoved, Zenon DEF IInv
  <2>5. Tested'
    <3>1. Step' \notin {"tests", "checks"}
      BY <1>1, <2>2, Zenon DEF Moved, Follows
    <3>2. \A t \in Tests : tried[t] = "ok"
      BY <1>4, <1>6, TypedAlready DEF Typed
    <3>3. cmd.name = "test" => ".build" \in dirs
      BY <1>1, Zenon DEF IInv, Tested
    <3>4. verdict' # "false"
      BY <2>2, Zenon DEF Moved
    <3> QED
      BY <1>2, <1>6, <3>1, <3>2, <3>3, <3>4, Zenon DEF Tested
  <2>6. Caused'
    BY <1>1, <1>2, <2>2, CausedMoved, Zenon DEF IInv
  <2>7. Packed'
    BY <1>1, <1>2, <2>2, PackedMoved, Zenon DEF IInv
  <2> QED
    BY <1>3, <2>2, <2>3, <2>4, <2>5, <2>6, <2>7, MovedKeeps, Zenon
<1> QED
  BY <1>5, <1>6, Zenon

LEMMA CleanKeeps == ASSUME IInv, Clean PROVE IInv'
<1>1. /\ steps # << >> /\ Fine /\ Step = "clean" /\ verdict = "running"
      /\ Owns(cmd.name, Rest) /\ Step \in Rest
  <2>1. steps # << >> /\ Fine /\ Step = "clean" /\ verdict = "running"
    BY Here, Zenon DEF Clean
  <2> QED
    BY <2>1, OnTheWay, Zenon DEF IInv, BuildTypeOK
<1>2. /\ Continue /\ cmd' = cmd /\ src' = src /\ held' = held /\ names' = names
      /\ begun' = begun /\ tried' = tried /\ blame' = blame /\ dirs' = {} /\ stage' = stage
      /\ obj' = None /\ archive' = None /\ shared' = None
  BY Zenon DEF Clean, past
<1>3. Moved
  BY <1>1, <1>2, Moves, Zenon
<1>4. cmd.name = "clean"
  BY <1>1, Zenon DEF Owns
<1>5. Typed'
  BY <1>2, NothingYet, TypedAlready, Zenon DEF Typed, Clean, past
<1>6. Sources'
  BY <1>1, <1>2, <1>3, SourcesMoved, Zenon DEF IInv
<1>7. Libs'
  <2>1. "ar" \notin In(StepsOf("clean")) /\ "link" \notin In(StepsOf("clean"))
    <3>1. Planned("clean", StepsOf("clean"))
      BY Plans, Zenon DEF Plain
    <3> QED
      BY <3>1, Zenon DEF Planned, Owns
  <2>2. ~Has("ar")' /\ ~Has("link")'
    BY <1>2, <1>4, <2>1, Zenon DEF Has, In
  <2>3. "ar" \notin Rest'
    BY <1>1, <1>3, <1>4, Zenon DEF Moved, Owns
  <2> QED
    BY <2>2, <2>3, Zenon DEF Libs
<1>8. Tested'
  <2>1. Step' \notin {"tests", "checks"} /\ verdict' # "false"
    BY <1>1, <1>3, Zenon DEF Moved, Follows
  <2>2. \A t \in Tests : tried[t] # "failed"
    BY <1>1, Zenon DEF IInv, Tested
  <2> QED
    BY <1>2, <1>4, <2>1, <2>2, Zenon DEF Tested
<1>9. Caused'
  BY <1>1, <1>2, <1>3, CausedMoved, Zenon DEF IInv
<1>10. Packed'
  BY <1>1, <1>2, <1>3, PackedMoved, Zenon DEF IInv
<1> QED
  BY <1>3, <1>5, <1>6, <1>7, <1>8, <1>9, <1>10, MovedKeeps, Zenon

LEMMA CheckVersionKeeps == ASSUME IInv, CheckVersion PROVE IInv'
<1>1. /\ steps # << >> /\ Fine /\ Step = "version" /\ verdict = "running"
      /\ Owns(cmd.name, Rest) /\ Step \in Rest
  <2>1. steps # << >> /\ Fine /\ Step = "version" /\ verdict = "running"
    BY Here, Zenon DEF CheckVersion
  <2> QED
    BY <2>1, OnTheWay, Zenon DEF IInv, BuildTypeOK
<1>2. /\ cmd' = cmd /\ src' = src /\ held' = held /\ names' = names /\ shared' = shared
      /\ archive' = archive /\ begun' = begun /\ tried' = tried /\ blame' = blame /\ dirs' = dirs
      /\ stage' = stage
  BY Zenon DEF CheckVersion, files, past
<1>3. Typed'
  BY TypedAlready, TypedSame, Zenon DEF CheckVersion, past
<1>4. cmd.name = "pack"
  BY <1>1, Zenon DEF Owns, Packing
<1>5. CASE cmd.version = << >> \/ IsValidSemver(cmd.version)
  <2>1. Continue
    BY <1>5, Zenon DEF CheckVersion
  <2>2. Moved
    BY <1>1, <1>2, <2>1, Moves, Zenon
  <2>3. Sources'
    BY <1>1, <1>2, <2>2, SourcesMoved, Zenon DEF IInv
  <2>4. Libs'
    BY <1>1, <1>2, <2>2, LibsMoved, Zenon DEF IInv
  <2>5. Tested'
    BY <1>1, <1>2, <2>2, TestedMoved, Zenon DEF IInv
  <2>6. Caused'
    BY <1>1, <1>2, <1>5, <2>2, CausedMoved, Zenon DEF IInv
  <2>7. Packed'
    BY <1>1, <1>2, <2>2, PackedMoved, Zenon DEF IInv
  <2> QED
    BY <1>3, <2>2, <2>3, <2>4, <2>5, <2>6, <2>7, MovedKeeps, Zenon
<1>6. CASE ~(cmd.version = << >> \/ IsValidSemver(cmd.version))
  <2>1. Failed
    BY <1>1, <1>2, <1>6, FailsSo, Zenon DEF CheckVersion
  <2>2. Barred'
    BY <1>2, <1>4, <1>6, BarredSame, Zenon DEF Barred
  <2> QED
    BY <1>2, <1>3, <1>4, <2>1, <2>2, FailedKeeps, Zenon DEF Cause
<1> QED
  BY <1>5, <1>6

\* Making the staging directory and filling it, but for the directories in it.
StagingOn ==
  \/ At("mkdtemp") /\ stage' = [Absent EXCEPT !.in = TRUE]
  \/ At("headers") /\ stage' = [stage EXCEPT !.headers = TRUE]
  \/ At("copy a")  /\ stage' = [stage EXCEPT !.a = archive]
  \/ At("copy so") /\ stage' = [stage EXCEPT !.so = shared]

\* What each of these steps puts into it.
LEMMA StageFilled ==
  ASSUME Typed, StagingOn
  PROVE  /\ stage' \in Stage
         /\ At("mkdtemp") => stage'.in
         /\ ~At("mkdtemp") => stage'.in = stage.in
         /\ At("headers") => stage'.headers
         /\ ~At("mkdtemp") /\ ~At("headers") => stage'.headers = stage.headers
         /\ At("copy a") => stage'.a = archive
         /\ At("copy so") => stage'.a = stage.a /\ stage'.so = shared
<1>1. stage \in Stage /\ archive \in Members /\ shared \in Members /\ Absent \in Stage
  BY NothingYet, Zenon DEF Typed
<1>2. \A x, y \in {"mkdtemp", "headers", "copy a", "copy so"} : At(x) /\ At(y) => x = y
  BY Zenon DEF At
<1>3. CASE At("mkdtemp")
  <2>1. stage' = [Absent EXCEPT !.in = TRUE]
    BY <1>2, <1>3, Zenon DEF StagingOn
  <2>2. stage' \in Stage /\ stage'.in
    BY <1>1, <2>1 DEF Stage
  <2> QED
    BY <1>2, <1>3, <2>2, Zenon
<1>4. CASE At("headers")
  <2>1. stage' = [stage EXCEPT !.headers = TRUE]
    BY <1>2, <1>4, Zenon DEF StagingOn
  <2>2. stage' \in Stage /\ stage'.headers /\ stage'.in = stage.in
    BY <1>1, <2>1 DEF Stage
  <2> QED
    BY <1>2, <1>4, <2>2, Zenon
<1>5. CASE At("copy a")
  <2>1. stage' = [stage EXCEPT !.a = archive]
    BY <1>2, <1>5, Zenon DEF StagingOn
  <2>2. stage' \in Stage /\ stage'.a = archive /\ stage'.in = stage.in /\ stage'.headers = stage.headers
    BY <1>1, <2>1 DEF Stage
  <2> QED
    BY <1>2, <1>5, <2>2, Zenon
<1>6. CASE At("copy so")
  <2>1. stage' = [stage EXCEPT !.so = shared]
    BY <1>2, <1>6, Zenon DEF StagingOn
  <2>2. /\ stage' \in Stage /\ stage'.so = shared /\ stage'.in = stage.in
        /\ stage'.headers = stage.headers /\ stage'.a = stage.a
    BY <1>1, <2>1 DEF Stage
  <2> QED
    BY <1>2, <1>6, <2>2, Zenon
<1> QED
  BY <1>3, <1>4, <1>5, <1>6, Zenon DEF StagingOn

LEMMA StagingOnKeeps ==
  ASSUME IInv, Staging, StagingOn, Continue PROVE IInv'
<1>1. PICK x \in {"mkdtemp", "headers", "copy a", "copy so"} : At(x)
  BY Zenon DEF StagingOn
<1>2. /\ steps # << >> /\ Fine /\ Step = x /\ verdict = "running"
      /\ Owns(cmd.name, Rest) /\ Step \in Rest
  <2>1. steps # << >> /\ Fine /\ Step = x /\ verdict = "running"
    BY <1>1, Here, Zenon
  <2> QED
    BY <2>1, OnTheWay, Zenon DEF IInv, BuildTypeOK
<1>3. /\ cmd' = cmd /\ src' = src /\ held' = held /\ names' = names /\ shared' = shared
      /\ archive' = archive /\ begun' = begun /\ tried' = tried /\ blame' = blame /\ dirs' = dirs
  BY Zenon DEF Staging, past
<1>4. Moved
  BY <1>2, <1>3, Moves, Zenon
<1>5. \A y : At(y) => Step = y
  BY Zenon DEF At, Step
<1>6. /\ stage' \in Stage
      /\ Step = "mkdtemp" => stage'.in
      /\ Step # "mkdtemp" => stage'.in = stage.in
      /\ Step = "headers" => stage'.headers
      /\ Step \notin {"mkdtemp", "headers"} => stage'.headers = stage.headers
      /\ Step = "copy a" => stage'.a = archive
      /\ Step = "copy so" => stage'.a = stage.a /\ stage'.so = shared
  BY <1>1, <1>2, <1>5, StageFilled, TypedAlready, Zenon
<1>7. Typed'
  BY <1>6, TypedAlready, Zenon DEF Typed, Staging, past
<1>8. Sources'
  BY <1>2, <1>3, <1>4, SourcesMoved, Zenon DEF IInv
<1>9. Libs'
  BY <1>2, <1>3, <1>4, LibsMoved, Zenon DEF IInv
<1>10. Tested'
  BY <1>2, <1>3, <1>4, TestedMoved, Zenon DEF IInv
<1>11. Caused'
  BY <1>2, <1>3, <1>4, CausedMoved, Zenon DEF IInv
<1>12. Packed'
  <2>1. cmd.name = "pack"
    BY <1>2, Zenon DEF Owns, Packing
  <2>2. Step' # "none" /\ verdict' = "running"
    <3>1. Step' # "none"
      BY <1>2, <1>4, <2>1, Zenon DEF Moved, Ends
    <3> QED
      BY <1>4, <3>1, Zenon DEF Moved, Step
  <2>3. /\ Step' = "layout" => Step = "mkdtemp"
        /\ Step' = "headers" => FALSE
        /\ Step' = "copy a" => Step = "headers"
        /\ Step' = "copy so" => Step = "copy a"
        /\ Step' = "tar" => Step = "copy so"
        /\ Step' = "rm" => FALSE
    BY <1>2, <1>4, <2>2, Zenon DEF Moved, Follows
  <2>4. Step # "mkdtemp" => stage.in
    BY <1>2, Zenon DEF IInv, Packed
  <2>5. Step \in {"copy a", "copy so"} => stage.headers
    BY <1>2, Zenon DEF IInv, Packed
  <2>6. Step = "copy so" => stage.a = archive
    BY <1>2, Zenon DEF IInv, Packed
  <2> QED
    BY <1>2, <1>3, <1>6, <2>1, <2>2, <2>3, <2>4, <2>5, <2>6, Zenon DEF Packed
<1> QED
  BY <1>4, <1>7, <1>8, <1>9, <1>10, <1>11, <1>12, MovedKeeps, Zenon

LEMMA StagingKeeps == ASSUME IInv, Staging PROVE IInv'
<1>1. CASE StagingOn /\ Continue
  BY <1>1, StagingOnKeeps, Zenon
<1>2. CASE At("layout") /\ UNCHANGED stage /\ IF cmd.prefix = "nowhere" THEN Fail ELSE Continue
  <2>1. /\ steps # << >> /\ Fine /\ Step = "layout" /\ verdict = "running"
        /\ Owns(cmd.name, Rest) /\ Step \in Rest
    <3>1. steps # << >> /\ Fine /\ Step = "layout" /\ verdict = "running"
      BY <1>2, Here, Zenon
    <3> QED
      BY <3>1, OnTheWay, Zenon DEF IInv, BuildTypeOK
  <2>2. /\ cmd' = cmd /\ src' = src /\ held' = held /\ names' = names /\ shared' = shared
        /\ archive' = archive /\ begun' = begun /\ tried' = tried /\ blame' = blame /\ dirs' = dirs
        /\ stage' = stage
    BY <1>2, Zenon DEF Staging, past
  <2>3. Typed'
    BY <2>2, TypedAlready, Zenon DEF Typed, Staging, past
  <2>4. cmd.name = "pack"
    BY <2>1, Zenon DEF Owns, Packing
  <2>5. CASE cmd.prefix = "nowhere"
    <3>1. Failed
      BY <1>2, <2>1, <2>2, <2>5, FailsSo, Zenon
    <3>2. Barred'
      BY <2>2, <2>4, <2>5, BarredSame, Zenon DEF Barred
    <3> QED
      BY <2>2, <2>3, <2>4, <3>1, <3>2, FailedKeeps, Zenon DEF Cause
  <2>6. CASE cmd.prefix # "nowhere"
    <3>1. Continue
      BY <1>2, <2>6, Zenon
    <3>2. Moved
      BY <2>1, <2>2, <3>1, Moves, Zenon
    <3>3. Sources'
      BY <2>1, <2>2, <3>2, SourcesMoved, Zenon DEF IInv
    <3>4. Libs'
      BY <2>1, <2>2, <3>2, LibsMoved, Zenon DEF IInv
    <3>5. Tested'
      BY <2>1, <2>2, <3>2, TestedMoved, Zenon DEF IInv
    <3>6. Caused'
      BY <2>1, <2>2, <2>6, <3>2, CausedMoved, Zenon DEF IInv
    <3>7. Packed'
      BY <2>1, <2>2, <3>2, PackedMoved, Zenon DEF IInv
    <3> QED
      BY <2>3, <3>2, <3>3, <3>4, <3>5, <3>6, <3>7, MovedKeeps, Zenon
  <2> QED
    BY <2>5, <2>6
<1> QED
  BY <1>1, <1>2, Zenon DEF Staging, StagingOn

LEMMA TarKeeps == ASSUME IInv, Tar PROVE IInv'
<1>1. /\ steps # << >> /\ Fine /\ Step = "tar" /\ verdict = "running"
      /\ Owns(cmd.name, Rest) /\ Step \in Rest
  <2>1. steps # << >> /\ Fine /\ Step = "tar" /\ verdict = "running"
    BY Here, Zenon DEF Tar
  <2> QED
    BY <2>1, OnTheWay, Zenon DEF IInv, BuildTypeOK
<1>2. /\ Continue /\ cmd' = cmd /\ src' = src /\ held' = held /\ names' = names /\ shared' = shared
      /\ archive' = archive /\ begun' = begun /\ tried' = tried /\ blame' = blame /\ dirs' = dirs
      /\ stage' = stage /\ tarball' = stage
  BY Zenon DEF Tar, past
<1>3. Moved
  BY <1>1, <1>2, Moves, Zenon
<1>4. Typed'
  BY <1>2, TypedAlready, Zenon DEF Typed, Tar, past
<1>5. Sources'
  BY <1>1, <1>2, <1>3, SourcesMoved, Zenon DEF IInv
<1>6. Libs'
  BY <1>1, <1>2, <1>3, LibsMoved, Zenon DEF IInv
<1>7. Tested'
  BY <1>1, <1>2, <1>3, TestedMoved, Zenon DEF IInv
<1>8. Caused'
  BY <1>1, <1>2, <1>3, CausedMoved, Zenon DEF IInv
<1>9. Packed'
  <2>1. cmd.name = "pack"
    BY <1>1, Zenon DEF Owns, Packing
  <2>2. Step' # "none" /\ verdict' = "running"
    <3>1. Step' # "none"
      BY <1>1, <1>3, <2>1, Zenon DEF Moved, Ends
    <3> QED
      BY <1>3, <3>1, Zenon DEF Moved, Step
  <2>3. Step' \notin {"layout", "headers", "copy a", "copy so", "tar"}
    BY <1>1, <1>3, <2>2, Zenon DEF Moved, Follows
  <2>4. stage = [in |-> TRUE, headers |-> TRUE, a |-> archive, so |-> shared]
    <3>1. stage.in /\ stage.headers /\ stage.a = archive /\ stage.so = shared /\ stage \in Stage
      BY <1>1, TypedAlready, Zenon DEF IInv, Packed, Typed
    <3> QED
      BY <3>1 DEF Stage
  <2>5. stage.in
    BY <1>1, Zenon DEF IInv, Packed
  <2> QED
    BY <1>2, <2>1, <2>2, <2>3, <2>4, <2>5, Zenon DEF Packed
<1> QED
  BY <1>3, <1>4, <1>5, <1>6, <1>7, <1>8, <1>9, MovedKeeps, Zenon

-----------------------------------------------------------------------------
(* The versions that is_valid_semver() accepts.  Its loop is a recursive function of how many *)
(* characters it has read, and what it knows after them an induction over their number.       *)

\* A set of numbers that is not empty has a smallest one.
LEMMA Smallest ==
  ASSUME NEW T \in SUBSET Nat, T # {}
  PROVE  \E p \in T : \A q \in T : p <= q
<1> DEFINE R == OpToRel(<, Nat)
<1>1. \A x, y \in Nat : x < y => << x, y >> \in R
  BY DEF OpToRel
<1>2. IsWellFoundedOn(R, Nat)
  BY NatLessThanWellFounded, Zenon
<1> HIDE DEF R
<1>3. PICK p \in T : \A q \in T : << q, p >> \notin R
  BY <1>2, WFMin, Zenon
<1>4. \A q \in T : q \in Nat /\ p \in Nat /\ ~ q < p
  BY <1>1, <1>3, Zenon
<1>5. \A q \in T : p <= q
  BY ONLY <1>4
<1> QED
  BY <1>5, Zenon

\* What holds of 0, and of each number up to n that follows one of which it holds, holds of all.
LEMMA CountedUp ==
  ASSUME NEW n \in Nat, NEW H \in SUBSET Nat, 0 \in H,
         \A k \in 1 .. n : k - 1 \in H => k \in H
  PROVE  0 .. n \subseteq H
<1> DEFINE T == 0 .. n \ H
<1> SUFFICES ASSUME T # {} PROVE FALSE
  BY Zenon
<1>1. T \in SUBSET Nat
  OBVIOUS
<1> HIDE DEF T
<1>2. PICK p \in T : \A q \in T : p <= q
  BY <1>1, Smallest, Zenon
<1>3. p \in 0 .. n /\ p \notin H
  BY <1>2, Zenon DEF T
<1>4. p \in 1 .. n /\ p - 1 \in 0 .. n /\ ~ p <= p - 1
  <2>1. p # 0
    BY <1>3, Zenon
  <2> QED
    BY <1>3, <2>1
<1>5. p - 1 \in H
  BY <1>2, <1>4, Zenon DEF T
<1> QED
  BY <1>3, <1>4, <1>5, Zenon

\* The loop as tlapm knows it, a function that is its own body; and what it has done after n turns.
LoopBody(v, f) == [k \in 0 .. Len(v) |-> IF k = 0 THEN Start ELSE Turn(f[k - 1], v[k])]
Obeys(v, f, n) == f[0] = Start /\ \A k \in 1 .. n : f[k] = Turn(f[k - 1], v[k])

\* A loop over a text has such a function: an induction over the number of its turns.
LEMMA ScanObeys ==
  ASSUME NEW S, NEW v \in Seq(S)
  PROVE  Obeys(v, Scan(v), Len(v))
<1> DEFINE n == Len(v)
           H == {m \in 0 .. n : \E f : Obeys(v, f, m)}
<1>1. n \in Nat
  OBVIOUS
<1> HIDE DEF n
<1>2. 0 \in H
  <2> DEFINE f == [k \in {0} |-> Start]
  <2>1. f[0] = Start
    OBVIOUS
  <2>2. \A k \in 1 .. 0 : FALSE
    OBVIOUS
  <2>3. 0 \in 0 .. n
    BY <1>1
  <2> HIDE DEF f
  <2> QED
    BY <2>1, <2>2, <2>3, Zenon DEF Obeys
<1>3. ASSUME NEW k \in 1 .. n, k - 1 \in H PROVE k \in H
  <2>1. PICK f : Obeys(v, f, k - 1)
    BY <1>3, Zenon
  <2> DEFINE g == [i \in 0 .. n |-> IF i = k THEN Turn(f[k - 1], v[k]) ELSE f[i]]
  <2>2. \A i \in 0 .. n : g[i] = IF i = k THEN Turn(f[k - 1], v[k]) ELSE f[i]
    BY Zenon
  <2> HIDE DEF g
  <2>3. 0 # k /\ 0 \in 0 .. n /\ k \in 0 .. n /\ k - 1 # k /\ k - 1 \in 0 .. n
    BY <1>1
  <2>4. \A i \in 1 .. k : i # k => i \in 1 .. k - 1 /\ i - 1 # k /\ i \in 0 .. n /\ i - 1 \in 0 .. n
    BY <1>1
  <2>5. Obeys(v, g, k)
    BY <2>1, <2>2, <2>3, <2>4, Zenon DEF Obeys
  <2> QED
    BY <2>3, <2>5, Zenon
<1>4. n \in H
  <2>1. H \in SUBSET Nat /\ n \in 0 .. n
    BY <1>1
  <2> HIDE DEF H
  <2> QED
    BY <1>1, <1>2, <1>3, <2>1, CountedUp, Zenon
<1>5. PICK f : Obeys(v, f, n)
  BY <1>4, Zenon
<1> DEFINE g == [k \in 0 .. n |-> f[k]]
<1>6. \A k \in 0 .. n : g[k] = f[k]
  BY Zenon
<1>7. g = LoopBody(v, g)
  <2>1. g = [k \in 0 .. n |-> IF k = 0 THEN Start ELSE Turn(g[k - 1], v[k])]
    <3>1. \A k \in 0 .. n : k # 0 => k \in 1 .. n /\ k - 1 \in 0 .. n
      BY <1>1
    <3>2. ASSUME NEW k \in 0 .. n PROVE f[k] = IF k = 0 THEN Start ELSE Turn(g[k - 1], v[k])
      BY <1>5, <1>6, <3>1, Zenon DEF Obeys
    <3> QED
      BY <3>2, Zenon
  <2> QED
    BY <2>1, Zenon DEF LoopBody, n
<1> HIDE DEF g
<1>8. Scan(v) = LoopBody(v, Scan(v))
  <2>1. Scan(v) = CHOOSE f1 : f1 = LoopBody(v, f1)
    BY Zenon DEF Scan, LoopBody
  <2> QED
    BY <1>7, <2>1, Zenon
<1> DEFINE s == Scan(v)
<1>9. \A k \in 0 .. n : s[k] = IF k = 0 THEN Start ELSE Turn(s[k - 1], v[k])
  BY <1>8, Zenon DEF LoopBody, n
<1> HIDE DEF s
<1>10. 0 \in 0 .. n /\ \A k \in 1 .. n : k \in 0 .. n /\ k # 0
  BY <1>1
<1> QED
  BY <1>9, <1>10, Zenon DEF Obeys, s, n

\* A dot at each place of A among the first k characters, digits at the others.
Dotted(v, k, A) == \A j \in 1 .. k : v[j] = IF j \in A THEN "." ELSE "0"

\* What the loop knows after k characters, as long as it goes on.
Knows(v, k, s) ==
  /\ s.dots \in 0 .. 3
  /\ s = [dots |-> s.dots, inDigits |-> s.inDigits]
  /\ s.dots # 3 => (s.inDigits <=> k > 0 /\ v[k] = "0")
  /\ s.dots = 0 => Dotted(v, k, {})
  /\ s.dots = 1 => \E d \in 2 .. k : Dotted(v, k, {d})
  /\ s.dots = 2 => \E d, e \in 2 .. k : d + 1 < e /\ Dotted(v, k, {d, e})

\* One more digit, and one more dot.
LEMMA DigitOn ==
  ASSUME NEW v, NEW k \in Nat \ {0}, NEW A, Dotted(v, k - 1, A), v[k] = "0", k \notin A
  PROVE  Dotted(v, k, A)
<1>1. \A j \in 1 .. k : j = k \/ j \in 1 .. k - 1
  OBVIOUS
<1> QED
  BY <1>1, Zenon DEF Dotted

LEMMA DotOn ==
  ASSUME NEW v, NEW k \in Nat \ {0}, NEW A, Dotted(v, k - 1, A), v[k] = ".",
         NEW B, \A j : j \in B <=> j \in A \/ j = k
  PROVE  Dotted(v, k, B)
<1>1. \A j \in 1 .. k : j = k \/ (j \in 1 .. k - 1 /\ j # k)
  OBVIOUS
<1> QED
  BY <1>1, Zenon DEF Dotted

\* Each turn of the loop keeps what it knows.
LEMMA KnowsOn ==
  ASSUME NEW v, NEW k \in Nat \ {0}, NEW s, Knows(v, k - 1, s), NEW t, t = Turn(s, v[k])
  PROVE  Knows(v, k, t)
<1> DEFINE h == s.dots
<1>1. h \in 0 .. 3 /\ s = [dots |-> h, inDigits |-> s.inDigits]
  BY DEF Knows
<1>2. CASE v[k] = "0"
  <2>1. t = [dots |-> h, inDigits |-> TRUE]
    BY <1>2, Zenon DEF Turn
  <2>2. t.dots = h /\ t.inDigits = TRUE /\ k > 0
    BY <2>1
  <2>3. h = 0 => Dotted(v, k, {})
    <3>1. k \notin {}
      OBVIOUS
    <3>2. Dotted(v, k - 1, {}) => Dotted(v, k, {})
      BY <1>2, <3>1, DigitOn, Zenon
    <3> QED
      BY <3>2, Zenon DEF Knows
  <2>4. h = 1 => \E d \in 2 .. k : Dotted(v, k, {d})
    <3>1. SUFFICES ASSUME h = 1 PROVE \E d \in 2 .. k : Dotted(v, k, {d})
      OBVIOUS
    <3>2. PICK d \in 2 .. k - 1 : Dotted(v, k - 1, {d})
      BY <3>1, Zenon DEF Knows
    <3>3. k \notin {d} /\ d \in 2 .. k
      OBVIOUS
    <3>4. Dotted(v, k, {d})
      BY <1>2, <3>2, <3>3, DigitOn, Zenon
    <3> QED
      BY <3>3, <3>4, Zenon
  <2>5. h = 2 => \E d, e \in 2 .. k : d + 1 < e /\ Dotted(v, k, {d, e})
    <3>1. SUFFICES ASSUME h = 2 PROVE \E d, e \in 2 .. k : d + 1 < e /\ Dotted(v, k, {d, e})
      OBVIOUS
    <3>2. PICK d \in 2 .. k - 1, e \in 2 .. k - 1 : d + 1 < e /\ Dotted(v, k - 1, {d, e})
      BY <3>1, Zenon DEF Knows
    <3>3. k \notin {d, e} /\ d \in 2 .. k /\ e \in 2 .. k
      OBVIOUS
    <3>4. Dotted(v, k, {d, e})
      BY <1>2, <3>2, <3>3, DigitOn, Zenon
    <3> QED
      BY <3>2, <3>3, <3>4, Zenon
  <2> HIDE DEF h
  <2>6. t = [dots |-> t.dots, inDigits |-> t.inDigits]
    BY <2>1
  <2> QED
    BY <1>1, <1>2, <2>2, <2>3, <2>4, <2>5, <2>6, Zenon DEF Knows
<1>3. CASE v[k] = "." /\ h < 2 /\ s.inDigits
  <2>1. t = [dots |-> h + 1, inDigits |-> FALSE]
    <3>1. v[k] # "0"
      BY <1>3, Zenon
    <3> QED
      BY <1>3, <3>1, Zenon DEF Turn
  <2>2. t.dots = h + 1 /\ t.inDigits = FALSE /\ t = [dots |-> t.dots, inDigits |-> t.inDigits]
    BY <2>1
  <2>3. h \in 0 .. 1 /\ h # 3
    BY <1>1, <1>3
  <2>4. k - 1 > 0 /\ v[k - 1] = "0"
    BY <1>3, <2>3, Zenon DEF Knows
  <2>5. h = 0 => \E d \in 2 .. k : Dotted(v, k, {d})
    <3>1. SUFFICES ASSUME h = 0 PROVE \E d \in 2 .. k : Dotted(v, k, {d})
      OBVIOUS
    <3>2. Dotted(v, k - 1, {})
      BY <3>1, Zenon DEF Knows
    <3>3. k \in 2 .. k
      BY <2>4
    <3>4. Dotted(v, k, {k})
      <4> DEFINE none == {}
      <4>1. \A j : j \in {k} <=> j \in none \/ j = k
        OBVIOUS
      <4>2. Dotted(v, k - 1, none)
        BY <3>2
      <4> HIDE DEF none
      <4> QED
        BY <1>3, <4>1, <4>2, DotOn, Zenon
    <3> QED
      BY <3>3, <3>4, Zenon
  <2>6. h = 1 => \E d, e \in 2 .. k : d + 1 < e /\ Dotted(v, k, {d, e})
    <3>1. SUFFICES ASSUME h = 1 PROVE \E d, e \in 2 .. k : d + 1 < e /\ Dotted(v, k, {d, e})
      OBVIOUS
    <3>2. PICK d \in 2 .. k - 1 : Dotted(v, k - 1, {d})
      BY <3>1, Zenon DEF Knows
    <3>3. (\A j : j \in {d, k} <=> j \in {d} \/ j = k) /\ d \in 2 .. k /\ k \in 2 .. k
      BY <2>4
    <3>4. Dotted(v, k, {d, k})
      BY <1>3, <3>2, <3>3, DotOn, Zenon
    <3>5. d # k - 1
      <4>1. k - 1 \in 1 .. k - 1 /\ "." # "0"
        BY <2>4
      <4> QED
        BY <2>4, <3>2, <4>1, Zenon DEF Dotted
    <3>6. d + 1 < k
      BY <3>5
    <3> QED
      BY <3>3, <3>4, <3>6, Zenon
  <2>7. t.dots \in 0 .. 3 /\ t.dots # 0 /\ (t.dots = 1 => h = 0) /\ (t.dots = 2 => h = 1)
    BY <2>2, <2>3
  <2>8. ~(k > 0 /\ v[k] = "0")
    BY <1>3, Zenon
  <2> HIDE DEF h
  <2> QED
    BY <2>2, <2>5, <2>6, <2>7, <2>8, Zenon DEF Knows
<1>4. CASE v[k] # "0" /\ ~(v[k] = "." /\ h < 2 /\ s.inDigits)
  <2>1. t = [dots |-> 3, inDigits |-> FALSE]
    BY <1>4, Zenon DEF Turn
  <2>2. /\ t.dots = 3 /\ t = [dots |-> t.dots, inDigits |-> t.inDigits]
        /\ 3 \in 0 .. 3 /\ 3 # 0 /\ 3 # 1 /\ 3 # 2
    BY <2>1
  <2> QED
    BY <2>2, Zenon DEF Knows
<1> QED
  BY <1>2, <1>3, <1>4, Zenon

\* So it knows it after any number of them.
LEMMA KnowsAll ==
  ASSUME NEW S, NEW v \in Seq(S)
  PROVE  \A k \in 0 .. Len(v) : Knows(v, k, Scan(v)[k])
<1> DEFINE n == Len(v)
           s == Scan(v)
           H == {k \in 0 .. n : Knows(v, k, s[k])}
<1>1. Obeys(v, s, n) /\ n \in Nat
  BY ScanObeys
<1> HIDE DEF n, s
<1>2. 0 \in H
  <2>1. s[0] = [dots |-> 0, inDigits |-> FALSE]
    BY <1>1, Zenon DEF Obeys, Start
  <2>2. /\ s[0].dots = 0 /\ s[0].inDigits = FALSE
        /\ s[0] = [dots |-> s[0].dots, inDigits |-> s[0].inDigits]
        /\ 0 \in 0 .. 3 /\ 0 # 1 /\ 0 # 2 /\ ~(0 > 0) /\ 0 \in 0 .. n
    BY <1>1, <2>1
  <2>3. Dotted(v, 0, {})
    BY DEF Dotted
  <2> QED
    BY <2>2, <2>3, Zenon DEF Knows
<1>3. ASSUME NEW k \in 1 .. n, k - 1 \in H PROVE k \in H
  <2>1. k \in Nat \ {0} /\ k \in 0 .. n
    BY <1>1
  <2>2. s[k] = Turn(s[k - 1], v[k])
    BY <1>1, Zenon DEF Obeys
  <2>3. Knows(v, k - 1, s[k - 1])
    BY <1>3, Zenon
  <2> QED
    BY <2>1, <2>2, <2>3, KnowsOn, Zenon
<1>4. H \in SUBSET Nat
  BY <1>1
<1> HIDE DEF H
<1>5. 0 .. n \subseteq H
  BY <1>1, <1>2, <1>3, <1>4, CountedUp, Zenon
<1> QED
  BY <1>5, Zenon DEF H, n, s

\* The other way: where the numbers and their dots lead.
LEMMA Reaches ==
  ASSUME NEW S, NEW v \in Seq(S), NEW end \in 1 .. Len(v), NEW d \in 2 .. end - 1, NEW e \in 2 .. end - 1,
         d + 1 < e, Dotted(v, end, {d, e})
  PROVE  Scan(v)[end] = [dots |-> 2, inDigits |-> TRUE]
<1> DEFINE n == Len(v)
           s == Scan(v)
           R(k) == [dots |-> IF k < d THEN 0 ELSE IF k < e THEN 1 ELSE 2, inDigits |-> k # 0 /\ k # d /\ k # e]
           H == {k \in 0 .. end : s[k] = R(k)}
<1>1. Obeys(v, s, n) /\ n \in Nat
  BY ScanObeys
<1>2. end \in 1 .. n
  OBVIOUS
<1> HIDE DEF n, s
<1>3. 0 \in H
  <2>1. s[0] = [dots |-> 0, inDigits |-> FALSE]
    BY <1>1, Zenon DEF Obeys, Start
  <2>2. 0 < d /\ 0 < e /\ 0 \in 0 .. end
    BY <1>1, <1>2
  <2>3. (IF 0 < d THEN 0 ELSE IF 0 < e THEN 1 ELSE 2) = 0
    BY <2>2
  <2>4. (0 # 0 /\ 0 # d /\ 0 # e) = FALSE
    OBVIOUS
  <2> QED
    BY <2>1, <2>2, <2>3, <2>4, Zenon
<1>4. ASSUME NEW k \in 1 .. end, k - 1 \in H PROVE k \in H
  <2>1. k \in 1 .. n /\ k \in 0 .. end /\ k # 0
    BY <1>1, <1>2
  <2>2. s[k] = Turn(s[k - 1], v[k]) /\ s[k - 1] = R(k - 1)
    BY <1>1, <1>4, <2>1, Zenon DEF Obeys
  <2>3. v[k] = IF k \in {d, e} THEN "." ELSE "0"
    BY Zenon DEF Dotted
  <2>4. CASE k \notin {d, e}
    <3> DEFINE h == IF k - 1 < d THEN 0 ELSE IF k - 1 < e THEN 1 ELSE 2
    <3>1. s[k] = [dots |-> R(k - 1).dots, inDigits |-> TRUE]
      BY <2>2, <2>3, <2>4, Zenon DEF Turn
    <3>2. R(k - 1).dots = h
      <4>1. \A g, b : [dots |-> g, inDigits |-> b].dots = g
        OBVIOUS
      <4> QED
        BY <4>1, Zenon
    <3>3. (IF k - 1 < d THEN 0 ELSE IF k - 1 < e THEN 1 ELSE 2) = (IF k < d THEN 0 ELSE IF k < e THEN 1 ELSE 2)
      BY <2>4
    <3>4. (k # 0 /\ k # d /\ k # e) = TRUE
      BY <2>1, <2>4, Zenon
    <3> QED
      BY <2>1, <3>1, <3>2, <3>3, <3>4, Zenon
  <2>5. CASE k \in {d, e}
    <3> DEFINE h == IF k - 1 < d THEN 0 ELSE IF k - 1 < e THEN 1 ELSE 2
    <3>1. v[k] = "." /\ "." # "0"
      BY <2>3, <2>5, Zenon
    <3>2. /\ h < 2 /\ k - 1 # 0 /\ k - 1 # d /\ k - 1 # e
          /\ h + 1 = IF k < d THEN 0 ELSE IF k < e THEN 1 ELSE 2
      BY <2>5
    <3>3. R(k - 1) = [dots |-> h, inDigits |-> TRUE]
      <4>1. (k - 1 # 0 /\ k - 1 # d /\ k - 1 # e) = TRUE
        BY <3>2, Zenon
      <4> QED
        BY <4>1, Zenon
    <3>4. R(k - 1).dots = h /\ R(k - 1).inDigits
      <4> HIDE DEF h, R
      <4> QED
        BY <3>3
    <3>5. s[k] = [dots |-> h + 1, inDigits |-> FALSE]
      <4> HIDE DEF h, R
      <4>1. s[k] = [dots |-> R(k - 1).dots + 1, inDigits |-> FALSE]
        BY <2>2, <3>1, <3>2, <3>4, Zenon DEF Turn
      <4> QED
        BY <3>4, <4>1, Zenon
    <3>6. (k # 0 /\ k # d /\ k # e) = FALSE
      BY <2>5, Zenon
    <3>7. s[k] = R(k)
      <4> HIDE DEF h
      <4> QED
        BY <3>2, <3>5, <3>6, Zenon
    <3> QED
      BY <2>1, <3>7, Zenon
  <2> QED
    BY <2>4, <2>5
<1>5. H \in SUBSET Nat /\ end \in Nat /\ end \in 0 .. end
  BY <1>1, <1>2
<1>6. end \in H
  <2> HIDE DEF H
  <2> QED
    BY <1>3, <1>4, <1>5, CountedUp, Zenon
<1>7. R(end) = [dots |-> 2, inDigits |-> TRUE]
  <2>1. ~ end < d /\ ~ end < e /\ (end # 0 /\ end # d /\ end # e) = TRUE
    BY <1>2
  <2> QED
    BY <2>1, Zenon
<1> QED
  BY <1>6, <1>7, Zenon DEF s

\* is_valid_semver() accepts, of versions of any length, those Accepted() describes and no others:
\* three numbers with a dot between them and, behind a "-" or a "+", no foreign character.
THEOREM SemverShape ==
  ASSUME NEW S, NEW v \in Seq(S)
  PROVE  IsValidSemver(v) <=> Accepted(v)
<1> DEFINE n == Len(v)
<1>1. n \in Nat /\ DOMAIN v = 1 .. n /\ (v = << >> <=> n = 0)
  OBVIOUS
<1> HIDE DEF n
<1>2. ASSUME IsValidSemver(v) PROVE Accepted(v)
  <2>1. PICK k \in 1 .. n :
          /\ Scan(v)[k] = [dots |-> 2, inDigits |-> TRUE]
          /\ k < n => v[k + 1] \in {"-", "+"} /\ \A j \in k + 2 .. n : v[j] # "x"
    BY <1>2, Zenon DEF IsValidSemver, n
  <2>2. k \in 0 .. n /\ k \in Nat
    BY <1>1
  <2>3. Knows(v, k, Scan(v)[k])
    BY <2>2, KnowsAll, Zenon DEF n
  <2>4. Scan(v)[k].dots = 2 /\ Scan(v)[k].inDigits /\ 2 # 3
    BY <2>1
  <2>5. v[k] = "0"
    BY <2>3, <2>4, Zenon DEF Knows
  <2>6. PICK d \in 2 .. k, e \in 2 .. k : d + 1 < e /\ Dotted(v, k, {d, e})
    BY <2>3, <2>4, Zenon DEF Knows
  <2>7. d # k /\ e # k
    <3>1. k \in 1 .. k /\ "." # "0"
      BY <2>1
    <3> QED
      BY <2>5, <2>6, <3>1, Zenon DEF Dotted
  <2>8. d \in 2 .. k - 1 /\ e \in 2 .. k - 1 /\ k \in 5 .. n
    BY <1>1, <2>1, <2>6, <2>7
  <2>9. \A j \in 1 .. n : v[j] # "x"
    <3>1. \A j \in 1 .. k : v[j] # "x"
      BY <2>6, Zenon DEF Dotted
    <3>2. k < n => v[k + 1] # "x"
      BY <2>1, Zenon
    <3>3. \A j \in 1 .. n : j \in 1 .. k \/ (k < n /\ j = k + 1) \/ (k < n /\ j \in k + 2 .. n)
      BY <1>1
    <3> QED
      BY <2>1, <3>1, <3>2, <3>3, Zenon
  <2> QED
    BY <1>1, <2>1, <2>6, <2>8, <2>9, Zenon DEF Accepted, Dotted, n
<1>3. ASSUME Accepted(v) PROVE IsValidSemver(v)
  <2>1. PICK end \in 5 .. n :
          /\ \E d, e \in 2 .. end - 1 :
               d + 1 < e /\ \A j \in 1 .. end : v[j] = IF j \in {d, e} THEN "." ELSE "0"
          /\ end < n => v[end + 1] \in {"-", "+"}
          /\ \A j \in 1 .. n : v[j] # "x"
    BY <1>1, <1>3, Zenon DEF Accepted, n
  <2>2. PICK d \in 2 .. end - 1, e \in 2 .. end - 1 : d + 1 < e /\ Dotted(v, end, {d, e})
    BY <2>1, Zenon DEF Dotted
  <2>3. end \in 1 .. n /\ 1 \in 1 .. end /\ 1 # d /\ 1 # e /\ n # 0
    BY <1>1
  <2>4. Scan(v)[end] = [dots |-> 2, inDigits |-> TRUE]
    BY <2>2, <2>3, Reaches, Zenon DEF n
  <2>5. v[1] = "0"
    BY <2>2, <2>3, Zenon DEF Dotted
  <2>6. \A j \in end + 2 .. n : j \in 1 .. n
    BY <1>1, <2>3
  <2> QED
    BY <1>1, <2>1, <2>3, <2>4, <2>5, <2>6, Zenon DEF IsValidSemver, n
<1> QED
  BY <1>2, <1>3

\* What "rm -rf" of the staging directory leaves.
LEMMA ClearedLeaves ==
  ASSUME stage \in Stage
  PROVE  Cleared \in Stage /\ ~Cleared.in /\ (Cleared # Absent => cmd.prefix = "outside")
<1>1. Absent \in Stage /\ ~Absent.in
  BY NothingYet DEF Absent
<1>2. [stage EXCEPT !.in = FALSE] \in Stage /\ ~[stage EXCEPT !.in = FALSE].in
  BY DEF Stage
<1> QED
  BY <1>1, <1>2, Zenon DEF Cleared

LEMMA RemoveKeeps == ASSUME IInv, Remove PROVE IInv'
<1>0. stage \in Stage /\ Cleared \in Stage /\ ~Cleared.in /\ (Cleared # Absent => cmd.prefix = "outside")
  BY TypedAlready, ClearedLeaves, Zenon DEF IInv, Typed
<1>1. /\ cmd' = cmd /\ src' = src /\ held' = held /\ names' = names /\ shared' = shared
      /\ archive' = archive /\ begun' = begun /\ tried' = tried /\ dirs' = dirs /\ tarball' = tarball
      /\ steps' = << >> /\ verdict' = (IF At("rm") THEN "true" ELSE "false")
      /\ stage' = Cleared \/ stage' = stage
      /\ blame' = blame \/ blame' = blame \cup {"rm"}
      /\ ~stage'.in \/ "rm" \in blame'
  BY <1>0, Zenon DEF Remove
<1>2. Typed'
  BY <1>0, <1>1, TypedAlready, Zenon DEF Typed, Remove
<1>3. blame' \ {"rm"} = blame \ {"rm"}
  BY <1>1, Zenon
<1>4. /\ stage'.in => cmd.name = "pack"
      /\ stage' # Absent => cmd.name = "pack" /\ (stage'.in \/ cmd.prefix = "outside")
  <2>1. cmd.name = "pack"
    <3>1. stage.in
      BY Here, OnTheWay, Zenon DEF IInv, Course, Packed, Remove, At, Step
    <3> QED
      BY <3>1, Zenon DEF IInv, Packed
  <2> QED
    BY <1>0, <1>1, <2>1, Zenon DEF IInv, Packed
<1>5. CASE At("rm")
  <2>1. /\ steps # << >> /\ Fine /\ Step = "rm" /\ verdict = "running"
        /\ Owns(cmd.name, Rest) /\ Step \in Rest
    <3>1. steps # << >> /\ Fine /\ Step = "rm" /\ verdict = "running"
      BY <1>5, Here, Zenon
    <3> QED
      BY <3>1, OnTheWay, Zenon DEF IInv, BuildTypeOK
  <2>2. Continue
    <3>1. Straight(steps) /\ Head(steps) = "rm"
      BY <1>5, <2>1, Zenon DEF IInv, Course, Planned, At
    <3>2. Tail(steps) = << >> /\ Len(steps) = 1
      BY <2>1, <3>1, TailOf, Zenon DEF Follows
    <3> QED
      BY <1>1, <1>5, <3>2, Zenon DEF Continue
  <2>3. Moved
    BY <1>1, <2>1, <2>2, Moves, Zenon
  <2>4. Sources'
    BY <1>1, <2>1, <2>3, SourcesMoved, Zenon DEF IInv
  <2>5. Libs'
    BY <1>1, <2>1, <2>3, LibsMoved, Zenon DEF IInv
  <2>6. cmd.name = "pack" /\ verdict' = "true" /\ Step' = "none"
    BY <1>1, <1>5, <2>1, Zenon DEF Owns, Packing, Step
  <2>7. Tested'
    <3>1. \A t \in Tests : tried[t] # "failed"
      BY <2>1, Zenon DEF IInv, Tested
    <3> QED
      BY <1>1, <2>6, <3>1, Zenon DEF Tested
  <2>8. Caused'
    <3>1. cmd.version = << >> \/ IsValidSemver(cmd.version)
      BY <2>1, <2>6, Zenon DEF IInv, Caused, Packing
    <3>2. cmd.prefix # "nowhere"
      BY <2>1, <2>6, Zenon DEF IInv, Caused, Packing
    <3>3. blame' \subseteq {"rm"}
      BY <1>1, <2>1, Zenon DEF IInv, Caused
    <3> QED
      BY <1>1, <2>6, <3>1, <3>2, <3>3, Zenon DEF Caused
  <2>9. Packed'
    <3>1. tarball = [in |-> TRUE, headers |-> TRUE, a |-> archive, so |-> shared]
      BY <2>1, Zenon DEF IInv, Packed
    <3> QED
      BY <1>1, <1>4, <2>6, <3>1, Zenon DEF Packed
  <2> QED
    BY <1>2, <2>3, <2>4, <2>5, <2>7, <2>8, <2>9, MovedKeeps, Zenon
<1>6. CASE ~At("rm")
  <2>1. Step = "rm failed" /\ stage.in
    <3>1. Step = "rm failed"
      BY <1>6, Zenon DEF Remove, At, Step
    <3> QED
      BY <3>1, Zenon DEF IInv, Course
  <2>2. cmd.name = "pack" /\ Cause
    BY <2>1, Zenon DEF IInv, Packed, Caused
  <2>3. Cause'
    BY <1>1, <1>3, <2>2, BarredSame, Zenon DEF Cause
  <2>4. verdict' = "false" /\ Step' = "none" /\ ~Fine' /\ Rest' = {}
    BY <1>1, <1>6, EmptyPlan, Zenon DEF Step, Rest, Fine
  <2>5. BuildTypeOK'
    <3>1. StepsTyped'
      BY <1>1, <2>4, Zenon DEF StepsTyped
    <3> QED
      BY <1>2, <3>1, TypesSplitPrimed
  <2>6. Course' /\ Sources' /\ Libs'
    BY <2>4, Zenon DEF Course, Sources, Libs
  <2>7. Tested' /\ Caused'
    BY <1>1, <2>2, <2>3, <2>4, Zenon DEF Tested, Caused
  <2>8. Packed'
    BY <1>1, <1>4, <2>2, <2>4, Zenon DEF Packed
  <2> QED
    BY <2>5, <2>6, <2>7, <2>8, Zenon DEF IInv
<1> QED
  BY <1>5, <1>6

LEMMA ChangeKeeps == ASSUME IInv, Change PROVE IInv'
<1>1. PICK s \in Srcs, content \in {0, edits + 2} :
        /\ src' = [src EXCEPT ![s] = content]
        /\ held' = IF verdict = "running" THEN [held EXCEPT ![s] = @ \cup {content}] ELSE held
  BY Zenon DEF Change
<1>2. Stays /\ cmd' = cmd
  BY Zenon DEF Change, Stays
<1>3. /\ Step' = Step /\ Rest' = Rest /\ (Fine' <=> Fine) /\ (StepsTyped => StepsTyped')
      /\ Planned(cmd.name, steps)' <=> Planned(cmd.name, steps)
      /\ \A x : Has(x)' <=> Has(x)
  BY <1>2, StaysSo, Zenon
<1>4. /\ names' = names /\ shared' = shared /\ verdict' = verdict /\ left' = left
      /\ archive' = archive /\ begun' = begun /\ tried' = tried /\ blame' = blame /\ dirs' = dirs
      /\ stage' = stage /\ tarball' = tarball /\ steps' = steps /\ obj' = obj
  BY Zenon DEF Change, files
<1>5. /\ src \in Members /\ held \in [Srcs -> SUBSET Content] /\ edits \in 0 .. MaxEdits
      /\ names \subseteq Srcs
  BY TypedAlready, Zenon DEF Typed
<1>6. content \in Content /\ edits' \in 0 .. MaxEdits
  BY <1>5 DEF Change, Content
<1>7. src' \in Members /\ \A r \in Srcs : src'[r] = IF r = s THEN content ELSE src[r]
  BY <1>1, <1>5, <1>6 DEF Members
<1>8. held' \in [Srcs -> SUBSET Content] /\ \A r \in Srcs : held[r] \subseteq held'[r]
  <2>1. CASE verdict = "running"
    <3>1. held' = [held EXCEPT ![s] = held[s] \cup {content}]
      BY <1>1, <2>1, Zenon
    <3>2. held[s] \cup {content} \in SUBSET Content
      BY <1>5, <1>6
    <3> QED
      BY <1>5, <3>1, <3>2
  <2>2. CASE verdict # "running"
    BY <1>1, <1>5, <2>2, Zenon
  <2> QED
    BY <2>1, <2>2
<1>9. verdict = "running" => content \in held'[s]
  <2>1. ASSUME verdict = "running" PROVE content \in held'[s]
    <3>1. held' = [held EXCEPT ![s] = held[s] \cup {content}]
      BY <1>1, <2>1, Zenon
    <3> QED
      BY <1>5, <3>1
  <2> QED
    BY <2>1
<1>10. BuildTypeOK'
  <2>1. Typed'
    BY <1>2, <1>4, <1>6, <1>7, <1>8, TypedAlready, Zenon DEF Typed
  <2>2. StepsTyped'
    BY <1>3, TypesSplit, Zenon DEF IInv
  <2> QED
    BY <2>1, <2>2, TypesSplitPrimed
<1>11. Sources'
  <2>1. verdict = "running" => \A r \in Srcs : src'[r] \in held'[r]
    BY <1>7, <1>8, <1>9, Zenon DEF IInv, Sources
  <2>2. Fine /\ (Step \in {"objects", "ar", "link"} \/ (Step = "build dir" /\ cmd.name # "test")) =>
          \A r \in Srcs \ names : 0 \in held'[r]
    BY <1>8, Zenon DEF IInv, Sources
  <2>3. Fine /\ Step = "objects" => left \subseteq names /\ \A r \in names \ left : obj[r] \in held'[r]
    BY <1>5, <1>8, Zenon DEF IInv, Sources
  <2>4. Fine /\ Step \in {"ar", "link"} => \A r \in names : obj[r] \in held'[r]
    BY <1>5, <1>8, Zenon DEF IInv, Sources
  <2> QED
    BY <1>2, <1>3, <1>4, <2>1, <2>2, <2>3, <2>4, Zenon DEF Sources
<1>12. Course'
  BY <1>2, <1>3, <1>4, Zenon DEF IInv, Course
<1>13. Libs'
  <2>1. Fine /\ Has("link") /\ "link" \notin Rest => \A r \in Srcs : shared[r] \in held'[r]
    BY <1>8, Zenon DEF IInv, Libs
  <2>2. Fine /\ Has("ar") /\ "ar" \notin Rest => \A r \in Srcs :
          \/ archive[r] \in held'[r]
          \/ 0 \in held'[r] /\ archive[r] = begun.archive[r]
    BY <1>8, Zenon DEF IInv, Libs
  <2> QED
    BY <1>3, <1>4, <2>1, <2>2, Zenon DEF IInv, Libs
<1>14. Tested'
  BY <1>2, <1>3, <1>4, Zenon DEF IInv, Tested
<1>15. Caused'
  BY <1>2, <1>3, <1>4, Zenon DEF IInv, Caused, Cause, Barred
<1>16. Packed'
  BY <1>2, <1>3, <1>4, Zenon DEF IInv, Packed
<1> QED
  BY <1>10, <1>11, <1>12, <1>13, <1>14, <1>15, <1>16, Zenon DEF IInv

LEMMA CallKeeps == ASSUME IInv, Call PROVE IInv'
<1>1. /\ cmd' \in Command /\ steps' = StepsOf(cmd'.name) /\ verdict' = "running"
      /\ names' = {} /\ left' = {} /\ stage' = Absent /\ tarball' = Absent
      /\ begun' = [dirs |-> dirs, archive |-> archive]
      /\ held' = [s \in Srcs |-> {src[s]}] /\ blame' = {} /\ tried' = [t \in Tests |-> "no"]
      /\ src' = src /\ edits' = edits /\ dirs' = dirs /\ obj' = obj /\ archive' = archive
      /\ shared' = shared
  BY Zenon DEF Call
<1>2. Planned(cmd'.name, steps') /\ Len(steps') > 0 /\ Begins(cmd'.name, steps'[1])
  BY <1>1, CommandNames, Plans, Zenon
<1>3. steps' \in Seq(AllSteps)
  BY <1>2, Zenon DEF Planned, Straight
<1>4. steps' # << >> /\ Head(steps') = steps'[1]
  BY <1>2, <1>3
<1>5. Step' = steps'[1]
  BY <1>4, Zenon DEF Step
<1>6. Begins(cmd'.name, Step') /\ Step' # "none"
  <2>1. Head(steps') \in AllSteps
    BY <1>2, <1>4, TailOf, Zenon DEF Planned
  <2> QED
    BY <1>2, <1>4, <1>5, <2>1, Zenon DEF AllSteps
<1>7. Fine'
  BY <1>1, <1>6, Zenon DEF Fine, Begins
<1>8. /\ begun'.dirs = dirs /\ begun'.archive = archive
      /\ \A s \in Srcs : held'[s] = {src[s]}
      /\ \A t \in Tests : tried'[t] = "no"
  BY <1>1
<1>9. Typed'
  <2>1. held' \in [Srcs -> SUBSET Content]
    <3>1. src \in [Srcs -> Content]
      BY TypedAlready, Zenon DEF Typed, Members
    <3> QED
      BY <1>1, <3>1
  <2>2. begun' \in [dirs : SUBSET {".build", "tests", "docs"}, archive : Members]
    <3>1. dirs \in SUBSET {".build", "tests", "docs"} /\ archive \in Members
      BY TypedAlready, Zenon DEF Typed
    <3> QED
      BY <1>1, <3>1
  <2>3. tried' \in [Tests -> {"no", "ok", "failed"}]
    BY <1>1
  <2> QED
    BY <1>1, <2>1, <2>2, <2>3, NothingYet, TypedAlready, Zenon DEF Typed
<1>10. StepsTyped'
  BY <1>1, <1>4, Zenon DEF StepsTyped, Rest
<1>11. Course'
  BY <1>2, <1>6, Zenon DEF Course, Begins
<1>12. Sources'
  BY <1>1, <1>6, <1>8, Zenon DEF Sources, Begins
<1>13. Libs'
  <2>1. \A x : Has(x)' <=> x \in Rest'
    BY <1>1, Zenon DEF Has, Rest, In
  <2> QED
    BY <1>1, <1>8, <2>1, Zenon DEF Libs
<1>14. Tested'
  BY <1>1, <1>6, <1>8, Zenon DEF Tested, Begins
<1>15. Caused'
  BY <1>1, <1>6, <1>8, Zenon DEF Caused, Begins
<1>16. Packed'
  <2>1. ~Absent.in
    BY DEF Absent
  <2> QED
    BY <1>1, <1>6, <2>1, Zenon DEF Packed, Begins, Packing
<1> QED
  BY <1>9, <1>10, <1>11, <1>12, <1>13, <1>14, <1>15, <1>16, TypesSplitPrimed, Zenon DEF IInv

LEMMA InterruptedKeeps == ASSUME IInv, Interrupted PROVE IInv'
<1>1. /\ verdict = "running" /\ verdict' = "killed" /\ steps' = << >> /\ cmd' = cmd /\ stage' = stage
  BY Zenon DEF Interrupted, files
<1>2. Step' = "none" /\ ~Fine' /\ Rest' = {}
  BY <1>1, EmptyPlan, Zenon DEF Step, Fine, Rest
<1>3. Typed'
  BY TypedAlready, TypedSame, Zenon DEF Interrupted, past
<1>4. StepsTyped'
  BY <1>1, <1>2, Zenon DEF StepsTyped
<1>5. BuildTypeOK'
  BY <1>3, <1>4, TypesSplitPrimed
<1>6. Course' /\ Sources' /\ Libs'
  BY <1>1, <1>2, Zenon DEF Course, Sources, Libs
<1>7. Tested' /\ Caused'
  BY <1>1, <1>2, Zenon DEF Tested, Caused
<1>8. Packed'
  BY <1>1, <1>2, Zenon DEF IInv, Packed
<1> QED
  BY <1>5, <1>6, <1>7, <1>8, Zenon DEF IInv

-----------------------------------------------------------------------------

LEMMA StepKeepsIInv == ASSUME IInv, [BuildNext]_buildVars PROVE IInv'
<1>1. CASE BuildNext
  BY <1>1, ChangeKeeps, CallKeeps, InterruptedKeeps, BreaksKeeps, RunsKeeps, CollectKeeps,
     CollectTestsKeeps, BuildDirKeeps, SubDirKeeps, CompileOneKeeps, ObjectsDoneKeeps, ArKeeps,
     LinkKeeps, TestOneKeeps, TestsDoneKeeps, CleanKeeps, CheckVersionKeeps, StagingKeeps,
     TarKeeps, RemoveKeeps, Zenon DEF BuildNext
<1>2. CASE UNCHANGED buildVars
  <2>1. Stays
    BY <1>2, Zenon DEF buildVars, Stays
  <2>2. /\ Step' = Step /\ Rest' = Rest /\ (Fine' <=> Fine) /\ (StepsTyped => StepsTyped')
        /\ Planned(cmd.name, steps)' <=> Planned(cmd.name, steps)
        /\ \A x : Has(x)' <=> Has(x)
    BY <2>1, StaysSo, Zenon
  <2>3. Typed'
    BY <1>2, TypedAlready, TypedSame, Zenon DEF buildVars, past
  <2>4. BuildTypeOK'
    <3>1. StepsTyped'
      BY <2>2, TypesSplit, Zenon DEF IInv
    <3> QED
      BY <2>3, <3>1, TypesSplitPrimed
  <2>5. /\ cmd' = cmd /\ src' = src /\ held' = held /\ names' = names /\ shared' = shared
        /\ archive' = archive /\ begun' = begun /\ tried' = tried /\ blame' = blame /\ dirs' = dirs
        /\ stage' = stage /\ tarball' = tarball /\ steps' = steps /\ verdict' = verdict
        /\ obj' = obj /\ left' = left
    BY <1>2, Zenon DEF buildVars, files, past
  <2>6. Course' /\ Sources'
    BY <2>2, <2>5, Zenon DEF IInv, Course, Sources
  <2>7. Libs' /\ Packed'
    BY <2>2, <2>5, Zenon DEF IInv, Libs, Packed
  <2>8. Tested' /\ Caused'
    BY <2>2, <2>5, Zenon DEF IInv, Tested, Caused, Cause, Barred
  <2> QED
    BY <2>4, <2>6, <2>7, <2>8, Zenon DEF IInv
<1> QED
  BY <1>1, <1>2

\* The invariant holds in every state of every run: it holds at the start, and each of the
\* twenty kinds of step keeps it.
THEOREM IInvAlways == BuildSpec => []IInv
<1>1. BuildInit => IInv
  BY Initially
<1>2. IInv /\ [BuildNext]_buildVars => IInv'
  BY StepKeepsIInv
<1> QED
  BY <1>1, <1>2, PTL DEF BuildSpec

\* Every variable keeps its type, and a command is running exactly as long as it has steps left.
THEOREM BuildTypes == BuildSpec => []BuildTypeOK
<1>1. IInv => BuildTypeOK
  BY DEF IInv
<1> QED
  BY <1>1, IInvAlways, PTL

\* A command of nob.c that ends well has left in the libraries it builds, of every source,
\* something that was in it while the command ran, whatever earlier commands, killed ones among
\* them, left in .build and however the sources changed meanwhile; in the archive alone a member
\* of an earlier command may survive whose source was not there.
THEOREM LibrariesCurrent == BuildSpec => []LibsAreCurrent
<1>1. ASSUME IInv PROVE LibsAreCurrent
  <2>1. verdict = "true" => Fine /\ Rest = {}
    BY <1>1, EmptyPlan, Zenon DEF IInv, BuildTypeOK, Fine, Rest
  <2> QED
    BY <1>1, <2>1, Zenon DEF IInv, Libs, LibsAreCurrent
<1> QED
  BY <1>1, IInvAlways, PTL

\* "nob test" runs all the tests whatever their results, and no command that runs tests says
\* that all is well when one was left out or did not pass.
THEOREM TestsAllTried == BuildSpec => []AllTestsTried
<1>1. ASSUME IInv PROVE AllTestsTried
  <2>1. verdict = "true" => Fine /\ Step = "none"
    BY <1>1, Zenon DEF IInv, BuildTypeOK, Fine, Step
  <2>2. cmd.name \in {"test", "valgrind", "strace"} /\ verdict = "true" => \A t \in Tests : tried[t] = "ok"
    BY <1>1, <2>1, Zenon DEF IInv, Tested
  <2>3. verdict = "false" /\ cmd.name = "test" /\ blame = {} => \A t \in Tests : tried[t] # "no"
    BY <1>1, Zenon DEF IInv, Tested
  <2>4. cmd.name = "test" /\ verdict = "true" => \A t \in Tests : tried[t] # "no"
    BY <2>2, Zenon
  <2> QED
    BY <2>2, <2>3, <2>4, Zenon DEF AllTestsTried, Ended
<1> QED
  BY <1>1, IInvAlways, PTL

\* A pack that ends has removed its staging directory unless the removal itself failed, has left
\* nothing else unless its prefix led out of that directory, and if it succeeds has packed the
\* headers and the two libraries it has just built.
THEOREM PackIsWhole == BuildSpec => []PackedWhole
<1>1. ASSUME IInv PROVE PackedWhole
  <2>1. verdict = "true" => Fine /\ Step = "none"
    BY <1>1, Zenon DEF IInv, BuildTypeOK, Fine, Step
  <2>2. Ended /\ stage.in => "rm" \in blame
    BY <1>1, Zenon DEF IInv, Packed, Ended
  <2>3. Ended /\ stage # Absent => "rm" \in blame \/ cmd.prefix = "outside"
    BY <1>1, <2>2, Zenon DEF IInv, Packed
  <2> QED
    BY <1>1, <2>1, <2>2, <2>3, Zenon DEF IInv, Packed, PackedWhole
<1> QED
  BY <1>1, IInvAlways, PTL

\* A command fails exactly when a program or a system call failed it, a test failed, or it asks
\* for what the tool cannot do; a removal of the staging directory that fails is no reason.
THEOREM FailuresHaveCause == BuildSpec => []FailsForCause
<1>1. ASSUME IInv PROVE FailsForCause
  <2>1. cmd.name = "pack" /\ cmd.version # << >> => cmd.version \in Versions
    <3>1. cmd \in Command
      BY <1>1, TypedAlready, Zenon DEF Typed
    <3> QED
      BY <3>1 DEF Command, Plain
  <2>2. Barred <=> Hopeless
    <3>1. \A v \in Versions : v \in Seq(Character)
      BY BuildAssumption, Zenon
    <3>2. \A v \in Versions : IsValidSemver(v) <=> Accepted(v)
      BY <3>1, SemverShape, Zenon
    <3> QED
      BY <2>1, <3>2, Zenon DEF Barred, Hopeless
  <2>3. verdict = "false" => Cause
    BY <1>1, Zenon DEF IInv, Caused
  <2>4. ASSUME verdict = "true" PROVE ~Cause
    <3>1. Fine /\ Step = "none"
      BY <1>1, <2>4, Zenon DEF IInv, BuildTypeOK, Fine, Step
    <3>2. ~Barred
      BY <1>1, <3>1, Zenon DEF IInv, Caused, Barred
    <3>3. blame \ {"rm"} = {}
      BY <1>1, <3>1, Zenon DEF IInv, Caused
    <3>4. \A t \in Tests : tried[t] # "failed"
      BY <1>1, <3>1, Zenon DEF IInv, Tested
    <3> QED
      BY <3>2, <3>3, <3>4, Zenon DEF Cause
  <2> QED
    BY <2>2, <2>3, <2>4, Zenon DEF FailsForCause, Ended, Cause
<1> QED
  BY <1>1, IInvAlways, PTL
=============================================================================
