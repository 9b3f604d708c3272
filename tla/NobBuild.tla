------------------------------ MODULE NobBuild ------------------------------
(***************************************************************************)
(* The commands of nob.c and the directory .build they share.  A command   *)
(* is a straight list of steps that ends at the first one that fails; the  *)
(* steps are the calls and the loops of the functions of nob.c, in their   *)
(* order.  Any program that a step runs may fail, sources may be edited,   *)
(* added and removed at any time, and the tool may be killed.              *)
(***************************************************************************)
EXTENDS Integers, Sequences, FiniteSets

CONSTANTS
  Srcs,       \* names in src/ that is_c_file() accepts
  Tests,      \* names in tests/ that is_test_c_file() accepts
  Versions,   \* versions given to pack, as sequences of characters
  MaxEdits    \* bound: changes of the sources

\* The classes of characters that is_valid_semver() tells apart: "0" stands for the digits, "a"
\* for the letters, "x" for what is none of the others.
Character == {"0", "a", ".", "-", "+", "x"}

ASSUME BuildAssumption == MaxEdits \in Nat /\ Versions \subseteq Seq(Character)

VARIABLES
  src,       \* what is in each source, a number; 0 when there is none
  edits,     \* how many changes there were
  dirs,      \* which of the directories .build, .build/tests and .build/docs exist
  obj,       \* .build/*.o: what each was compiled from
  archive,   \* the members of .build/libtlv.a
  shared,    \* those of .build/libtlv.so
  stage,     \* the staging directory of pack, and what is at its prefix
  tarball,   \* what the command packed
  cmd,       \* the command, with its arguments
  steps,     \* its steps that are left
  names,     \* the sources it collected
  left,      \* what the loop of the current step has still to come to
  verdict,   \* how the command ended: "true", "false" or "killed"
  begun,     \* history: dirs and archive when the command began
  held,      \* history: what has been in each source while it ran
  blame,     \* history: the steps of it whose program or system call failed
  tried      \* history: the result of each test it ran

files == << dirs, obj, archive, shared, stage, tarball >>
past  == << begun, held, blame, tried >>
buildVars  == << src, edits, files, cmd, steps, names, left, verdict, past >>

Content == 0 .. MaxEdits + 1
Members == [Srcs -> Content]
None    == [s \in Srcs |-> 0]
Absent  == [in |-> FALSE, headers |-> FALSE, a |-> None, so |-> None]
Stage   == [in : BOOLEAN, headers : BOOLEAN, a : Members, so : Members]

-----------------------------------------------------------------------------
(* The commands. *)

Objects   == << "collect", "build dir", "objects" >>
Static    == Objects \o << "ar" >>
Dynamic   == Objects \o << "link" >>
PackSteps == << "version", "mkdtemp", "layout", "headers", "copy a", "copy so", "tar", "rm" >>
TestSteps(loop) == << "tests dir", "collect", "collect tests", loop >>

StepsOf(name) ==
  CASE name = "static"  -> Static
    [] name = "dynamic" -> Dynamic
    [] name = "build"   -> Static \o Dynamic
    [] name = "pack"    -> Static \o Dynamic \o PackSteps
    [] name = "test"    -> << "build dir" >> \o TestSteps("tests")
    [] name \in {"valgrind", "strace"} -> TestSteps("checks")
    [] name = "docs"    -> << "docs dir", "doxyfile", "doxygen" >>
    [] name = "fmt"     -> << "collect", "collect headers", "clang-format" >>
    [] name = "compile-commands" -> Static \o Dynamic \o << "bear" >>
    [] name \in {"cppcheck", "ctags", "clean"} -> << name >>

Plain == {"static", "dynamic", "build", "test", "valgrind", "strace", "docs", "fmt",
          "compile-commands", "cppcheck", "ctags", "clean"}
\* Where the prefix given to pack leads from the staging directory: to itself ("here": "." or
\* none given), to a directory elsewhere ("outside": ".."), or to no directory ("nowhere": any
\* name, since the staging directory is new and empty).
Prefix == {"here", "outside", "nowhere"}
Command == [name : Plain, version : {<< >>}, prefix : {"here"}]
           \cup [name : {"pack"}, version : Versions \cup {<< >>}, prefix : Prefix]

\* is_valid_semver(): one turn of its loop, where three dots stand for having left it; the loop,
\* by how many characters it has read; and what it returns, there or behind a "-" or a "+".
Start == [dots |-> 0, inDigits |-> FALSE]
Turn(s, c) ==
  CASE c = "0" -> [dots |-> s.dots, inDigits |-> TRUE]
    [] c = "." /\ s.dots < 2 /\ s.inDigits -> [dots |-> s.dots + 1, inDigits |-> FALSE]
    [] OTHER -> [dots |-> 3, inDigits |-> FALSE]

Scan(v) ==
  LET loop[k \in 0 .. Len(v)] == IF k = 0 THEN Start ELSE Turn(loop[k - 1], v[k])
  IN  loop

IsValidSemver(v) ==
  /\ v # << >> /\ v[1] = "0"
  /\ \E k \in 1 .. Len(v) :
       /\ Scan(v)[k] = [dots |-> 2, inDigits |-> TRUE]
       /\ k < Len(v) => v[k + 1] \in {"-", "+"} /\ \A j \in k + 2 .. Len(v) : v[j] # "x"

\* What it accepts: three numbers with a dot between them, and after a "-" or a "+" anything
\* that has no foreign character, nothing at all included.
Accepted(v) ==
  \E end \in 5 .. Len(v) :
    /\ \E d, e \in 2 .. end - 1 :
         d + 1 < e /\ \A j \in 1 .. end : v[j] = IF j \in {d, e} THEN "." ELSE "0"
    /\ end < Len(v) => v[end + 1] \in {"-", "+"}
    /\ \A j \in DOMAIN v : v[j] # "x"

-----------------------------------------------------------------------------

BuildTypeOK ==
  /\ src \in Members /\ edits \in 0 .. MaxEdits
  /\ dirs \subseteq {".build", "tests", "docs"} /\ (dirs # {} => ".build" \in dirs)
  /\ obj \in Members /\ archive \in Members /\ shared \in Members
  /\ stage \in Stage /\ tarball \in Stage
  /\ cmd \in Command
  /\ \A k \in DOMAIN steps : steps[k] \in {"rm failed"} \cup {StepsOf(cmd.name)[j] : j \in DOMAIN StepsOf(cmd.name)}
  /\ names \subseteq Srcs /\ left \subseteq Srcs \cup Tests
  /\ verdict \in {"running", "true", "false", "killed"} /\ (verdict = "running" <=> steps # << >>)
  /\ begun \in [dirs : SUBSET {".build", "tests", "docs"}, archive : Members]
  /\ held \in [Srcs -> SUBSET Content]
  /\ tried \in [Tests -> {"no", "ok", "failed"}]

BuildInit ==
  /\ src \in [Srcs -> {0, 1}] /\ edits = 0
  /\ dirs = {} /\ obj = None /\ archive = None /\ shared = None
  /\ stage = Absent /\ tarball = Absent
  /\ cmd = [name |-> "clean", version |-> << >>, prefix |-> "here"] /\ steps = << >>
  /\ names = {} /\ left = {} /\ verdict = "true"
  /\ begun = [dirs |-> {}, archive |-> None]
  /\ held = [s \in Srcs |-> {src[s]}] /\ blame = {} /\ tried = [t \in Tests |-> "no"]

\* A source is written anew, or removed.
Change ==
  /\ edits < MaxEdits /\ edits' = edits + 1
  /\ \E s \in Srcs : \E content \in {0, edits + 2} :
       /\ src' = [src EXCEPT ![s] = content]
       /\ held' = IF verdict = "running" THEN [held EXCEPT ![s] = @ \cup {content}] ELSE held
  /\ UNCHANGED << files, cmd, steps, names, left, verdict, begun, blame, tried >>

\* main(): one command in one run of the tool.
Call ==
  /\ verdict # "running"
  /\ cmd' \in Command
  /\ steps' = StepsOf(cmd'.name) /\ verdict' = "running"
  /\ names' = {} /\ left' = {}
  /\ stage' = Absent /\ tarball' = Absent   \* earlier ones are nobody's
  /\ begun' = [dirs |-> dirs, archive |-> archive]
  /\ held' = [s \in Srcs |-> {src[s]}] /\ blame' = {} /\ tried' = [t \in Tests |-> "no"]
  /\ UNCHANGED << src, edits, dirs, obj, archive, shared >>

Interrupted ==
  /\ verdict = "running"
  /\ verdict' = "killed" /\ steps' = << >>
  /\ UNCHANGED << src, edits, files, cmd, names, left, past >>

-----------------------------------------------------------------------------
(* The steps. *)

At(step) == steps # << >> /\ Head(steps) = step

Continue ==
  /\ steps' = Tail(steps)
  /\ verdict' = IF Len(steps) = 1 THEN "true" ELSE "running"

\* "return false", and the "goto fail" of cmd_pack() once there is a directory to remove.
\* (Leave: return false everywhere.)
Leave == << >>
OnFailure == IF stage.in THEN << "rm failed" >> ELSE << >>

Fail == steps' = OnFailure /\ verdict' = IF OnFailure = << >> THEN "false" ELSE "running"

\* The program a step runs, or the system call it makes, fails; what tar wrote stays.
Breaks ==
  /\ steps # << >> /\ Head(steps) \notin {"version", "tests", "rm", "rm failed"}
  /\ Fail
  /\ blame' = blame \cup {Head(steps)}
  /\ tarball' \in {tarball} \cup IF At("tar") THEN {Absent} ELSE {}
  /\ UNCHANGED << src, edits, dirs, obj, archive, shared, stage, cmd, names, left, begun, held, tried >>

\* Steps that change nothing the others depend on.
Runs ==
  /\ \E step \in {"collect headers", "clang-format", "doxyfile", "doxygen", "cppcheck", "ctags", "bear"} :
       At(step)
  /\ Continue
  /\ UNCHANGED << src, edits, files, cmd, names, left, past >>

\* collect_files(SRC_DIR, is_c_file, ...)
Collect ==
  /\ At("collect")
  /\ names' = {s \in Srcs : src[s] # 0}
  /\ Continue
  /\ UNCHANGED << src, edits, files, cmd, left, past >>

CollectTests ==
  /\ At("collect tests")
  /\ left' = Tests
  /\ Continue
  /\ UNCHANGED << src, edits, files, cmd, names, past >>

BuildDir ==
  /\ At("build dir")
  /\ dirs' = dirs \cup {".build"}
  /\ left' = names
  /\ Continue
  /\ UNCHANGED << src, edits, obj, archive, shared, stage, tarball, cmd, names, past >>

\* mkdir(".build/tests") and mkdir(".build/docs") make no parents, and fail without them.
\* (Orphan: the failure is not seen.)
Orphan(dir) == {dir}
Made(dir) == IF ".build" \in dirs THEN {dir} ELSE {}

SubDir ==
  \E dir \in {"tests", "docs"} :
    /\ At(IF dir = "tests" THEN "tests dir" ELSE "docs dir")
    /\ dirs' = dirs \cup Made(dir)
    /\ IF Made(dir) = {} THEN Fail ELSE Continue
    /\ UNCHANGED << src, edits, obj, archive, shared, stage, tarball, cmd, names, left, past >>

\* One turn of the loop of build_objects(), which always compiles.
CompileOne ==
  /\ At("objects")
  /\ \E s \in left :
       /\ src[s] # 0
       /\ obj' = [obj EXCEPT ![s] = src[s]]
       /\ left' = left \ {s}
  /\ UNCHANGED << src, edits, dirs, archive, shared, stage, tarball, cmd, steps, names, verdict, past >>

ObjectsDone ==
  /\ At("objects") /\ left = {}
  /\ Continue
  /\ UNCHANGED << src, edits, files, cmd, names, left, past >>

\* "ar rcs" replaces and adds members; it removes none.
Ar ==
  /\ At("ar")
  /\ archive' = [s \in Srcs |-> IF s \in names THEN obj[s] ELSE archive[s]]
  /\ Continue
  /\ UNCHANGED << src, edits, dirs, obj, shared, stage, tarball, cmd, names, left, past >>

\* (LinkAll: .build/*.o instead of the objects just compiled.)
LinkAll == obj
Linked == [s \in Srcs |-> IF s \in names THEN obj[s] ELSE 0]

Link ==
  /\ At("link")
  /\ shared' = Linked
  /\ Continue
  /\ UNCHANGED << src, edits, dirs, obj, archive, stage, tarball, cmd, names, left, past >>

\* A test is compiled and run.  cmd_test() goes on after one that fails, cmd_valgrind() and
\* cmd_strace() do not.  (Stops: neither does cmd_test().)
Stops(loop) == FALSE
GoesOn(loop) == loop = "tests"

TestOne ==
  \E loop \in {"tests", "checks"} : \E t \in left : \E result \in {"ok", "failed"} :
    /\ At(loop)
    /\ tried' = [tried EXCEPT ![t] = result]
    /\ left' = left \ {t}
    /\ IF result = "failed" /\ ~GoesOn(loop) THEN Fail ELSE UNCHANGED << steps, verdict >>
    /\ UNCHANGED << src, edits, files, cmd, names, begun, held, blame >>

TestsDone ==
  /\ At("tests") \/ At("checks")
  /\ left = {}
  /\ IF \E t \in Tests : tried[t] = "failed" THEN Fail ELSE Continue
  /\ UNCHANGED << src, edits, files, cmd, names, left, past >>

Clean ==
  /\ At("clean")
  /\ dirs' = {} /\ obj' = None /\ archive' = None /\ shared' = None
  /\ Continue
  /\ UNCHANGED << src, edits, stage, tarball, cmd, names, left, past >>

-----------------------------------------------------------------------------
(* The rest of cmd_pack(). *)

CheckVersion ==
  /\ At("version")
  /\ IF cmd.version = << >> \/ IsValidSemver(cmd.version) THEN Continue ELSE Fail
  /\ UNCHANGED << src, edits, files, cmd, names, left, past >>

\* The staging directory and the copies to where the prefix leads from it: it is there or
\* mkdir(stage/prefix/include) fails, since nothing makes stage/prefix.
Staging ==
  /\ \/ At("mkdtemp") /\ stage' = [Absent EXCEPT !.in = TRUE] /\ Continue
     \/ At("layout")  /\ UNCHANGED stage /\ IF cmd.prefix = "nowhere" THEN Fail ELSE Continue
     \/ At("headers") /\ stage' = [stage EXCEPT !.headers = TRUE] /\ Continue
     \/ At("copy a")  /\ stage' = [stage EXCEPT !.a = archive] /\ Continue
     \/ At("copy so") /\ stage' = [stage EXCEPT !.so = shared] /\ Continue
  /\ UNCHANGED << src, edits, dirs, obj, archive, shared, tarball, cmd, names, left, past >>

Tar ==
  /\ At("tar")
  /\ tarball' = stage
  /\ Continue
  /\ UNCHANGED << src, edits, dirs, obj, archive, shared, stage, cmd, names, left, past >>

\* "best effort cleanup", of a pack that worked and of one that failed.  It removes the staging
\* directory; what was copied outside it stays there.
Cleared == IF cmd.prefix = "outside" THEN [stage EXCEPT !.in = FALSE] ELSE Absent

Remove ==
  /\ At("rm") \/ At("rm failed")
  /\ \/ stage' = Cleared /\ UNCHANGED blame
     \/ blame' = blame \cup {"rm"} /\ UNCHANGED stage
  /\ steps' = << >> /\ verdict' = IF At("rm") THEN "true" ELSE "false"
  /\ UNCHANGED << src, edits, dirs, obj, archive, shared, tarball, cmd, names, left, begun, held, tried >>

BuildNext ==
  \/ Change \/ Call \/ Interrupted \/ Breaks \/ Runs
  \/ Collect \/ CollectTests \/ BuildDir \/ SubDir \/ CompileOne \/ ObjectsDone \/ Ar \/ Link
  \/ TestOne \/ TestsDone \/ Clean
  \/ CheckVersion \/ Staging \/ Tar \/ Remove

BuildSpec == BuildInit /\ [][BuildNext]_buildVars

-----------------------------------------------------------------------------
(* Properties. *)

Ended == verdict \in {"true", "false"}
Has(step) == \E k \in DOMAIN StepsOf(cmd.name) : StepsOf(cmd.name)[k] = step

\* A command that built a library and succeeded has put into it, of each source, something
\* that was in it while the command ran, so what is in it if nobody touched it, whatever the
\* commands before left in .build.  Only the archive may keep more: a member whose source was
\* not there, exactly as an earlier command left it.
LibsAreCurrent ==
  verdict = "true" =>
    /\ Has("link") => \A s \in Srcs : shared[s] \in held[s]
    /\ Has("ar") => \A s \in Srcs :
         \/ archive[s] \in held[s]
         \/ 0 \in held[s] /\ archive[s] = begun.archive[s]

\* What no run can do: a command of README.md:87-99 in a fresh tree, and a pack with a prefix
\* that leads nowhere or with a version of another shape.
Hopeless ==
  \/ cmd.name \in {"valgrind", "strace", "docs"} /\ ".build" \notin begun.dirs
  \/ cmd.name = "pack" /\ (cmd.prefix = "nowhere" \/ (cmd.version # << >> /\ ~Accepted(cmd.version)))

\* A command fails exactly when a program or a system call failed it, a test failed, or it is
\* hopeless; only the removal of the staging directory may fail unnoticed.
FailsForCause ==
  Ended =>
    (verdict = "false" <=>
       Hopeless \/ blame \ {"rm"} # {} \/ \E t \in Tests : tried[t] = "failed")

\* "nob test" runs every test whatever the others do, and none of the three commands calls a
\* run good in which a test was not run or did not pass.
AllTestsTried ==
  Ended =>
    /\ cmd.name = "test" /\ blame = {} => \A t \in Tests : tried[t] # "no"
    /\ cmd.name \in {"test", "valgrind", "strace"} /\ verdict = "true" =>
         \A t \in Tests : tried[t] = "ok"

\* A pack that ends leaves no staging directory unless rm failed, nor anything it has copied
\* unless the prefix led out of it, and one that succeeds has packed the headers and both
\* libraries it has just built.
PackedWhole ==
  Ended /\ cmd.name = "pack" =>
    /\ stage.in => "rm" \in blame
    /\ stage # Absent => "rm" \in blame \/ cmd.prefix = "outside"
    /\ verdict = "true" => tarball = [in |-> TRUE, headers |-> TRUE, a |-> archive, so |-> shared]
=============================================================================
