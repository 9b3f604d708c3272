----------------------------- MODULE NobRebuild -----------------------------
(***************************************************************************)
(* NOB_GO_REBUILD_URSELF: before any work, ./nob compares the times of     *)
(* itself and of nob.c, in whole seconds, and if nob.c is newer renames    *)
(* itself to nob.old, compiles nob.c, and runs the new binary, which does  *)
(* the same comparison again.  nob.c may be edited at any time, the        *)
(* compiler may fail, and the tool may be killed at any point.             *)
(***************************************************************************)
EXTENDS Integers

CONSTANTS
  MaxTime,   \* bound: seconds
  MaxVersion   \* bound: edits of nob.c

ASSUME RebuildAssumption == MaxTime \in Nat /\ MaxVersion \in Nat

VARIABLES
  now,      \* the clock of the file system, in seconds
  code,     \* nob.c: its version and the time of its last edit
  nob, old, \* the files nob and nob.old
  pc,       \* what the tool does; "none" when it does not run
  image,    \* the version of nob.c of the binary that runs
  read,     \* what the compiler has read: the version and when
  late      \* history: nob.c was edited since the tool compared the times

vars == << now, code, nob, old, pc, image, read, late >>

Time == 0 .. MaxTime
Version == 0 .. MaxVersion
Binary == [state : {"whole", "cut", "none"}, version : Version, mtime : Time, read : Time]
NoBinary == [state |-> "none", version |-> 0, mtime |-> 0, read |-> 0]

TypeOK ==
  /\ now \in Time
  /\ code \in [version : Version, mtime : Time]
  /\ nob \in Binary /\ old \in Binary
  /\ \A file \in {nob, old} : file.read <= file.mtime /\ file.mtime <= now
  /\ pc \in {"none", "check", "rename", "compile", "write", "restore", "work"}
  /\ image \in Version
  /\ read \in [version : Version, at : Time]
  /\ late \in BOOLEAN

\* What "cc nob.c -o nob" leaves.  (OfOldTime: with the time of the binary before.)
OfOldTime(v, at) == [state |-> "whole", version |-> v, mtime |-> old.mtime, read |-> at]
Compiled(v, at) == [state |-> "whole", version |-> v, mtime |-> now, read |-> at]

Init ==
  /\ now = 0
  /\ code = [version |-> 0, mtime |-> 0]
  /\ nob = [state |-> "whole", version |-> 0, mtime |-> 0, read |-> 0]
  /\ old = NoBinary
  /\ pc = "none" /\ image = 0 /\ read = [version |-> 0, at |-> 0] /\ late = FALSE

-----------------------------------------------------------------------------
(* The world around the tool. *)

Tick ==
  /\ now < MaxTime
  /\ now' = now + 1
  /\ UNCHANGED << code, nob, old, pc, image, read, late >>

Edit ==
  /\ code.version < MaxVersion
  /\ code' = [version |-> code.version + 1, mtime |-> now]
  /\ late' = (pc # "none")
  /\ UNCHANGED << now, nob, old, pc, image, read >>

\* The user runs ./nob, or has to bootstrap again when there is nothing to run.
Invoke ==
  /\ pc = "none" /\ nob.state = "whole"
  /\ pc' = "check" /\ image' = nob.version
  /\ UNCHANGED << now, code, nob, old, read, late >>

Bootstrap ==
  /\ pc = "none" /\ nob.state # "whole"
  /\ nob' = Compiled(code.version, now)
  /\ UNCHANGED << now, code, old, pc, image, read, late >>

\* The tool, and the compiler with it, is killed; what the compiler was writing stays.
Killed ==
  /\ pc # "none"
  /\ pc' = "none"
  /\ \/ UNCHANGED nob
     \/ pc = "write" /\ nob' = [NoBinary EXCEPT !.state = "cut", !.mtime = now]
  /\ UNCHANGED << now, code, old, image, read, late >>

-----------------------------------------------------------------------------
(* nob__go_rebuild_urself(): one action for each call that can fail. *)

\* "input_path_time > output_path_time" of nob_needs_rebuild().  (Older: the times swapped.)
Older(input, output) == output > input
Fresher(input, output) == input > output

Exit == pc' = "none"

NeedsRebuild ==
  /\ pc = "check"
  /\ \/ pc' = IF Fresher(code.mtime, nob.mtime) THEN "rename" ELSE "work"
     \/ Exit    \* a file cannot be examined
  /\ late' = FALSE
  /\ UNCHANGED << now, code, nob, old, image, read >>

\* nob_rename(binary_path, old_binary_path).  (Deleted: the old binary is not kept.)
Deleted(file) == NoBinary
Kept(file) == file

Rename ==
  /\ pc = "rename"
  /\ \/ old' = Kept(nob) /\ nob' = NoBinary /\ pc' = "compile"
     \/ Exit /\ UNCHANGED << nob, old >>
  /\ UNCHANGED << now, code, image, read, late >>

\* The compiler reads nob.c,
CompilerReads ==
  /\ pc = "compile"
  /\ read' = [version |-> code.version, at |-> now]
  /\ pc' = "write"
  /\ UNCHANGED << now, code, nob, old, image, late >>

\* and writes a binary, which is run at once; or fails and leaves none.
CompilerEnds ==
  /\ pc = "write"
  /\ \/ /\ nob' = Compiled(read.version, read.at)
        /\ pc' = "check" /\ image' = read.version
     \/ pc' = "restore" /\ UNCHANGED << nob, image >>
  /\ UNCHANGED << now, code, old, read, late >>

\* nob_rename(old_binary_path, binary_path), which keeps its time and whose failure is not
\* looked at.
Restore ==
  /\ pc = "restore"
  /\ \/ nob' = old /\ old' = NoBinary
     \/ UNCHANGED << nob, old >>
  /\ Exit
  /\ UNCHANGED << now, code, image, read, late >>

\* What the tool is for; see NobBuild.
Work ==
  /\ pc = "work"
  /\ Exit
  /\ UNCHANGED << now, code, nob, old, image, read, late >>

Tool == NeedsRebuild \/ Rename \/ CompilerReads \/ CompilerEnds \/ Restore \/ Work

Next == Tool \/ Tick \/ Edit \/ Invoke \/ Bootstrap \/ Killed

Spec == Init /\ [][Next]_vars /\ WF_vars(Tool)

-----------------------------------------------------------------------------
(* Properties. *)

\* Whenever the tool is killed, and whichever of its steps fails, there is a whole binary to
\* go on with: nob, or nob.old, which the user can rename.
SomeBinary == nob.state = "whole" \/ old.state = "whole"

\* The work is done by a binary of nob.c as it is, except for two kinds of edits: one made
\* after the times were compared, and one made while the compiler ran or in the second in
\* which it ended.  README.md:102 knows no exception; the second kind is never noticed.
QuietEditsAreBuilt ==
  pc = "work" /\ image # code.version =>
    \/ late
    \/ nob.read <= code.mtime /\ code.mtime <= nob.mtime

\* A run ends: the new binary does not find itself outdated for ever.
RunsEnd == []<>(pc = "none")
=============================================================================
