------------------------------ MODULE NobTree -------------------------------
(***************************************************************************)
(* The functions of nob.h that go through a tree of files:                 *)
(* nob_copy_directory_recursively() and nob_walk_dir().  Both recurse; a   *)
(* call of either is a frame of the stack here.  The names of a directory  *)
(* are kept in the temporary allocator, the path of a walk in one string   *)
(* builder which all frames extend and cut.                                *)
(*                                                                         *)
(* Other programs may remove entries of the source at any time, and any    *)
(* call of the system may fail, the lookup of an entry that is there too   *)
(* (a directory may be listed without the right to search it).             *)
(***************************************************************************)
EXTENDS Integers, Sequences, FiniteSets, SequencesExt

CONSTANTS
  Tree,       \* the paths an entry may have, as sequences of names; << >> is the root
  Sources,    \* the trees there may be to copy or to walk: kinds by path
  Targets,    \* what there may be already where the copy goes
  TempLimit   \* bound: NOB_TEMP_CAPACITY, in names

VARIABLES
  src,      \* the tree that is copied or walked: the kind of each entry, or "none"
  dst,      \* the tree the copy goes to
  op,       \* "idle", "copy", "pre" and "post" for the two walks, "aborted", or "starved" of heap
  stack,    \* the calls that have not returned
  result,   \* what the last call to return returned
  temp,     \* nob_temp: the name in each of its cells
  used,     \* nob_temp_size
  sb,       \* file_path of a walk, with its terminators
  stop,     \* *stop of a walk
  open,     \* how many directories are open
  visited,  \* history: what the function of a walk was given, and what it answered
  first,    \* history: the call, and source, target and used when it began
  refused   \* history: the paths that were there when this call's lookup of them failed

memory == << temp, used >>
vars   == << src, dst, op, stack, result, memory, sb, stop, open, visited, first, refused >>

Kind == {"file", "directory", "symlink", "other"}
NUL  == "NUL"
Name == {p[Len(p)] : p \in Tree \ {<< >>}}

\* What is below a path and itself; in a tree, only directories have anything below them.
Below(p) == {q \in Tree : IsPrefix(p, q)}
Under(t) == \A p \in Tree : \A q \in Below(p) \ {p} : t[q] # "none" => t[p] = "directory"

\* The target holds files and directories; a file may have been cut short by an earlier copy.
SourceTree == {t \in [Tree -> Kind \cup {"none"}] : Under(t)}
TargetTree == {t \in [Tree -> {"none", "file", "partial", "directory"}] : Under(t)}

ASSUME TreeAssumption ==
  /\ IsFiniteSet(Tree) /\ << >> \in Tree
  /\ \A p \in Tree : p \in Seq(Name) /\ \A k \in 0 .. Len(p) : SubSeq(p, 1, k) \in Tree
  /\ {".", NUL} \cap Name = {}
  /\ Sources \subseteq SourceTree /\ Targets \subseteq TargetTree
  /\ TempLimit \in Nat \ {0}

Children(t, p) == {n \in Name : Append(p, n) \in Tree /\ t[Append(p, n)] # "none"}

Top == Last(stack)
Walking == op \in {"pre", "post"}

TypeOK ==
  /\ src \in [Tree -> Kind \cup {"none"}]
  /\ dst \in [Tree -> {"none", "file", "partial", "directory"}]
  /\ op \in {"idle", "copy", "pre", "post", "aborted", "starved"}
  /\ \A f \in ToSet(stack) :
       /\ f.at \in {"enter", "list", "file", "loop", "visit", "open", "next"}
       /\ f.path \in Tree
       /\ f.mark \in Nat
       /\ f.kids \in Seq(1 .. TempLimit)
       /\ f.type \in Kind \cup {"none"}
       /\ f.left \subseteq Name
       /\ f.opened \in BOOLEAN
  /\ result \in BOOLEAN /\ stop \in BOOLEAN
  /\ temp \in [1 .. TempLimit -> Name \cup {"."}] /\ used \in 0 .. TempLimit
  /\ sb \in Seq(Name \cup {"root", NUL})
  /\ open \in Nat
  /\ refused \subseteq Tree

Now(call) == [op |-> call, src |-> src, dst |-> dst, used |-> used]

\* The program may hold a temporary string of its own.
Init ==
  /\ src \in Sources /\ dst \in Targets
  /\ op = "idle" /\ stack = << >> /\ result = TRUE
  /\ temp = [k \in 1 .. TempLimit |-> "."] /\ used \in {0, 1} /\ sb = << >> /\ stop = FALSE /\ open = 0
  /\ visited = << >>
  /\ first = Now("none")
  /\ refused = {}

\* Another program removes an entry and all below it.
Vanish ==
  /\ op # "idle" /\ src = first.src
  /\ \E p \in Tree :
       /\ src[p] # "none"
       /\ src' = [q \in Tree |-> IF q \in Below(p) THEN "none" ELSE src[q]]
  /\ UNCHANGED << dst, op, stack, result, memory, sb, stop, open, visited, first, refused >>

Frame(p) == [path |-> p, at |-> "enter", mark |-> used, kids |-> << >>, type |-> "none",
             left |-> {}, opened |-> FALSE]

\* nob_get_file_type(): what lstat() finds, or -1, here "none", when it fails: always for an
\* entry that is gone, and for one that is there when it may not be looked up, its path is too
\* long, or the disk fails.
FileType(p) == {src[p], "none"}

\* History: the path, when the answer is not what is there.
Note(p, type) == refused' = refused \cup (IF type # src[p] THEN {p} ELSE {})

Goto(at) == stack' = [stack EXCEPT ![Len(stack)].at = at]

\* NOB_UNREACHABLE, or NOB_ASSERT for the temporary memory, ends the tool.
Abort == op' = "aborted" /\ stack' = << >> /\ UNCHANGED << dst, result, used, open >>

\* NOB_ASSERT of a block from the heap ends it: of the names of a directory, of the buffer of
\* nob_copy_file(), of the paths made for an entry before it is entered.
HeapFails ==
  /\ stack # << >>
  /\ \/ Top.at \in {"list", "file"}
     \/ Top.at = "enter" /\ (Walking \/ Len(stack) > 1)
  /\ op' = "starved" /\ stack' = << >>
  /\ UNCHANGED << src, dst, result, memory, sb, stop, open, visited, first, refused >>

-----------------------------------------------------------------------------
(* nob_copy_directory_recursively() *)

\* nob_temp_rewind().  (Kept: left out.)
Kept(mark) == used
Rewind(mark) == mark

\* How the call of the frame returns; the root's call returns to the program.
Return(r) ==
  /\ result' = r
  /\ stack' = Front(stack)
  /\ used' = Rewind(Top.mark)
  /\ op' = IF Len(stack) = 1 THEN "idle" ELSE op

Copy ==
  /\ op = "idle"
  /\ op' = "copy" /\ stack' = << Frame(<< >>) >> /\ result' = TRUE
  /\ first' = Now(op')
  /\ visited' = << >> /\ refused' = {} /\ sb' = << >> /\ stop' = FALSE
  /\ UNCHANGED << src, dst, memory, open >>

At(step) == op = "copy" /\ stack # << >> /\ Top.at = step

\* open() and mkdir() need a directory to put their entry in.
Placed(p) == p = << >> \/ dst[Front(p)] = "directory"

\* nob_mkdir_if_not_exists(): whatever is there counts as the directory.
MkdirIfNotExists(p) ==
  /\ Placed(p)
  /\ dst' = [dst EXCEPT ![p] = IF @ = "none" THEN "directory" ELSE @]

\* The -1 of a lookup that failed: Nob_File_Type, an unsigned type, holds it as its largest
\* value, "type < 0" is false, and no case of the switch fits.
CopyEnter ==
  /\ At("enter")
  /\ LET p == Top.path
     IN  \E type \in FileType(p) :
           /\ Note(p, type)
           /\ \/ type = "none" /\ Abort
              \/ type = "directory" /\ MkdirIfNotExists(p) /\ Goto("list")
                   /\ UNCHANGED << op, result, used, open >>
              \/ type = "directory" /\ Return(FALSE) /\ UNCHANGED << dst, open >>
              \/ type = "file" /\ Goto("file") /\ UNCHANGED << dst, op, result, used, open >>
              \/ type = "symlink" /\ Return(TRUE) /\ UNCHANGED << dst, open >>
              \/ type = "other" /\ Return(FALSE) /\ UNCHANGED << dst, open >>
  /\ UNCHANGED << src, temp, sb, stop, visited, first >>

\* nob_temp_alloc() returns NULL.  (LateCheck: only once the memory is full.)
LateCheck(n) == used >= TempLimit
NoRoom(n) == used + n > TempLimit

\* nob_temp_strdup() of each name.
Stored(names) ==
  [k \in DOMAIN temp |-> IF k - used \in DOMAIN names THEN names[k - used] ELSE temp[k]]

\* The temporary memory after the names of a directory.  (Released: given back at once.)
Released(n) == used
Taken(n) == used + n

\* nob_read_entire_dir(), which stores "." as well (".." would be one more like it), in
\* whatever order readdir() has.
ReadEntireDir ==
  /\ At("list")
  /\ \/ /\ src[Top.path] = "directory"
        /\ \E all \in SetToSeqs({"."} \cup Children(src, Top.path)) :
             IF NoRoom(Len(all)) THEN Abort /\ UNCHANGED temp
             ELSE /\ temp' = Stored(all)
                  /\ used' = Taken(Len(all))
                  /\ stack' = [stack EXCEPT ![Len(stack)] =
                       [@ EXCEPT !.at = "loop", !.kids = [k \in DOMAIN all |-> used + k]]]
                  /\ UNCHANGED << dst, op, result, open >>
     \/ Return(FALSE) /\ UNCHANGED << dst, temp, open >>
  /\ UNCHANGED << src, sb, stop, visited, first, refused >>

\* What becomes of the loop when the copy of a child failed.  (Onward: nothing.)
Onward == FALSE
GivesUp == ~result

NextChild ==
  /\ At("loop") /\ ~GivesUp /\ Top.kids # << >>
  /\ LET name == temp[Head(Top.kids)]
         rest == [stack EXCEPT ![Len(stack)].kids = Tail(@)]
     IN  stack' = IF name = "." THEN rest ELSE Append(rest, Frame(Append(Top.path, name)))
  /\ result' = TRUE
  /\ UNCHANGED << src, dst, op, memory, sb, stop, open, visited, first, refused >>

ChildrenDone ==
  /\ At("loop")
  /\ \/ GivesUp /\ Return(FALSE)
     \/ ~GivesUp /\ Top.kids = << >> /\ Return(TRUE)
  /\ UNCHANGED << src, dst, temp, sb, stop, open, visited, first, refused >>

\* nob_copy_file(): what open() truncates stays truncated when a read or a write fails.
CopyFile ==
  /\ At("file")
  /\ LET p == Top.path
         writable == src[p] # "none" /\ Placed(p) /\ dst[p] # "directory"
     IN  \/ writable /\ dst' = [dst EXCEPT ![p] = "file"] /\ Return(TRUE)
         \/ writable /\ dst' = [dst EXCEPT ![p] = "partial"] /\ Return(FALSE)
         \/ Return(FALSE) /\ UNCHANGED dst
  /\ UNCHANGED << src, temp, sb, stop, open, visited, first, refused >>

-----------------------------------------------------------------------------
(* nob_walk_dir() *)

Walk ==
  /\ op = "idle"
  /\ op' \in {"pre", "post"}
  /\ sb' = << "root", NUL >>
  /\ stop' = FALSE
  /\ stack' = << [Frame(<< >>) EXCEPT !.mark = 2] >> /\ result' = TRUE
  /\ visited' = << >> /\ refused' = {}
  /\ first' = Now(op')
  /\ UNCHANGED << src, dst, memory, open >>

\* The path the system reads from the string builder: up to the first terminator.
PathIn(s) == SubSeq(s, 2, (CHOOSE k \in DOMAIN s : s[k] = NUL /\ \A j \in 1 .. k - 1 : s[j] # NUL) - 1)

\* file_path->count = saved_file_path_count; nob_da_last(file_path) = '\0'.  (Here and below
\* the mark of a frame is that count.)
Cut(saved) == [SubSeq(sb, 1, saved) EXCEPT ![saved] = NUL]

WalkAt(step) == Walking /\ stack # << >> /\ Top.at = step

\* defer: the path is cut, the directory closed.  (LeftOpen: only where the loop ended.)
LeftOpen(f) == IF f.opened /\ f.left = {} THEN 1 ELSE 0
Closed(f) == IF f.opened THEN 1 ELSE 0

Defer(r) ==
  /\ result' = r
  /\ stack' = Front(stack)
  /\ sb' = Cut(Top.mark)
  /\ open' = open - Closed(Top)
  /\ op' = IF Len(stack) = 1 THEN "idle" ELSE op

\* The type is -1 again when the lookup fails, and the walk goes on with the entry.
WalkEnter ==
  /\ WalkAt("enter")
  /\ \E type \in FileType(PathIn(sb)) :
       /\ Note(PathIn(sb), type)
       /\ stack' = [stack EXCEPT ![Len(stack)] =
            [@ EXCEPT !.type = type, !.at = IF op = "pre" THEN "visit" ELSE "open"]]
  /\ UNCHANGED << src, dst, op, result, memory, sb, stop, open, visited, first >>

Visit ==
  /\ WalkAt("visit")
  /\ \E answer \in {"cont", "skip", "stop", "fail"} :
       /\ visited' = Append(visited, [path |-> PathIn(sb), type |-> Top.type, answer |-> answer])
       /\ stop' = (stop \/ answer = "stop")
       /\ IF op = "pre" /\ answer = "cont"
          THEN Goto("open") /\ UNCHANGED << op, result, sb, open >>
          ELSE Defer(answer # "fail")
  /\ UNCHANGED << src, dst, memory, first, refused >>

AfterEntries == IF op = "post" THEN Goto("visit") /\ UNCHANGED << op, result, open >> ELSE Defer(TRUE)

OpenDir ==
  /\ WalkAt("open")
  /\ \/ Top.type # "directory" /\ AfterEntries /\ (op = "post" => UNCHANGED sb)
     \/ /\ Top.type = "directory" /\ src[PathIn(sb)] = "directory"
        /\ stack' = [stack EXCEPT ![Len(stack)] =
             [@ EXCEPT !.left = Children(src, PathIn(sb)), !.opened = TRUE, !.at = "next"]]
        /\ open' = open + 1
        /\ UNCHANGED << op, result, sb >>
     \/ Top.type = "directory" /\ Defer(FALSE)
  /\ UNCHANGED << src, dst, memory, stop, visited, first, refused >>

\* The loop over the entries; what readdir() gives may be gone, and what is gone it need not
\* give any more.
NextEntry ==
  /\ WalkAt("next") /\ result /\ ~stop
  /\ \E n \in Top.left :
       LET rest == [stack EXCEPT ![Len(stack)].left = @ \ {n}]
       IN  \/ /\ sb' = SubSeq(sb, 1, Top.mark - 1) \o << n, NUL >>
              /\ stack' = Append(rest, [Frame(<< >>) EXCEPT !.mark = Top.mark + 1])
           \/ /\ src[Append(PathIn(Cut(Top.mark)), n)] = "none"
              /\ stack' = rest
              /\ UNCHANGED sb
  /\ UNCHANGED << src, dst, op, result, memory, stop, open, visited, first, refused >>

\* "file_path->count = saved_file_path_count" before a directory is visited in post-order.
\* (Uncut: left to the end of the call.)
Uncut == sb
RestoredPath == Cut(Top.mark)

\* What becomes of a walk whose recursion failed.  (Unnoticed: nothing.)
Unnoticed == TRUE
Propagated == FALSE

EntriesDone ==
  /\ WalkAt("next")
  /\ \/ ~result /\ Defer(Propagated)
     \/ result /\ stop /\ Defer(TRUE)
     \/ result /\ ~stop /\ Defer(FALSE)     \* readdir() fails
     \/ result /\ ~stop /\ Top.left = {} /\ AfterEntries /\ (op = "post" => sb' = RestoredPath)
  /\ UNCHANGED << src, dst, memory, stop, visited, first, refused >>

-----------------------------------------------------------------------------

Step ==
  \/ CopyEnter \/ ReadEntireDir \/ NextChild \/ ChildrenDone \/ CopyFile
  \/ WalkEnter \/ Visit \/ OpenDir \/ NextEntry \/ EntriesDone

\* The program ends after an abort.
Over == op \in {"aborted", "starved"} /\ UNCHANGED vars

Next == Copy \/ Walk \/ Step \/ HeapFails \/ Vanish \/ Over

Spec == Init /\ [][Next]_vars

-----------------------------------------------------------------------------
(* Properties. *)

Returned(call) == op = "idle" /\ first.op = call

\* A copy that returns true has copied every directory and every file that was there to the
\* end, written nothing else, and met nothing of an unsupported kind.  Two things it passes
\* over: symbolic links, and a file in the place of a directory, as long as nothing has to
\* go into it.
CopiedAll ==
  Returned("copy") /\ result =>
    /\ \A p \in Tree : src[p] \in {"file", "directory"} =>
         \/ dst[p] = src[p]
         \/ /\ src[p] = "directory" /\ first.dst[p] \in {"file", "partial"}
            /\ \A q \in Below(p) \ {p} : src[q] \in {"none", "symlink"}
    /\ \A p \in Tree : dst[p] # first.dst[p] => dst[p] = first.src[p]
    /\ \A p \in Tree : src[p] # "other"

\* Whatever failed, a call that returned has given its temporary memory back, no more and no
\* less, and closed its directories.
NothingLeft == op = "idle" => used = first.used /\ open = 0

\* How much a copy has stored when it has come down to a directory: the names in it and in
\* each directory above it, and their dots.
Needed(t, p) == Cardinality({q \in Tree \ {<< >>} : t[q] # "none" /\ IsPrefix(Front(q), p)})
                + Cardinality({q \in Tree : IsPrefix(q, p)})

\* As long as the heap lasts, the tool is aborted only when the lookup of an entry fails, one
\* that is gone by then or one that is there, or the names of nested directories do not fit;
\* never because those of a directory already copied were kept.
AbortsForCause ==
  op = "aborted" =>
    \/ first.src[<< >>] = "none" \/ src # first.src
    \/ refused # {}
    \/ \E p \in Tree : first.src[p] = "directory" /\ first.used + Needed(first.src, p) > TempLimit

\* A walk visits no path twice, a directory before or after all that is below it, nothing
\* after an answer that ends it; and it gives the type the entry had, or none (-1) if the
\* entry is gone or its lookup failed.
VisitsInOrder ==
  \A j \in DOMAIN visited :
    LET v == visited[j]
    IN  /\ \/ v.type = first.src[v.path]
           \/ v.type = "none" /\ (src[v.path] = "none" \/ v.path \in refused)
        /\ \A k \in 1 .. j - 1 :
             /\ visited[k].answer \in {"cont", "skip"}
             /\ ~IsPrefix(IF first.op = "pre" THEN v.path ELSE visited[k].path,
                          IF first.op = "pre" THEN visited[k].path ELSE v.path)

\* A walk that returns true and was not stopped has visited all that was there to the end,
\* but what is below a directory whose lookup failed, which itself was visited, and in
\* pre-order what is below a directory that was to be skipped; in post-order there is nothing
\* left to skip.  A walk returns false when its function does.
VisitsAll ==
  Returned("pre") \/ Returned("post") =>
    /\ result /\ ~stop =>
         \A p \in Tree : src[p] # "none" =>
           \/ \E v \in ToSet(visited) :
                \/ v.path = p
                \/ first.op = "pre" /\ v.answer = "skip" /\ IsPrefix(v.path, p)
           \/ \E q \in refused \ {p} : IsPrefix(q, p)
    /\ \A v \in ToSet(visited) : v.answer = "fail" => ~result
    /\ stop => result

=============================================================================
