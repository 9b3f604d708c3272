--------------------------- MODULE NobProcsProofs ---------------------------
(***************************************************************************)
(* What holds of the commands of nob.h for any number of children, any     *)
(* max_procs and any redirections: the list is honest, the flush tells     *)
(* all, no descriptor is left behind - and a command inside a chain never  *)
(* learns that its reader is gone.                                         *)
(***************************************************************************)
EXTENDS NobProcs, TLAPS, WellFoundedInduction

-----------------------------------------------------------------------------
(* The inductive invariant. *)

\* Where the calls go: what is started into the list was let in by the throttle, the index
\* of the throttle is one of the list, and only a chain that is open has a next command.
Calls ==
  /\ at \in {"throttle", "open"} => fn # "chain cmd"
  /\ at = "pipe" => fn = "chain cmd"
  /\ fn = "chain cmd" => chain.open
  /\ at = "throttle" => i = 1 \/ i \in DOMAIN list
  /\ at \in {"open", "start"} /\ Async => Len(list) < MaxProcs
  /\ at = "flush" => i <= Len(list) + 1

\* What the tool holds: the input of the chain it builds, the redirections of the command it
\* starts, and both ends of the pipe that is about to get its child.
Base == IF chain.open THEN {chain.fdin} \ {NoFd} ELSE {}

Piped == at = "start" /\ fn = "chain cmd"

ChainInput ==
  \/ chain.fdin \in {NoFd, InFile}
  \/ \E k \in Pid : chain.fdin = Read(k) /\ child[k] # "none"

ToolFds ==
  /\ Piped => Unused # {} /\ fds[Tool] = Base \cup {Read(NewPid), Write(NewPid)}
  /\ at \in {"start", "wait", "defer"} /\ ~Piped =>
       Base \subseteq fds[Tool] /\ fds[Tool] \subseteq Base \cup Redirect
  /\ at \in {"idle", "throttle", "open", "pipe", "flush"} => fds[Tool] = Base

\* What the list holds: processes started since the last flush, none of them twice and none
\* that was seen to succeed; all others of that time were.
Distinct == \A j, k \in DOMAIN list : list[j] = list[k] => j = k

Flushed(j) == at = "flush" /\ j < i

Listed ==
  /\ \A j \in DOMAIN list : list[j] \in async /\ child[list[j]] # "none"
  /\ \A j \in DOMAIN list : child[list[j]] = "reaped ok" => Flushed(j)
  /\ \A p \in async : child[p] = "reaped ok" \/ \E j \in DOMAIN list : list[j] = p

\* What a flush has found so far.
FlushKnows ==
  /\ \A j \in DOMAIN list : Flushed(j) => child[list[j]] \in Reaped
  /\ at = "flush" =>
       (ok <=> \A j \in DOMAIN list : Flushed(j) => child[list[j]] = "reaped ok")

\* A command inside a chain holds the read end of its own pipe.
FloodsOpen ==
  \A p \in Pid : role[p] = "floods" =>
    child[p] = "running" /\ link[p].out = Write(p) /\ Read(p) \in fds[p]

IInv ==
  TypeOK /\ Calls /\ ChainInput /\ ToolFds /\ Distinct /\ Listed /\ FlushKnows /\ FloodsOpen

-----------------------------------------------------------------------------
(* Descriptors and process numbers. *)

LEMMA Smallest ==
  ASSUME NEW T \in SUBSET Nat, T # {}
  PROVE  \E p \in T : \A q \in T : p <= q
<1> DEFINE R == OpToRel(<, Nat)
<1>1. \A x, y \in Nat : x < y => << x, y >> \in R
  BY DEF OpToRel
<1>2. IsWellFoundedOn(R, Nat)
  BY NatLessThanWellFounded, Zenon
<1> HIDE DEF R
<1>3. PICK p \in T : \A q \in T : << q, p >> \notin R
  BY <1>2, WFMin, Zenon
<1>4. \A q \in T : q \in Nat /\ p \in Nat /\ ~ q < p
  BY <1>1, <1>3, Zenon
<1>5. \A q \in T : p <= q
  BY ONLY <1>4
<1> QED
  BY <1>5, Zenon

\* The number the next child gets is one that no child has.
LEMMA NewPidIsUnused ==
  ASSUME Unused # {}
  PROVE  NewPid \in Pid /\ child[NewPid] = "none"
<1>1. Unused \in SUBSET Nat
  BY DEF Unused, Pid
<1>2. \E p \in Unused : \A q \in Unused : p <= q
  BY <1>1, Smallest, Zenon
<1>3. NewPid \in Unused
  BY <1>2, Zenon DEF NewPid
<1> QED
  BY <1>3 DEF Unused

LEMMA NewPidStays ==
  ASSUME \A p \in Pid : child'[p] = "none" <=> child[p] = "none"
  PROVE  Unused' = Unused /\ NewPid' = NewPid
<1>1. Unused' = Unused
  BY DEF Unused
<1> QED
  BY <1>1, Zenon DEF NewPid

LEMMA FdFacts ==
  /\ \A k, l \in Pid : Read(k) = Read(l) => k = l
  /\ \A k, l \in Pid : Read(k) # Write(l)
  /\ \A k \in Pid : /\ Read(k) \in Fd /\ Read(k) # NoFd /\ Read(k) # InFile
                    /\ Read(k) \notin Redirect
  /\ \A k \in Pid : /\ Write(k) \in Fd /\ Write(k) # NoFd /\ Write(k) # InFile
                    /\ Write(k) \notin Redirect
  /\ NoFd \in Fd /\ InFile \in Fd /\ NoFd # InFile
  /\ NoFd \notin Redirect /\ InFile \notin Redirect /\ Redirect \subseteq Fd \ {NoFd}
  BY DEF Read, Write, NoFd, InFile, Redirect, Fd

\* A process is none of the tool's numbers.
LEMMA ToolFacts == Tool \in 0 .. MaxPid /\ Tool \notin Pid /\ Pid \subseteq 0 .. MaxPid
  BY ProcsAssumption DEF Tool, Pid

LEMMA ToolSet ==
  ASSUME TypeOK, NEW S, S \subseteq Fd \ {NoFd}, fds' = [fds EXCEPT ![Tool] = S]
  PROVE  /\ fds' \in [0 .. MaxPid -> SUBSET (Fd \ {NoFd})]
         /\ fds'[Tool] = S /\ \A p \in Pid : fds'[p] = fds[p]
<1>1. fds \in [0 .. MaxPid -> SUBSET (Fd \ {NoFd})]
  BY Zenon DEF TypeOK
<1>2. S \in SUBSET (Fd \ {NoFd})
  OBVIOUS
<1>3. fds' \in [0 .. MaxPid -> SUBSET (Fd \ {NoFd})]
  BY <1>1, <1>2, Zenon
<1>4. fds'[Tool] = S
  BY <1>1, ToolFacts, Zenon
<1>5. \A p \in Pid : fds'[p] = fds[p]
  BY <1>1, ToolFacts, Zenon
<1> QED
  BY <1>3, <1>4, <1>5

State == {"none", "running"} \cup Ended \cup Reaped

LEMMA ChildSet ==
  ASSUME TypeOK, NEW p \in Pid, NEW s \in State, child' = [child EXCEPT ![p] = s]
  PROVE  /\ child' \in [Pid -> State]
         /\ child'[p] = s /\ \A q \in Pid : q # p => child'[q] = child[q]
<1>1. child \in [Pid -> State]
  BY Zenon DEF TypeOK, State
<1> QED
  BY <1>1, Zenon

LEMMA ChildStates ==
  /\ \A s \in Ended : s \in State /\ s # "none" /\ s # "running" /\ s \notin Reaped
  /\ \A s \in Reaped : s \in State /\ s # "none" /\ s # "running" /\ s \notin Ended
  /\ \A s \in Ended : Reap(s) \in Reaped /\ (Reap(s) = "reaped ok" <=> s = "ok")
  /\ "running" \in State /\ "none" \in State /\ "running" # "none"
  /\ "reaped ok" \in Reaped /\ "reaped" \in Reaped /\ "reaped" # "reaped ok"
  BY DEF Ended, Reaped, Reap, State

-----------------------------------------------------------------------------
(* What the steps leave alone. *)

LEMMA Assemble ==
  ASSUME child' \in [Pid -> State],
         link' \in [Pid -> [in : Fd, out : Fd]],
         role' \in [Pid -> {"quits", "drains", "floods"}],
         fds' \in [0 .. MaxPid -> SUBSET (Fd \ {NoFd})],
         list' \in Seq(Pid), Len(list') <= MaxProcs,
         fn' \in {"run", "async", "chain cmd", "chain end", "chain end async", "flush"},
         at' \in {"idle", "throttle", "open", "pipe", "start", "wait", "defer", "flush"},
         i' \in 1 .. MaxProcs + 1, ok' \in BOOLEAN, cur' \in Pid,
         chain' \in [fdin : Fd, cmd : BOOLEAN, open : BOOLEAN],
         async' \subseteq Pid,
         Calls', ChainInput', ToolFds', Distinct', Listed', FlushKnows', FloodsOpen'
  PROVE  IInv'
  BY Zenon DEF IInv, TypeOK, State

\* No step but the start of a child inside a chain makes one that writes until it cannot.
LEMMA FloodsKept ==
  ASSUME IInv,
         \A p \in Pid : role'[p] = "floods" =>
           role[p] = "floods" /\ child'[p] = child[p] /\ link'[p] = link[p] /\ fds'[p] = fds[p]
  PROVE  FloodsOpen'
  BY Zenon DEF FloodsOpen, IInv

\* Outside of a flush, what happens to children does not hurt the list, unless one that was
\* seen to succeed is forgotten, or one that is in the list is seen to.
LEMMA ListKept ==
  ASSUME IInv, list' = list, async' = async, at # "flush", at' # "flush",
         \A p \in Pid : \/ child'[p] = child[p]
                        \/ child[p] # "reaped ok" /\ child'[p] \notin {"none", "reaped ok"}
  PROVE  Distinct' /\ Listed' /\ FlushKnows'
<1>1. \A j \in DOMAIN list : list[j] \in Pid
  <2>1. list \in Seq(Pid)
    BY Zenon DEF IInv, TypeOK
  <2> QED
    BY ONLY <2>1
<1>2. async \subseteq Pid /\ Distinct /\ Listed
  BY Zenon DEF IInv, TypeOK
<1>3. Distinct'
  BY <1>2, Zenon DEF Distinct
<1>4. Listed'
  BY <1>1, <1>2, Zenon DEF Listed, Flushed
<1> QED
  BY <1>3, <1>4, Zenon DEF FlushKnows, Flushed

-----------------------------------------------------------------------------
LEMMA ToolSame ==
  ASSUME IInv, \A p \in Pid : child'[p] = "none" <=> child[p] = "none",
         chain'.fdin = chain.fdin, chain'.open = chain.open
  PROVE  Base' = Base /\ Unused' = Unused /\ NewPid' = NewPid /\ ChainInput'
<1>1. Unused' = Unused /\ NewPid' = NewPid
  BY NewPidStays
<1>2. Base' = Base
  BY Zenon DEF Base
<1>3. ChainInput'
  BY Zenon DEF ChainInput, IInv
<1> QED
  BY <1>1, <1>2, <1>3

\* The calls, and the steps inside of them that touch neither a process nor a descriptor.
LEMMA MovesOn ==
  ASSUME IInv, UNCHANGED << kernel, list, cur, async >>,
         chain'.fdin = chain.fdin, chain'.open = chain.open,
         chain' \in [fdin : Fd, cmd : BOOLEAN, open : BOOLEAN],
         at # "flush", at' # "flush",
         fn' \in {"run", "async", "chain cmd", "chain end", "chain end async", "flush"},
         at' \in {"idle", "throttle", "open", "pipe", "start", "wait", "defer", "flush"},
         i' \in 1 .. MaxProcs + 1, ok' \in BOOLEAN,
         Calls', ToolFds'
  PROVE  IInv'
<1>1. /\ child' = child /\ link' = link /\ role' = role /\ fds' = fds
      /\ list' = list /\ cur' = cur /\ async' = async
  BY DEF kernel
<1>2. ChainInput'
  BY <1>1, ToolSame, Zenon
<1>3. Distinct' /\ Listed' /\ FlushKnows'
  BY <1>1, ListKept, Zenon
<1>4. FloodsOpen'
  BY <1>1, FloodsKept, Zenon
<1>5. TypeOK
  BY DEF IInv
<1> QED
  BY <1>1, <1>2, <1>3, <1>4, <1>5, Assemble, Zenon DEF TypeOK, State

LEMMA IndexRange == 1 \in 1 .. MaxProcs + 1
  BY ProcsAssumption

LEMMA CmdRunKeeps ==
  ASSUME IInv, CmdRun
  PROVE  IInv'
<1>1. /\ at = "idle" /\ i' = 1 /\ ok' = TRUE
      /\ \/ fn' = "run" /\ at' = "open"
         \/ fn' = "async" /\ at' = "throttle"
      /\ UNCHANGED << kernel, list, cur, chain, async >>
  BY DEF CmdRun, Call
<1>2. child' = child /\ fds' = fds /\ chain' = chain /\ list' = list
  BY <1>1 DEF kernel
<1>3. Calls'
  BY <1>1 DEF Calls, Async
<1>4. ToolFds'
  <2>1. Base' = Base
    BY <1>2, ToolSame, Zenon
  <2>2. fds[Tool] = Base
    BY <1>1 DEF IInv, ToolFds
  <2> QED
    BY <1>1, <1>2, <2>1, <2>2 DEF ToolFds, Piped
<1> QED
  BY <1>1, <1>2, <1>3, <1>4, IndexRange, MovesOn, Zenon DEF IInv, TypeOK

LEMMA ChainNextKeeps ==
  ASSUME IInv, ChainNext
  PROVE  IInv'
<1>1. /\ at = "idle" /\ i' = 1 /\ ok' = TRUE /\ chain.open
      /\ fn' = "chain cmd" /\ at' = "pipe"
      /\ UNCHANGED << kernel, list, cur, chain, async >>
  BY DEF ChainNext, Call
<1>2. child' = child /\ fds' = fds /\ chain' = chain /\ list' = list
  BY <1>1 DEF kernel
<1>3. Calls'
  BY <1>1 DEF Calls, Async
<1>4. ToolFds'
  <2>1. Base' = Base
    BY <1>2, ToolSame, Zenon
  <2>2. fds[Tool] = Base
    BY <1>1 DEF IInv, ToolFds
  <2> QED
    BY <1>1, <1>2, <2>1, <2>2 DEF ToolFds, Piped
<1> QED
  BY <1>1, <1>2, <1>3, <1>4, IndexRange, MovesOn, Zenon DEF IInv, TypeOK

LEMMA ChainFirstKeeps ==
  ASSUME IInv, ChainFirst
  PROVE  IInv'
<1>1. /\ at = "idle" /\ at' = at /\ fn' = fn /\ i' = i /\ ok' = ok
      /\ chain' = [chain EXCEPT !.cmd = TRUE]
      /\ UNCHANGED << kernel, list, cur, async >>
  BY DEF ChainFirst
<1>2. child' = child /\ fds' = fds /\ list' = list
  BY <1>1 DEF kernel
<1>3. /\ chain'.fdin = chain.fdin /\ chain'.open = chain.open
      /\ chain' \in [fdin : Fd, cmd : BOOLEAN, open : BOOLEAN]
  BY <1>1 DEF IInv, TypeOK
<1>4. Calls'
  BY <1>1, <1>2, <1>3, Zenon DEF IInv, Calls, Async
<1>5. ToolFds'
  <2>1. Base' = Base
    BY <1>2, <1>3, ToolSame, Zenon
  <2>2. fds[Tool] = Base
    BY <1>1 DEF IInv, ToolFds
  <2> QED
    BY <1>1, <1>2, <2>1, <2>2 DEF ToolFds, Piped
<1> QED
  BY <1>1, <1>2, <1>3, <1>4, <1>5, MovesOn, Zenon DEF IInv, TypeOK

LEMMA ChainEndKeeps ==
  ASSUME IInv, ChainEnd
  PROVE  IInv'
<1>1. /\ at = "idle" /\ i' = 1 /\ ok' = TRUE /\ chain.open
      /\ \/ fn' = "chain end" /\ at' \in {"open", "defer"}
         \/ fn' = "chain end async" /\ at' = "throttle"
      /\ UNCHANGED << kernel, list, cur, chain, async >>
  BY DEF ChainEnd, Call
<1>2. child' = child /\ fds' = fds /\ chain' = chain /\ list' = list
  BY <1>1 DEF kernel
<1>3. Calls'
  BY <1>1 DEF Calls, Async
<1>4. ToolFds'
  <2>1. Base' = Base
    BY <1>2, ToolSame, Zenon
  <2>2. fds[Tool] = Base
    BY <1>1 DEF IInv, ToolFds
  <2> QED
    BY <1>1, <1>2, <2>1, <2>2 DEF ToolFds, Piped
<1> QED
  BY <1>1, <1>2, <1>3, <1>4, IndexRange, MovesOn, Zenon DEF IInv, TypeOK

LEMMA BelowMaxKeeps ==
  ASSUME IInv, BelowMax
  PROVE  IInv'
<1>1. /\ at = "throttle" /\ ~Full /\ at' = "open" /\ fn' = fn /\ i' = i /\ ok' = ok
      /\ UNCHANGED << kernel, list, cur, chain, async >>
  BY DEF BelowMax
<1>2. child' = child /\ fds' = fds /\ chain' = chain /\ list' = list
  BY <1>1 DEF kernel
<1>3. Calls'
  <2>1. Len(list) < MaxProcs
    <3>1. list \in Seq(Pid)
      BY Zenon DEF IInv, TypeOK
    <3>2. Len(list) \in Nat /\ MaxProcs \in Nat
      BY <3>1, ProcsAssumption
    <3> QED
      BY <1>1, <3>2 DEF Full
  <2> QED
    BY <1>1, <1>2, <2>1 DEF IInv, Calls, Async
<1>4. ToolFds'
  <2>1. Base' = Base
    BY <1>2, ToolSame, Zenon
  <2>2. fds[Tool] = Base
    BY <1>1 DEF IInv, ToolFds
  <2> QED
    BY <1>1, <1>2, <2>1, <2>2 DEF ToolFds, Piped
<1> QED
  BY <1>1, <1>2, <1>3, <1>4, MovesOn, Zenon DEF IInv, TypeOK

LEMMA NoProcessKeeps ==
  ASSUME IInv, NoProcess
  PROVE  IInv'
<1>1. /\ at = "start" /\ fn # "chain cmd" /\ at' = "defer" /\ ok' = FALSE /\ fn' = fn /\ i' = i
      /\ UNCHANGED << kernel, list, cur, chain, async >>
  BY DEF NoProcess, Return
<1>2. child' = child /\ fds' = fds /\ chain' = chain /\ list' = list
  BY <1>1 DEF kernel
<1>3. Calls'
  BY <1>1, <1>2 DEF IInv, Calls, Async
<1>4. ToolFds'
  <2>1. Base' = Base
    BY <1>2, ToolSame, Zenon
  <2>2. Base \subseteq fds[Tool] /\ fds[Tool] \subseteq Base \cup Redirect
    BY <1>1 DEF IInv, ToolFds, Piped
  <2> QED
    BY <1>1, <1>2, <2>1, <2>2 DEF ToolFds, Piped
<1> QED
  BY <1>1, <1>2, <1>3, <1>4, MovesOn, Zenon DEF IInv, TypeOK

\* The steps that open and close descriptors of the tool.
LEMMA ToolStep ==
  ASSUME IInv, UNCHANGED << child, link, role, list, async >>,
         NEW S, S \subseteq Fd \ {NoFd}, fds' = [fds EXCEPT ![Tool] = S],
         chain' \in [fdin : Fd, cmd : BOOLEAN, open : BOOLEAN],
         at # "flush", at' # "flush",
         fn' \in {"run", "async", "chain cmd", "chain end", "chain end async", "flush"},
         at' \in {"idle", "throttle", "open", "pipe", "start", "wait", "defer", "flush"},
         i' \in 1 .. MaxProcs + 1, ok' \in BOOLEAN, cur' \in Pid,
         Calls', ChainInput', ToolFds'
  PROVE  IInv'
<1>1. TypeOK
  BY DEF IInv
<1>2. /\ fds' \in [0 .. MaxPid -> SUBSET (Fd \ {NoFd})]
      /\ \A p \in Pid : fds'[p] = fds[p]
  BY <1>1, ToolSet, Zenon
<1>3. child' = child /\ link' = link /\ role' = role /\ list' = list /\ async' = async
  OBVIOUS
<1>4. Distinct' /\ Listed' /\ FlushKnows'
  BY <1>3, ListKept, Zenon
<1>5. FloodsOpen'
  BY <1>2, <1>3, FloodsKept, Zenon
<1> QED
  BY <1>1, <1>2, <1>3, <1>4, <1>5, Assemble, Zenon DEF TypeOK, State

LEMMA ToolHolds ==
  ASSUME IInv
  PROVE  /\ fds[Tool] \subseteq Fd \ {NoFd} /\ NoFd \notin Base
         /\ TypeOK /\ chain.fdin \in Fd /\ chain.fdin \notin Redirect
         /\ chain \in [fdin : Fd, cmd : BOOLEAN, open : BOOLEAN]
<1>1. TypeOK /\ ChainInput
  BY DEF IInv
<1>2. fds[Tool] \subseteq Fd \ {NoFd}
  BY <1>1, ToolFacts, Zenon DEF TypeOK
<1>3. chain.fdin \notin Redirect
  BY <1>1, FdFacts, Zenon DEF ChainInput
<1> QED
  BY <1>1, <1>2, <1>3 DEF TypeOK, Base

LEMMA ReturnedTypes ==
  ASSUME Returned
  PROVE  /\ fn' = "run" /\ at' = "idle" /\ i' \in 1 .. MaxProcs + 1 /\ ok' \in BOOLEAN /\ cur' \in Pid
         /\ Calls'
<1>1. fn' = "run" /\ at' = "idle" /\ i' = 1 /\ ok' = TRUE /\ cur' = 1
  BY DEF Returned
<1>2. 1 \in Pid
  BY ProcsAssumption DEF Pid
<1>3. Calls'
  BY <1>1 DEF Calls, Async
<1> QED
  BY <1>1, <1>2, <1>3, IndexRange

LEMMA ChainBeginKeeps ==
  ASSUME IInv, ChainBegin
  PROVE  IInv'
<1>1. PICK fd \in {NoFd, InFile} :
        /\ chain' = [fdin |-> fd, cmd |-> FALSE, open |-> TRUE]
        /\ fds' = [fds EXCEPT ![Tool] = @ \cup ({fd} \ {NoFd})]
  BY Zenon DEF ChainBegin
<1>2. /\ at = "idle" /\ ~chain.open /\ UNCHANGED << child, link, role, list, async >>
      /\ fn' = fn /\ at' = at /\ i' = i /\ ok' = ok /\ cur' = cur
  BY DEF ChainBegin
<1> DEFINE S == fds[Tool] \cup ({fd} \ {NoFd})
<1>3. fds' = [fds EXCEPT ![Tool] = S] /\ S \subseteq Fd \ {NoFd}
  BY <1>1, ToolHolds, FdFacts
<1>4. /\ chain'.fdin = fd /\ chain'.open = TRUE
      /\ chain' \in [fdin : Fd, cmd : BOOLEAN, open : BOOLEAN]
  BY <1>1, FdFacts
<1>5. fds'[Tool] = S
  BY <1>3, ToolHolds, ToolSet, Zenon
<1>6. fds[Tool] = {}
  BY <1>2 DEF IInv, ToolFds, Base
<1>7. ToolFds' /\ ChainInput'
  BY <1>2, <1>4, <1>5, <1>6 DEF ToolFds, Piped, Base, ChainInput
<1>8. Calls'
  BY <1>2, <1>4, Zenon DEF IInv, Calls, Async
<1> HIDE DEF S
<1> QED
  BY <1>2, <1>3, <1>4, <1>7, <1>8, ToolStep, Zenon DEF IInv, TypeOK

LEMMA OpenRedirectsKeeps ==
  ASSUME IInv, OpenRedirects
  PROVE  IInv'
<1>1. PICK opened \in SUBSET Redirect :
        /\ fds' = [fds EXCEPT ![Tool] = @ \cup opened]
        /\ \/ at' = "start" /\ ok' = ok
           \/ at' = "defer" /\ ok' = FALSE
  BY Zenon DEF OpenRedirects, Return
<1>2. /\ at = "open" /\ UNCHANGED << child, link, role, list, async >>
      /\ fn' = fn /\ i' = i /\ cur' = cur /\ chain' = chain /\ child' = child
  BY DEF OpenRedirects
<1> DEFINE S == fds[Tool] \cup opened
<1>3. fds' = [fds EXCEPT ![Tool] = S] /\ S \subseteq Fd \ {NoFd}
  BY <1>1, ToolHolds, FdFacts
<1>4. fds'[Tool] = S
  BY <1>3, ToolHolds, ToolSet, Zenon
<1>5. Base' = Base /\ ChainInput'
  BY <1>2, ToolSame, Zenon
<1>6. fds[Tool] = Base /\ fn # "chain cmd"
  BY <1>2 DEF IInv, ToolFds, Calls
<1>7. ToolFds'
  BY <1>1, <1>2, <1>4, <1>5, <1>6 DEF ToolFds, Piped
<1>8. Calls'
  BY <1>1, <1>2, <1>6 DEF IInv, Calls, Async
<1>9. at' \in {"start", "defer"} /\ ok' \in BOOLEAN
  BY <1>1 DEF IInv, TypeOK
<1> HIDE DEF S
<1> QED
  BY <1>2, <1>3, <1>5, <1>7, <1>8, <1>9, ToolStep, Zenon DEF IInv, TypeOK

LEMMA PipeCreateKeeps ==
  ASSUME IInv, PipeCreate
  PROVE  IInv'
<1>1. /\ at = "pipe" /\ at' = "start" /\ Unused # {}
      /\ fds' = [fds EXCEPT ![Tool] = @ \cup {Read(NewPid), Write(NewPid)}]
      /\ UNCHANGED << child, link, role, list, async >>
      /\ child' = child /\ fn' = fn /\ i' = i /\ ok' = ok /\ cur' = cur /\ chain' = chain
  BY DEF PipeCreate
<1> DEFINE S == fds[Tool] \cup {Read(NewPid), Write(NewPid)}
<1>2. NewPid \in Pid
  BY <1>1, NewPidIsUnused
<1>3. fds' = [fds EXCEPT ![Tool] = S] /\ S \subseteq Fd \ {NoFd}
  BY <1>1, <1>2, ToolHolds, FdFacts
<1>4. fds'[Tool] = S
  BY <1>3, ToolHolds, ToolSet, Zenon
<1>5. Base' = Base /\ Unused' = Unused /\ NewPid' = NewPid /\ ChainInput'
  BY <1>1, ToolSame, Zenon
<1>6. fds[Tool] = Base /\ fn = "chain cmd"
  BY <1>1 DEF IInv, ToolFds, Calls
<1>7. Read(NewPid)' = Read(NewPid) /\ Write(NewPid)' = Write(NewPid)
  BY <1>5, Zenon DEF Read, Write
<1>8. ToolFds'
  BY <1>1, <1>4, <1>5, <1>6, <1>7 DEF ToolFds, Piped
<1>9. Calls'
  BY <1>1, <1>6 DEF IInv, Calls, Async
<1> HIDE DEF S
<1> QED
  BY <1>1, <1>3, <1>5, <1>8, <1>9, ToolStep, Zenon DEF IInv, TypeOK

LEMMA DeferKeeps ==
  ASSUME IInv, Defer
  PROVE  IInv'
<1>1. /\ at = "defer" /\ Returned
      /\ fds' = [fds EXCEPT ![Tool] = @ \ Closing]
      /\ chain' = IF fn \in {"run", "async"} THEN chain ELSE NoChain
      /\ UNCHANGED << child, link, role, list, async >> /\ child' = child
  BY DEF Defer
<1> DEFINE S == fds[Tool] \ Closing
<1>2. fds' = [fds EXCEPT ![Tool] = S] /\ S \subseteq Fd \ {NoFd}
  BY <1>1, ToolHolds
<1>3. fds'[Tool] = S
  BY <1>2, ToolHolds, ToolSet, Zenon
<1>4. Base \subseteq fds[Tool] /\ fds[Tool] \subseteq Base \cup Redirect
  BY <1>1 DEF IInv, ToolFds, Piped
<1>5. /\ fn' = "run" /\ at' = "idle" /\ i' \in 1 .. MaxProcs + 1 /\ ok' \in BOOLEAN /\ cur' \in Pid
      /\ Calls'
  BY <1>1, ReturnedTypes, Zenon
<1>6. /\ ToolFds' /\ ChainInput' /\ chain' \in [fdin : Fd, cmd : BOOLEAN, open : BOOLEAN]
  <2>1. CASE fn \in {"run", "async"}
    <3>1. chain' = chain /\ S = fds[Tool] \ Redirect
      BY <1>1, <2>1 DEF Closing
    <3>2. Base' = Base /\ ChainInput'
      BY <1>1, <3>1, ToolSame, Zenon
    <3>3. S = Base
      BY <1>4, <3>1, ToolHolds, FdFacts DEF Base
    <3> QED
      BY <1>3, <1>5, <3>1, <3>2, <3>3, ToolHolds DEF ToolFds, Piped
  <2>2. CASE fn \notin {"run", "async"}
    <3>1. /\ chain'.fdin = NoFd /\ chain'.open = FALSE
          /\ chain' \in [fdin : Fd, cmd : BOOLEAN, open : BOOLEAN]
      BY <1>1, <2>2, FdFacts DEF NoChain
    <3>2. S = {}
      BY <1>4, <2>2 DEF Closing, Base
    <3> QED
      BY <1>3, <1>5, <3>1, <3>2 DEF ToolFds, Piped, Base, ChainInput
  <2> QED
    BY <2>1, <2>2
<1> HIDE DEF S
<1> QED
  BY <1>1, <1>2, <1>5, <1>6, ToolStep, Zenon

LEMMA ChainBreaksKeeps ==
  ASSUME IInv, ChainBreaks
  PROVE  IInv'
<1> DEFINE S == fds[Tool] \ ({chain.fdin} \cup
                  IF at = "start" THEN {Read(NewPid), Write(NewPid)} ELSE {})
<1>1. /\ fn = "chain cmd" /\ at \in {"pipe", "start"} /\ Returned
      /\ fds' = [fds EXCEPT ![Tool] = S] /\ chain' = NoChain
      /\ UNCHANGED << child, link, role, list, async >>
  BY DEF ChainBreaks
<1>2. S \subseteq Fd \ {NoFd}
  BY ToolHolds
<1>3. fds'[Tool] = S
  BY <1>1, <1>2, ToolHolds, ToolSet, Zenon
<1>4. S = {}
  BY <1>1 DEF IInv, ToolFds, Piped, Base
<1>5. /\ fn' = "run" /\ at' = "idle" /\ i' \in 1 .. MaxProcs + 1 /\ ok' \in BOOLEAN /\ cur' \in Pid
      /\ Calls'
  BY <1>1, ReturnedTypes, Zenon
<1>6. /\ chain'.fdin = NoFd /\ chain'.open = FALSE
      /\ chain' \in [fdin : Fd, cmd : BOOLEAN, open : BOOLEAN]
  BY <1>1, FdFacts DEF NoChain
<1>7. ToolFds' /\ ChainInput'
  BY <1>3, <1>4, <1>5, <1>6 DEF ToolFds, Piped, Base, ChainInput
<1> HIDE DEF S
<1> QED
  BY <1>1, <1>2, <1>5, <1>6, <1>7, ToolStep, Zenon

-----------------------------------------------------------------------------
(* Processes. *)

LEMMA ForkFacts ==
  ASSUME IInv, NEW p \in Pid, NEW in \in Fd, NEW out \in Fd, Fork(p, in, out)
  PROVE  /\ child' \in [Pid -> State] /\ child'[p] = "running"
         /\ \A q \in Pid : q # p => child'[q] = child[q]
         /\ link' \in [Pid -> [in : Fd, out : Fd]] /\ link'[p].out = out
         /\ \A q \in Pid : q # p => link'[q] = link[q]
         /\ role' \in [Pid -> {"quits", "drains", "floods"}]
         /\ role'[p] = "floods" => out[1] = "write"
         /\ \A q \in Pid : q # p => role'[q] = role[q]
<1>1. /\ child \in [Pid -> State] /\ link \in [Pid -> [in : Fd, out : Fd]]
      /\ role \in [Pid -> {"quits", "drains", "floods"}]
  BY Zenon DEF IInv, TypeOK, State
<1>2. /\ child' = [child EXCEPT ![p] = "running"]
      /\ link' = [link EXCEPT ![p] = [in |-> in, out |-> out]]
  BY DEF Fork
<1>3. PICK r \in Roles : (r = "floods" => out[1] = "write") /\ role' = [role EXCEPT ![p] = r]
  BY DEF Fork
<1>4. r \in {"quits", "drains", "floods"}
  BY ProcsAssumption, Zenon
<1>5. /\ child' \in [Pid -> State] /\ child'[p] = "running"
      /\ \A q \in Pid : q # p => child'[q] = child[q]
  BY <1>1, <1>2, ChildStates, Zenon
<1>6. /\ link' \in [Pid -> [in : Fd, out : Fd]] /\ link'[p].out = out
      /\ \A q \in Pid : q # p => link'[q] = link[q]
  <2>1. [in |-> in, out |-> out] \in [in : Fd, out : Fd] /\ [in |-> in, out |-> out].out = out
    OBVIOUS
  <2> QED
    BY <1>1, <1>2, <2>1, Zenon
<1>7. /\ role' \in [Pid -> {"quits", "drains", "floods"}] /\ role'[p] = r
      /\ \A q \in Pid : q # p => role'[q] = role[q]
  BY <1>1, <1>3, <1>4, Zenon
<1> QED
  BY <1>3, <1>5, <1>6, <1>7, Zenon

\* What the forked child does to the rest.
LEMMA ForkKeeps ==
  ASSUME IInv, NEW p \in Pid, child[p] = "none", NEW in \in Fd, NEW out \in Fd,
         Fork(p, in, out), \A q \in Pid : q # p => fds'[q] = fds[q],
         out[1] = "write" => out = Write(p) /\ Read(p) \in fds'[p]
  PROVE  FloodsOpen'
<1>1. FloodsOpen
  BY DEF IInv
<1> SUFFICES ASSUME NEW q \in Pid, role'[q] = "floods"
             PROVE  child'[q] = "running" /\ link'[q].out = Write(q) /\ Read(q) \in fds'[q]
  BY Zenon DEF FloodsOpen, Write, Read
<1>2. /\ child'[p] = "running" /\ link'[p].out = out
      /\ role'[p] = "floods" => out[1] = "write"
      /\ \A r \in Pid : r # p =>
           child'[r] = child[r] /\ link'[r] = link[r] /\ role'[r] = role[r]
  <2>1. child'[p] = "running" /\ link'[p].out = out
    BY ForkFacts, Zenon
  <2>2. role'[p] = "floods" => out[1] = "write"
    BY ForkFacts, Zenon
  <2>3. \A r \in Pid : r # p => child'[r] = child[r]
    BY ForkFacts, Zenon
  <2>4. \A r \in Pid : r # p => link'[r] = link[r]
    BY ForkFacts, Zenon
  <2>5. \A r \in Pid : r # p => role'[r] = role[r]
    BY ForkFacts, Zenon
  <2> QED
    BY <2>1, <2>2, <2>3, <2>4, <2>5, Zenon
<1>3. CASE q = p
  BY <1>2, <1>3, Zenon
<1>4. CASE q # p
  BY <1>1, <1>2, <1>4, Zenon DEF FloodsOpen
<1> QED
  BY <1>3, <1>4, Zenon

LEMMA NextIndex ==
  ASSUME NEW n \in Nat
  PROVE  /\ \A j \in 1 .. n + 1 : j \in 1 .. n \/ j = n + 1
         /\ \A j \in 1 .. n : j \in 1 .. n + 1
         /\ n + 1 \in 1 .. n + 1 /\ n + 1 \notin 1 .. n
  OBVIOUS

LEMMA StartProcessKeeps ==
  ASSUME IInv, StartProcess
  PROVE  IInv'
<1> DEFINE p == NewPid
           in == IF fn \in {"run", "async"} THEN NoFd ELSE chain.fdin
<1>1. /\ at = "start" /\ fn # "chain cmd" /\ Unused # {}
      /\ Fork(p, in, NoFd)
      /\ fds' = [fds EXCEPT ![p] = Inherited(p)]
      /\ cur' = p
      /\ \/ Async /\ list' = Append(list, p) /\ async' = async \cup {p} /\ at' = "defer"
         \/ ~Async /\ at' = "wait" /\ list' = list /\ async' = async
      /\ fn' = fn /\ i' = i /\ ok' = ok /\ chain' = chain
  BY DEF StartProcess
<1>2. p \in Pid /\ child[p] = "none"
  BY <1>1, NewPidIsUnused
<1>3. in \in Fd /\ NoFd \in Fd /\ NoFd[1] # "write"
  BY ToolHolds, FdFacts DEF NoFd
<1>4. TypeOK /\ Calls /\ ChainInput /\ ToolFds /\ Distinct /\ Listed /\ FlushKnows
  BY DEF IInv
<1> HIDE DEF p, in
<1>5. /\ child' \in [Pid -> State] /\ child'[p] = "running"
      /\ \A q \in Pid : q # p => child'[q] = child[q]
      /\ link' \in [Pid -> [in : Fd, out : Fd]]
      /\ role' \in [Pid -> {"quits", "drains", "floods"}]
  BY <1>1, <1>2, <1>3, ForkFacts, Zenon
<1>6. /\ fds' \in [0 .. MaxPid -> SUBSET (Fd \ {NoFd})]
      /\ fds'[Tool] = fds[Tool] /\ \A q \in Pid : q # p => fds'[q] = fds[q]
  <2>1. Inherited(p) \in SUBSET (Fd \ {NoFd})
    BY ToolHolds DEF Inherited
  <2> QED
    BY <1>1, <1>2, <1>4, <2>1, ToolFacts, Zenon DEF TypeOK
<1>7. FloodsOpen'
  BY <1>1, <1>2, <1>3, <1>6, ForkKeeps, Zenon
<1>8. Base' = Base /\ ChainInput'
  <2>1. Base' = Base
    BY <1>1, Zenon DEF Base
  <2>2. \A k \in Pid : child[k] # "none" => child'[k] # "none"
    BY <1>5, ChildStates, Zenon
  <2> QED
    BY <1>1, <1>4, <2>1, <2>2, Zenon DEF ChainInput
<1>9. ToolFds'
  <2>1. Base \subseteq fds[Tool] /\ fds[Tool] \subseteq Base \cup Redirect
    BY <1>1, <1>4 DEF ToolFds, Piped
  <2> QED
    BY <1>1, <1>6, <1>8, <2>1 DEF ToolFds, Piped
<1>10. Calls'
  BY <1>1, <1>4 DEF Calls, Async
<1>11. /\ Distinct' /\ Listed' /\ FlushKnows'
       /\ list' \in Seq(Pid) /\ Len(list') <= MaxProcs /\ async' \subseteq Pid
  <2>1. CASE ~Async
    <3>1. list' = list /\ async' = async /\ at # "flush" /\ at' # "flush"
      BY <1>1, <2>1
    <3>2. \A q \in Pid : \/ child'[q] = child[q]
                         \/ child[q] # "reaped ok" /\ child'[q] \notin {"none", "reaped ok"}
      BY <1>2, <1>5
    <3> QED
      BY <1>4, <3>1, <3>2, ListKept, Zenon DEF TypeOK
  <2>2. CASE Async
    <3> DEFINE n == Len(list)
    <3>1. list' = Append(list, p) /\ async' = async \cup {p} /\ at' = "defer" /\ n < MaxProcs
      BY <1>1, <1>4, <2>2 DEF Calls
    <3>2. list \in Seq(Pid) /\ async \subseteq Pid
      BY <1>4, Zenon DEF TypeOK
    <3>3. /\ list' \in Seq(Pid) /\ Len(list') = n + 1 /\ n \in Nat
          /\ DOMAIN list = 1 .. n /\ DOMAIN list' = 1 .. n + 1
          /\ list'[n + 1] = p /\ \A j \in 1 .. n : list'[j] = list[j] /\ list[j] \in Pid
      <4> DEFINE s == list
                 t == list'
      <4>1. s \in Seq(Pid) /\ p \in Pid /\ t = Append(s, p)
        BY <1>2, <3>1, <3>2, Zenon
      <4> HIDE DEF s, t
      <4>2. /\ t \in Seq(Pid) /\ Len(t) = Len(s) + 1 /\ Len(s) \in Nat
            /\ DOMAIN s = 1 .. Len(s) /\ DOMAIN t = 1 .. Len(s) + 1
            /\ t[Len(s) + 1] = p /\ \A j \in 1 .. Len(s) : t[j] = s[j] /\ s[j] \in Pid
        BY ONLY <4>1
      <4> QED
        BY <4>2, Zenon DEF s, t
    <3> HIDE DEF n
    <3>4. Len(list') <= MaxProcs /\ async' \subseteq Pid
      <4>1. n \in Nat /\ MaxProcs \in Nat /\ n < MaxProcs => n + 1 <= MaxProcs
        OBVIOUS
      <4>2. MaxProcs \in Nat
        BY ProcsAssumption
      <4>3. Len(list') <= MaxProcs
        BY <3>1, <3>3, <4>1, <4>2, Zenon
      <4> QED
        BY <1>2, <3>1, <3>2, <4>3, Zenon
    <3>5. /\ \A j \in 1 .. n + 1 : j \in 1 .. n \/ j = n + 1
          /\ \A j \in 1 .. n : j \in 1 .. n + 1
          /\ n + 1 \in 1 .. n + 1
      BY <3>3, NextIndex, Zenon
    <3>6. \A j \in 1 .. n : /\ list[j] \in async /\ child[list[j]] # "none" /\ list[j] # p
                            /\ child[list[j]] # "reaped ok"
      BY <1>1, <1>2, <1>4, <3>3 DEF Listed, Flushed
    <3>7. \A j \in 1 .. n : child'[list[j]] = child[list[j]]
      BY <1>5, <3>3, <3>6, Zenon
    <3>8. Distinct'
      BY <1>4, <3>3, <3>5, <3>6, Zenon DEF Distinct
    <3>9. \A j \in 1 .. n + 1 : list'[j] \in async' /\ child'[list'[j]] \notin {"none", "reaped ok"}
      <4>1. "running" \notin {"none", "reaped ok"}
        OBVIOUS
      <4> QED
        BY <1>5, <3>1, <3>3, <3>5, <3>6, <3>7, <4>1, Zenon
    <3>10. \A q \in async' : child'[q] = "reaped ok" \/ \E j \in 1 .. n + 1 : list'[j] = q
      <4> TAKE q \in async'
      <4>1. CASE q = p
        BY <3>3, <3>5, <4>1, Zenon
      <4>2. CASE q # p
        <5>1. q \in async /\ child'[q] = child[q]
          BY <1>5, <3>1, <3>2, <4>2, Zenon
        <5>2. child[q] = "reaped ok" \/ \E j \in 1 .. n : list[j] = q
          BY <1>4, <3>3, <5>1, Zenon DEF Listed
        <5> QED
          BY <3>3, <3>5, <5>1, <5>2, Zenon
      <4> QED
        BY <4>1, <4>2, Zenon
    <3>11. Listed'
      BY <3>3, <3>9, <3>10, Zenon DEF Listed
    <3>12. FlushKnows'
      BY <3>1 DEF FlushKnows, Flushed
    <3> QED
      BY <3>3, <3>4, <3>8, <3>11, <3>12, Zenon
  <2> QED
    BY <2>1, <2>2, Zenon
<1> QED
  BY <1>1, <1>2, <1>4, <1>5, <1>6, <1>7, <1>8, <1>9, <1>10, <1>11, Assemble, Zenon DEF TypeOK

LEMMA ChainStartKeeps ==
  ASSUME IInv, ChainStart
  PROVE  IInv'
<1> DEFINE p == NewPid
<1>1. /\ at = "start" /\ fn = "chain cmd" /\ Returned
      /\ Fork(p, chain.fdin, Write(p))
      /\ fds' = [fds EXCEPT ![p] = Inherited(p), ![Tool] = @ \ ClosedByChain(p)]
      /\ chain' = [chain EXCEPT !.fdin = Read(p)]
      /\ list' = list /\ async' = async
  BY DEF ChainStart
<1>2. TypeOK /\ Calls /\ ChainInput /\ ToolFds
  BY DEF IInv
<1>3. /\ Unused # {} /\ fds[Tool] = Base \cup {Read(p), Write(p)}
      /\ chain.open /\ Base = {chain.fdin} \ {NoFd}
  BY <1>1, <1>2 DEF ToolFds, Piped, Calls, Base
<1>4. p \in Pid /\ child[p] = "none"
  BY <1>3, NewPidIsUnused
<1> HIDE DEF p
<1>5. /\ chain.fdin \in Fd /\ Write(p) \in Fd /\ Read(p) \in Fd
      /\ Read(p) # Write(p) /\ Read(p) # chain.fdin /\ Read(p) # NoFd
      /\ Read(p) \notin Redirect /\ Read(p) # InFile
  BY <1>2, <1>4, ToolHolds, FdFacts, Zenon DEF ChainInput
<1>6. /\ child' \in [Pid -> State] /\ child'[p] = "running"
      /\ \A q \in Pid : q # p => child'[q] = child[q]
      /\ link' \in [Pid -> [in : Fd, out : Fd]]
      /\ role' \in [Pid -> {"quits", "drains", "floods"}]
  BY <1>1, <1>4, <1>5, ForkFacts, Zenon
<1>7. /\ fds' \in [0 .. MaxPid -> SUBSET (Fd \ {NoFd})]
      /\ fds'[Tool] = {Read(p)} /\ fds'[p] = Inherited(p)
      /\ \A q \in Pid : q # p => fds'[q] = fds[q]
  <2> DEFINE A == Inherited(p)
             B == fds[Tool] \ ClosedByChain(p)
             F == SUBSET (Fd \ {NoFd})
  <2>1. A \in F /\ B \in F /\ B = {Read(p)}
    BY <1>3, <1>5, ToolHolds DEF Inherited, ClosedByChain
  <2>2. fds \in [0 .. MaxPid -> F] /\ fds' = [fds EXCEPT ![p] = A, ![Tool] = B]
    <3>1. p # Tool
      BY <1>4, ToolFacts, Zenon
    <3>2. fds \in [0 .. MaxPid -> F]
      BY <1>2, Zenon DEF TypeOK
    <3> HIDE DEF F
    <3> QED
      BY <1>1, <1>4, <3>1, <3>2, ToolFacts
  <2>3. p \in 0 .. MaxPid /\ Tool \in 0 .. MaxPid /\ p # Tool /\ Tool \notin Pid
        /\ Pid \subseteq 0 .. MaxPid
    BY <1>4, ToolFacts, Zenon
  <2> HIDE DEF A, B, F
  <2>4. /\ fds' \in [0 .. MaxPid -> F] /\ fds'[Tool] = B /\ fds'[p] = A
        /\ \A q \in Pid : q # p => fds'[q] = fds[q]
    BY <2>1, <2>2, <2>3
  <2> QED
    BY <2>1, <2>4, Zenon DEF A, B, F
<1>8. FloodsOpen'
  <2>1. Read(p) \in fds'[p]
    BY <1>3, <1>5, <1>7 DEF Inherited
  <2> QED
    BY <1>1, <1>4, <1>5, <1>7, <2>1, ForkKeeps, Zenon
<1>9. /\ fn' = "run" /\ at' = "idle" /\ i' \in 1 .. MaxProcs + 1 /\ ok' \in BOOLEAN /\ cur' \in Pid
      /\ Calls'
  BY <1>1, ReturnedTypes, Zenon
<1>10. /\ chain'.fdin = Read(p) /\ chain'.open = TRUE
       /\ chain' \in [fdin : Fd, cmd : BOOLEAN, open : BOOLEAN]
  BY <1>1, <1>3, <1>5, ToolHolds
<1>11. ToolFds'
  BY <1>5, <1>7, <1>9, <1>10 DEF ToolFds, Piped, Base
<1>12. ChainInput'
  BY <1>4, <1>6, <1>10, ChildStates DEF ChainInput, Read
<1>13. Distinct' /\ Listed' /\ FlushKnows'
  <2>1. \A q \in Pid : \/ child'[q] = child[q]
                       \/ child[q] # "reaped ok" /\ child'[q] \notin {"none", "reaped ok"}
    BY <1>4, <1>6
  <2>2. at # "flush" /\ at' # "flush"
    BY <1>1, <1>9
  <2> QED
    BY <1>1, <2>1, <2>2, ListKept, Zenon
<1> QED
  BY <1>1, <1>2, <1>6, <1>7, <1>8, <1>9, <1>10, <1>11, <1>12, <1>13, Assemble, Zenon DEF TypeOK

\* A step that does not move in the call, and reaps nothing.
LEMMA ListStays ==
  ASSUME IInv, list' = list, async' = async, at' = at, i' = i, ok' = ok,
         \A p \in Pid : \/ child'[p] = child[p]
                        \/ child[p] \notin Reaped /\ child'[p] \notin Reaped \cup {"none"}
  PROVE  Distinct' /\ Listed' /\ FlushKnows'
<1>1. \A j \in DOMAIN list : list[j] \in Pid
  <2>1. list \in Seq(Pid)
    BY Zenon DEF IInv, TypeOK
  <2> QED
    BY ONLY <2>1
<1>2. async \subseteq Pid /\ Distinct /\ Listed /\ FlushKnows
  BY Zenon DEF IInv, TypeOK
<1>3. \A p \in Pid : /\ child'[p] \in Reaped <=> child[p] \in Reaped
                     /\ child'[p] = "reaped ok" <=> child[p] = "reaped ok"
                     /\ child[p] # "none" => child'[p] # "none"
  BY ChildStates
<1>4. \A j : Flushed(j)' <=> Flushed(j)
  BY Zenon DEF Flushed
<1>5. Distinct'
  BY <1>2, Zenon DEF Distinct
<1>6. Listed'
  BY <1>1, <1>2, <1>3, <1>4, Zenon DEF Listed
<1>7. FlushKnows'
  <2>1. \A j \in DOMAIN list : /\ child'[list[j]] \in Reaped <=> child[list[j]] \in Reaped
                               /\ child'[list[j]] = "reaped ok" <=> child[list[j]] = "reaped ok"
    BY <1>1, <1>3, Zenon
  <2>2. \A j \in DOMAIN list' : Flushed(j)' => child'[list'[j]] \in Reaped
    BY <1>2, <1>4, <2>1, Zenon DEF FlushKnows
  <2>3. (\A j \in DOMAIN list : Flushed(j) => child[list[j]] = "reaped ok")
          <=> (\A j \in DOMAIN list' : Flushed(j)' => child'[list'[j]] = "reaped ok")
    BY <1>4, <2>1, Zenon
  <2> QED
    BY <1>2, <2>2, <2>3, Zenon DEF FlushKnows
<1> QED
  BY <1>5, <1>6, <1>7, Zenon

LEMMA ChildExitsKeeps ==
  ASSUME IInv, NEW p \in Pid, ChildExits(p)
  PROVE  IInv'
<1>1. PICK how \in Ended : child' = [child EXCEPT ![p] = how]
  BY ChildStates DEF ChildExits, Ended
<1>2. /\ child[p] = "running"
      /\ fds' = [fds EXCEPT ![p] = {}] /\ link' = [link EXCEPT ![p] = Unlinked]
      /\ role' = [role EXCEPT ![p] = "quits"]
      /\ list' = list /\ fn' = fn /\ at' = at /\ i' = i /\ ok' = ok /\ cur' = cur
      /\ chain' = chain /\ async' = async
  BY DEF ChildExits
<1>3. TypeOK /\ Calls /\ ToolFds /\ FloodsOpen
  BY DEF IInv
<1>4. /\ child' \in [Pid -> State] /\ child'[p] = how
      /\ \A q \in Pid : q # p => child'[q] = child[q]
  BY <1>1, <1>3, ChildSet, ChildStates, Zenon
<1>5. /\ fds' \in [0 .. MaxPid -> SUBSET (Fd \ {NoFd})]
      /\ fds'[Tool] = fds[Tool] /\ \A q \in Pid : q # p => fds'[q] = fds[q]
  <2>1. {} \in SUBSET (Fd \ {NoFd})
    OBVIOUS
  <2> QED
    BY <1>2, <1>3, <2>1, ToolFacts, Zenon DEF TypeOK
<1>6. /\ link' \in [Pid -> [in : Fd, out : Fd]]
      /\ \A q \in Pid : q # p => link'[q] = link[q]
  <2>1. Unlinked \in [in : Fd, out : Fd]
    BY FdFacts DEF Unlinked
  <2> QED
    BY <1>2, <1>3, <2>1, Zenon DEF TypeOK
<1>7. /\ role' \in [Pid -> {"quits", "drains", "floods"}] /\ role'[p] = "quits"
      /\ \A q \in Pid : q # p => role'[q] = role[q]
  BY <1>2, <1>3, Zenon DEF TypeOK
<1>8. FloodsOpen'
  <2>1. "quits" # "floods"
    OBVIOUS
  <2> QED
    BY <1>3, <1>4, <1>5, <1>6, <1>7, <2>1, FloodsKept, Zenon
<1>9. \A q \in Pid : \/ child'[q] = child[q]
                     \/ child[q] \notin Reaped /\ child'[q] \notin Reaped \cup {"none"}
  <2>1. child[p] \notin Reaped /\ child'[p] \notin Reaped \cup {"none"}
    BY <1>2, <1>4, ChildStates
  <2> QED
    BY <1>4, <2>1, Zenon
<1>10. Distinct' /\ Listed' /\ FlushKnows'
  BY <1>2, <1>9, ListStays, Zenon
<1>11. Base' = Base /\ Unused' = Unused /\ NewPid' = NewPid /\ ChainInput'
  <2>1. \A q \in Pid : child'[q] = "none" <=> child[q] = "none"
    BY <1>2, <1>4, ChildStates
  <2> QED
    BY <1>2, <2>1, ToolSame, Zenon
<1>12. ToolFds'
  <2>1. Read(NewPid)' = Read(NewPid) /\ Write(NewPid)' = Write(NewPid) /\ Piped' = Piped
    BY <1>2, <1>11, Zenon DEF Read, Write, Piped
  <2> QED
    BY <1>2, <1>3, <1>5, <1>11, <2>1, Zenon DEF ToolFds
<1>13. Calls'
  BY <1>2, <1>3, Zenon DEF Calls, Async
<1> QED
  BY <1>2, <1>3, <1>4, <1>5, <1>6, <1>7, <1>8, <1>10, <1>11, <1>12, <1>13, Assemble, Zenon
     DEF TypeOK

\* The steps that reap a child, and change neither descriptors nor roles.
LEMMA WaitKeeps ==
  ASSUME IInv, Wait
  PROVE  IInv'
<1>1. /\ at = "wait" /\ child[cur] \in Ended /\ child' = [child EXCEPT ![cur] = "reaped"]
      /\ ok' = (child[cur] = "ok") /\ at' = "defer"
      /\ link' = link /\ role' = role /\ fds' = fds /\ list' = list /\ fn' = fn /\ i' = i
      /\ cur' = cur /\ chain' = chain /\ async' = async
  BY DEF Wait, Return
<1>2. TypeOK /\ Calls /\ ToolFds /\ FloodsOpen /\ cur \in Pid
  BY DEF IInv, TypeOK
<1>3. /\ child' \in [Pid -> State] /\ child'[cur] = "reaped"
      /\ \A q \in Pid : q # cur => child'[q] = child[q]
  BY <1>1, <1>2, ChildSet, ChildStates, Zenon
<1>4. Distinct' /\ Listed' /\ FlushKnows'
  <2>1. \A q \in Pid : \/ child'[q] = child[q]
                       \/ child[q] # "reaped ok" /\ child'[q] \notin {"none", "reaped ok"}
    BY <1>1, <1>3, ChildStates
  <2>2. at # "flush" /\ at' # "flush"
    BY <1>1
  <2> QED
    BY <1>1, <2>1, <2>2, ListKept, Zenon
<1>5. FloodsOpen'
  <2>1. role[cur] # "floods"
    BY <1>1, <1>2, ChildStates DEF FloodsOpen
  <2> QED
    BY <1>1, <1>3, <2>1, FloodsKept, Zenon
<1>6. Base' = Base /\ ChainInput'
  <2>1. \A q \in Pid : child'[q] = "none" <=> child[q] = "none"
    BY <1>1, <1>3, ChildStates
  <2> QED
    BY <1>1, <2>1, ToolSame, Zenon
<1>7. ToolFds'
  <2>1. Base \subseteq fds[Tool] /\ fds[Tool] \subseteq Base \cup Redirect
    BY <1>1, <1>2 DEF ToolFds, Piped
  <2> QED
    BY <1>1, <1>6, <2>1 DEF ToolFds, Piped
<1>8. Calls'
  BY <1>1, <1>2 DEF Calls, Async
<1> QED
  BY <1>1, <1>2, <1>3, <1>4, <1>5, <1>6, <1>7, <1>8, Assemble, Zenon DEF TypeOK

LEMMA RemoveFacts ==
  ASSUME NEW S, NEW s \in Seq(S), NEW j \in 1 .. Len(s)
  PROVE  /\ RemoveUnordered(s, j) \in Seq(S) /\ Len(RemoveUnordered(s, j)) = Len(s) - 1
         /\ DOMAIN RemoveUnordered(s, j) = 1 .. Len(s) - 1
         /\ RemoveUnordered(s, j)[j] = s[Len(s)] \/ j = Len(s)
         /\ \A k \in 1 .. Len(s) - 1 : k # j => RemoveUnordered(s, j)[k] = s[k]
<1> DEFINE r == [s EXCEPT ![j] = s[Len(s)]]
           n == Len(s)
           t == RemoveUnordered(s, j)
<1>1. n \in Nat /\ n >= 1 /\ n \in 1 .. n /\ DOMAIN s = 1 .. n
  OBVIOUS
<1>2. /\ r \in Seq(S) /\ Len(r) = n /\ r[j] = s[n]
      /\ \A k \in 1 .. n : k # j => r[k] = s[k]
  BY <1>1
<1>3. t = SubSeq(r, 1, n - 1)
  BY DEF RemoveUnordered
<1> HIDE DEF r
<1>4. /\ t \in Seq(S) /\ Len(t) = n - 1 /\ DOMAIN t = 1 .. n - 1
      /\ \A k \in 1 .. n - 1 : t[k] = r[k]
  BY <1>1, <1>2, <1>3
<1>5. /\ \A k \in 1 .. n - 1 : k \in 1 .. n
      /\ j = n \/ j \in 1 .. n - 1
  <2>1. n \in Nat /\ j \in 1 .. n
    BY <1>1
  <2> HIDE DEF n
  <2> QED
    BY ONLY <2>1
<1> QED
  BY <1>2, <1>4, <1>5, Zenon

LEMMA PollKeeps ==
  ASSUME IInv, Poll
  PROVE  IInv'
<1> DEFINE p == list[i]
           n == Len(list)
<1>1. /\ at = "throttle" /\ Full
      /\ child' = [child EXCEPT ![p] = IF @ \in Ended THEN Reap(@) ELSE @]
      /\ \/ /\ child[p] = "running" /\ i' = (IF i = n THEN 1 ELSE i + 1)
            /\ list' = list /\ at' = at /\ ok' = ok
         \/ /\ child[p] = "ok" /\ list' = RemoveUnordered(list, i) /\ i' = 1
            /\ at' = at /\ ok' = ok
         \/ /\ child[p] \notin {"running", "ok"} /\ at' = "defer" /\ ok' = FALSE
            /\ list' = list /\ i' = i
      /\ link' = link /\ role' = role /\ fds' = fds /\ fn' = fn /\ cur' = cur
      /\ chain' = chain /\ async' = async
  <2>1. \A s : /\ WaitAsync(s) = 0 => s = "running"
               /\ WaitAsync(s) > 0 => s = "ok"
               /\ WaitAsync(s) < 0 => s \notin {"running", "ok"}
    BY DEF WaitAsync
  <2> QED
    BY <2>1 DEF Poll, Return
<1>2. TypeOK /\ Calls /\ ToolFds /\ FloodsOpen /\ Distinct /\ Listed /\ list \in Seq(Pid)
  BY DEF IInv, TypeOK
<1>3. /\ n \in Nat /\ n >= 1 /\ n <= MaxProcs /\ MaxProcs \in Nat
      /\ i \in 1 .. n /\ DOMAIN list = 1 .. n
  <2>1. n \in Nat /\ DOMAIN list = 1 .. n /\ n <= MaxProcs /\ n >= MaxProcs
        /\ MaxProcs \in Nat /\ MaxProcs >= 1
    <3>1. MaxProcs \in Nat /\ MaxProcs >= 1
      BY ProcsAssumption
    <3>2. n \in Nat /\ DOMAIN list = 1 .. n
      BY <1>2
    <3>3. n <= MaxProcs /\ n >= MaxProcs
      BY <1>1, <1>2, Zenon DEF Full, TypeOK
    <3> QED
      BY <3>1, <3>2, <3>3, Zenon
  <2>2. i = 1 \/ i \in 1 .. n
    BY <1>1, <1>2, <2>1 DEF Calls
  <2> HIDE DEF n
  <2>3. n >= 1
    BY ONLY <2>1
  <2>4. i \in 1 .. n
    BY ONLY <2>1, <2>2
  <2> QED
    BY <2>1, <2>3, <2>4, Zenon
<1>4. p \in Pid /\ child[p] \in State
  <2>1. p \in Pid
    BY <1>2, <1>3
  <2> QED
    BY <1>2, <2>1, Zenon DEF TypeOK, State
<1> DEFINE s == IF child[p] \in Ended THEN Reap(child[p]) ELSE child[p]
<1>5. /\ child' \in [Pid -> State] /\ child'[p] = s
      /\ \A q \in Pid : q # p => child'[q] = child[q]
  <2>1. child' = [child EXCEPT ![p] = s]
    BY <1>1
  <2>2. s \in State
    BY <1>4, ChildStates, Zenon
  <2> HIDE DEF s, p
  <2> QED
    BY <1>2, <1>4, <2>1, <2>2, ChildSet, Zenon
<1> HIDE DEF n, p
<1>6. s = "none" <=> child[p] = "none"
  BY ChildStates
<1>7. Base' = Base /\ ChainInput'
  <2>1. \A q \in Pid : child'[q] = "none" <=> child[q] = "none"
    BY <1>5, <1>6, Zenon
  <2> QED
    BY <1>1, <2>1, ToolSame, Zenon
<1>8. ToolFds'
  <2>1. fds[Tool] = Base /\ fn # "chain cmd"
    BY <1>1, <1>2 DEF ToolFds, Calls
  <2> QED
    BY <1>1, <1>7, <2>1 DEF ToolFds, Piped
<1>9. FloodsOpen'
  <2>1. child[p] = "running" => s = child[p]
    BY ChildStates, Zenon
  <2>2. role[p] = "floods" => child[p] = "running"
    BY <1>2, <1>4, Zenon DEF FloodsOpen
  <2>3. \A q \in Pid : role[q] = "floods" => child'[q] = child[q]
    BY <1>5, <2>1, <2>2, Zenon
  <2> QED
    BY <1>1, <2>3, FloodsKept, Zenon
<1>10. /\ Distinct' /\ Listed' /\ FlushKnows' /\ Calls'
       /\ list' \in Seq(Pid) /\ Len(list') <= MaxProcs
       /\ i' \in 1 .. MaxProcs + 1 /\ ok' \in BOOLEAN
       /\ at' \in {"throttle", "defer"}
  <2>1. CASE child[p] = "running"
    <3>1. /\ i' = (IF i = n THEN 1 ELSE i + 1) /\ list' = list /\ at' = at /\ ok' = ok
      BY <1>1, <2>1
    <3>2. child' = child
      BY <1>1, <2>1, ChildStates, <1>4, <1>2 DEF TypeOK, State
    <3>3. i' \in 1 .. n /\ i' \in 1 .. MaxProcs + 1
      BY <1>3, <3>1
    <3>4. Calls'
      BY <1>1, <1>2, <1>3, <3>1, <3>3 DEF Calls
    <3>5. at # "flush" /\ at' # "flush"
      BY <1>1, <3>1
    <3>6. Distinct' /\ Listed' /\ FlushKnows'
      BY <1>1, <3>1, <3>2, <3>5, ListKept, Zenon
    <3> QED
      BY <1>1, <1>2, <3>1, <3>3, <3>4, <3>6, Zenon DEF TypeOK
  <2>2. CASE child[p] \notin {"running", "ok"}
    <3>1. at' = "defer" /\ ok' = FALSE /\ list' = list /\ i' = i
      BY <1>1, <2>2
    <3>2. child[p] # "reaped ok"
      BY <1>1, <1>2, <1>3 DEF Listed, Flushed, p
    <3>3. child[p] = "none" \/ s \notin {"none", "reaped ok"}
      BY <2>2, <3>2, ChildStates DEF Ended
    <3>4. \A q \in Pid : \/ child'[q] = child[q]
                         \/ child[q] # "reaped ok" /\ child'[q] \notin {"none", "reaped ok"}
      <4>1. child[p] = "none" => s = child[p]
        BY ChildStates, Zenon
      <4> QED
        BY <1>5, <3>2, <3>3, <4>1, Zenon
    <3>5. at # "flush" /\ at' # "flush"
      BY <1>1, <3>1
    <3>6. Distinct' /\ Listed' /\ FlushKnows'
      BY <1>1, <3>1, <3>4, <3>5, ListKept, Zenon
    <3>7. Calls'
      BY <1>1, <1>2, <3>1 DEF Calls
    <3> QED
      BY <1>1, <1>2, <3>1, <3>6, <3>7, Zenon DEF TypeOK
  <2>3. CASE child[p] = "ok"
    <3>1. list' = RemoveUnordered(list, i) /\ i' = 1 /\ at' = at /\ ok' = ok
      BY <1>1, <2>3
    <3>2. s = "reaped ok"
      BY <2>3 DEF Ended, Reap
    <3>3. /\ list' \in Seq(Pid) /\ Len(list') = n - 1 /\ DOMAIN list' = 1 .. n - 1
          /\ list'[i] = list[n] \/ i = n
          /\ \A k \in 1 .. n - 1 : k # i => list'[k] = list[k]
      <4> DEFINE l == list
                 t == list'
      <4>1. l \in Seq(Pid) /\ i \in 1 .. Len(l) /\ t = RemoveUnordered(l, i) /\ n = Len(l)
        BY <1>2, <1>3, <3>1, Zenon DEF n
      <4> HIDE DEF l, t
      <4>2. /\ RemoveUnordered(l, i) \in Seq(Pid) /\ Len(RemoveUnordered(l, i)) = Len(l) - 1
            /\ DOMAIN RemoveUnordered(l, i) = 1 .. Len(l) - 1
            /\ RemoveUnordered(l, i)[i] = l[Len(l)] \/ i = Len(l)
            /\ \A k \in 1 .. Len(l) - 1 : k # i => RemoveUnordered(l, i)[k] = l[k]
        BY ONLY <4>1, RemoveFacts, Zenon
      <4>3. /\ t \in Seq(Pid) /\ Len(t) = Len(l) - 1 /\ DOMAIN t = 1 .. Len(l) - 1
            /\ t[i] = l[Len(l)] \/ i = Len(l)
            /\ \A k \in 1 .. Len(l) - 1 : k # i => t[k] = l[k]
        BY <4>2, <4>1, Zenon
      <4> QED
        BY <4>1, <4>3, Zenon DEF l, t
    <3>4. /\ \A k \in 1 .. n - 1 : k \in 1 .. n /\ k # n
          /\ \A k \in 1 .. n : k = n \/ k \in 1 .. n - 1
          /\ n \in 1 .. n /\ n - 1 <= MaxProcs
      BY ONLY <1>3
    <3>5. ASSUME NEW k \in 1 .. n - 1
          PROVE  \E m \in 1 .. n : m # i /\ list'[k] = list[m] /\ (k = i => m = n) /\ (k # i => m = k)
      BY <1>3, <3>3, <3>4, <3>5, Zenon
    <3>6. ASSUME NEW m \in 1 .. n, m # i
          PROVE  \E k \in 1 .. n - 1 : list'[k] = list[m]
      BY <1>3, <3>3, <3>4, <3>6, Zenon
    <3>7. Distinct'
      <4> SUFFICES ASSUME NEW j \in 1 .. n - 1, NEW k \in 1 .. n - 1, list'[j] = list'[k]
                   PROVE  j = k
        BY <3>3, Zenon DEF Distinct
      <4>1. PICK l \in 1 .. n : /\ l # i /\ list'[j] = list[l]
                                /\ (j = i => l = n) /\ (j # i => l = j)
        BY <3>5
      <4>2. PICK m \in 1 .. n : /\ m # i /\ list'[k] = list[m]
                                /\ (k = i => m = n) /\ (k # i => m = k)
        BY <3>5
      <4>3. l = m
        BY <1>2, <1>3, <4>1, <4>2, Zenon DEF Distinct
      <4>4. j # n /\ k # n
        BY <3>4, Zenon
      <4>5. CASE j = i
        BY <4>1, <4>2, <4>3, <4>4, <4>5, Zenon
      <4>6. CASE j # i
        BY <4>1, <4>2, <4>3, <4>4, <4>6, Zenon
      <4> QED
        BY <4>5, <4>6, Zenon
    <3>8. \A m \in 1 .. n : m # i => /\ list[m] \in Pid /\ list[m] # p
                                     /\ child'[list[m]] = child[list[m]]
      <4>1. \A m \in 1 .. n : list[m] \in Pid
        BY <1>2, <1>3
      <4>2. \A m \in 1 .. n : m # i => list[m] # p
        BY <1>2, <1>3, Zenon DEF Distinct, p
      <4> QED
        BY <1>5, <4>1, <4>2, Zenon
    <3>9. \A m \in 1 .. n : list[m] \in async /\ child[list[m]] \notin {"none", "reaped ok"}
      BY <1>1, <1>2, <1>3 DEF Listed, Flushed
    <3>10. \A k \in 1 .. n - 1 : list'[k] \in async' /\ child'[list'[k]] \notin {"none", "reaped ok"}
      <4> TAKE k \in 1 .. n - 1
      <4>1. PICK m \in 1 .. n : m # i /\ list'[k] = list[m]
        BY <3>5
      <4> QED
        BY <1>1, <3>8, <3>9, <4>1, Zenon
    <3>11. \A q \in async' : child'[q] = "reaped ok" \/ \E k \in 1 .. n - 1 : list'[k] = q
      <4> TAKE q \in async'
      <4>1. CASE q = p
        BY <1>5, <3>2, <4>1, Zenon
      <4>2. CASE q # p
        <5>1. q \in Pid /\ q \in async
          BY <1>1, <1>2 DEF TypeOK
        <5>2. child[q] = "reaped ok" \/ \E m \in 1 .. n : list[m] = q
          BY <1>2, <1>3, <5>1, Zenon DEF Listed
        <5>3. \A m \in 1 .. n : list[m] = q => m # i
          BY <4>2, Zenon DEF p
        <5> QED
          BY <1>5, <3>6, <4>2, <5>1, <5>2, <5>3, Zenon
      <4> QED
        BY <4>1, <4>2, Zenon
    <3>12. Listed'
      BY <3>3, <3>10, <3>11, Zenon DEF Listed
    <3>13. FlushKnows' /\ Calls'
      BY <1>1, <1>2, <3>1 DEF FlushKnows, Flushed, Calls
    <3> QED
      BY <1>1, <1>2, <3>1, <3>3, <3>4, <3>7, <3>12, <3>13, IndexRange, Zenon DEF TypeOK
  <2> QED
    BY <2>1, <2>2, <2>3
<1> QED
  BY <1>1, <1>2, <1>5, <1>7, <1>8, <1>9, <1>10, Assemble, Zenon DEF TypeOK

-----------------------------------------------------------------------------
(* The flush. *)

LEMMA FlushKeeps ==
  ASSUME IInv, Flush
  PROVE  IInv'
<1>1. /\ at = "idle" /\ fn' = "flush" /\ at' = "flush" /\ i' = 1 /\ ok' = TRUE
      /\ child' = child /\ link' = link /\ role' = role /\ fds' = fds /\ list' = list
      /\ cur' = cur /\ chain' = chain /\ async' = async
  BY DEF Flush, Call, kernel
<1>2. TypeOK /\ ToolFds /\ Distinct /\ Listed /\ list \in Seq(Pid)
  BY DEF IInv, TypeOK
<1>3. \A j \in DOMAIN list : ~Flushed(j) /\ ~Flushed(j)'
  <2>1. \A j \in DOMAIN list : ~(j < 1)
    BY <1>2
  <2> QED
    BY <1>1, <2>1 DEF Flushed
<1>4. Distinct' /\ Listed' /\ FlushKnows'
  <2>1. Distinct'
    BY <1>1, <1>2, Zenon DEF Distinct
  <2>2. Listed'
    BY <1>1, <1>2, <1>3, Zenon DEF Listed
  <2>3. FlushKnows'
    BY <1>1, <1>3, Zenon DEF FlushKnows
  <2> QED
    BY <2>1, <2>2, <2>3
<1>5. Base' = Base /\ ChainInput'
  BY <1>1, ToolSame, Zenon
<1>6. ToolFds'
  <2>1. fds[Tool] = Base
    BY <1>1, <1>2 DEF ToolFds
  <2> QED
    BY <1>1, <1>5, <2>1 DEF ToolFds, Piped
<1>7. FloodsOpen'
  BY <1>1, FloodsKept, Zenon
<1>8. Calls'
  BY <1>1, <1>2 DEF Calls, Async
<1> QED
  BY <1>1, <1>2, <1>4, <1>5, <1>6, <1>7, <1>8, IndexRange, Assemble, Zenon DEF TypeOK, State

LEMMA FlushOneKeeps ==
  ASSUME IInv, FlushOne
  PROVE  IInv'
<1> DEFINE p == list[i]
           n == Len(list)
           s == IF child[p] \in Reaped THEN child[p] ELSE Reap(child[p])
<1>1. /\ at = "flush" /\ i <= n /\ child[p] \notin {"none", "running"}
      /\ ok' = (child[p] = "ok" /\ ok)
      /\ child' = [child EXCEPT ![p] = s] /\ i' = i + 1
      /\ link' = link /\ role' = role /\ fds' = fds /\ list' = list /\ fn' = fn /\ at' = at
      /\ cur' = cur /\ chain' = chain /\ async' = async
  BY DEF FlushOne, Success
<1>2. /\ TypeOK /\ Calls /\ ToolFds /\ FloodsOpen /\ Distinct /\ Listed /\ FlushKnows
      /\ list \in Seq(Pid)
  BY DEF IInv, TypeOK
<1>3. /\ n \in Nat /\ DOMAIN list = 1 .. n /\ n <= MaxProcs /\ MaxProcs \in Nat
      /\ i \in 1 .. n /\ i' = i + 1
  <2>1. n \in Nat /\ DOMAIN list = 1 .. n
    BY <1>2
  <2>2. n <= MaxProcs /\ i \in 1 .. MaxProcs + 1
    BY <1>2, Zenon DEF TypeOK
  <2>3. MaxProcs \in Nat
    BY ProcsAssumption
  <2>4. i <= n /\ i' = i + 1
    BY <1>1, Zenon
  <2> HIDE DEF n
  <2>5. i \in 1 .. n
    BY ONLY <2>1, <2>2, <2>3, <2>4
  <2> QED
    BY <2>1, <2>2, <2>3, <2>4, <2>5, Zenon
<1>4. \A j \in 1 .. n : list[j] \in Pid
  BY <1>2, <1>3
<1>5. p \in Pid /\ child[p] \in Ended \cup Reaped
  <2>1. p \in Pid
    BY <1>3, <1>4, Zenon
  <2> QED
    BY <1>1, <1>2, <2>1 DEF TypeOK
<1>6. s \in Reaped /\ s \in State /\ (s = "reaped ok" => child[p] \in {"ok", "reaped ok"})
      /\ (child[p] = "ok" => s = "reaped ok")
  BY <1>5, ChildStates DEF Ended, Reap
<1>7. child[p] # "reaped ok"
  <2>1. ~(i < i)
    BY ONLY <1>3
  <2> QED
    BY <1>2, <1>3, <2>1, Zenon DEF Listed, Flushed
<1> HIDE DEF n, p, s
<1>8. /\ child' \in [Pid -> State] /\ child'[p] = s
      /\ \A q \in Pid : q # p => child'[q] = child[q]
  BY <1>1, <1>2, <1>5, <1>6, ChildSet, Zenon
<1>9. \A j \in 1 .. n : /\ Flushed(j)' <=> (Flushed(j) \/ j = i)
                        /\ Flushed(j) => j # i
  <2>1. \A j \in 1 .. n : /\ j < i + 1 <=> (j < i \/ j = i)
                          /\ j < i => j # i
    BY ONLY <1>3
  <2> QED
    BY <1>1, <2>1, Zenon DEF Flushed
<1>10. \A j \in 1 .. n : j # i => list[j] # p /\ child'[list[j]] = child[list[j]]
  <2>1. \A j \in 1 .. n : j # i => list[j] # p
    BY <1>2, <1>3, Zenon DEF Distinct, p
  <2> QED
    BY <1>4, <1>8, <2>1, Zenon
<1>11. Distinct'
  BY <1>1, <1>2, Zenon DEF Distinct
<1>12. Listed'
  <2>1. \A j \in 1 .. n : list[j] \in async /\ child'[list[j]] # "none"
    <3> TAKE j \in 1 .. n
    <3>1. CASE j = i
      BY <1>2, <1>3, <1>6, <1>8, <3>1, ChildStates, Zenon DEF Listed, p
    <3>2. CASE j # i
      BY <1>2, <1>3, <1>10, <3>2, Zenon DEF Listed
    <3> QED
      BY <3>1, <3>2, Zenon
  <2>2. \A j \in 1 .. n : child'[list[j]] = "reaped ok" => Flushed(j)'
    BY <1>2, <1>3, <1>9, <1>10, Zenon DEF Listed
  <2>3. \A q \in async : child'[q] = "reaped ok" \/ \E j \in 1 .. n : list[j] = q
    <3> TAKE q \in async
    <3>1. q \in Pid
      BY <1>2 DEF TypeOK
    <3>2. CASE q = p
      BY <1>3, <3>2, Zenon DEF p
    <3>3. CASE q # p
      BY <1>2, <1>3, <1>8, <3>1, <3>3, Zenon DEF Listed
    <3> QED
      BY <3>2, <3>3, Zenon
  <2> QED
    BY <1>1, <1>3, <2>1, <2>2, <2>3, Zenon DEF Listed
<1>13. FlushKnows'
  <2>1. \A j \in 1 .. n : Flushed(j)' => child'[list[j]] \in Reaped
    <3> TAKE j \in 1 .. n
    <3>1. CASE j = i
      BY <1>6, <1>8, <3>1, Zenon DEF p
    <3>2. CASE j # i
      BY <1>2, <1>3, <1>9, <1>10, <3>2, Zenon DEF FlushKnows
    <3> QED
      BY <3>1, <3>2, Zenon
  <2>2. ok <=> \A j \in 1 .. n : Flushed(j) => child[list[j]] = "reaped ok"
    BY <1>1, <1>2, <1>3, Zenon DEF FlushKnows
  <2>3. (\A j \in 1 .. n : Flushed(j)' => child'[list[j]] = "reaped ok")
          <=> /\ child'[p] = "reaped ok"
              /\ \A j \in 1 .. n : Flushed(j) => child[list[j]] = "reaped ok"
    BY <1>3, <1>9, <1>10, Zenon DEF p
  <2>4. child'[p] = "reaped ok" <=> child[p] = "ok"
    BY <1>6, <1>7, <1>8
  <2>5. ok' <=> \A j \in 1 .. n : Flushed(j)' => child'[list[j]] = "reaped ok"
    BY <1>1, <2>2, <2>3, <2>4, Zenon
  <2> QED
    BY <1>1, <1>3, <2>1, <2>5, Zenon DEF FlushKnows
<1>14. Base' = Base /\ ChainInput'
  <2>1. \A q \in Pid : child'[q] = "none" <=> child[q] = "none"
    BY <1>1, <1>6, <1>8, ChildStates, Zenon
  <2> QED
    BY <1>1, <2>1, ToolSame, Zenon
<1>15. ToolFds'
  <2>1. fds[Tool] = Base
    BY <1>1, <1>2 DEF ToolFds
  <2> QED
    BY <1>1, <1>14, <2>1 DEF ToolFds, Piped
<1>16. FloodsOpen'
  <2>1. role[p] # "floods"
    BY <1>1, <1>2, <1>5, Zenon DEF FloodsOpen
  <2> QED
    BY <1>1, <1>8, <2>1, FloodsKept, Zenon
<1>17. Calls' /\ i' \in 1 .. MaxProcs + 1 /\ ok' \in BOOLEAN
  <2>1. i' \in 1 .. MaxProcs + 1 /\ i' <= n + 1
    BY ONLY <1>3
  <2>2. ok' \in BOOLEAN
    BY <1>1, Zenon
  <2>3. Calls'
    BY <1>1, <1>2, <2>1 DEF Calls, n
  <2> QED
    BY <2>1, <2>2, <2>3
<1> QED
  BY <1>1, <1>2, <1>8, <1>11, <1>12, <1>13, <1>14, <1>15, <1>16, <1>17, Assemble, Zenon
     DEF TypeOK

\* At the end of a flush every process started into the list has been waited for, and the
\* result is what was found of them.
LEMMA FlushResult ==
  ASSUME IInv, at = "flush", i > Len(list)
  PROVE  /\ ok <=> \A p \in async : child[p] = "reaped ok"
         /\ \A p \in async : child[p] \in Reaped
<1>1. Listed /\ FlushKnows
  BY DEF IInv
<1>2. \A j \in DOMAIN list : Flushed(j)
  <2>1. list \in Seq(Pid) /\ i \in Nat
    <3>1. list \in Seq(Pid) /\ i \in 1 .. MaxProcs + 1
      BY Zenon DEF IInv, TypeOK
    <3> QED
      BY <3>1, ProcsAssumption
  <2>2. \A j \in DOMAIN list : j < i
    BY <2>1
  <2> QED
    BY <2>2, Zenon DEF Flushed
<1>3. \A p \in async : child[p] \in Reaped
  BY <1>1, <1>2, ChildStates, Zenon DEF Listed, FlushKnows
<1>4. (\A j \in DOMAIN list : child[list[j]] = "reaped ok")
        <=> \A p \in async : child[p] = "reaped ok"
  BY <1>1, Zenon DEF Listed
<1>5. ok <=> \A j \in DOMAIN list : child[list[j]] = "reaped ok"
  BY <1>1, <1>2, Zenon DEF FlushKnows
<1> QED
  BY <1>3, <1>4, <1>5, Zenon

LEMMA FlushDoneKeeps ==
  ASSUME IInv, FlushDone
  PROVE  IInv'
<1>1. /\ at = "flush" /\ i > Len(list) /\ list' = << >> /\ async' = {}
      /\ child' = [q \in Pid |-> IF q \in async THEN "reaped" ELSE child[q]]
      /\ Returned
      /\ link' = link /\ role' = role /\ fds' = fds /\ chain' = chain
  BY DEF FlushDone
<1>2. TypeOK /\ ToolFds /\ FloodsOpen /\ child \in [Pid -> State]
  BY Zenon DEF IInv, TypeOK, State
<1>3. /\ fn' = "run" /\ at' = "idle" /\ i' \in 1 .. MaxProcs + 1 /\ ok' \in BOOLEAN /\ cur' \in Pid
      /\ Calls'
  BY <1>1, ReturnedTypes, Zenon
<1>4. \A q \in async : child[q] \in Reaped
  BY <1>1, FlushResult, Zenon
<1>5. /\ child' \in [Pid -> State]
      /\ \A q \in Pid : q \notin async => child'[q] = child[q]
      /\ \A q \in Pid : q \in async => child'[q] = "reaped"
  BY <1>1, <1>2, ChildStates, Zenon
<1>6. \A q \in Pid : child'[q] = "none" <=> child[q] = "none"
  <2> TAKE q \in Pid
  <2>1. CASE q \in async
    <3>1. "reaped" # "none"
      OBVIOUS
    <3>2. child[q] # "none"
      BY <1>4, <2>1, ChildStates, Zenon
    <3> QED
      BY <1>5, <2>1, <3>1, <3>2, Zenon
  <2>2. CASE q \notin async
    BY <1>5, <2>2, Zenon
  <2> QED
    BY <2>1, <2>2, Zenon
<1>7. Base' = Base /\ ChainInput'
  BY <1>1, <1>6, ToolSame, Zenon
<1>8. ToolFds'
  <2>1. fds[Tool] = Base
    BY <1>1, <1>2 DEF ToolFds
  <2> QED
    BY <1>1, <1>3, <1>7, <2>1 DEF ToolFds, Piped
<1>9. FloodsOpen'
  <2>1. \A q \in Pid : role[q] = "floods" => q \notin async
    BY <1>2, <1>4, ChildStates, Zenon DEF FloodsOpen
  <2> QED
    BY <1>1, <1>5, <2>1, FloodsKept, Zenon
<1>10. /\ Distinct' /\ Listed' /\ FlushKnows' /\ list' \in Seq(Pid) /\ Len(list') <= MaxProcs
       /\ async' \subseteq Pid
  <2>1. DOMAIN << >> = {} /\ << >> \in Seq(Pid) /\ Len(<< >>) = 0 /\ 0 <= MaxProcs
    BY ProcsAssumption
  <2> QED
    BY <1>1, <1>3, <2>1 DEF Distinct, Listed, FlushKnows
<1> QED
  BY <1>1, <1>2, <1>3, <1>5, <1>7, <1>8, <1>9, <1>10, Assemble, Zenon DEF TypeOK

-----------------------------------------------------------------------------

LEMMA StepKeepsIInv ==
  ASSUME IInv, [Next]_vars
  PROVE  IInv'
<1>1. CASE Library
  BY <1>1, BelowMaxKeeps, PollKeeps, OpenRedirectsKeeps, StartProcessKeeps, NoProcessKeeps,
     WaitKeeps, DeferKeeps, FlushOneKeeps, FlushDoneKeeps, PipeCreateKeeps, ChainStartKeeps,
     ChainBreaksKeeps, Zenon DEF Library
<1>2. CASE Program
  BY <1>2, CmdRunKeeps, FlushKeeps, ChainBeginKeeps, ChainFirstKeeps, ChainNextKeeps,
     ChainEndKeeps, Zenon DEF Program
<1>3. ASSUME NEW p \in Pid, ChildExits(p) PROVE IInv'
  BY <1>3, ChildExitsKeeps, Zenon
<1>4. CASE UNCHANGED vars
  <2>1. /\ child' = child /\ link' = link /\ role' = role /\ fds' = fds /\ list' = list
        /\ fn' = fn /\ at' = at /\ i' = i /\ ok' = ok /\ cur' = cur /\ chain' = chain
        /\ async' = async
    BY <1>4 DEF vars, kernel
  <2>2. TypeOK /\ Calls /\ ToolFds
    BY DEF IInv
  <2>3. Distinct' /\ Listed' /\ FlushKnows'
    BY <2>1, ListStays, Zenon
  <2>4. FloodsOpen'
    BY <2>1, FloodsKept, Zenon
  <2>5. Base' = Base /\ Unused' = Unused /\ NewPid' = NewPid /\ ChainInput'
    BY <2>1, ToolSame, Zenon
  <2>6. ToolFds'
    <3>1. Read(NewPid)' = Read(NewPid) /\ Write(NewPid)' = Write(NewPid) /\ Piped' = Piped
      BY <2>1, <2>5, Zenon DEF Read, Write, Piped
    <3> QED
      BY <2>1, <2>2, <2>5, <3>1, Zenon DEF ToolFds
  <2>7. Calls'
    BY <2>1, <2>2, Zenon DEF Calls, Async
  <2> QED
    BY <2>1, <2>2, <2>3, <2>4, <2>5, <2>6, <2>7, Assemble, Zenon DEF TypeOK, State
<1> QED
  BY <1>1, <1>2, <1>3, <1>4, Zenon DEF Next

LEMMA InitIsInv ==
  ASSUME Init
  PROVE  IInv
<1>1. DOMAIN << >> = {} /\ << >> \in Seq(Pid) /\ Len(<< >>) = 0 /\ 0 <= MaxProcs /\ 1 \in Pid
  BY ProcsAssumption DEF Pid
<1>2. /\ child = [p \in Pid |-> "none"] /\ link = [p \in Pid |-> Unlinked]
      /\ role = [p \in Pid |-> "quits"] /\ fds = [p \in 0 .. MaxPid |-> {}]
      /\ list = << >> /\ fn = "run" /\ at = "idle" /\ i = 1 /\ ok = TRUE /\ cur = 1
      /\ chain = NoChain /\ async = {}
  BY DEF Init
<1>3. /\ chain.fdin = NoFd /\ chain.open = FALSE
      /\ chain \in [fdin : Fd, cmd : BOOLEAN, open : BOOLEAN]
  BY <1>2, FdFacts DEF NoChain
<1>4. TypeOK
  <2>1. /\ child \in [Pid -> {"none", "running"} \cup Ended \cup Reaped]
        /\ role \in [Pid -> {"quits", "drains", "floods"}]
        /\ fds \in [0 .. MaxPid -> SUBSET (Fd \ {NoFd})]
    BY <1>2
  <2>2. link \in [Pid -> [in : Fd, out : Fd]]
    BY <1>2, FdFacts DEF Unlinked
  <2> QED
    BY <1>1, <1>2, <1>3, <2>1, <2>2, IndexRange DEF TypeOK
<1>5. Calls /\ ChainInput
  BY <1>2, <1>3 DEF Calls, ChainInput
<1>6. ToolFds
  <2>1. fds[Tool] = {}
    BY <1>2, ToolFacts
  <2> QED
    BY <1>2, <1>3, <2>1 DEF ToolFds, Piped, Base
<1>7. Distinct /\ Listed /\ FlushKnows
  BY <1>1, <1>2 DEF Distinct, Listed, FlushKnows
<1>8. FloodsOpen
  <2>1. \A p \in Pid : role[p] # "floods"
    BY <1>2
  <2> QED
    BY <2>1, Zenon DEF FloodsOpen
<1> QED
  BY <1>4, <1>5, <1>6, <1>7, <1>8 DEF IInv

LEMMA IInvAlways == Spec => []IInv
<1>1. Init => IInv
  BY InitIsInv
<1>2. IInv /\ [Next]_vars => IInv'
  BY StepKeepsIInv
<1> QED
  BY <1>1, <1>2, PTL DEF Spec

-----------------------------------------------------------------------------
(* Theorems. *)

\* Children, descriptors, the list and the calls keep their types: the list never grows past
\* max_procs, whatever its processes do.
THEOREM ProcsTypes == Spec => []TypeOK
<1>1. IInv => TypeOK
  BY DEF IInv
<1> QED
  BY IInvAlways, <1>1, PTL

\* The list names no process twice, and one it no longer names has ended well, for any
\* number of children that end in any order and any max_procs.
THEOREM ProcsListHonest == Spec => []ListHonest
<1>1. IInv => ListHonest
  BY Zenon DEF IInv, Distinct, Listed, ListHonest
<1> QED
  BY IInvAlways, <1>1, PTL

\* Outside of a call the tool holds no descriptor but the input of the chain it builds,
\* whichever open, pipe, fork or process failed.
THEOREM ProcsNoFdLeft == Spec => []NoFdLeft
<1>1. IInv => NoFdLeft
  BY DEF IInv, ToolFds, Base, NoFdLeft
<1> QED
  BY IInvAlways, <1>1, PTL

\* nob_procs_flush() returns true exactly when every process of the list since the flush
\* before it succeeded, and leaves none running.
THEOREM ProcsFlushTellsAll == Spec => FlushTellsAll
<1> DEFINE Told == FlushDone => /\ ok <=> \A p \in async : child[p] = "reaped ok"
                                /\ \A p \in async : child[p] \in Reaped
<1>1. IInv /\ [Next]_vars => [Told]_vars
  <2> SUFFICES ASSUME IInv, FlushDone
               PROVE  /\ ok <=> \A p \in async : child[p] = "reaped ok"
                      /\ \A p \in async : child[p] \in Reaped
    OBVIOUS
  <2>1. at = "flush" /\ i > Len(list)
    BY DEF FlushDone
  <2> QED
    BY <2>1, FlushResult, Zenon
<1> QED
  BY IInvAlways, <1>1, PTL DEF Spec, FlushTellsAll

\* A command inside a chain is never told that nobody reads what it writes: it inherited the
\* read end of its own pipe, and holds it for as long as it runs.
THEOREM ProcsNoBrokenPipe == Spec => NoBrokenPipe
<1> DEFINE Floods == \A p \in Pid : role[p] = "floods" => role'[p] = "floods"
<1>1. IInv /\ [Next]_vars => [Floods]_vars
  <2> SUFFICES ASSUME IInv, Next, NEW p \in Pid, role[p] = "floods"
               PROVE  role'[p] = "floods"
    OBVIOUS
  <2>1. child[p] = "running" /\ link[p].out = Write(p) /\ Read(p) \in fds[p]
    BY DEF IInv, FloodsOpen
  <2>2. role \in [Pid -> {"quits", "drains", "floods"}]
    BY Zenon DEF IInv, TypeOK
  <2>3. CASE role' = role
    BY <2>3, Zenon
  <2>4. ASSUME NEW q \in Pid, ChildExits(q) PROVE role'[p] = "floods"
    <3>1. role' = [role EXCEPT ![q] = "quits"] /\ MayExit(q)
      BY <2>4 DEF ChildExits
    <3>2. q # p
      <4>1. SUFFICES ~MayExit(p)
        BY <3>1, Zenon
      <4>2. Held(Read(p))
        BY <2>1, ToolFacts, Zenon DEF Held
      <4>3. link[p].out[2] = p
        BY <2>1 DEF Write
      <4> QED
        BY <4>2, <4>3 DEF MayExit
    <3> QED
      BY <2>2, <3>1, <3>2, Zenon
  <2>5. ASSUME NEW q \in Pid, child[q] = "none", NEW in, NEW out, Fork(q, in, out)
        PROVE  role'[p] = "floods"
    <3>1. q # p
      BY <2>1, <2>5, ChildStates, Zenon
    <3>2. PICK r \in Roles : role' = [role EXCEPT ![q] = r]
      BY <2>5 DEF Fork
    <3> QED
      BY <2>2, <3>1, <3>2, Zenon
  <2>6. CASE StartProcess
    <3>1. Unused # {} /\ \E in : Fork(NewPid, in, NoFd)
      BY <2>6, Zenon DEF StartProcess
    <3> QED
      BY <2>5, <3>1, NewPidIsUnused, Zenon
  <2>7. CASE ChainStart
    <3>1. Unused # {}
      BY <2>7 DEF IInv, ToolFds, Piped, ChainStart
    <3>2. Fork(NewPid, chain.fdin, Write(NewPid))
      BY <2>7, Zenon DEF ChainStart
    <3> QED
      BY <2>5, <3>1, <3>2, NewPidIsUnused, Zenon
  <2>8. CASE Program
    BY <2>3, <2>8 DEF Program, CmdRun, Flush, ChainBegin, ChainFirst, ChainNext, ChainEnd, kernel
  <2>9. CASE Library /\ ~StartProcess /\ ~ChainStart
    BY <2>3, <2>9 DEF Library, BelowMax, Poll, OpenRedirects, NoProcess, Wait, Defer, FlushOne,
                      FlushDone, PipeCreate, ChainBreaks, kernel
  <2> QED
    BY <2>4, <2>6, <2>7, <2>8, <2>9, Zenon DEF Next
<1> QED
  BY IInvAlways, <1>1, PTL DEF Spec, NoBrokenPipe

=============================================================================
