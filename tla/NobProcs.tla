------------------------------ MODULE NobProcs ------------------------------
(***************************************************************************)
(* The commands of the build library nob.h: nob_cmd_run() in its           *)
(* synchronous and its asynchronous form, the list of running processes    *)
(* it fills and throttles, nob_procs_flush(), and the chains of commands   *)
(* that are piped into each other.                                         *)
(*                                                                         *)
(* The operating system is a table of children and of the descriptors each *)
(* process holds.  A child inherits every descriptor the tool has open     *)
(* when it forks: nob.h opens none of them close-on-exec.                  *)
(***************************************************************************)
EXTENDS Integers, Sequences, FiniteSets

CONSTANTS
  MaxPid,    \* bound: children of one run of the tool
  MaxProcs,  \* opt.max_procs, or what nob_nprocs() + 1 gives when it is zero
  Files,     \* the redirections a command may ask for
  Roles      \* how children behave, among "quits", "drains" and "floods"

ASSUME ProcsAssumption ==
  /\ MaxPid \in Nat \ {0} /\ MaxProcs \in Nat \ {0}
  /\ Roles \subseteq {"quits", "drains", "floods"}

VARIABLES
  child,    \* the state of each child: "none", "running", how it ended, how it was reaped
  link,     \* [in, out]: the descriptors a child has as standard input and output
  role,     \* how the child behaves
  fds,      \* the descriptors each process holds; process 0 is the tool
  list,     \* the Nob_Procs array
  fn,       \* the function of nob.h that runs
  at,       \* where it is
  i,        \* its loop variable, counted from 1
  ok,       \* its result
  cur,      \* the process nob_proc_wait() waits for
  chain,    \* Nob_Chain: [fdin, cmd], and whether the program is building one
  async     \* history: the children started into the list since the last flush

kernel == << child, link, role, fds >>
vars   == << kernel, list, fn, at, i, ok, cur, chain, async >>

Pid   == 1 .. MaxPid
Tool  == 0
NoFd  == << "none", 0 >>
Read(k)  == << "read", k >>    \* the ends of the pipe into which child k writes
Write(k) == << "write", k >>
InFile   == << "input", 0 >>   \* stdin_path of a chain
Redirect == {<< "file", f >> : f \in Files}
Fd == {NoFd, InFile} \cup ({"read", "write"} \X Pid) \cup Redirect

Unlinked == [in |-> NoFd, out |-> NoFd]

NoChain  == [fdin |-> NoFd, cmd |-> FALSE, open |-> FALSE]

Ended  == {"ok", "bad"}
Reaped == {"reaped ok", "reaped bad", "reaped"}
Reap(state) == IF state = "ok" THEN "reaped ok" ELSE "reaped bad"

Unused == {p \in Pid : child[p] = "none"}
NewPid == CHOOSE p \in Unused : \A q \in Unused : p <= q

TypeOK ==
  /\ child \in [Pid -> {"none", "running"} \cup Ended \cup Reaped]
  /\ link \in [Pid -> [in : Fd, out : Fd]]
  /\ role \in [Pid -> {"quits", "drains", "floods"}]
  /\ fds \in [0 .. MaxPid -> SUBSET (Fd \ {NoFd})]
  /\ list \in Seq(Pid) /\ Len(list) <= MaxProcs
  /\ fn \in {"run", "async", "chain cmd", "chain end", "chain end async", "flush"}
  /\ at \in {"idle", "throttle", "open", "pipe", "start", "wait", "defer", "flush"}
  /\ i \in 1 .. MaxProcs + 1
  /\ ok \in BOOLEAN
  /\ cur \in Pid
  /\ chain \in [fdin : Fd, cmd : BOOLEAN, open : BOOLEAN]
  /\ async \subseteq Pid

Init ==
  /\ child = [p \in Pid |-> "none"]
  /\ link = [p \in Pid |-> Unlinked]
  /\ role = [p \in Pid |-> "quits"]
  /\ fds = [p \in 0 .. MaxPid |-> {}]
  /\ list = << >>
  /\ fn = "run" /\ at = "idle" /\ i = 1 /\ ok = TRUE /\ cur = 1
  /\ chain = NoChain
  /\ async = {}

-----------------------------------------------------------------------------
(* The operating system. *)

\* Does any process that lives still hold the descriptor?
Held(fd) == \E q \in 0 .. MaxPid : fd \in fds[q]

\* "quits": ends when it likes.  "drains": reads its input to the end.  "floods": writes
\* until nobody can read what it writes.  How a command inside a chain ended is never asked.
MayExit(p) ==
  CASE role[p] = "quits"  -> TRUE
    [] role[p] = "drains" -> ~Held(Write(link[p].in[2]))
    [] role[p] = "floods" -> ~Held(Read(link[p].out[2]))

ChildExits(p) ==
  /\ child[p] = "running" /\ MayExit(p)
  /\ \E how \in IF link[p].out = NoFd THEN Ended ELSE {"ok"} : child' = [child EXCEPT ![p] = how]
  /\ fds' = [fds EXCEPT ![p] = {}]
  /\ link' = [link EXCEPT ![p] = Unlinked]
  /\ role' = [role EXCEPT ![p] = "quits"]
  /\ UNCHANGED << list, fn, at, i, ok, cur, chain, async >>

\* What child p inherits: every pipe end that is open, its own too.  Of the open files nothing
\* depends.  (OwnEndClosed: all but the read end of its own pipe.)
OwnEndClosed(p) == fds[Tool] \ (Redirect \cup {InFile, Read(p)})
Inherited(p) == fds[Tool] \ (Redirect \cup {InFile})

\* fork(), dup2() and execvp() of nob__cmd_start_process() for child p.
Fork(p, in, out) ==
  /\ child' = [child EXCEPT ![p] = "running"]
  /\ link' = [link EXCEPT ![p] = [in |-> in, out |-> out]]
  /\ \E r \in Roles :
       /\ r = "drains" => in[1] = "read"
       /\ r = "floods" => out[1] = "write"
       /\ role' = [role EXCEPT ![p] = r]

-----------------------------------------------------------------------------
(* nob_cmd_run_opt() and nob_chain_end_opt(), which share their steps. *)

Async == fn \in {"async", "chain end async"}

Call(f, first) ==
  /\ at = "idle"
  /\ fn' = f /\ at' = first /\ i' = 1 /\ ok' = TRUE

CmdRun ==
  /\ Call("run", "open") \/ Call("async", "throttle")
  /\ UNCHANGED << kernel, list, cur, chain, async >>

\* nob_da_remove_unordered(list, j).  (RemoveLast: the wrong element goes.)
RemoveLast(s, j) == SubSeq(s, 1, Len(s) - 1)
RemoveUnordered(s, j) == SubSeq([s EXCEPT ![j] = s[Len(s)]], 1, Len(s) - 1)

Return(result) == ok' = result /\ at' = "defer"

\* The call is over, and its variables are gone.
Returned == fn' = "run" /\ at' = "idle" /\ i' = 1 /\ ok' = TRUE /\ cur' = 1

\* No process may be added.  (FullTooLate: off by one.)
FullTooLate == Len(list) > MaxProcs
Full == Len(list) >= MaxProcs

\* while (list->count >= max_procs): tested when the for loop ended or was left.
BelowMax ==
  /\ at = "throttle" /\ i = 1 /\ ~Full
  /\ at' = "open"
  /\ UNCHANGED << kernel, list, fn, i, ok, cur, chain, async >>

\* nob__proc_wait_async(): zero for a process that runs, negative for one that failed now,
\* or was reaped before.  (FailedRuns: a failure is taken for "still running".)
FailedRuns(state) == IF state = "ok" THEN 1 ELSE 0
WaitAsync(state) ==
  CASE state = "running" -> 0 [] state = "ok" -> 1 [] OTHER -> -1

\* One turn of the for loop: the process is passed over, leaves the list, or, having
\* failed, stays in it and ends the call.
Poll ==
  /\ at = "throttle" /\ Full
  /\ LET p == list[i]  ret == WaitAsync(child[p])
     IN  /\ child' = [child EXCEPT ![p] = IF @ \in Ended THEN Reap(@) ELSE @]
         /\ \/ /\ ret = 0
               /\ i' = IF i = Len(list) THEN 1 ELSE i + 1
               /\ UNCHANGED << list, at, ok >>
            \/ /\ ret > 0
               /\ list' = RemoveUnordered(list, i) /\ i' = 1
               /\ UNCHANGED << at, ok >>
            \/ /\ ret < 0
               /\ Return(FALSE)
               /\ UNCHANGED << list, i >>
  /\ UNCHANGED << link, role, fds, fn, cur, chain, async >>

\* The redirections are opened one after the other, until one of them fails.
OpenRedirects ==
  /\ at = "open"
  /\ \E opened \in SUBSET Redirect :
       /\ fds' = [fds EXCEPT ![Tool] = @ \cup opened]
       /\ \/ at' = "start" /\ UNCHANGED ok
          \/ opened # Redirect /\ Return(FALSE)
  /\ UNCHANGED << child, link, role, list, fn, i, cur, chain, async >>

\* The process of the command, or of the last command of a chain.
StartProcess ==
  /\ at = "start" /\ fn # "chain cmd"
  /\ Unused # {}
  /\ LET p == NewPid
     IN  /\ Fork(p, IF fn \in {"run", "async"} THEN NoFd ELSE chain.fdin, NoFd)
         /\ fds' = [fds EXCEPT ![p] = Inherited(p)]
         /\ cur' = p
         /\ IF Async
            THEN list' = Append(list, p) /\ async' = async \cup {p} /\ at' = "defer"
            ELSE at' = "wait" /\ UNCHANGED << list, async >>
  /\ UNCHANGED << fn, i, ok, chain >>

\* fork() fails; or the command is empty.
NoProcess ==
  /\ at = "start" /\ fn # "chain cmd"
  /\ Return(FALSE)
  /\ UNCHANGED << kernel, list, fn, i, cur, chain, async >>

\* nob_proc_wait(cur)
Wait ==
  /\ at = "wait" /\ child[cur] \in Ended
  /\ child' = [child EXCEPT ![cur] = "reaped"]
  /\ Return(child[cur] = "ok")
  /\ UNCHANGED << link, role, fds, list, fn, i, cur, chain, async >>

\* What the functions close on their way out.  (KeptInput: the end of a chain forgets the
\* output of the command before the last.)
KeptInput == Redirect
Closing == IF fn \in {"run", "async"} THEN Redirect ELSE Redirect \cup {chain.fdin}

Defer ==
  /\ at = "defer"
  /\ fds' = [fds EXCEPT ![Tool] = @ \ Closing]
  /\ Returned
  /\ chain' = IF fn \in {"run", "async"} THEN chain ELSE NoChain
  /\ UNCHANGED << child, link, role, list, async >>

-----------------------------------------------------------------------------
(* nob_procs_flush(): waits for all of the list, whatever the first ones return. *)

Flush ==
  /\ Call("flush", "flush")
  /\ UNCHANGED << kernel, list, cur, chain, async >>

\* success = nob_proc_wait(list[i]) && success.  (LastOnly: what was found before is lost.)
LastOnly(now, before) == now
Success(now, before) == now /\ before

FlushOne ==
  /\ at = "flush" /\ i <= Len(list)
  /\ child[list[i]] \notin {"none", "running"}
  /\ ok' = Success(child[list[i]] = "ok", ok)
  /\ child' = [child EXCEPT ![list[i]] = IF @ \in Reaped THEN @ ELSE Reap(@)]
  /\ i' = i + 1
  /\ UNCHANGED << link, role, fds, list, fn, at, cur, chain, async >>

FlushDone ==
  /\ at = "flush" /\ i > Len(list)
  /\ list' = << >> /\ async' = {}
  /\ child' = [p \in Pid |-> IF p \in async THEN "reaped" ELSE child[p]]
  /\ Returned
  /\ UNCHANGED << link, role, fds, chain >>

-----------------------------------------------------------------------------
(* Chains. *)

\* nob_chain_begin(), with or without a file as the input of the first command.
ChainBegin ==
  /\ at = "idle" /\ ~chain.open
  /\ \E fd \in {NoFd, InFile} :
       /\ chain' = [fdin |-> fd, cmd |-> FALSE, open |-> TRUE]
       /\ fds' = [fds EXCEPT ![Tool] = @ \cup ({fd} \ {NoFd})]
  /\ UNCHANGED << child, link, role, list, fn, at, i, ok, cur, async >>

\* The first nob_chain_cmd() only stores its command.
ChainFirst ==
  /\ at = "idle" /\ chain.open /\ ~chain.cmd
  /\ chain' = [chain EXCEPT !.cmd = TRUE]
  /\ UNCHANGED << kernel, list, fn, at, i, ok, cur, async >>

\* Every other one starts the command stored before it, in three steps: a pipe,
ChainNext ==
  /\ chain.open /\ chain.cmd
  /\ Call("chain cmd", "pipe")
  /\ UNCHANGED << kernel, list, cur, chain, async >>

PipeCreate ==
  /\ at = "pipe" /\ Unused # {}
  /\ fds' = [fds EXCEPT ![Tool] = @ \cup {Read(NewPid), Write(NewPid)}]
  /\ at' = "start"
  /\ UNCHANGED << child, link, role, list, fn, i, ok, cur, chain, async >>

\* the process, and the descriptors that are closed at the end.  (WriteEndKept: that of the
\* pipe is forgotten.)
WriteEndKept(p) == {chain.fdin}
ClosedByChain(p) == {chain.fdin, Write(p)}

ChainStart ==
  /\ at = "start" /\ fn = "chain cmd"
  /\ LET p == NewPid
     IN  /\ Fork(p, chain.fdin, Write(p))
         /\ fds' = [fds EXCEPT ![p] = Inherited(p), ![Tool] = @ \ ClosedByChain(p)]
         /\ chain' = [chain EXCEPT !.fdin = Read(p)]
  /\ Returned
  /\ UNCHANGED << list, async >>

\* The pipe or the process fails: the program gives the chain up.
ChainBreaks ==
  /\ fn = "chain cmd" /\ at \in {"pipe", "start"}
  /\ fds' = [fds EXCEPT ![Tool] =
       @ \ ({chain.fdin} \cup IF at = "start" THEN {Read(NewPid), Write(NewPid)} ELSE {})]
  /\ chain' = NoChain
  /\ Returned
  /\ UNCHANGED << child, link, role, list, async >>

\* nob_chain_end() goes through the steps of nob_cmd_run_opt(), unless the chain is empty.
ChainEnd ==
  /\ chain.open
  /\ IF chain.cmd
     THEN Call("chain end", "open") \/ Call("chain end async", "throttle")
     ELSE Call("chain end", "defer")
  /\ UNCHANGED << kernel, list, cur, chain, async >>

-----------------------------------------------------------------------------

\* What the library does once it is called, and what the program may call.
Library ==
  \/ BelowMax \/ Poll \/ OpenRedirects \/ StartProcess \/ NoProcess \/ Wait \/ Defer
  \/ FlushOne \/ FlushDone
  \/ PipeCreate \/ ChainStart \/ ChainBreaks

Program == CmdRun \/ Flush \/ ChainBegin \/ ChainFirst \/ ChainNext \/ ChainEnd

Next == Library \/ Program \/ \E p \in Pid : ChildExits(p)

\* The library runs once it is called, and a child that has nothing to wait for ends.
Fairness == WF_vars(Library) /\ \A p \in Pid : WF_vars(ChildExits(p))

Spec == Init /\ [][Next]_vars /\ Fairness

-----------------------------------------------------------------------------
(* Properties. *)

\* The list is honest whatever order its processes end in: it names no process twice, and
\* a process started into it that it no longer names has ended well (nob_cmd_run_opt).
ListHonest ==
  /\ \A j, k \in DOMAIN list : list[j] = list[k] => j = k
  /\ \A p \in async :
       child[p] = "reaped ok" \/ \E j \in DOMAIN list : list[j] = p

\* nob_procs_flush() returns true exactly when every process of the list since the flush
\* before it succeeded, those included that throttling already reaped; none is left running.
FlushTellsAll ==
  [][FlushDone => /\ ok <=> \A p \in async : child[p] = "reaped ok"
                  /\ \A p \in async : child[p] \in Reaped]_vars

\* Outside of a call the tool holds no descriptor but the input of the chain it builds,
\* whichever open, pipe, fork or process failed.
NoFdLeft ==
  at = "idle" =>
    fds[Tool] = IF chain.open THEN {chain.fdin} \ {NoFd} ELSE {}

\* A command inside a chain is never told that nobody reads what it writes: it inherits the
\* read end of its own pipe.  "yes | head -n1", built as nob.h:539-568 shows, leaves yes running,
\* where the shell command it calls equivalent ends.
NoBrokenPipe ==
  [][\A p \in Pid : role[p] = "floods" => role'[p] = "floods"]_vars

\* But for what waits for such a command, every call returns, even with a full list, and
\* every child ends: one that reads its input to the end always sees the end.
Stuck == \E p \in Pid : role[p] = "floods"

CallsReturn == []<>(at = "idle" \/ Stuck)
ChildrenEnd == \A p \in Pid : []<>(child[p] # "running" \/ Stuck)

=============================================================================
