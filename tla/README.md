# A verification project for tlv

TLA+ models of the tlv library (C23: serializing typed values to Type-Length-Value
frames, joining the frames to one stream, and decoding a received stream into an array of
messages) and of its build tool, the TLC runs that check them, and machine-checked proofs
about them. Paths below are relative to the repository of tlv; its sources are
`src/tlv.c`, `src/buffer.c`, `include/*.h`, and the build tool `nob.c` with the library
`nob.h` it is written with.

## Inventory

| component | state it keeps | operations | module |
|---|---|---|---|
| codec (`src/tlv.c` serialize_*, the switch of deserialize; `hton64`) | none: pure functions of a value and the host's byte order | 16 `serialize_*`, the 17 cases of the switch | `TLVWire` |
| stream (`buf_append`, a socket, the loop of `deserialize`) | the sender's Buffer; the receiver's buffer; offset, the array of messages | append a frame, read, one loop iteration, return, exit | `TLVStream`, promised by `TLVChannel` |
| dynamic array (`include/dynarr.h`, libdynarr) | per array one heap block: header (count, capacity) and element slots | da_new, da_free, da_copy, da_append, da_extend, da_reserve, da_pop, da_swap_remove, da_clear; da_get, da_last, da_length, da_capacity, da_empty read only | `DynArr`, promised by `DynArrSpec`; `DynArrHeader` |
| ownership (`message_free`, `buf_append`, `message_cstr`, `da_free`) | which heap blocks exist and which variable of the program holds which | serialize, append, free, deserialize, view, C string, message_free, pop, put back, swap_remove, da_free | `TLVOwnership` |
| accessors (`message_*`) | none: type check, then a copy of the union member | 17 accessors | `TLVOwnership` |
| `exists`, `expect` (`include/prelude.h`) | none: they end the process | | the OutOfMemory and Exit actions |
| commands of the build tool (`nob.c`) | the build tree `.build/`, the staging directory and the tarball of `pack` | 14 commands | `NobBuild` |
| rebuild of the tool (`NOB_GO_REBUILD_URSELF` of `nob.h`) | `nob`, `nob.old`, their times | compare, rename, compile, restore | `NobRebuild` |
| commands and chains (`nob.h`) | the list of processes, the open descriptors, the chain that is built | `nob_cmd_run`, synchronous or not, `nob_chain_begin`, `_cmd`, `_end`, `nob_procs_flush` | `NobProcs` |
| directory trees (`nob.h`) | the temporary memory, the path buffer of a walk, the calls of the recursion | `nob_copy_directory_recursively`, `nob_walk_dir` | `NobTree` |
| string views (`nob.h`) | none | the `nob_sv_*` functions | `NobStringView` |
| the rest of `nob.h` | | whole files, string builders, arrays, logging, Windows | left out |
| tests, CI, docs, flake | | | read, not modelled |

How they interact: everything is a synchronous call in one thread; a component hands
another one a value (`Buffer`, `Message`) or a pointer to a heap block whose owner is a
matter of convention. The only concurrency of the library is that of the two ends of a
socket. Every failure that is noticed ends the process (`exists`, `expect`, `assert`, the
unknown-tag case), so the models' terminal states are part of their behaviour.

The build tool is one thread too, but shares a file system with its user, who edits and
kills, and runs other programs: as children it waits for, as a list of children it
throttles, and as chains whose members wait for each other. What fails there is returned as
`false` and has to be undone on the way (`defer`, `fail`).

What is hard here, and hard to test: sequences of array operations that leave a header
which does not describe its block; the offset arithmetic of the loop of `deserialize`,
which compares no read with the end of the buffer; a `read()` that returns part of a
stream; hosts of two byte orders (the tests run on one machine); failing allocations; and
the ownership conventions; in the build tool children that end in any order, descriptors
and temporary memory on the paths of failures, files that change under the tool's hands,
times of a second's resolution, and a kill between two steps. `PROJECT.json` lists these hazards at their lines with the
properties that cover them.

What makes each component correct:

* codec: what is decoded is what was encoded, and frames have the documented layout;
* stream: all messages arrive in order or the transfer fails visibly; nothing is read
  behind the received bytes when whole frames are handed over; the loop ends;
* dynamic array: the header describes the block, no write leaves the block, reserved room
  stays, arrays behave as independent sequences;
* ownership: every block is freed once, and not used afterwards;
* build tool: a command's result depends on the sources, not on the commands before it, it
  fails exactly for a cause, and there is always a tool to run;
* commands and chains: the list of processes and what the calls return tell how the
  children ended; no descriptor stays open; everything ends;
* directory trees: success means all of the tree, failure leaves nothing behind.

## Modules

| module | models | extends / instantiates |
|---|---|---|
| `TLVWire` | the codec, as operators from a host's byte order and a value to bytes and back | |
| `DynArrHeader` | the capacity arithmetic that `da_append` applies to a header | |
| `TLVStream` | one stream from sender to receiver | `TLVWire`, `DynArrHeader`; refines `TLVChannel` |
| `TLVChannel` | what a stream promises: all messages in order, or a failure | |
| `DynArr` | the macros of `dynarr.h` on a few arrays | `DynArrHeader`; refines `DynArrSpec` |
| `DynArrSpec` | what `dynarr.h` promises: independent sequences | |
| `TLVOwnership` | the heap blocks of a program that follows the ownership rules | |
| `NobBuild` | the commands of `nob.c` and the files they share | |
| `NobRebuild` | how `./nob` rebuilds itself | |
| `NobProcs` | processes, their list, chains and descriptors | |
| `NobTree` | the recursive functions on directories | |
| `NobStringView` | the string views, as operators | |
| `MCTLVStream`, `MCDynArr`, `MCTLVOwnership`, `MCNobProcs`, `MCNobTree` | the instances TLC checks, with one `.cfg` per question | the module they are named after |
| `MCNobTool` | the tool as a whole: each behaviour rebuilds the tool or runs its commands, which share no state; assumptions about the operators, evaluated over bounded inputs | extends `NobRebuild`, `NobBuild`, instantiates `NobStringView` |
| `TLVWireProofs`, `TLVStreamProofs`, `DynArrProofs`, `TLVOwnershipProofs`, `NobProcsProofs`, `NobBuildProofs`, `NobTreeProofs` | the theorems | the module they are named after, TLAPS; `TLVStreamProofs` also `TLVWireProofs` |
| `NobHeaderProofs` | the theorems about two parts of `nob.h` | `NobStringView`, `NobRebuild`, TLAPS |

### State and actions, and the code

**TLVWire.** A value is a *word*: its base-256 digits, most significant first; floats are
their bit patterns, as `simple_serialize` and the `T_F32` and `T_F64` cases treat them.
`InMemory` is what a `memcpy` between an integer and a byte buffer does: it reverses the
digits on a little-endian host. `Hton` is `htons`/`htonl`; `Hton64` is translated from
`tlv.h:290`, exchange of the halves included. `LengthLimit` stands for `UINT32_MAX`; the
assumption on it (`FourDigits`) is that the length fits four bytes. `ToU32` is the cast of a
length to `uint32_t`, which cuts it to that limit: a too-big guard that is missing (`TooBigNever`)
shows as a frame whose length field is not its payload's.

**TLVStream.** `pc` is where the two ends are. `Send` is one
`stream = buf_append(stream, serialize...)`; `SenderExit` the too-big guard or a failed
allocation; `Receive` the socket's `read`, which returns all of the stream or a part of it
into a buffer whose tail (`Residues`) holds old bytes or does not exist. The loop of
`deserialize` runs one iteration per `ParseFrame`; `BadType` is the default case of its
switch, `Fault` a `memcpy` that leaves the receive buffer, `OutOfMemory` an `exists` that
finds NULL, `Return` the end of the loop. `deserialize` compares no read with `buf.len`:
`overrun` records that a read went past it. `sent`, `starts` and `overrun` are history.

**DynArr.** `count` and `capacity` are the header, `slots` the elements for which the heap
block has room, `smashed` records a write outside the block. One action per macro that
changes anything. `AvoidTightOne` and `ExprSizes` describe the program: whether it ever
makes an array of capacity one, and the sizes of the expressions it passes to `da_append`.
`new_header` and `copy_header` come from a binary library; they are modelled as `dynarr.h`
documents them (fresh array without capacity; a copy whose capacity equals its count).

**TLVOwnership.** `live` is the set of allocated blocks; every pointer variable of the
program is a variable of the model. The guards are the rules of README.md and `tlv.h`
(forget a Buffer after `free` or `buf_append`; `message_free` before a message is
discarded; no view of a message after its `message_free`); the effects are the code's.
Addresses are never reused, so a use after free cannot hide behind a later allocation.
Types are reduced to the three that differ: plain, string, other owning. `Fits` is the
check that every accessor makes; past it an accessor copies.

**NobBuild.** A command is the list of the steps of its function (`StepsOf`), `steps` what is
left of it. A step is a call or a loop of `nob.c`, with what it does to the files: `obj`,
`archive` and `shared` hold, for each source, which content of it was compiled. `Breaks`
fails the program or system call of any step; `Change` edits, adds or removes a source at
any time; `Interrupted` ends the tool anywhere. The name of the command, what the sources held
while it ran, what failed it and which tests ran are history. A prefix given to `pack` is
reduced to where it leads from the new staging directory: to itself (`.`, or none given), to a
directory outside (`..`), or to nothing that is there. `stage` holds what is copied to that
place; of an outside place, only what the command itself has put there.

**NobRebuild.** One action for each call of `nob__go_rebuild_urself` that can fail, with the
compiler in two steps, reading and writing, between which `nob.c` may change. Times are
those of `st_mtime`, in whole seconds. `work` stands for the commands.

**NobProcs.** `fn` and `at` are the function that runs and the place in it, `i` its loop
variable, `list` the `Nob_Procs`. The kernel is `child`, `link` and `fds`: a process holds
descriptors, a child inherits what the tool has open, pipes included, since nothing is
opened close-on-exec. Children quit when they like, read to the end, or write until nobody
can read; how one ended is known to whoever reaps it. `nob_chain_end` goes through the
actions of `nob_cmd_run_opt`, whose steps it repeats.

**NobTree.** `stack` holds a frame for each call of the recursion, with its place and its
saved `temp` size or path length. The names of a directory are kept as indices into `temp`
and read when their turn comes, as in the code, in whatever order `readdir` had, the entry
`.` anywhere among them: memory given back while names in it are still needed loses an entry
(`Released`). `NothingLeft` and `AbortsForCause` tell whether it is given back at all. `sb` is
the path buffer with its terminators. `Vanish` removes an entry, and all below it, at any
time. The lookup of an entry may fail (`FileType`), always of one that is gone, but also of one
that is there: a directory that may be listed but not searched, a path too long, a disk that
fails. `refused` keeps, as history, which lookups of present entries did.
`Nob_File_Type` is an unsigned type, so that the tests `type < 0` are never true
(`CopyEnter`, `WalkEnter`). `HeapFails` is an assertion of `nob.h` that finds no block from the
heap, wherever the functions ask for one; what a starved tool leaves is nobody's any more.

## What the runs check

Passing runs:

| run | question | bounds, and why they are enough |
|---|---|---|
| `types` | `TypeOK`, `WireLayout`, `DecodesSent`, `RefusesOnlyUnknown`, `OverrunIffCut`, `OneMessagePerFrame` for every type and all four pairs of byte orders, cut at every byte, and a payload past the limit that is never sent | streams of two messages: an iteration depends on what is in front of it only through `offset`, so pairs of all types show every desynchronisation. The digits of each value differ, so an exchange of bytes is noticed. Behind the bytes read lie zeros, other bytes, or nothing |
| `channel` | the stream implements `TLVChannel`, liveness included; `ArrayHasRoom`, `HeaderPerMessage` | three messages of every width, one too big, unknown tags, failing allocations, whole streams; and any two messages followed by up to eleven of the shortest frames, past the growth steps 0 to 8 and 8 to 12 |
| `copies` | all of `DynArr`, with `da_copy` between two arrays and allocations that fail; `ImplementsSequences`, `DoesAsNamed` | three elements: the first count at which moving the last element, shifting and popping differ; reserved and copied arrays of two are full and grow |
| `rules` | `NoMisuse`, `OwnedOnce` | seven allocations in all: a message array with two payloads, a string, two buffers, and one block that moves |
| `processes` | `ListHonest`, `FlushTellsAll`, `NoFdLeft`, `NoBrokenPipe`, `CallsReturn`, `ChildrenEnd` | three children: a list of two is full and one is to come; a chain of three has a first, a middle and a last command |
| `files` | `CopiedAll`, `NothingLeft`, `AbortsForCause`, `VisitsInOrder`, `VisitsAll` | all trees over a root, two entries and one below the first, of every kind; targets with a file or a directory in the way; memory for five names, which some trees exceed. A constraint (`FreshWalks`) leaves out walks behind a copy: a walk reads neither the target nor `nob_temp`, which are all that a copy leaves |
| `tool` | `SomeBinary`, `QuietEditsAreBuilt`, `RunsEnd`; `LibsAreCurrent`, `FailsForCause`, `AllTestsTried`, `PackedWhole` | three seconds and two edits of `nob.c`: one before, one during a rebuild; two sources, two tests, one change of the sources at any point, commands in any number and order, `pack` with versions of three shapes and the three kinds of prefix |

`CHECK_DEADLOCK FALSE` is set for `processes` alone: a command that waits for an endless
writer may wait for ever, as it may in a shell.

Assumptions of `MCNobTool`, which TLC evaluates: `is_valid_semver` accepts of all strings of
up to six characters those of its shape; views of all texts of up to four characters are cut
at delimiters, trimmed and stripped of affixes as the names of the functions say.

Runs that find a disagreement between the code and what is said of it (the findings of
`PROJECT.json`):

| run | what is said | what happens |
|---|---|---|
| `wide` | tests: 64-bit values share a "big-endian path" | `hton64` exchanges the halves on every host, so a big-endian host sends the low half first |
| `short` | README: read, then deserialize | a `read` that ends inside the stream yields other messages than were sent |
| `tight` | `da_append` grows a full array | at capacity 1, `1 + 1/2` is 1: the element is written behind the block |
| `literal` | capacity is what the allocation can hold | `sizeof(elem)` of a narrow literal allocates less than the header records |
| `last` | `da_last` gives the element `da_swap_remove` removes | it gives the element that stays |

Other disagreements need no run of their own; a property of a passing run states what the
code does instead:

* `nob.h:564` calls a chain equivalent to a shell command. A command of a chain inherits the
  read end of its own pipe, so it never learns that its reader has ended: `yes | head -n1`
  leaves `yes` running (`NoBrokenPipe`).
* `README.md:102` says that `nob` recompiles itself when `nob.c` changes. An edit in the
  second in which the compiler ends is never noticed (`QuietEditsAreBuilt`).
* `nob_copy_directory_recursively` and the walk test `type < 0` on an unsigned type: an entry
  whose lookup fails, one that is gone or one that is there, aborts the copy, and is given to
  the function of a walk with the type -1 (`AbortsForCause`, `VisitsInOrder`). If it is a
  directory, the walk does not go into it and still returns true (`VisitsAll`).
* `README.md:97-98` lists `docs` and `valgrind` as commands to run after bootstrapping: in a
  fresh tree they fail, since they make a directory inside `.build` only. `pack` with the name
  of a directory as its prefix fails, since nothing makes that directory (`Hopeless`,
  `FailsForCause`). It succeeds with a prefix that leads to a directory that is there: with
  `.`, the staging directory itself, and with `..`, where all it copied stays behind
  (`PackedWhole`).
* `ar rcs` keeps members whose source is gone (`LibsAreCurrent`).
* `nob.c:87` names the semver grammar; an empty prerelease or build part, as in `1.0.0-`, is
  accepted as well (`Accepted`).
* `nob.h:529` says that `max_procs` of zero implies `nob_nprocs()`; the code adds one. The
  models take the limit as a constant.

`WireLayout` and `DecodesSent` state the `hton64` exchange exactly (for which hosts and
types it occurs), so that they hold and still notice every other error. `WireLayout` says
frame by frame what the stream holds between one start and the next; that the stream is all
of these frames one behind the other follows.

`ImplementsSequences` says that each step of `DynArr` is some step of `DynArrSpec`;
`DoesAsNamed` that it is the one of the same name. The first alone would not notice a
`da_swap_remove` that pops.

`SYMMETRY` is used where no property or action tells the permuted values apart, and only
with safety properties.

### Fairness

`TLVStream` assumes `WF_vars(Deserialize)` and nothing else: once called, the function
runs, since nothing in it waits. No fairness is assumed of the sender or the socket: a
program that never sends or never receives satisfies the specification. `ImplementsChannel`
then says that a stream that was read is delivered or fails.

`NobProcs` assumes that the library runs once it is called, and that each child that has
nothing to wait for ends; what the program calls, and when, is left to it. `CallsReturn` and
`ChildrenEnd` except what waits for a child that writes for ever and is never told to stop.
`MCNobTool` assumes `WF_vars(Tool)`: the tool takes its steps. Nothing is assumed of edits,
the clock, or of whether a compilation succeeds. `NobTree` and `NobBuild` are checked for
safety alone: their steps are those of one thread that waits for nothing but its children.

## What is proved

For every value of the constants, under the assumptions named in the modules. Each module
has one inductive invariant, mostly called `IInv`, that a run of TLC agreed with before it
was proved; a lemma for each action says that it is kept, `StepKeepsIInv` puts them
together, and each theorem is a consequence of the invariant.

* `TLVWireProofs`. `FrameRoundTrip`: the reads of one iteration at the start of a frame find
  its tag and length and return the message, on either byte order. `FrameCrosses`: between
  any two hosts the message comes back as it was sent, or, of 8 bytes and between different
  orders, with its halves exchanged. `FrameLayout`: the frame is the documented one, but for
  the 8-byte exchange of big-endian hosts. `Hton64OwnInverse`: the comment in `ntoh64`. The
  argument goes through `InMemory` being its own inverse and the four digits of the length.
* `TLVStreamProofs`. All invariants of `TLVStream`, for streams of any length, cut anywhere,
  with anything behind the bytes read. `IInv` gives `TypeOK`, `ArrayHasRoom` and
  `HeaderPerMessage`: it adds to the types that the capacity is 0 or at least 8 (at 1 the
  growth by half stands still); nothing is assumed of the lengths that the loop reads from
  foreign bytes. `StreamInv` gives `WireLayout`, `DecodesSent`, `OverrunIffCut`,
  `OneMessagePerFrame` and `RefusesOnlyUnknown`: each frame lies where the one before it ends
  (`Framed`), the receiver has a prefix of the stream (`Prefix`), and as long as whole frames
  last, the offset is the start of the frame behind the last one decoded (`Progress`); a turn
  of the loop that meets a cut frame leaves the loop or reaches the end of what was read.
  `StreamStepsChannel` is the safety part of the refinement: if the read gets the whole
  stream and the hosts have one byte order, every step is one of `TLVChannel` or a stutter.
* `DynArrProofs`. `TypeOK` and `ReserveHonoured` for programs that keep arrays from the
  capacity of one; `WritesInBounds` and `CapacityHonest` if, in addition, no appended
  expression is narrower than an element. The runs `tight` and `literal` show that neither
  condition can be dropped. `BlockInv` says that the block has at least `capacity` slots,
  which is what a write within the capacity needs, and that the capacity is never 1.
  Under the same conditions each macro is the operation of its name of `DynArrSpec`
  (`MacrosDoAsNamed`), and `DynArr` implements `DynArrSpec` (`ArraysAreSequences`); the
  mapping takes the first `count` slots for the sequence, so what each proof compares is
  elements, index by index.
* `TLVOwnershipProofs`. All of `TLVOwnership`, for any number of Buffers, messages and
  blocks. `IInv` adds to `NoMisuse` that what is allocated is what the Buffers, the elements,
  the array, the popped message and the C strings hold (`Accounted`), each in one place
  (`BuffersDiffer`, `ElemsDiffer`), that plain messages own nothing, and that a view is of a
  payload that is held.
* `NobProcsProofs`. All safety properties of `NobProcs`, for any number of children (at
  least one), any `max_procs` and any redirections: `TypeOK`, `ListHonest`, `NoFdLeft` and
  the action properties `FlushTellsAll` and `NoBrokenPipe`. `IInv` says at which places of
  which function the tool holds which descriptors (`ToolFds`, `ChainInput`), how far the
  throttle and the flush have come in the list (`Calls`, `Listed`), that what was reaped and
  dropped from the list ended well or the failure is noted (`FlushKnows`), and that a member
  of a chain holds the read end of the pipe it writes into (`FloodsOpen`).
* `NobBuildProofs`. All of `NobBuild`, for any sources, tests, versions and number of
  changes. The list of the steps that are left is the program counter, so `IInv` says of the
  head of the list what the steps before it have done: which sources are collected and
  compiled (`Sources`), which libraries are done (`Libs`), which tests are tried (`Tested`),
  what is in the staging directory (`Packed`), and what has ruled a failure out or caused it
  (`Caused`). That a step is reached only behind the one it relies on is a property of the
  lists of `StepsOf` (`Straight`, `Owns`, `Ends`), proved for each command in `Plans` and kept
  by taking the head off. A second command may begin in whatever a killed one left.
  `SemverShape` is an induction: what the loop of `is_valid_semver()` knows after so many
  characters (`Knows`), it knows after one more, hence for a version of any length
  (`CountedUp`, which takes the smallest counterexample).
* `NobTreeProofs`. All of `NobTree`, for any finite set of paths, any trees on it, temporary
  memory of any size, and whatever vanishes and fails, lookups of what is there included. `IInv` speaks of every frame of the
  stack. Of a copy (`CopyInv`): the frames are the way to the entry that is copied
  (`CopyStack`); the names that a loop has still to come to are in cells of `nob_temp` that
  no later call reuses, since each of those began with a higher mark (`Kids`); as long as
  nothing vanishes, the marks are the names and dots of the directories above (`Amount`, which
  is why an abort has a cause when no lookup failed); and each entry of a directory on the way is still to come, is
  the one at work, or is copied with all below it (`Going`). Of a walk (`WalkInv`): the path
  of each frame is what the string builder holds up to its mark (`PathHeld`); nothing of what
  a call has still to come to is visited (`CallAt`, with `Fresh`); what it has behind it is
  seen to the end (`CoveredAt`). The proofs take one action at a time: `CopyReturns` and
  `WalkReturns` are about the end of a call, where what it has done becomes what its caller
  has behind it, and `WalkTopped` and `AboveKept` about what the frames above keep meanwhile.
* `NobHeaderProofs`, of the rebuild. `TypeOK`, `SomeBinary` and `QuietEditsAreBuilt` for any number of edits
  and seconds. `IInv` says where a whole binary is at each step (`BinaryKept`), that what was
  read of `nob.c` is what is in it unless it was edited at or after that second (`SeenBy`),
  for `nob`, `nob.old` and the compiler alike, and that a comparison stays true while the
  tool works (`Compared`). `QuietEditsAreBuilt` alone is not inductive: a failed compilation
  puts an older binary back.
* `NobHeaderProofs`, of string views. Chopping a view, by whatever count, class or delimiter, splits it in
  two views of the same text (`ChopsTile`), trimming leaves a part of it (`TrimsStayInside`):
  no count runs below zero. What the run `tool` evaluates over short texts holds of all: a
  piece holds no delimiter and only that one is lost (`PiecesRejoin`), trimming takes off the
  white space and nothing else (`TrimTakesBlanks`), a text has an affix exactly if it is it and
  what chopping leaves (`ChopsPrefixes`, `ChopsSuffixes`). All rest on where the loops end
  (`LeadingIs`, `TrailingIs`): the indices a loop passes have no gap, so their number is the
  first it does not pass, which is found by well-foundedness of the numbers (`Counted`).

Only model-checked: liveness (`Delivers` of `TLVChannel` within `ImplementsChannel`,
`CallsReturn`, `ChildrenEnd`, `RunsEnd`), which is out of the provers' reach. What
`MCNobTool` evaluates of operators over bounded inputs is proved for inputs of any length.

## Not modelled

* `T_BOL` bytes other than 0 and 1 from a foreign sender, which a C `bool` cannot hold.
* `malloc(0)` returning NULL for an empty payload, as C allows: `deserialize` would end the
  program; the models take the allocator to return a block.
* Lengths near `SIZE_MAX`; the sums `5 + len` are of 64-bit integers and `len` has 32 bits.
* `da_pop` of an empty array, `da_extend` from the array itself, `da_copy` of an array of
  messages: listed as hazards, excluded by the guards.
* `strtype`, the wording of errors, the tests.
* Of `nob.h`: `nob_read_entire_file` and `nob_write_entire_file` (straight I/O, the first
  unused), string builders and `nob_da_*` arrays (appends; sequences in `NobTree`), the
  wrappers marked deprecated, logging, and everything for Windows. Signals other than those
  that end a child, and children that are stopped.
* Of `nob.c`: which flags are passed to which program; `help` and unknown commands, which
  print. `nob_nprocs`. Two runs of the tool at once.

## What is left

Every invariant and every action property that a run checks of the code is proved. What may
still be added is more of `nob.h`'s appends, of which only sequences are modelled.
