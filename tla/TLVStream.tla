----------------------------- MODULE TLVStream ------------------------------
(***************************************************************************)
(* One stream from its sender to its receiver: the sender serializes       *)
(* messages and joins the frames with buf_append, the stream crosses a     *)
(* socket, and the receiver hands what one read() returned to              *)
(* deserialize(), whose loop is modelled one iteration to a step.          *)
(*                                                                         *)
(* The receive buffer may be longer than what was read into it: its tail   *)
(* holds old bytes.  deserialize() never compares a read against buf.len,  *)
(* so reading past it finds those bytes, or, past the allocation, faults.  *)
(***************************************************************************)
EXTENDS TLVWire, DynArrHeader, FiniteSets

CONSTANTS
  Hosts,        \* pairs <<sender, receiver>> of byte orders
  Outgoing,     \* messages the sender may serialize
  Foreign,      \* messages only another implementation of the layout sends: T_NUL, tags to come
  MaxMessages,  \* bound: messages of one stream
  ShortReads,   \* may read() return less than the whole stream?
  Residues,     \* what may lie in the receive buffer behind the bytes read
  AllocMayFail  \* may malloc and realloc return NULL?

ASSUME StreamAssumption ==
  /\ Hosts \subseteq ByteOrder \X ByteOrder
  /\ \A m \in Outgoing : IsMessage(m) /\ m.type # T_NUL
  /\ \A m \in Foreign :
       /\ m \in [type : (Byte \ Type) \cup {T_NUL}, val : Seq(Byte)]
       /\ m.type = T_NUL => m.val = << >>
       /\ Len(m.val) <= LengthLimit
  /\ MaxMessages \in Nat
  /\ ShortReads \in BOOLEAN /\ AllocMayFail \in BOOLEAN
  /\ Residues \subseteq Seq(Byte)

VARIABLES
  hosts,     \* the byte orders of the two hosts
  pc,        \* where the program is
  sent,      \* history: the messages of the stream, in order
  starts,    \* history: the offset in the stream at which each frame begins
  stream,    \* the sender's Buffer
  memory,    \* the receiver's buffer: the bytes read, then the residue
  buflen,    \* buf.len: the number of bytes read
  offset,    \* the loop variable of deserialize()
  messages,  \* the elements of the dynamic array deserialize() builds
  capacity,  \* the capacity in that array's header
  overrun    \* history: has deserialize() read past buf.len?

vars == << hosts, pc, sent, starts, stream, memory, buflen, offset, messages,
           capacity, overrun >>

sender   == << hosts, sent, starts, stream >>
received == << memory, buflen >>
result   == << offset, messages, capacity, overrun >>

Sender   == hosts[1]
Receiver == hosts[2]

TypeOK ==
  /\ hosts \in Hosts
  /\ pc \in {"build", "loop", "done", "sender exit", "receiver exit", "fault"}
  /\ sent \in Seq(Outgoing \cup Foreign)
  /\ starts \in Seq(Nat)
  /\ stream \in Seq(Byte)
  /\ memory \in Seq(Byte)
  /\ buflen \in 0 .. Len(memory)
  /\ offset \in Nat
  /\ messages \in Seq([type : Type, val : Seq(Byte)])
  /\ capacity \in Nat
  /\ overrun \in BOOLEAN

Init ==
  /\ hosts \in Hosts
  /\ pc = "build"
  /\ sent = << >> /\ starts = << >> /\ stream = << >>
  /\ memory = << >> /\ buflen = 0
  /\ offset = 0 /\ messages = << >> /\ capacity = FreshCapacity /\ overrun = FALSE

-----------------------------------------------------------------------------
(* The sender. *)

\* buf_append(base, after): the bytes of after behind those of base.
\* (BufPrepend: the two buffers the other way round.)
BufPrepend(base, after) == after \o base

BufAppend(base, after) == base \o after

FrameOf(m) == IF m \in Outgoing THEN Serialize(Sender, m) ELSE DocumentedFrame(m)

\* stream = buf_append(stream, serialize(m)); the first frame is the stream itself.
Send(m) ==
  /\ pc = "build"
  /\ Len(sent) < MaxMessages
  /\ ~TooBig(m)
  /\ sent'   = Append(sent, m)
  /\ starts' = Append(starts, Len(stream))
  /\ stream' = BufAppend(stream, FrameOf(m))
  /\ UNCHANGED << hosts, pc, received, result >>

\* complex_serialize refuses a value that does not fit the length field, or one of the
\* allocations returns NULL: both end the sender.
SenderExit ==
  /\ pc = "build"
  /\ Len(sent) < MaxMessages
  /\ AllocMayFail \/ \E m \in Outgoing : TooBig(m)
  /\ pc' = "sender exit"
  /\ UNCHANGED << sender, received, result >>

-----------------------------------------------------------------------------
(* The socket: the receiver's read() gets all of the stream, or some bytes of it. *)

Receive ==
  /\ pc = "build"
  /\ sent # << >>
  /\ \E n \in IF ShortReads THEN 1 .. Len(stream) ELSE {Len(stream)}, r \in Residues :
       /\ memory' = SubSeq(stream, 1, n) \o r
       /\ buflen' = n
  /\ pc' = "loop"
  /\ UNCHANGED << sender, result >>

-----------------------------------------------------------------------------
(* The receiver: deserialize(). *)

\* memcpy(&x, buf.bytes + from, n)
Copied(from, n) == [j \in 1 .. n |-> memory[from + j]]

\* The tag and the length at the loop's current frame.
Tag    == memory[offset + 1]
Length == ReadLength(Receiver, Copied(offset + 1, 4))

\* Does memory end before the iteration has read the n bytes behind its offset?
Beyond(n) == offset + n > Len(memory)
Past(n)   == offset + n > buflen

\* da_append(messages, m), unless the growing realloc fails.
AppendMessage(m) ==
  /\ messages' = Append(messages, m)
  /\ capacity' = CapacityAfterAppend(Len(messages), capacity)

\* The increment of the for loop.  (NextOffsetNoHeader: the header is not skipped.)
NextOffsetNoHeader(len) == offset + len

NextOffset(len) == offset + 5 + len

\* An iteration whose reads all land in the buffer's memory.
ParseFrame ==
  /\ pc = "loop"
  /\ offset < buflen
  /\ ~Beyond(5)
  /\ Known(Tag)
  /\ LET need == BytesRead(Tag, Length)
     IN  /\ ~Beyond(5 + need)
         /\ AppendMessage(Decode(Receiver, Tag, Copied(offset + 5, need)))
         /\ overrun' = (overrun \/ Past(5 + need))
  /\ offset' = NextOffset(Length)
  /\ UNCHANGED << pc, sender, received >>

\* The default case of the switch: the tag is none of the enum's.
BadType ==
  /\ pc = "loop"
  /\ offset < buflen
  /\ ~Beyond(5)
  /\ ~Known(Tag)
  /\ pc' = "receiver exit"
  /\ overrun' = (overrun \/ Past(5))
  /\ UNCHANGED << sender, received, offset, messages, capacity >>

\* A memcpy runs off the end of the receive buffer's memory.
Fault ==
  /\ pc = "loop"
  /\ offset < buflen
  /\ \/ Beyond(5)
     \/ ~Beyond(5) /\ Known(Tag) /\ Beyond(5 + BytesRead(Tag, Length))
  /\ pc' = "fault"
  /\ overrun' = TRUE
  /\ UNCHANGED << sender, received, offset, messages, capacity >>

\* exists() finds NULL: from da_new before the loop, from the malloc of a payload, or from
\* the realloc of a full array.
OutOfMemory ==
  /\ pc = "loop"
  /\ AllocMayFail
  /\ \/ offset = 0
     \/ offset < buflen /\ ~Beyond(5) /\ Tag \in OwningType
     \/ offset < buflen /\ ~Beyond(5) /\ Known(Tag) /\ Len(messages) = capacity
  /\ pc' = "receiver exit"
  /\ UNCHANGED << sender, received, result >>

\* return messages;
Return ==
  /\ pc = "loop"
  /\ offset >= buflen
  /\ pc' = "done"
  /\ UNCHANGED << sender, received, result >>

Deserialize == ParseFrame \/ BadType \/ Fault \/ OutOfMemory \/ Return

Terminated ==
  /\ pc \in {"done", "sender exit", "receiver exit", "fault"}
  /\ UNCHANGED vars

Next ==
  \/ \E m \in Outgoing \cup Foreign : Send(m)
  \/ SenderExit
  \/ Receive
  \/ Deserialize
  \/ Terminated

\* Once called, deserialize() runs: nothing in it waits.
Spec == Init /\ [][Next]_vars /\ WF_vars(Deserialize)

-----------------------------------------------------------------------------
(* Properties. *)

\* The offset at which frame i ends, and the frames that arrived whole.
FrameEnd(i) == IF i < Len(starts) THEN starts[i + 1] ELSE Len(stream)
WholeFrames == {i \in 1 .. Len(sent) : FrameEnd(i) <= buflen}

\* Did the read end between two frames?
CutBetweenFrames == \E i \in WholeFrames : FrameEnd(i) = buflen

\* The message, or the same with the halves of its 8-byte value exchanged.
Wide(m) == m.type \in Type \ OwningType /\ FixedWidth[m.type] = 8

ExchangedIf(wrong, m) ==
  IF Wide(m) /\ wrong
  THEN [m EXCEPT !.val = SubSeq(m.val, 5, 8) \o SubSeq(m.val, 1, 4)]
  ELSE m

\* The stream is the frames tlv.h documents, each from the end of the one before it to the
\* start of the next, whatever was appended in whatever order (buf_append, serialize_*); but
\* the hton64 of a big-endian sender exchanges the halves of its 8-byte values (see
\* BigEndianWire).
WireLayout ==
  /\ DOMAIN starts = DOMAIN sent
  /\ IF sent = << >> THEN stream = << >> ELSE starts[1] = 0
  /\ \A i \in DOMAIN sent :
       SubSeq(stream, starts[i] + 1, FrameEnd(i)) =
         DocumentedFrame(ExchangedIf(Sender = "big", sent[i]))

\* Every frame that arrived whole comes out of deserialize() as the message that was
\* serialized, at its own index; but between hosts of different order the halves of its
\* 8-byte values are exchanged.
DecodesSent ==
  \A i \in DOMAIN messages :
    i \in WholeFrames => messages[i] = ExchangedIf(Sender # Receiver, sent[i])

\* deserialize() reads past buf.len exactly when the read cut a frame in two: for frames of
\* the library its unchecked reads are safe as long as whole frames are handed to it.
OverrunIffCut ==
  pc \in {"done", "fault"} => (overrun <=> ~CutBetweenFrames)

\* A message for each whole frame, and never more than one beyond them: the loop neither
\* skips a frame nor finds one inside another's value.
OneMessagePerFrame ==
  /\ Len(messages) <= Cardinality(WholeFrames) + 1
  /\ pc = "done" => Cardinality(WholeFrames) <= Len(messages)

\* With memory to spare, deserialize() ends the program only at a frame whose tag is not in
\* the enum, and has decoded all the frames in front of it.
RefusesOnlyUnknown ==
  pc = "receiver exit" /\ ~AllocMayFail /\ CutBetweenFrames =>
    /\ Len(messages) < Cardinality(WholeFrames)
    /\ sent[Len(messages) + 1].type \notin Type

\* The array of deserialize() always has room for its elements, and never the capacity of
\* one at which da_append does not grow.
ArrayHasRoom == Len(messages) <= capacity /\ capacity # 1

\* Each message costs its frame's header: decoding ends, and the array stays in proportion
\* to the bytes received, even when every value is empty.
HeaderPerMessage == 5 * Len(messages) <= offset

\* The receiver sees all of the stream or nothing, in order, and in the end one of the two.
Channel == INSTANCE TLVChannel WITH
  Item   <- Outgoing \cup Foreign,
  outbox <- sent,
  inbox  <- IF pc = "done" THEN messages ELSE << >>,
  state  <- CASE pc = "build" -> "open"
              [] pc = "loop" -> "closed"
              [] pc = "done" -> "delivered"
              [] pc \in {"sender exit", "receiver exit"} -> "failed"
              [] pc = "fault" -> "fault"

ImplementsChannel == Channel!Spec

\* tests/test_tlv.c: "s64 and tim share the same 64-bit big-endian path".
BigEndianWire ==
  stream = FlattenSeq([i \in DOMAIN sent |-> DocumentedFrame(sent[i])])

\* README.md, Receiving: "read from socket", "deserialize", "access by type".
ReadThenDeserialize == pc = "done" => messages = sent

=============================================================================
