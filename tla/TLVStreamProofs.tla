-------------------------- MODULE TLVStreamProofs --------------------------
(***************************************************************************)
(* What holds of every stream, of whatever messages, cut anywhere, between *)
(* any two hosts: the types, the room in the array of deserialize() and    *)
(* the pace of its offset (IInv); where the frames lie, what is decoded of *)
(* them, and when a read runs past buf.len (StreamInv); and that the steps *)
(* are those of TLVChannel, when the read gets the whole stream.           *)
(***************************************************************************)
EXTENDS TLVStream, TLVWireProofs, FiniteSetTheorems

-----------------------------------------------------------------------------
(* Sequences. *)

LEMMA ElementsOf ==
  ASSUME NEW S, NEW s \in Seq(S)
  PROVE  Len(s) \in Nat /\ \A i \in 1 .. Len(s) : s[i] \in S
  OBVIOUS

LEMMA Appended ==
  ASSUME NEW S, NEW s \in Seq(S), NEW e \in S
  PROVE  Append(s, e) \in Seq(S) /\ Len(Append(s, e)) = Len(s) + 1
  OBVIOUS

-----------------------------------------------------------------------------
(* What a step appends to the stream, and what the loop reads of memory. *)

LEMMA FrameOfInSeq ==
  ASSUME TypeOK, NEW m \in Outgoing \cup Foreign, ~TooBig(m)
  PROVE  FrameOf(m) \in Seq(Byte)
<1>1. Sender \in ByteOrder
  BY StreamAssumption DEF TypeOK, Sender
<1>2. CASE m \in Outgoing
  <2>1. Serializable(m)
    BY <1>2, StreamAssumption DEF Serializable
  <2>2. Serialize(Sender, m) \in Seq(Byte)
    BY <1>1, <2>1, FrameRoundTrip, Zenon
  <2> QED
    BY <1>2, <2>2 DEF FrameOf
<1>3. CASE m \notin Outgoing
  <2>1. m.type \in Byte /\ m.val \in Seq(Byte) /\ Len(m.val) \in Nat /\ Len(m.val) <= LengthLimit
    BY <1>3, StreamAssumption DEF Type, T_NUL, T_ERR, Byte
  <2>2. FourDigits(Len(m.val))
    BY <2>1, LengthLimitAssumption, ShorterFits
  <2>3. LengthWord(Len(m.val)) \in Seq(Byte)
    BY <2>1, <2>2, LengthDigits DEF Word
  <2>4. << m.type >> \in Seq(Byte)
    BY <2>1
  <2> QED
    BY <1>3, <2>1, <2>3, <2>4 DEF FrameOf, DocumentedFrame
<1> QED
  BY <1>2, <1>3

LEMMA CopiedBytes ==
  ASSUME NEW from \in Nat, NEW n \in Nat, memory \in Seq(Byte), from + n <= Len(memory)
  PROVE  Copied(from, n) \in Seq(Byte) /\ Len(Copied(from, n)) = n
<1>1. \A j \in 1 .. n : memory[from + j] \in Byte
  OBVIOUS
<1> QED
  BY <1>1 DEF Copied

\* Four numbers denote one, and so do any four bytes, which is a length.
LEMMA FourDigitsDenote ==
  ASSUME NEW word, word[1] \in Nat, word[2] \in Nat, word[3] \in Nat, word[4] \in Nat
  PROVE  LengthOf(word) \in Nat
  BY SMTT(30) DEF LengthOf

LEMMA LengthIsNat ==
  ASSUME NEW order \in ByteOrder, NEW bytes \in Seq(Byte), Len(bytes) = 4
  PROVE  ReadLength(order, bytes) \in Nat
<1>1. Hton(order, InMemory(order, bytes)) = bytes
  BY MemoryTwice, Zenon
<1>2. bytes[1] \in Nat /\ bytes[2] \in Nat /\ bytes[3] \in Nat /\ bytes[4] \in Nat
  <2>1. \A i \in 1 .. Len(bytes) : bytes[i] \in Byte
    BY ElementsOf, Zenon
  <2>2. 1 \in 1 .. 4 /\ 2 \in 1 .. 4 /\ 3 \in 1 .. 4 /\ 4 \in 1 .. 4
    OBVIOUS
  <2>3. bytes[1] \in Byte /\ bytes[2] \in Byte /\ bytes[3] \in Byte /\ bytes[4] \in Byte
    BY <2>1, <2>2, Zenon
  <2>4. \A x \in Byte : x \in Nat
    BY DEF Byte
  <2> QED
    BY <2>3, <2>4, Zenon
<1>3. LengthOf(bytes) \in Nat
  BY <1>2, FourDigitsDenote, Zenon
<1> QED
  BY <1>1, <1>3, Zenon DEF ReadLength

LEMMA FromNetworkWord ==
  ASSUME NEW order \in ByteOrder, NEW w \in Seq(Byte), Len(w) \in {1, 2, 4, 8}
  PROVE  FromNetwork(order, w) \in Seq(Byte)
<1>1. CASE Len(w) = 1
  BY <1>1 DEF FromNetwork
<1>2. CASE Len(w) \in {2, 4}
  <2>1. FromNetwork(order, w) = Hton(order, w)
    BY <1>2, NarrowWords, Zenon
  <2>2. Hton(order, w) = InMemory(order, w) /\ InMemory(order, w) \in Seq(Byte)
    BY MemoryTwice, Zenon
  <2> QED
    BY <2>1, <2>2
<1>3. CASE Len(w) = 8
  <2>1. w \in Word(8)
    BY <1>3 DEF Word
  <2>2. Hton64(order, w) \in Seq(Byte)
    BY <2>1, Hton64OwnInverse DEF Word
  <2>3. FromNetwork(order, w) = Ntoh64(order, w)
    BY <1>3 DEF FromNetwork
  <2> QED
    BY <2>2, <2>3 DEF Ntoh64
<1> QED
  BY <1>1, <1>2, <1>3

\* Whatever the bytes are, the case of a known tag builds a Message of that tag.
LEMMA DecodeTyped ==
  ASSUME NEW order \in ByteOrder, NEW tag \in Type, NEW len \in Nat,
         NEW bytes \in Seq(Byte), Len(bytes) = BytesRead(tag, len)
  PROVE  Decode(order, tag, bytes) \in [type : Type, val : Seq(Byte)]
<1>1. CASE tag \in OwningType \/ bytes = << >>
  BY <1>1 DEF Decode
<1>2. CASE tag \notin OwningType /\ bytes # << >>
  <2>1. Len(bytes) \in {0, 1, 2, 4, 8}
    BY <1>2, Widths DEF BytesRead
  <2>2. Len(bytes) # 0
    BY <1>2
  <2>3. InMemory(order, bytes) \in Seq(Byte) /\ Len(InMemory(order, bytes)) = Len(bytes)
    BY MemoryTwice, Zenon
  <2>4. FromNetwork(order, InMemory(order, bytes)) \in Seq(Byte)
    BY <2>1, <2>2, <2>3, FromNetworkWord
  <2> QED
    BY <1>2, <2>4 DEF Decode
<1> QED
  BY <1>1, <1>2

LEMMA ReadSize ==
  ASSUME NEW tag, NEW len \in Nat
  PROVE  BytesRead(tag, len) \in Nat
<1>1. CASE tag \in Type \ OwningType
  BY <1>1, Widths DEF BytesRead
<1>2. CASE tag \notin Type \ OwningType
  BY <1>2 DEF BytesRead
<1> QED
  BY <1>1, <1>2

-----------------------------------------------------------------------------
(* The inductive invariant. *)

\* The array never has a capacity between one and seven, and each message took at least
\* the five bytes of its header from the stream.
IInv ==
  /\ TypeOK
  /\ capacity = 0 \/ capacity >= 8
  /\ Len(messages) <= capacity
  /\ 5 * Len(messages) <= offset

LEMMA LengthsInNat ==
  ASSUME IInv
  PROVE  Len(messages) \in Nat /\ Len(stream) \in Nat
<1>1. messages \in Seq([type : Type, val : Seq(Byte)]) /\ stream \in Seq(Byte)
  BY DEF IInv, TypeOK
<1> QED
  BY <1>1, ElementsOf, Zenon

\* One turn of the loop, from the numbers it reads.
LEMMA ParseKeepsIInv ==
  ASSUME IInv, ParseFrame
  PROVE  IInv'
<1> DEFINE need == BytesRead(Tag, Length)
           m    == Decode(Receiver, Tag, Copied(offset + 5, need))
<1>1. /\ Receiver \in ByteOrder /\ memory \in Seq(Byte) /\ offset \in Nat
      /\ offset + 5 <= Len(memory)
  BY StreamAssumption DEF IInv, TypeOK, Receiver, ParseFrame, Beyond
<1>2. Length \in Nat
  <2>1. Copied(offset + 1, 4) \in Seq(Byte) /\ Len(Copied(offset + 1, 4)) = 4
    <3>1. offset + 1 \in Nat /\ 4 \in Nat /\ (offset + 1) + 4 <= Len(memory)
      BY <1>1
    <3> QED
      BY <1>1, <3>1, CopiedBytes, Zenon
  <2> QED
    BY <1>1, <2>1, LengthIsNat DEF Length
<1>3. need \in Nat /\ Tag \in Type /\ offset + (5 + need) <= Len(memory)
  <2>1. need \in Nat
    BY <1>2, ReadSize
  <2> QED
    BY <1>1, <2>1 DEF ParseFrame, Known, Beyond
<1>4. m \in [type : Type, val : Seq(Byte)]
  <2>1. Copied(offset + 5, need) \in Seq(Byte) /\ Len(Copied(offset + 5, need)) = need
    BY <1>1, <1>3, CopiedBytes
  <2> QED
    BY <1>1, <1>2, <1>3, <2>1, DecodeTyped
<1>5. /\ messages' = Append(messages, m)
      /\ capacity' = CapacityAfterAppend(Len(messages), capacity)
      /\ overrun' = (overrun \/ Past(5 + need))
      /\ offset' = offset + 5 + Length
      /\ UNCHANGED << pc, hosts, sent, starts, stream, memory, buflen >>
  BY DEF ParseFrame, AppendMessage, NextOffset, sender, received
<1> HIDE DEF m, need
<1>6. /\ messages' \in Seq([type : Type, val : Seq(Byte)])
      /\ Len(messages') = Len(messages) + 1
  <2>1. messages \in Seq([type : Type, val : Seq(Byte)])
    BY DEF IInv, TypeOK
  <2> QED
    BY <1>4, <1>5, <2>1, Appended, Zenon
<1>7. /\ capacity' \in Nat /\ Len(messages') <= capacity'
      /\ capacity' = 0 \/ capacity' >= 8
  <2>1. capacity \in Nat /\ Len(messages) \in Nat /\ Len(messages) <= capacity
        /\ (capacity = 0 \/ capacity >= 8)
    BY LengthsInNat, Zenon DEF IInv, TypeOK
  <2> QED
    BY <1>5, <1>6, <2>1 DEF CapacityAfterAppend, GrownCapacity
<1>8. offset' \in Nat /\ 5 * Len(messages') <= offset'
  <2>1. Len(messages) \in Nat /\ 5 * Len(messages) <= offset
    BY LengthsInNat, Zenon DEF IInv
  <2> QED
    BY <1>1, <1>2, <1>5, <1>6, <2>1
<1>9. overrun' \in BOOLEAN
  BY <1>5, Zenon DEF IInv, TypeOK
<1> QED
  BY <1>5, <1>6, <1>7, <1>8, <1>9 DEF IInv, TypeOK

LEMMA SendKeepsIInv ==
  ASSUME IInv, NEW m \in Outgoing \cup Foreign, Send(m)
  PROVE  IInv'
<1>1. FrameOf(m) \in Seq(Byte)
  BY FrameOfInSeq DEF IInv, Send
<1>2. stream' \in Seq(Byte)
  BY <1>1 DEF IInv, TypeOK, Send, BufAppend
<1>3. sent' \in Seq(Outgoing \cup Foreign) /\ starts' \in Seq(Nat)
  BY DEF IInv, TypeOK, Send
<1> QED
  BY <1>2, <1>3 DEF IInv, TypeOK, Send, received, result

LEMMA ReceiveKeepsIInv ==
  ASSUME IInv, Receive
  PROVE  IInv'
<1>1. PICK n \in IF ShortReads THEN 1 .. Len(stream) ELSE {Len(stream)}, r \in Residues :
         memory' = SubSeq(stream, 1, n) \o r /\ buflen' = n
  BY Zenon DEF Receive
<1>2. n \in 0 .. Len(stream)
  <2>1. Len(stream) \in Nat
    BY LengthsInNat, Zenon
  <2> QED
    BY <2>1, StreamAssumption
<1>3. r \in Seq(Byte) /\ stream \in Seq(Byte)
  BY StreamAssumption DEF IInv, TypeOK
<1>4. SubSeq(stream, 1, n) \in Seq(Byte) /\ Len(SubSeq(stream, 1, n)) = n
  BY <1>2, <1>3
<1>5. memory' \in Seq(Byte) /\ buflen' \in 0 .. Len(memory')
  BY <1>2, <1>1, <1>3, <1>4
<1> QED
  BY <1>5 DEF IInv, TypeOK, Receive, sender, result

LEMMA StepKeepsIInv ==
  ASSUME IInv, [Next]_vars
  PROVE  IInv'
<1>1. CASE \E m \in Outgoing \cup Foreign : Send(m)
  BY <1>1, SendKeepsIInv
<1>2. CASE Receive
  BY <1>2, ReceiveKeepsIInv
<1>3. CASE ParseFrame
  BY <1>3, ParseKeepsIInv
<1>4. CASE SenderExit \/ BadType \/ Fault \/ OutOfMemory \/ Return
  <2>1. /\ pc' \in {"done", "sender exit", "receiver exit", "fault"}
        /\ UNCHANGED << hosts, sent, starts, stream, memory, buflen, offset, messages, capacity >>
    BY <1>4 DEF SenderExit, BadType, Fault, OutOfMemory, Return, sender, received, result
  <2>2. overrun' \in BOOLEAN
    BY <1>4, Zenon DEF SenderExit, BadType, Fault, OutOfMemory, Return, result, IInv, TypeOK
  <2> QED
    BY <2>1, <2>2 DEF IInv, TypeOK
<1>5. CASE Terminated \/ UNCHANGED vars
  BY <1>5 DEF Terminated, vars, IInv, TypeOK
<1> QED
  BY <1>1, <1>2, <1>3, <1>4, <1>5 DEF Next, Deserialize

LEMMA InitIInv == Init => IInv
<1>1. ASSUME NEW S PROVE << >> \in Seq(S) /\ Len(<< >>) = 0
  OBVIOUS
<1>2. Init => TypeOK
  <2>1. Init => /\ sent \in Seq(Outgoing \cup Foreign) /\ starts \in Seq(Nat)
                /\ stream \in Seq(Byte) /\ memory \in Seq(Byte)
                /\ messages \in Seq([type : Type, val : Seq(Byte)])
    BY <1>1, Zenon DEF Init
  <2>2. Init => buflen \in 0 .. Len(memory)
    BY <1>1 DEF Init
  <2>3. Init => offset \in Nat /\ capacity \in Nat
    BY DEF Init, FreshCapacity
  <2>4. Init => hosts \in Hosts /\ overrun \in BOOLEAN
    BY Zenon DEF Init
  <2>5. Init => pc = "build"
    BY DEF Init
  <2> QED
    BY <2>1, <2>2, <2>3, <2>4, <2>5, Zenon DEF TypeOK
<1> QED
  BY <1>1, <1>2 DEF Init, IInv, FreshCapacity

LEMMA IInvAlways == Spec => []IInv
  BY InitIInv, StepKeepsIInv, PTL DEF Spec

-----------------------------------------------------------------------------
(* What is decoded: the second inductive invariant. *)

\* The frames lie one behind the other, from the first byte of the stream to the last.
Framed ==
  /\ Len(starts) = Len(sent)
  /\ IF sent = << >> THEN stream = << >> ELSE starts[1] = 0
  /\ \A i \in 1 .. Len(sent) :
       /\ ~TooBig(sent[i])
       /\ FrameEnd(i) = starts[i] + Len(FrameOf(sent[i]))
       /\ FrameEnd(i) <= Len(stream)
       /\ \A k \in 1 .. Len(FrameOf(sent[i])) : stream[starts[i] + k] = FrameOf(sent[i])[k]
       /\ \A j \in 1 .. Len(sent) : i < j => FrameEnd(i) <= starts[j]

\* What was read is how the stream begins.
Prefix ==
  IF pc \in {"build", "sender exit"}
  THEN memory = << >> /\ buflen = 0 /\ messages = << >> /\ offset = 0 /\ ~overrun
  ELSE /\ 0 < buflen /\ buflen <= Len(stream)
       /\ ~ShortReads => buflen = Len(stream)
       /\ \A k \in 1 .. buflen : memory[k] = stream[k]

\* The read ended inside of frame i.
Cut(i) ==
  /\ i \in 1 .. Len(sent)
  /\ starts[i] < buflen
  /\ buflen < FrameEnd(i)

\* The first n frames arrived whole, and were decoded.
Decoded(n) ==
  /\ n <= Len(sent)
  /\ \A i \in 1 .. n :
       /\ FrameEnd(i) <= buflen
       /\ messages[i] = ExchangedIf(Sender # Receiver, sent[i])

\* The loop is at the first byte behind those frames, having read nothing else.
AtFrame ==
  /\ Decoded(Len(messages))
  /\ offset = IF messages = << >> THEN 0 ELSE FrameEnd(Len(messages))
  /\ ~overrun

\* The loop took a frame that was cut for a message.
PastCut ==
  /\ messages # << >>
  /\ Decoded(Len(messages) - 1)
  /\ Cut(Len(messages))
  /\ buflen < offset
  /\ overrun

Progress ==
  /\ pc = "loop" => AtFrame \/ PastCut
  /\ pc = "done" => buflen <= offset /\ (AtFrame \/ PastCut)
  /\ pc = "fault" => Decoded(Len(messages)) /\ Cut(Len(messages) + 1) /\ overrun
  /\ pc = "receiver exit" =>
       \/ AllocMayFail /\ (AtFrame \/ PastCut)
       \/ /\ Decoded(Len(messages))
          /\ Len(messages) < Len(sent)
          /\ starts[Len(messages) + 1] = offset /\ offset < buflen
          /\ sent[Len(messages) + 1].type \notin Type

StreamInv == Framed /\ Prefix /\ Progress

\* What the receiver finds in the bytes of a frame, be it of this library or not.
LEMMA FrameFacts ==
  ASSUME TypeOK, NEW m \in Outgoing \cup Foreign, ~TooBig(m)
  PROVE  LET f == FrameOf(m)
             n == Len(m.val)
         IN  /\ f \in Seq(Byte) /\ n \in Nat /\ Len(f) = 5 + n
             /\ f[1] = m.type
             /\ ReadLength(Receiver, [j \in 1 .. 4 |-> f[1 + j]]) = n
             /\ Known(m.type) =>
                  /\ BytesRead(m.type, n) = n
                  /\ Decode(Receiver, m.type, [j \in 1 .. n |-> f[5 + j]]) =
                       ExchangedIf(Sender # Receiver, m)
<1>1. Sender \in ByteOrder /\ Receiver \in ByteOrder
  BY StreamAssumption DEF TypeOK, Sender, Receiver
<1>2. CASE m \in Outgoing
  <2>1. Serializable(m) /\ IsMessage(m)
    BY <1>2, StreamAssumption DEF Serializable
  <2>2. FrameOf(m) = Serialize(Sender, m)
    BY <1>2 DEF FrameOf
  <2>3. m.val \in Seq(Byte) /\ Len(m.val) \in Nat /\ m.type \in Type
        /\ (m.type \notin OwningType => Len(m.val) = FixedWidth[m.type])
    BY <2>1, SerializableFacts, Zenon
  <2>4. (IF Sender # Receiver /\ m.type \notin OwningType /\ Len(m.val) = 8
         THEN [m EXCEPT !.val = Exchanged(m.val)] ELSE m) = ExchangedIf(Sender # Receiver, m)
    BY <2>3 DEF ExchangedIf, Wide, Exchanged
  <2> DEFINE f == Serialize(Sender, m)
             n == ReadLength(Receiver, [j \in 1 .. 4 |-> f[1 + j]])
             d == IF Sender # Receiver /\ m.type \notin OwningType /\ Len(m.val) = 8
                  THEN [m EXCEPT !.val = Exchanged(m.val)] ELSE m
  <2>5. /\ f \in Seq(Byte) /\ Len(f) = 5 + n
        /\ f[1] = m.type /\ n = Len(m.val) /\ BytesRead(f[1], n) = n
        /\ Decode(Receiver, f[1], [j \in 1 .. n |-> f[5 + j]]) = d
    BY <1>1, <2>1, FrameCrosses, Zenon
  <2>6. n = ReadLength(Receiver, [j \in 1 .. 4 |-> f[1 + j]]) /\ f = FrameOf(m)
        /\ d = ExchangedIf(Sender # Receiver, m)
    BY <2>2, <2>4, Zenon
  <2> HIDE DEF f, n, d
  <2> QED
    BY <2>3, <2>5, <2>6, Zenon
<1>3. CASE m \notin Outgoing
  <2> DEFINE f == FrameOf(m)
             l == LengthWord(Len(m.val))
             k == [j \in 1 .. 4 |-> f[1 + j]]
  <2>1. /\ m.type \in Byte /\ m.val \in Seq(Byte) /\ Len(m.val) \in Nat
        /\ Len(m.val) <= LengthLimit
        /\ m.type \in Type => m.type = T_NUL /\ m.val = << >>
        /\ m = [type |-> m.type, val |-> m.val]
    BY <1>3, StreamAssumption DEF Type, T_NUL, T_ERR, Byte
  <2>2. FourDigits(Len(m.val))
    BY <2>1, LengthLimitAssumption, ShorterFits
  <2>3. l \in Word(4) /\ ReadLength(Receiver, l) = Len(m.val)
    BY <1>1, <2>1, <2>2, LengthDigits, LengthRoundTrip
  <2>4. f = (<< m.type >> \o l) \o m.val
    BY <1>3 DEF FrameOf, DocumentedFrame
  <2> HIDE DEF f, l
  <2>5. IsFrame(f, m.type, l, m.val)
    BY <2>1, <2>3, <2>4, FrameParts, Zenon
  <2>6. f \in Seq(Byte) /\ Len(f) = 5 + Len(m.val) /\ f[1] = m.type
        /\ \A i \in 1 .. 4 : f[1 + i] = l[i]
    BY <2>5, Zenon DEF IsFrame
  <2>7. k = l
    <3>1. l = [j \in 1 .. 4 |-> l[j]]
      BY <2>3 DEF Word
    <3> QED
      BY <2>6, <3>1
  <2>8. Known(m.type) =>
          /\ BytesRead(m.type, Len(m.val)) = Len(m.val)
          /\ Decode(Receiver, m.type, [j \in 1 .. Len(m.val) |-> f[5 + j]]) =
               ExchangedIf(Sender # Receiver, m)
    <3> SUFFICES ASSUME Known(m.type)
                 PROVE  /\ BytesRead(m.type, Len(m.val)) = Len(m.val)
                        /\ Decode(Receiver, m.type, [j \in 1 .. Len(m.val) |-> f[5 + j]]) =
                             ExchangedIf(Sender # Receiver, m)
      OBVIOUS
    <3>1. m.type = T_NUL /\ m.val = << >> /\ Len(m.val) = 0
      BY <2>1 DEF Known
    <3>2. T_NUL \in Type /\ T_NUL \notin OwningType /\ FixedWidth[T_NUL] = 0
      BY DEF FixedWidth, Type, OwningType, T_NUL, T_STR, T_BIN, T_ERR
    <3>3. BytesRead(m.type, Len(m.val)) = Len(m.val)
      BY <3>1, <3>2 DEF BytesRead
    <3>4. [j \in 1 .. Len(m.val) |-> f[5 + j]] = << >>
      BY <3>1
    <3>5. Decode(Receiver, m.type, << >>) = m
      BY <2>1, <3>1, Zenon DEF Decode
    <3>6. ExchangedIf(Sender # Receiver, m) = m
      <4>1. ~Wide(m)
        BY <3>1, <3>2 DEF Wide
      <4> QED
        BY <4>1, Zenon DEF ExchangedIf
    <3> QED
      BY <3>3, <3>4, <3>5, <3>6, Zenon
  <2> QED
    BY <2>1, <2>3, <2>6, <2>7, <2>8, Zenon DEF f, k
<1> QED
  BY <1>2, <1>3

\* Where the frames are, in numbers.
LEMMA FrameNumbers ==
  ASSUME TypeOK, Framed
  PROVE  /\ Len(sent) \in Nat /\ Len(stream) \in Nat /\ Len(starts) = Len(sent)
         /\ Len(messages) \in Nat /\ (messages = << >> <=> Len(messages) = 0)
         /\ sent = << >> => Len(sent) = 0 /\ Len(stream) = 0
         /\ Len(sent) = 0 => Len(stream) = 0
         /\ Len(sent) > 0 => starts[1] = 0 /\ FrameEnd(Len(sent)) = Len(stream)
         /\ \A i \in 1 .. Len(sent) :
              /\ sent[i] \in Outgoing \cup Foreign /\ ~TooBig(sent[i])
              /\ Len(sent[i].val) \in Nat /\ starts[i] \in Nat
              /\ Len(FrameOf(sent[i])) = 5 + Len(sent[i].val)
              /\ FrameEnd(i) = starts[i] + 5 + Len(sent[i].val)
              /\ FrameEnd(i) <= Len(stream)
              /\ i < Len(sent) => FrameEnd(i) = starts[i + 1]
              /\ \A j \in 1 .. Len(sent) : i < j => FrameEnd(i) <= starts[j]
<1>1. /\ Len(sent) \in Nat /\ Len(stream) \in Nat /\ Len(starts) = Len(sent)
      /\ Len(messages) \in Nat
      /\ \A i \in 1 .. Len(sent) : sent[i] \in Outgoing \cup Foreign /\ starts[i] \in Nat
  <2>1. /\ sent \in Seq(Outgoing \cup Foreign) /\ starts \in Seq(Nat) /\ stream \in Seq(Byte)
        /\ messages \in Seq([type : Type, val : Seq(Byte)]) /\ Len(starts) = Len(sent)
    BY Zenon DEF TypeOK, Framed
  <2> QED
    BY <2>1, ElementsOf, Zenon
<1>2. /\ messages = << >> <=> Len(messages) = 0
      /\ sent = << >> <=> Len(sent) = 0
      /\ sent = << >> => Len(stream) = 0
  <2>1. /\ sent \in Seq(Outgoing \cup Foreign)
        /\ messages \in Seq([type : Type, val : Seq(Byte)])
        /\ sent = << >> => stream = << >>
    BY Zenon DEF TypeOK, Framed
  <2> QED
    BY <2>1, EmptySeq, Zenon
<1>3. Len(sent) > 0 => starts[1] = 0 /\ FrameEnd(Len(sent)) = Len(stream)
  <2>1. Len(sent) > 0 => sent # << >>
    BY <1>1, <1>2
  <2>2. ~(Len(sent) < Len(starts))
    BY <1>1
  <2> QED
    BY <2>1, <2>2, Zenon DEF FrameEnd, Framed
<1>4. ASSUME NEW i \in 1 .. Len(sent)
      PROVE  /\ ~TooBig(sent[i])
             /\ Len(sent[i].val) \in Nat
             /\ Len(FrameOf(sent[i])) = 5 + Len(sent[i].val)
             /\ FrameEnd(i) = starts[i] + 5 + Len(sent[i].val)
             /\ FrameEnd(i) <= Len(stream)
             /\ i < Len(sent) => FrameEnd(i) = starts[i + 1]
             /\ \A j \in 1 .. Len(sent) : i < j => FrameEnd(i) <= starts[j]
  <2>1. ~TooBig(sent[i]) /\ FrameEnd(i) = starts[i] + Len(FrameOf(sent[i]))
        /\ FrameEnd(i) <= Len(stream)
        /\ \A j \in 1 .. Len(sent) : i < j => FrameEnd(i) <= starts[j]
    BY Zenon DEF Framed
  <2>2. Len(sent[i].val) \in Nat /\ Len(FrameOf(sent[i])) = 5 + Len(sent[i].val)
    BY <1>1, <2>1, FrameFacts, Zenon
  <2>3. i < Len(sent) => FrameEnd(i) = starts[i + 1]
    BY <1>1, Zenon DEF FrameEnd
  <2>4. starts[i] \in Nat
    BY <1>1, Zenon
  <2>5. FrameEnd(i) = starts[i] + 5 + Len(sent[i].val)
    <3>1. \A s, n \in Nat : s + (5 + n) = s + 5 + n
      OBVIOUS
    <3> QED
      BY <2>1, <2>2, <2>4, <3>1, Zenon
  <2> QED
    BY <2>1, <2>2, <2>3, <2>5, Zenon
<1> QED
  BY <1>1, <1>2, <1>3, <1>4, Zenon

\* Len(messages) frames decoded, the loop stands in front of the next one.
LEMMA NextFrame ==
  ASSUME TypeOK, Framed, Prefix, AtFrame, pc = "loop", offset < buflen
  PROVE  LET i == Len(messages) + 1
         IN  i \in 1 .. Len(sent) /\ offset = starts[i]
<1> DEFINE n == Len(messages)
<1>1. /\ n \in Nat /\ (messages = << >> <=> n = 0) /\ Len(sent) \in Nat /\ Len(stream) \in Nat
      /\ Len(sent) = 0 => Len(stream) = 0
      /\ Len(sent) > 0 => starts[1] = 0 /\ FrameEnd(Len(sent)) = Len(stream)
      /\ \A i \in 1 .. Len(sent) : i < Len(sent) => FrameEnd(i) = starts[i + 1]
  BY FrameNumbers, Zenon
<1>2. n <= Len(sent) /\ offset = IF n = 0 THEN 0 ELSE FrameEnd(n)
  BY <1>1, Zenon DEF AtFrame, Decoded
<1>3. buflen <= Len(stream) /\ buflen \in Nat /\ offset \in Nat
  <2>1. buflen \in 0 .. Len(memory) /\ offset \in Nat
    BY Zenon DEF TypeOK
  <2>2. buflen <= Len(stream)
    BY Zenon DEF Prefix
  <2> QED
    BY <2>1, <2>2
<1> HIDE DEF n
<1>4. n < Len(sent)
  BY <1>1, <1>2, <1>3
<1>5. offset = starts[n + 1]
  BY <1>1, <1>2, <1>4
<1> QED
  BY <1>1, <1>4, <1>5 DEF n

\* What an iteration reads there: the tag; the length, if the header arrived; and the value,
\* if the frame did.
LEMMA ReadsOfFrame ==
  ASSUME TypeOK, Framed, Prefix, AtFrame, pc = "loop", offset < buflen
  PROVE  LET i == Len(messages) + 1
             n == Len(sent[i].val)
         IN  /\ Tag = sent[i].type
             /\ offset + 5 <= buflen => Length = n
             /\ Known(Tag) => BytesRead(Tag, n) = n
             /\ Known(Tag) /\ FrameEnd(i) <= buflen =>
                  Decode(Receiver, Tag, Copied(offset + 5, n)) =
                    ExchangedIf(Sender # Receiver, sent[i])
<1> DEFINE i == Len(messages) + 1
           m == sent[i]
           f == FrameOf(m)
           n == Len(m.val)
<1>1. i \in 1 .. Len(sent) /\ offset = starts[i]
  BY NextFrame, Zenon
<1>2. /\ m \in Outgoing \cup Foreign /\ ~TooBig(m) /\ n \in Nat /\ offset \in Nat
      /\ FrameEnd(i) = offset + 5 + n
      /\ FrameEnd(i) <= Len(stream) /\ Len(f) = 5 + n
  BY <1>1, FrameNumbers, Zenon
<1>3. /\ f[1] = m.type
      /\ ReadLength(Receiver, [j \in 1 .. 4 |-> f[1 + j]]) = n
      /\ Known(m.type) =>
           /\ BytesRead(m.type, n) = n
           /\ Decode(Receiver, m.type, [j \in 1 .. n |-> f[5 + j]]) =
                ExchangedIf(Sender # Receiver, m)
  BY <1>2, FrameFacts, Zenon
<1>4. \A k \in 1 .. 5 + n : offset + k <= buflen => memory[offset + k] = f[k]
  <2>1. \A k \in 1 .. 5 + n : stream[offset + k] = f[k]
    BY <1>1, <1>2, Zenon DEF Framed
  <2>2. \A k \in 1 .. buflen : memory[k] = stream[k]
    BY Zenon DEF Prefix
  <2>3. buflen \in Nat
    BY DEF TypeOK
  <2> HIDE DEF f, n
  <2>4. \A k \in 1 .. 5 + n : offset + k <= buflen => offset + k \in 1 .. buflen
    BY <1>2, <2>3
  <2> QED
    BY <2>1, <2>2, <2>4, Zenon
<1>5. Tag = m.type
  <2> HIDE DEF f, n, m
  <2>1. 1 \in 1 .. 5 + n /\ offset + 1 <= buflen
    <3>1. buflen \in Nat
      BY DEF TypeOK
    <3> QED
      BY <1>2, <3>1
  <2> QED
    BY <1>3, <1>4, <2>1, Zenon DEF Tag
<1>6. offset + 5 <= buflen => Length = n
  <2> HIDE DEF f, n, m
  <2> SUFFICES ASSUME offset + 5 <= buflen PROVE Length = n
    OBVIOUS
  <2>1. Copied(offset + 1, 4) = [j \in 1 .. 4 |-> f[1 + j]]
    <3>1. buflen \in Nat
      BY DEF TypeOK
    <3>2. \A j \in 1 .. 4 : 1 + j \in 1 .. 5 + n /\ offset + (1 + j) <= buflen
                            /\ offset + 1 + j = offset + (1 + j)
      BY <1>2, <3>1
    <3>3. \A j \in 1 .. 4 : memory[offset + 1 + j] = f[1 + j]
      BY <1>4, <3>2, Zenon
    <3> QED
      BY <3>3 DEF Copied
  <2> QED
    BY <1>3, <2>1, Zenon DEF Length
<1>7. FrameEnd(i) <= buflen => Copied(offset + 5, n) = [j \in 1 .. n |-> f[5 + j]]
  <2> SUFFICES ASSUME FrameEnd(i) <= buflen
               PROVE  Copied(offset + 5, n) = [j \in 1 .. n |-> f[5 + j]]
    OBVIOUS
  <2>1. offset + 5 + n <= buflen
    BY <1>2, Zenon
  <2> HIDE DEF f, n, m
  <2>2. buflen \in Nat
    BY DEF TypeOK
  <2>3. \A j \in 1 .. n : 5 + j \in 1 .. 5 + n /\ offset + (5 + j) <= buflen
                          /\ offset + 5 + j = offset + (5 + j)
    BY <1>2, <2>1, <2>2
  <2>4. \A j \in 1 .. n : memory[offset + 5 + j] = f[5 + j]
    BY <1>4, <2>3, Zenon
  <2> QED
    BY <2>4 DEF Copied
<1> QED
  <2> HIDE DEF f
  <2>1. /\ Tag = m.type
        /\ offset + 5 <= buflen => Length = n
        /\ Known(Tag) => BytesRead(Tag, n) = n
    BY <1>3, <1>5, <1>6, Zenon
  <2>2. Known(Tag) /\ FrameEnd(i) <= buflen =>
           Decode(Receiver, Tag, Copied(offset + 5, n)) = ExchangedIf(Sender # Receiver, m)
    BY <1>3, <1>5, <1>7, Zenon
  <2> QED
    BY <2>1, <2>2, Zenon

\* buf_append puts the new frame behind the others and moves none of them.
LEMMA SendKeepsFramed ==
  ASSUME IInv, Framed, NEW m \in Outgoing \cup Foreign, Send(m)
  PROVE  Framed'
<1> DEFINE n == Len(sent)
           f == FrameOf(m)
<1>1. /\ sent' = Append(sent, m) /\ starts' = Append(starts, Len(stream))
      /\ stream' = stream \o f
      /\ ~TooBig(m)
      /\ \A x : FrameOf(x)' = FrameOf(x)
  BY DEF Send, BufAppend, FrameOf, Sender
<1>2. /\ TypeOK /\ sent \in Seq(Outgoing \cup Foreign) /\ starts \in Seq(Nat)
      /\ stream \in Seq(Byte)
  BY Zenon DEF IInv, TypeOK
<1>3. /\ n \in Nat /\ Len(stream) \in Nat /\ Len(starts) = n
      /\ n = 0 => Len(stream) = 0
      /\ n > 0 => starts[1] = 0 /\ FrameEnd(n) = Len(stream)
      /\ \A i \in 1 .. n :
           /\ starts[i] \in Nat /\ FrameEnd(i) <= Len(stream)
           /\ FrameEnd(i) = starts[i] + 5 + Len(sent[i].val)
           /\ Len(FrameOf(sent[i])) = 5 + Len(sent[i].val) /\ Len(sent[i].val) \in Nat
           /\ i < n => FrameEnd(i) = starts[i + 1]
  BY <1>2, FrameNumbers, Zenon
<1>4. f \in Seq(Byte) /\ Len(f) \in Nat /\ Len(f) > 0
  <2>1. f \in Seq(Byte) /\ Len(m.val) \in Nat /\ Len(f) = 5 + Len(m.val)
    BY <1>1, <1>2, FrameFacts, Zenon
  <2> QED
    BY <2>1
<1> HIDE DEF f
<1>5. /\ Len(stream') = Len(stream) + Len(f)
      /\ \A k \in 1 .. Len(stream) : stream'[k] = stream[k]
      /\ \A k \in 1 .. Len(f) : stream'[Len(stream) + k] = f[k]
  BY <1>1, <1>2, <1>4
<1>6. /\ Len(sent') = n + 1 /\ Len(starts') = n + 1
      /\ sent'[n + 1] = m /\ starts'[n + 1] = Len(stream)
      /\ \A i \in 1 .. n : sent'[i] = sent[i] /\ starts'[i] = starts[i]
  BY <1>1, <1>2, <1>3
<1> HIDE DEF n
<1>7. \A i \in 1 .. n : FrameEnd(i)' = FrameEnd(i)
  <2> TAKE i \in 1 .. n
  <2>1. FrameEnd(i)' = starts'[i + 1]
    BY <1>3, <1>6 DEF FrameEnd
  <2>2. CASE i < n
    <3>1. i + 1 \in 1 .. n
      BY <1>3, <2>2
    <3> QED
      BY <1>3, <1>6, <2>1, <2>2, <3>1, Zenon
  <2>3. CASE i = n
    <3>1. n > 0
      BY <1>3
    <3> QED
      BY <1>3, <1>6, <2>1, <2>3, <3>1, Zenon
  <2> QED
    BY <1>3, <2>2, <2>3
<1>8. ASSUME NEW i, i = n + 1 PROVE FrameEnd(i)' = Len(stream')
  <2>1. ~(i < Len(starts'))
    BY <1>3, <1>6, <1>8
  <2> QED
    BY <2>1, Zenon DEF FrameEnd
<1>9. sent' # << >> /\ starts'[1] = 0
  <2>1. CASE n = 0
    BY <1>3, <1>6, <2>1
  <2>2. CASE n > 0
    <3>1. 1 \in 1 .. n
      BY <1>3, <2>2
    <3> QED
      BY <1>3, <1>6, <2>2, <3>1
  <2> QED
    BY <1>3, <1>6, <2>1, <2>2
<1>10. ASSUME NEW i \in 1 .. n + 1
       PROVE  /\ ~TooBig(sent'[i])
              /\ FrameEnd(i)' = starts'[i] + Len(FrameOf(sent'[i]))
              /\ FrameEnd(i)' <= Len(stream')
              /\ \A k \in 1 .. Len(FrameOf(sent'[i])) :
                   stream'[starts'[i] + k] = FrameOf(sent'[i])[k]
              /\ \A j \in 1 .. n + 1 : i < j => FrameEnd(i)' <= starts'[j]
  <2>1. CASE i = n + 1
    <3>1. sent'[i] = m /\ starts'[i] = Len(stream) /\ FrameOf(sent'[i]) = f
      BY <1>6, <2>1, Zenon DEF f
    <3>2. \A j \in 1 .. n + 1 : ~(i < j)
      BY <1>3, <2>1
    <3>3. FrameEnd(i)' = Len(stream) + Len(f) /\ FrameEnd(i)' <= Len(stream')
      <4>1. Len(stream) + Len(f) <= Len(stream) + Len(f)
        BY <1>3, <1>4
      <4> QED
        BY <1>5, <1>8, <2>1, <4>1, Zenon
    <3> QED
      BY <1>1, <1>5, <3>1, <3>2, <3>3, Zenon
  <2>2. CASE i \in 1 .. n
    <3>1. /\ sent'[i] = sent[i] /\ starts'[i] = starts[i] /\ FrameEnd(i)' = FrameEnd(i)
      BY <1>6, <1>7, <2>2, Zenon
    <3>2. /\ ~TooBig(sent[i]) /\ FrameEnd(i) = starts[i] + Len(FrameOf(sent[i]))
          /\ \A k \in 1 .. Len(FrameOf(sent[i])) : stream[starts[i] + k] = FrameOf(sent[i])[k]
          /\ \A j \in 1 .. n : i < j => FrameEnd(i) <= starts[j]
      BY <2>2, Zenon DEF Framed, n
    <3>3. /\ starts[i] \in Nat /\ FrameEnd(i) <= Len(stream)
          /\ Len(FrameOf(sent[i])) \in Nat
      <4>1. Len(FrameOf(sent[i])) = 5 + Len(sent[i].val) /\ Len(sent[i].val) \in Nat
        BY <1>3, <2>2, Zenon
      <4>2. Len(FrameOf(sent[i])) \in Nat
        BY <4>1
      <4> QED
        BY <1>3, <2>2, <4>2, Zenon
    <3>4. \A k \in 1 .. Len(FrameOf(sent[i])) : starts[i] + k \in 1 .. Len(stream)
      <4>1. \A s, l \in Nat : s + l <= Len(stream) =>
              \A k \in 1 .. l : s + k \in 1 .. Len(stream)
        BY <1>3
      <4> QED
        BY <3>2, <3>3, <4>1, Zenon
    <3>5. \A k \in 1 .. Len(FrameOf(sent[i])) :
            stream'[starts[i] + k] = FrameOf(sent[i])[k]
      BY <1>5, <3>2, <3>4, Zenon
    <3>6. FrameEnd(i) <= Len(stream')
      <4>1. \A s, k \in Nat : s + k \in Nat
        OBVIOUS
      <4>2. FrameEnd(i) \in Nat
        BY <3>2, <3>3, <4>1, Zenon
      <4>3. \A e \in Nat : e <= Len(stream) => e <= Len(stream')
        BY <1>3, <1>4, <1>5
      <4> QED
        BY <3>3, <4>2, <4>3, Zenon
    <3>7. ASSUME NEW j \in 1 .. n + 1, i < j PROVE FrameEnd(i) <= starts'[j]
      <4>1. CASE j = n + 1
        BY <1>6, <3>3, <4>1, Zenon
      <4>2. CASE j \in 1 .. n
        BY <1>6, <3>2, <3>7, <4>2, Zenon
      <4> QED
        BY <1>3, <4>1, <4>2
    <3> QED
      BY <3>1, <3>2, <3>5, <3>6, <3>7, Zenon
  <2> QED
    BY <1>3, <2>1, <2>2
<1> QED
  BY <1>1, <1>6, <1>9, <1>10, Zenon DEF Framed

\* The other actions leave the sender's side alone.
LEMMA SameSenderKeepsFramed ==
  ASSUME Framed, UNCHANGED sender
  PROVE  /\ Framed'
         /\ Sender' = Sender /\ Receiver' = Receiver
         /\ \A i : FrameEnd(i)' = FrameEnd(i)
<1>1. hosts' = hosts /\ sent' = sent /\ starts' = starts /\ stream' = stream
  BY DEF sender
<1>2. /\ Sender' = Sender /\ Receiver' = Receiver
      /\ \A i : FrameEnd(i)' = FrameEnd(i)
      /\ \A x : FrameOf(x)' = FrameOf(x)
  BY <1>1 DEF Sender, Receiver, FrameEnd, FrameOf
<1> QED
  BY <1>1, <1>2, Zenon DEF Framed

\* So do they, but for the read, the received bytes.
LEMMA SameReceivedKeepsPrefix ==
  ASSUME Prefix, UNCHANGED << sender, received >>, pc = "loop",
         pc' \in {"loop", "done", "receiver exit", "fault"}
  PROVE  Prefix'
<1>1. stream' = stream /\ memory' = memory /\ buflen' = buflen
  BY DEF sender, received
<1>2. pc \notin {"build", "sender exit"} /\ pc' \notin {"build", "sender exit"}
  OBVIOUS
<1> QED
  BY <1>1, <1>2, Zenon DEF Prefix

LEMMA SameDecoded ==
  ASSUME Framed, UNCHANGED << sender, received >>, UNCHANGED messages
  PROVE  /\ \A n : Decoded(n)' = Decoded(n)
         /\ \A i : Cut(i)' = Cut(i)
<1>1. /\ sent' = sent /\ starts' = starts /\ buflen' = buflen
      /\ Sender' = Sender /\ Receiver' = Receiver
      /\ \A i : FrameEnd(i)' = FrameEnd(i)
  BY SameSenderKeepsFramed DEF sender, received
<1>2. ASSUME NEW n PROVE Decoded(n)' = Decoded(n)
  BY <1>1, Zenon DEF Decoded
<1>3. ASSUME NEW i PROVE Cut(i)' = Cut(i)
  BY <1>1, Zenon DEF Cut
<1> QED
  BY <1>2, <1>3

\* An iteration decodes the next frame, or, if that was cut, runs past the bytes read.
LEMMA ParseKeepsProgress ==
  ASSUME IInv, Framed, Prefix, Progress, ParseFrame
  PROVE  Progress'
<1> DEFINE n == Len(messages)
           m == sent[n + 1]
           l == Len(m.val)
           e == FrameEnd(n + 1)
           need == BytesRead(Tag, Length)
           d == Decode(Receiver, Tag, Copied(offset + 5, need))
<1>1. /\ pc = "loop" /\ pc' = "loop" /\ offset < buflen /\ Known(Tag)
      /\ messages' = Append(messages, d)
      /\ overrun' = (overrun \/ Past(5 + need))
      /\ offset' = offset + 5 + Length
      /\ UNCHANGED << sender, received >>
  BY DEF ParseFrame, AppendMessage, NextOffset
<1>2. TypeOK /\ buflen \in Nat /\ offset \in Nat
  <2>1. TypeOK /\ memory \in Seq(Byte) /\ buflen \in 0 .. Len(memory) /\ offset \in Nat
    BY Zenon DEF IInv, TypeOK
  <2> QED
    BY <2>1
<1>3. AtFrame
  <2>1. ~PastCut
    BY <1>1, <1>2 DEF PastCut
  <2> QED
    BY <1>1, <2>1, Zenon DEF Progress
<1>4. n + 1 \in 1 .. Len(sent) /\ offset = starts[n + 1]
  BY <1>1, <1>2, <1>3, NextFrame, Zenon
<1>5. /\ n \in Nat /\ Len(sent) \in Nat /\ l \in Nat
      /\ e = offset + 5 + l
  BY <1>2, <1>4, FrameNumbers, Zenon
<1>6. /\ offset + 5 <= buflen => Length = l
      /\ BytesRead(Tag, l) = l
      /\ e <= buflen =>
           Decode(Receiver, Tag, Copied(offset + 5, l)) =
             ExchangedIf(Sender # Receiver, m)
  BY <1>1, <1>2, <1>3, ReadsOfFrame, Zenon
<1>7. /\ sent' = sent /\ buflen' = buflen /\ starts' = starts
      /\ Sender' = Sender /\ Receiver' = Receiver
      /\ \A i : FrameEnd(i)' = FrameEnd(i)
  BY <1>1, SameSenderKeepsFramed DEF sender, received
<1>8. Length \in Nat /\ need \in Nat
  <2>1. /\ Receiver \in ByteOrder /\ memory \in Seq(Byte) /\ offset + 1 \in Nat
        /\ offset + 1 + 4 <= Len(memory)
    BY StreamAssumption DEF IInv, TypeOK, Receiver, ParseFrame, Beyond
  <2>2. Copied(offset + 1, 4) \in Seq(Byte) /\ Len(Copied(offset + 1, 4)) = 4
    BY <2>1, CopiedBytes
  <2>3. Length \in Nat
    BY <2>1, <2>2, LengthIsNat DEF Length
  <2> QED
    BY <2>3, ReadSize
<1>9. /\ messages' # << >> /\ Len(messages') = n + 1 /\ messages'[n + 1] = d
      /\ \A k \in 1 .. n : messages'[k] = messages[k]
  <2>1. messages \in Seq([type : Type, val : Seq(Byte)])
    BY Zenon DEF IInv, TypeOK
  <2> HIDE DEF d
  <2> QED
    BY <1>1, <2>1
<1>10. \A k \in 1 .. n : FrameEnd(k) <= buflen
                         /\ messages[k] = ExchangedIf(Sender # Receiver, sent[k])
  BY <1>3, Zenon DEF AtFrame, Decoded
<1> HIDE DEF n, m, need, d, l, e
<1>11. CASE e <= buflen
  <2>1. offset + 5 <= buflen
    BY <1>2, <1>5, <1>11
  <2>2. Length = l /\ need = l /\ d = ExchangedIf(Sender # Receiver, m)
    BY <1>6, <1>11, <2>1, Zenon DEF need, d
  <2>3. offset' = e
    BY <1>1, <1>5, <2>2, Zenon
  <2>4. ~Past(5 + need)
    BY <1>2, <1>5, <1>11, <2>2 DEF Past
  <2>5. ~overrun'
    BY <1>1, <1>3, <2>4, Zenon DEF AtFrame
  <2>6. ASSUME NEW k \in 1 .. n + 1
        PROVE  FrameEnd(k) <= buflen
               /\ messages'[k] = ExchangedIf(Sender # Receiver, sent[k])
    <3>1. k = n + 1 \/ k \in 1 .. n
      BY <1>5
    <3> QED
      BY <1>9, <1>10, <1>11, <2>2, <3>1, Zenon DEF m, e
  <2>7. n + 1 <= Len(sent)
    BY <1>4, <1>5
  <2>8. AtFrame'
    BY <1>7, <1>9, <2>3, <2>5, <2>6, <2>7, Zenon DEF AtFrame, Decoded, e
  <2> QED
    BY <1>1, <2>8 DEF Progress
<1>12. CASE ~(e <= buflen)
  <2>1. buflen < offset' /\ Past(5 + need)
    <3>1. CASE offset + 5 <= buflen
      <4>1. Length = l /\ need = l
        BY <1>6, <3>1, Zenon DEF need
      <4> QED
        BY <1>1, <1>2, <1>5, <1>12, <4>1 DEF Past
    <3>2. CASE ~(offset + 5 <= buflen)
      BY <1>1, <1>2, <1>8, <3>2 DEF Past
    <3> QED
      BY <3>1, <3>2
  <2>2. Cut(n + 1)
    BY <1>1, <1>2, <1>4, <1>5, <1>12 DEF Cut, e
  <2>3. overrun'
    BY <1>1, <2>1, Zenon
  <2>4. /\ Len(messages') - 1 = n /\ n <= Len(sent)
        /\ \A k \in 1 .. n : messages'[k] = messages[k]
    BY <1>4, <1>5, <1>9
  <2>5. PastCut'
    BY <1>7, <1>9, <1>10, <2>1, <2>2, <2>3, <2>4, Zenon DEF PastCut, Decoded, Cut
  <2> QED
    BY <1>1, <2>5 DEF Progress
<1> QED
  BY <1>11, <1>12

\* The read leaves the loop in front of the first frame.
LEMMA ReceiveKeepsProgress ==
  ASSUME IInv, Framed, Prefix, Receive
  PROVE  Prefix' /\ Progress'
<1>1. /\ pc = "build" /\ sent # << >> /\ pc' = "loop"
      /\ UNCHANGED << sender, result >>
  BY DEF Receive
<1>2. PICK n \in IF ShortReads THEN 1 .. Len(stream) ELSE {Len(stream)}, r \in Residues :
         memory' = SubSeq(stream, 1, n) \o r /\ buflen' = n
  BY Zenon DEF Receive
<1>3. /\ TypeOK /\ stream \in Seq(Byte) /\ r \in Seq(Byte) /\ Len(stream) \in Nat
      /\ Len(sent) \in Nat
  <2>1. TypeOK /\ sent \in Seq(Outgoing \cup Foreign) /\ stream \in Seq(Byte) /\ r \in Seq(Byte)
    BY StreamAssumption, Zenon DEF IInv, TypeOK
  <2> QED
    BY <2>1, ElementsOf, Zenon
<1>4. Len(stream) > 0
  <2>1. Len(sent) # 0
    BY <1>1, EmptySeq, Zenon DEF IInv, TypeOK
  <2>2. 1 \in 1 .. Len(sent)
    BY <1>3, <2>1
  <2>3. /\ starts[1] \in Nat /\ Len(sent[1].val) \in Nat
        /\ FrameEnd(1) = starts[1] + 5 + Len(sent[1].val) /\ FrameEnd(1) <= Len(stream)
    BY <1>3, <2>2, FrameNumbers, Zenon
  <2>4. \A s, l \in Nat : s + 5 + l <= Len(stream) => Len(stream) > 0
    BY <1>3
  <2> QED
    BY <2>3, <2>4, Zenon
<1>5. n \in 1 .. Len(stream) /\ (~ShortReads => n = Len(stream))
  BY <1>2, <1>3, <1>4
<1>6. \A k \in 1 .. n : memory'[k] = stream[k]
  BY <1>2, <1>3, <1>5
<1>7. messages = << >> /\ offset = 0 /\ ~overrun
  BY <1>1, Zenon DEF Prefix
<1>8. Prefix'
  <2>1. stream' = stream /\ buflen' = n
    BY <1>1, <1>2 DEF sender
  <2>2. 0 < n /\ n <= Len(stream)
    BY <1>5
  <2>3. pc' \notin {"build", "sender exit"}
    BY <1>1
  <2> QED
    BY <1>5, <1>6, <2>1, <2>2, <2>3, Zenon DEF Prefix
<1>9. AtFrame'
  <2>1. messages' = << >> /\ offset' = 0 /\ ~overrun' /\ sent' = sent
    BY <1>1, <1>7 DEF result, sender
  <2>2. Len(messages') <= Len(sent')
    BY <1>3, <2>1
  <2>3. \A k \in 1 .. Len(messages') : FALSE
    BY <2>1
  <2>4. offset' = IF messages' = << >> THEN 0 ELSE FrameEnd(Len(messages))'
    BY <2>1
  <2>5. Decoded(Len(messages))'
    BY <2>2, <2>3, Zenon DEF Decoded
  <2> QED
    BY <2>1, <2>4, <2>5, Zenon DEF AtFrame
<1> QED
  BY <1>1, <1>8, <1>9 DEF Progress

\* The steps that end the loop decode nothing.
LEMMA EndKeepsDecoded ==
  ASSUME Framed, UNCHANGED << sender, received >>, UNCHANGED << messages, offset >>
  PROVE  /\ Decoded(Len(messages)) => Decoded(Len(messages))'
         /\ \A i : Cut(i)' = Cut(i)
         /\ overrun' = overrun =>
              (AtFrame => AtFrame') /\ (PastCut => PastCut')
<1>1. /\ sent' = sent /\ starts' = starts /\ buflen' = buflen
      /\ messages' = messages /\ offset' = offset
      /\ Sender' = Sender /\ Receiver' = Receiver
      /\ \A i : FrameEnd(i)' = FrameEnd(i)
  BY SameSenderKeepsFramed DEF sender, received
<1>2. Decoded(Len(messages)) => Decoded(Len(messages))'
  BY <1>1, Zenon DEF Decoded
<1>3. ASSUME NEW i PROVE Cut(i)' = Cut(i)
  BY <1>1, Zenon DEF Cut
<1>4. overrun' = overrun => (AtFrame => AtFrame')
  <2> SUFFICES ASSUME overrun' = overrun, AtFrame PROVE AtFrame'
    OBVIOUS
  <2>1. Decoded(Len(messages))'
    BY <1>2, Zenon DEF AtFrame
  <2>2. offset' = IF messages' = << >> THEN 0 ELSE FrameEnd(Len(messages))'
    BY <1>1, Zenon DEF AtFrame
  <2> QED
    BY <2>1, <2>2, Zenon DEF AtFrame
<1>5. overrun' = overrun => (PastCut => PastCut')
  BY <1>1, Zenon DEF PastCut, Decoded, Cut
<1> QED
  BY <1>2, <1>3, <1>4, <1>5

\* In front of a frame whose first byte arrived.
LEMMA InFrontOfFrame ==
  ASSUME IInv, Framed, Prefix, Progress, pc = "loop", offset < buflen
  PROVE  LET i == Len(messages) + 1
         IN  /\ AtFrame /\ Decoded(Len(messages))
             /\ i \in 1 .. Len(sent) /\ Len(messages) < Len(sent) /\ offset = starts[i]
             /\ Tag = sent[i].type /\ Len(sent[i].val) \in Nat
             /\ FrameEnd(i) = offset + 5 + Len(sent[i].val)
             /\ offset + 5 <= buflen => Length = Len(sent[i].val)
             /\ Known(Tag) => BytesRead(Tag, Len(sent[i].val)) = Len(sent[i].val)
<1> DEFINE i == Len(messages) + 1
<1>1. AtFrame \/ PastCut
  BY DEF Progress
<1>2. TypeOK /\ memory \in Seq(Byte) /\ buflen \in 0 .. Len(memory) /\ offset \in Nat
  BY Zenon DEF IInv, TypeOK
<1>3. buflen \in Nat
  BY <1>2
<1>4. AtFrame
  <2>1. ~PastCut
    BY <1>2, <1>3 DEF PastCut
  <2> QED
    BY <1>1, <2>1
<1>5. i \in 1 .. Len(sent) /\ offset = starts[i] /\ Decoded(Len(messages))
  BY <1>1, <1>2, <1>4, NextFrame, Zenon DEF AtFrame
<1>6. /\ Len(messages) \in Nat /\ Len(sent) \in Nat /\ Len(sent[i].val) \in Nat
      /\ FrameEnd(i) = starts[i] + 5 + Len(sent[i].val)
  BY <1>2, <1>5, FrameNumbers, Zenon
<1>7. Len(messages) < Len(sent)
  BY <1>5, <1>6
<1>8. /\ Tag = sent[i].type
      /\ offset + 5 <= buflen => Length = Len(sent[i].val)
      /\ Known(Tag) => BytesRead(Tag, Len(sent[i].val)) = Len(sent[i].val)
  BY <1>1, <1>2, <1>4, ReadsOfFrame, Zenon
<1> QED
  BY <1>4, <1>5, <1>6, <1>7, <1>8, Zenon

\* Only a frame that was cut makes the loop run off its memory.
LEMMA FaultMeansCut ==
  ASSUME IInv, Framed, Prefix, Progress, Fault
  PROVE  Cut(Len(messages) + 1)
<1> DEFINE i == Len(messages) + 1
<1>1. pc = "loop" /\ offset < buflen
  BY DEF Fault
<1>2. memory \in Seq(Byte) /\ buflen \in 0 .. Len(memory) /\ offset \in Nat
  BY Zenon DEF IInv, TypeOK
<1>3. buflen \in Nat /\ Len(memory) \in Nat /\ buflen <= Len(memory)
  BY <1>2
<1>4. /\ offset < buflen
      /\ \/ Beyond(5)
         \/ Known(Tag) /\ Beyond(5 + BytesRead(Tag, Length))
  BY Zenon DEF Fault
<1>5. /\ i \in 1 .. Len(sent) /\ offset = starts[i] /\ Len(sent[i].val) \in Nat
      /\ FrameEnd(i) = offset + 5 + Len(sent[i].val)
      /\ offset + 5 <= buflen => Length = Len(sent[i].val)
      /\ Known(Tag) => BytesRead(Tag, Len(sent[i].val)) = Len(sent[i].val)
  BY <1>1, InFrontOfFrame, Zenon
<1> DEFINE l == Len(sent[i].val)
           e == FrameEnd(i)
<1>6. l \in Nat /\ e = offset + 5 + l
      /\ (offset + 5 <= buflen => Length = l) /\ (Known(Tag) => BytesRead(Tag, l) = l)
  BY <1>5, <1>4, Zenon
<1> HIDE DEF l, e
<1>7. buflen < e
  <2>1. CASE offset + 5 <= buflen
    <3>1. ~Beyond(5)
      BY <1>2, <1>3, <2>1 DEF Beyond
    <3>2. Beyond(5 + l)
      BY <1>4, <1>6, <2>1, <3>1, Zenon
    <3> QED
      BY <1>2, <1>3, <1>6, <3>2 DEF Beyond
  <2>2. CASE ~(offset + 5 <= buflen)
    BY <1>2, <1>3, <1>6, <2>2
  <2> QED
    BY <2>1, <2>2
<1> QED
  BY <1>5, <1>4, <1>7, Zenon DEF Cut, e

LEMMA EndKeepsProgress ==
  ASSUME IInv, Framed, Prefix, Progress, BadType \/ Fault \/ OutOfMemory \/ Return
  PROVE  Progress'
<1> DEFINE i == Len(messages) + 1
<1>1. /\ pc = "loop" /\ (AtFrame \/ PastCut)
      /\ UNCHANGED << sender, received >> /\ UNCHANGED << messages, offset >>
  <2>1. pc = "loop"
    BY DEF BadType, Fault, OutOfMemory, Return
  <2>2. UNCHANGED << sender, received >> /\ UNCHANGED << messages, offset >>
    BY DEF BadType, Fault, OutOfMemory, Return, result
  <2> QED
    BY <2>1, <2>2, Zenon DEF Progress
<1>2. TypeOK /\ memory \in Seq(Byte) /\ buflen \in 0 .. Len(memory) /\ offset \in Nat
  BY Zenon DEF IInv, TypeOK
<1>3. buflen \in Nat /\ Len(memory) \in Nat /\ buflen <= Len(memory)
  BY <1>2
<1>4. /\ Decoded(Len(messages)) => Decoded(Len(messages))'
      /\ \A k : Cut(k)' = Cut(k)
      /\ overrun' = overrun => (AtFrame => AtFrame') /\ (PastCut => PastCut')
  BY <1>1, EndKeepsDecoded, Zenon
<1>5. ASSUME offset < buflen
      PROVE  /\ Decoded(Len(messages)) /\ Len(messages) < Len(sent)
             /\ offset = starts[i] /\ Tag = sent[i].type
  BY <1>1, <1>5, InFrontOfFrame, Zenon
<1>6. CASE BadType
  <2>1. offset < buflen /\ ~Known(Tag) /\ pc' = "receiver exit"
    BY <1>6, Zenon DEF BadType
  <2>2. sent[i].type \notin Type
    BY <1>5, <2>1, Zenon DEF Known
  <2>3. /\ sent' = sent /\ starts' = starts /\ buflen' = buflen
        /\ messages' = messages /\ offset' = offset
    BY <1>1 DEF sender, received
  <2> QED
    BY <1>4, <1>5, <2>1, <2>2, <2>3 DEF Progress
<1>7. CASE Fault
  <2>1. offset < buflen /\ pc' = "fault" /\ overrun'
    BY <1>7, Zenon DEF Fault
  <2>2. Cut(i)
    BY <1>7, FaultMeansCut, Zenon
  <2>3. Cut(Len(messages) + 1)'
    <3>1. /\ messages' = messages /\ sent' = sent /\ starts' = starts /\ buflen' = buflen
          /\ \A k : FrameEnd(k)' = FrameEnd(k)
      BY <1>1, SameSenderKeepsFramed DEF sender, received
    <3> QED
      BY <2>2, <3>1, Zenon DEF Cut
  <2> QED
    BY <1>4, <1>5, <2>1, <2>3 DEF Progress
<1>8. CASE OutOfMemory
  <2>1. AllocMayFail /\ pc' = "receiver exit" /\ overrun' = overrun
    BY <1>8 DEF OutOfMemory, result
  <2> QED
    BY <1>1, <1>4, <2>1 DEF Progress
<1>9. CASE Return
  <2>1. pc' = "done" /\ offset >= buflen /\ overrun' = overrun
    BY <1>9 DEF Return, result
  <2>2. buflen' <= offset'
    BY <1>1, <1>2, <1>3, <2>1 DEF received
  <2> QED
    BY <1>1, <1>4, <2>1, <2>2 DEF Progress
<1> QED
  BY <1>6, <1>7, <1>8, <1>9

LEMMA InitStreamInv == Init => IInv /\ StreamInv
<1>1. Init => IInv
  BY InitIInv
<1>2. Init => Framed
  <2>1. Len(<< >>) = 0 /\ \A i \in 1 .. 0 : FALSE
    OBVIOUS
  <2>2. Init => sent = << >> /\ starts = << >> /\ stream = << >>
    BY DEF Init
  <2> QED
    BY <2>1, <2>2, Zenon DEF Framed
<1>3. Init => Prefix /\ Progress
  BY DEF Init, Prefix, Progress
<1> QED
  BY <1>1, <1>2, <1>3 DEF StreamInv

LEMMA StepKeepsStreamInv ==
  ASSUME IInv, StreamInv, [Next]_vars
  PROVE  IInv' /\ StreamInv'
<1> SUFFICES ASSUME Framed, Prefix, Progress
             PROVE  Framed' /\ Prefix' /\ Progress'
  BY StepKeepsIInv DEF StreamInv
<1>1. CASE \E m \in Outgoing \cup Foreign : Send(m)
  <2> PICK m \in Outgoing \cup Foreign : Send(m)
    BY <1>1
  <2>1. Framed'
    BY SendKeepsFramed
  <2>2. pc = "build" /\ pc' = "build" /\ UNCHANGED << received, result >>
    BY DEF Send
  <2> QED
    BY <2>1, <2>2 DEF Prefix, Progress, received, result
<1>2. CASE SenderExit
  <2>1. pc = "build" /\ pc' = "sender exit" /\ UNCHANGED << sender, received, result >>
    BY <1>2 DEF SenderExit
  <2>2. Framed'
    BY <2>1, SameSenderKeepsFramed
  <2> QED
    BY <2>1, <2>2 DEF Prefix, Progress, received, result
<1>3. CASE Receive
  <2>1. Framed'
    BY <1>3, SameSenderKeepsFramed DEF Receive
  <2> QED
    BY <1>3, <2>1, ReceiveKeepsProgress
<1>4. CASE ParseFrame
  <2>1. /\ UNCHANGED << sender, received >> /\ pc = "loop" /\ pc' = "loop"
    BY <1>4 DEF ParseFrame
  <2> QED
    BY <1>4, <2>1, ParseKeepsProgress, SameSenderKeepsFramed, SameReceivedKeepsPrefix
<1>5. CASE BadType \/ Fault \/ OutOfMemory \/ Return
  <2>1. /\ UNCHANGED << sender, received >> /\ pc = "loop"
        /\ pc' \in {"loop", "done", "receiver exit", "fault"}
    BY <1>5 DEF BadType, Fault, OutOfMemory, Return
  <2> QED
    BY <1>5, <2>1, EndKeepsProgress, SameSenderKeepsFramed, SameReceivedKeepsPrefix
<1>6. CASE Terminated \/ UNCHANGED vars
  <2>1. UNCHANGED vars
    BY <1>6 DEF Terminated
  <2>2. UNCHANGED << sender, received >> /\ UNCHANGED << messages, offset, overrun, pc >>
    BY <2>1 DEF vars, sender, received
  <2>3. Framed' /\ Sender' = Sender /\ Receiver' = Receiver
        /\ \A i : FrameEnd(i)' = FrameEnd(i)
    BY <2>2, SameSenderKeepsFramed
  <2>4. sent' = sent /\ starts' = starts /\ stream' = stream /\ memory' = memory
        /\ buflen' = buflen /\ messages' = messages /\ offset' = offset
        /\ overrun' = overrun /\ pc' = pc
    BY <2>2 DEF sender, received
  <2>5. Prefix'
    BY <2>4, Zenon DEF Prefix
  <2>6. (AtFrame => AtFrame') /\ (PastCut => PastCut')
        /\ (Decoded(Len(messages)) => Decoded(Len(messages))')
    BY <2>2, EndKeepsDecoded, Zenon
  <2>7. Cut(Len(messages) + 1) => Cut(Len(messages) + 1)'
    BY <2>3, <2>4, Zenon DEF Cut
  <2> QED
    BY <2>3, <2>4, <2>5, <2>6, <2>7, Zenon DEF Progress
<1> QED
  BY <1>1, <1>2, <1>3, <1>4, <1>5, <1>6, Zenon DEF Next, Deserialize

LEMMA StreamInvSteps == Init /\ [][Next]_vars => [](IInv /\ StreamInv)
  BY InitStreamInv, StepKeepsStreamInv, PTL

LEMMA StreamInvAlways == Spec => [](IInv /\ StreamInv)
  BY StreamInvSteps, PTL DEF Spec

\* Nothing behind the frame the read cut arrived, and nothing it ends at.
LEMMA CutMeansNotBetween ==
  ASSUME TypeOK, Framed, NEW i, Cut(i)
  PROVE  /\ ~CutBetweenFrames
         /\ \A j \in 1 .. Len(sent) : j >= i => ~(FrameEnd(j) <= buflen)
<1>1. i \in 1 .. Len(sent) /\ starts[i] < buflen /\ buflen < FrameEnd(i)
  BY DEF Cut
<1>2. /\ Len(sent) \in Nat /\ buflen \in Nat
      /\ \A j \in 1 .. Len(sent) : FrameEnd(j) \in Nat /\ starts[j] \in Nat
      /\ \A j, k \in 1 .. Len(sent) : j < k => FrameEnd(j) <= starts[k]
      /\ \A j \in 1 .. Len(sent) : starts[j] <= FrameEnd(j)
  <2>1. Len(sent) \in Nat /\ \A j \in 1 .. Len(sent) :
          /\ starts[j] \in Nat /\ Len(sent[j].val) \in Nat
          /\ FrameEnd(j) = starts[j] + 5 + Len(sent[j].val)
          /\ \A k \in 1 .. Len(sent) : j < k => FrameEnd(j) <= starts[k]
    BY FrameNumbers, Zenon
  <2>2. \A s, l \in Nat : s + 5 + l \in Nat /\ s <= s + 5 + l
    OBVIOUS
  <2>3. memory \in Seq(Byte) /\ buflen \in 0 .. Len(memory)
    BY Zenon DEF TypeOK
  <2>4. buflen \in Nat
    BY <2>3
  <2> QED
    BY <2>1, <2>2, <2>4, Zenon
<1>3. ASSUME NEW j \in 1 .. Len(sent)
      PROVE  FrameEnd(j) # buflen /\ (j >= i => ~(FrameEnd(j) <= buflen))
  <2> DEFINE ej == FrameEnd(j)
             ei == FrameEnd(i)
             sj == starts[j]
             si == starts[i]
  <2>1. /\ ej \in Nat /\ ei \in Nat /\ sj \in Nat /\ si \in Nat /\ buflen \in Nat
        /\ j < i => ej <= si
        /\ i < j => ei <= sj
        /\ sj <= ej /\ si < buflen /\ buflen < ei
        /\ j = i => ej = ei
    BY <1>1, <1>2, Zenon
  <2>2. i \in Nat /\ j \in Nat
    BY <1>1, <1>2
  <2> HIDE DEF ej, ei, sj, si
  <2>3. ej # buflen /\ (j >= i => ~(ej <= buflen))
    BY <2>1, <2>2
  <2> QED
    BY <2>3 DEF ej
<1> QED
  BY <1>3, Zenon DEF CutBetweenFrames, WholeFrames

\* Counting the frames that arrived whole.
LEMMA WholeCount ==
  ASSUME TypeOK, Framed, NEW n \in Nat, n <= Len(sent),
         \A i \in 1 .. n : FrameEnd(i) <= buflen
  PROVE  /\ Cardinality(WholeFrames) \in Nat /\ n <= Cardinality(WholeFrames)
         /\ (\A i \in 1 .. Len(sent) : i > n => ~(FrameEnd(i) <= buflen)) =>
              Cardinality(WholeFrames) = n
<1>1. Len(sent) \in Nat
  BY FrameNumbers
<1>2. IsFiniteSet(1 .. Len(sent)) /\ IsFiniteSet(1 .. n) /\ Cardinality(1 .. n) = n
  <2>1. 1 \in Int /\ n \in Int /\ Len(sent) \in Int
    BY <1>1
  <2>2. Cardinality(1 .. n) = IF 1 > n THEN 0 ELSE n - 1 + 1
    BY <2>1, FS_Interval, Zenon
  <2>3. Cardinality(1 .. n) = n
    BY <2>2
  <2> QED
    BY <2>1, <2>3, FS_Interval, Zenon
<1>3. WholeFrames \subseteq 1 .. Len(sent) /\ 1 .. n \subseteq WholeFrames
  <2>1. \A i \in 1 .. n : i \in 1 .. Len(sent)
    BY <1>1
  <2> QED
    BY <2>1, Zenon DEF WholeFrames
<1>4. IsFiniteSet(WholeFrames) /\ Cardinality(WholeFrames) \in Nat
  BY <1>2, <1>3, FS_Subset, FS_CardinalityType, Zenon
<1>5. n <= Cardinality(WholeFrames)
  <2>1. Cardinality(1 .. n) <= Cardinality(WholeFrames)
    BY <1>3, <1>4, FS_Subset, Zenon
  <2> QED
    BY <1>2, <2>1, Zenon
<1>6. (\A i \in 1 .. Len(sent) : i > n => ~(FrameEnd(i) <= buflen)) => WholeFrames = 1 .. n
  <2> SUFFICES ASSUME \A i \in 1 .. Len(sent) : i > n => ~(FrameEnd(i) <= buflen),
                      NEW i \in WholeFrames
               PROVE  i \in 1 .. n
    BY <1>3
  <2>1. i \in 1 .. Len(sent) /\ ~(i > n)
    BY Zenon DEF WholeFrames
  <2> QED
    BY <1>1, <2>1
<1> QED
  BY <1>2, <1>4, <1>5, <1>6, Zenon

-----------------------------------------------------------------------------
(* Theorems. *)

\* The state of sender, socket and receiver keeps its types for streams of any length, cut
\* anywhere: whatever bytes the loop takes for a header, it appends only Messages of a tag
\* in the enum.
THEOREM StreamTypes == Spec => []TypeOK
<1>1. IInv => TypeOK
  BY DEF IInv
<1> QED
  BY IInvAlways, <1>1, PTL

\* The array of deserialize() always has room for its elements: it is never caught at the
\* capacity of one, at which da_append writes behind the block.
THEOREM StreamArrayHasRoom == Spec => []ArrayHasRoom
<1>1. IInv => ArrayHasRoom
  BY DEF IInv, ArrayHasRoom
<1> QED
  BY IInvAlways, <1>1, PTL

\* Each message takes at least five bytes of what was received, whatever the lengths are.
THEOREM StreamHeaderPerMessage == Spec => []HeaderPerMessage
<1>1. IInv => HeaderPerMessage
  BY DEF IInv, HeaderPerMessage
<1> QED
  BY IInvAlways, <1>1, PTL

\* The stream is the frames tlv.h documents, one behind the other, whatever is sent in
\* whatever order; but on a big-endian sender the halves of the 8-byte values are exchanged.
THEOREM StreamLayout == Spec => []WireLayout
<1>1. IInv /\ StreamInv => WireLayout
  <2> SUFFICES ASSUME TypeOK, Framed PROVE WireLayout
    BY DEF IInv, StreamInv
  <2>1. /\ Len(sent) \in Nat /\ Len(stream) \in Nat /\ Len(starts) = Len(sent)
        /\ IF sent = << >> THEN stream = << >> ELSE starts[1] = 0
        /\ sent \in Seq(Outgoing \cup Foreign) /\ starts \in Seq(Nat) /\ stream \in Seq(Byte)
    BY FrameNumbers, Zenon DEF Framed, TypeOK
  <2>2. DOMAIN sent = 1 .. Len(sent) /\ DOMAIN starts = DOMAIN sent
    BY <2>1
  <2>3. ASSUME NEW i \in 1 .. Len(sent)
        PROVE  SubSeq(stream, starts[i] + 1, FrameEnd(i)) =
                 DocumentedFrame(ExchangedIf(Sender = "big", sent[i]))
    <3> DEFINE m == sent[i]
               f == FrameOf(m)
               l == Len(f)
               e == FrameEnd(i)
               s == starts[i]
    <3>1. m \in Outgoing \cup Foreign /\ ~TooBig(m) /\ s \in Nat
          /\ e = s + l /\ e <= Len(stream) /\ \A k \in 1 .. l : stream[s + k] = f[k]
      <4>1. m \in Outgoing \cup Foreign /\ ~TooBig(m) /\ s \in Nat
        BY FrameNumbers, Zenon
      <4> QED
        BY <4>1, Zenon DEF Framed
    <3>2. f \in Seq(Byte) /\ l \in Nat
      <4>1. f \in Seq(Byte)
        BY <3>1, FrameFacts, Zenon
      <4> QED
        BY <4>1, ElementsOf, Zenon
    <3>3. f = DocumentedFrame(ExchangedIf(Sender = "big", m))
      <4>1. Sender \in ByteOrder
        BY StreamAssumption DEF TypeOK, Sender
      <4>2. CASE m \in Outgoing
        <5>1. Serializable(m)
          BY <3>1, <4>2, StreamAssumption DEF Serializable
        <5>2. m.type \in Type /\ (m.type \notin OwningType => Len(m.val) = FixedWidth[m.type])
          BY <5>1, SerializableFacts, Zenon
        <5>3. ExchangedIf(Sender = "big", m) =
                IF Sender = "big" /\ m.type \notin OwningType /\ Len(m.val) = 8
                THEN [m EXCEPT !.val = Exchanged(m.val)] ELSE m
          <6> HIDE DEF m
          <6> QED
            BY <5>2 DEF ExchangedIf, Wide, Exchanged
        <5>4. f = Serialize(Sender, m)
          BY <4>2, Zenon DEF FrameOf
        <5>5. Serialize(Sender, m) = DocumentedFrame(
                IF Sender = "big" /\ m.type \notin OwningType /\ Len(m.val) = 8
                THEN [m EXCEPT !.val = Exchanged(m.val)] ELSE m)
          BY <4>1, <5>1, FrameLayout, Zenon
        <5> HIDE DEF f, m
        <5> QED
          BY <5>3, <5>4, <5>5
      <4>3. CASE m \notin Outgoing
        <5>1. ~Wide(m)
          <6>1. m.type \in (Byte \ Type) \cup {T_NUL}
            BY <3>1, <4>3, StreamAssumption
          <6>2. FixedWidth[T_NUL] = 0
            BY DEF FixedWidth, Type, OwningType, T_NUL, T_STR, T_BIN, T_ERR
          <6> QED
            BY <6>1, <6>2 DEF Wide
        <5> QED
          BY <4>3, <5>1, Zenon DEF FrameOf, ExchangedIf
      <4> QED
        BY <4>2, <4>3
    <3> HIDE DEF f, l, e, s, m
    <3>4. \A k \in 1 .. l : s + k \in 1 .. Len(stream)
      BY <2>1, <3>1, <3>2
    <3>5. SubSeq(stream, s + 1, e) \in Seq(Byte) /\ Len(SubSeq(stream, s + 1, e)) = l
          /\ \A k \in 1 .. l : SubSeq(stream, s + 1, e)[k] = stream[s + k]
      BY <2>1, <3>1, <3>2
    <3>6. SubSeq(stream, s + 1, e) = f
      <4>1. Len(f) = l
        BY DEF l
      <4> QED
        BY <3>1, <3>2, <3>5, <4>1, SeqEqual, Zenon
    <3> QED
      BY <3>3, <3>6, Zenon DEF s, e, m
  <2> QED
    BY <2>1, <2>2, <2>3, Zenon DEF WireLayout
<1> QED
  BY StreamInvAlways, <1>1, PTL

\* Every frame that arrived whole is decoded to the message that was put into it, at its own
\* index, wherever the read ended and whatever lies behind the bytes read.
THEOREM StreamDecodesSent == Spec => []DecodesSent
<1>1. IInv /\ StreamInv => DecodesSent
  <2> SUFFICES ASSUME IInv, StreamInv, NEW i \in 1 .. Len(messages), i \in WholeFrames
               PROVE  messages[i] = ExchangedIf(Sender # Receiver, sent[i])
    <3>1. ASSUME NEW S, NEW s \in Seq(S) PROVE DOMAIN s = 1 .. Len(s)
      OBVIOUS
    <3>2. IInv => DOMAIN messages = 1 .. Len(messages)
      BY <3>1, Zenon DEF IInv, TypeOK
    <3> QED
      BY <3>2, Zenon DEF DecodesSent
  <2>1. TypeOK /\ Framed /\ Prefix /\ Progress /\ Len(messages) \in Nat
        /\ (messages = << >> <=> Len(messages) = 0)
    BY FrameNumbers, Zenon DEF IInv, StreamInv
  <2>2. CASE Decoded(Len(messages))
    BY <2>2, Zenon DEF Decoded
  <2>3. CASE PastCut
    <3>1. ~(Len(messages) <= i)
      <4>1. \A j \in 1 .. Len(sent) : j >= Len(messages) => ~(FrameEnd(j) <= buflen)
        BY <2>1, <2>3, CutMeansNotBetween, Zenon DEF PastCut
      <4>2. i \in 1 .. Len(sent) /\ FrameEnd(i) <= buflen
        BY Zenon DEF WholeFrames
      <4>3. Len(messages) <= i => i >= Len(messages)
        BY <2>1
      <4> QED
        BY <4>1, <4>2, <4>3, Zenon
    <3>2. i \in 1 .. Len(messages) - 1
      BY <2>1, <3>1
    <3> QED
      BY <2>3, <3>2, Zenon DEF PastCut, Decoded
  <2>4. CASE messages = << >>
    <3>1. Len(messages) = 0
      BY <2>1, <2>4
    <3> QED
      BY <3>1
  <2>5. pc \in {"build", "loop", "done", "sender exit", "receiver exit", "fault"}
    BY Zenon DEF IInv, TypeOK
  <2> QED
    BY <2>1, <2>2, <2>3, <2>4, <2>5 DEF Prefix, Progress, AtFrame
<1> QED
  BY StreamInvAlways, <1>1, PTL

\* deserialize() reads past buf.len exactly when the read cut a frame in two.
THEOREM StreamOverrunIffCut == Spec => []OverrunIffCut
<1>1. IInv /\ StreamInv => OverrunIffCut
  <2> SUFFICES ASSUME IInv, StreamInv, pc \in {"done", "fault"}
               PROVE  overrun <=> ~CutBetweenFrames
    BY DEF OverrunIffCut
  <2>1. TypeOK /\ Framed /\ Prefix /\ Progress /\ Len(messages) \in Nat
    BY FrameNumbers, Zenon DEF IInv, StreamInv
  <2>2. CASE pc = "fault"
    <3>1. overrun /\ Cut(Len(messages) + 1)
      BY <2>1, <2>2 DEF Progress
    <3> QED
      BY <2>1, <3>1, CutMeansNotBetween, Zenon
  <2>3. CASE pc = "done" /\ PastCut
    BY <2>1, <2>3, CutMeansNotBetween, Zenon DEF PastCut
  <2>4. CASE pc = "done" /\ AtFrame /\ buflen <= offset
    <3> DEFINE n == Len(messages)
               e == FrameEnd(n)
    <3>1. 0 < buflen /\ buflen \in Nat
      <4>1. buflen \in 0 .. Len(memory) /\ memory \in Seq(Byte)
        BY Zenon DEF IInv, TypeOK
      <4>2. buflen \in Nat
        BY <4>1
      <4> QED
        BY <2>1, <2>4, <4>2 DEF Prefix
    <3>2. n \in Nat /\ n <= Len(sent) /\ Len(sent) \in Nat
          /\ (n = 0 => offset = 0) /\ (n # 0 => offset = e)
          /\ (\A i \in 1 .. n : FrameEnd(i) <= buflen)
          /\ ~overrun
      BY <2>1, <2>4, FrameNumbers, Zenon DEF AtFrame, Decoded
    <3> HIDE DEF n
    <3>3. n # 0
      BY <2>4, <3>1, <3>2
    <3>4. n \in 1 .. n /\ n \in 1 .. Len(sent)
      BY <3>2, <3>3
    <3>5. e = buflen
      <4>1. e <= buflen /\ buflen <= e
        BY <2>4, <3>2, <3>3, <3>4, Zenon
      <4>2. e \in Nat
        BY <3>2, <3>3, Zenon DEF IInv, TypeOK
      <4> HIDE DEF e
      <4> QED
        BY <3>1, <4>1, <4>2
    <3>6. CutBetweenFrames
      BY <3>2, <3>4, <3>5, Zenon DEF CutBetweenFrames, WholeFrames
    <3> QED
      BY <3>2, <3>6
  <2> QED
    BY <2>1, <2>2, <2>3, <2>4 DEF Progress
<1> QED
  BY StreamInvAlways, <1>1, PTL

\* The loop makes a message of each whole frame, and at most one of a frame that was cut.
THEOREM StreamOneMessagePerFrame == Spec => []OneMessagePerFrame
<1>1. IInv /\ StreamInv => OneMessagePerFrame
  <2> SUFFICES ASSUME IInv, StreamInv PROVE OneMessagePerFrame
    OBVIOUS
  <2> DEFINE n == Len(messages)
             w == Cardinality(WholeFrames)
  <2>1. /\ TypeOK /\ Framed /\ Prefix /\ Progress /\ n \in Nat /\ Len(sent) \in Nat
        /\ (messages = << >> <=> n = 0)
    BY FrameNumbers, Zenon DEF IInv, StreamInv
  <2>2. CASE Decoded(n)
    <3>1. w \in Nat /\ n <= w
      BY <2>1, <2>2, WholeCount, Zenon DEF Decoded
    <3> HIDE DEF n, w
    <3>2. n <= w + 1
      BY <2>1, <3>1
    <3>3. pc = "done" => w <= n
      <4> SUFFICES ASSUME pc = "done" PROVE w <= n
        OBVIOUS
      <4>1. CASE PastCut
        <5>1. n - 1 \in Nat /\ n - 1 <= Len(sent) /\ Decoded(n - 1) /\ Cut(n)
          <6>1. n # 0 /\ Decoded(n - 1) /\ Cut(n)
            BY <2>1, <4>1, Zenon DEF PastCut, n
          <6>2. n - 1 \in Nat
            BY <2>1, <6>1
          <6> QED
            BY <6>1, <6>2, Zenon DEF Decoded
        <5>2. \A i \in 1 .. Len(sent) : i > n - 1 => ~(FrameEnd(i) <= buflen)
          <6>1. \A i \in 1 .. Len(sent) : i > n - 1 => i >= n
            BY <2>1
          <6> QED
            BY <2>1, <5>1, <6>1, CutMeansNotBetween, Zenon
        <5>3. w = n - 1
          BY <2>1, <5>1, <5>2, WholeCount, Zenon DEF Decoded, w
        <5> QED
          BY <2>1, <5>3
      <4>2. CASE AtFrame /\ buflen <= offset
        <5>1. \A i \in 1 .. Len(sent) : i > n => ~(FrameEnd(i) <= buflen)
          <6> SUFFICES ASSUME NEW i \in 1 .. Len(sent), i > n PROVE ~(FrameEnd(i) <= buflen)
            OBVIOUS
          <6>1. /\ starts[i] \in Nat /\ Len(sent[i].val) \in Nat
                /\ FrameEnd(i) = starts[i] + 5 + Len(sent[i].val)
            BY <2>1, FrameNumbers, Zenon
          <6>2. offset <= starts[i]
            <7>1. CASE n = 0
              <8>1. offset = 0
                BY <2>1, <4>2, <7>1, Zenon DEF AtFrame
              <8> QED
                BY <6>1, <8>1
            <7>2. CASE n # 0
              <8>1. offset = FrameEnd(n)
                BY <2>1, <4>2, <7>2, Zenon DEF AtFrame, n
              <8>2. n \in 1 .. Len(sent) /\ n < i
                BY <2>1, <2>2, <7>2 DEF Decoded
              <8> QED
                BY <2>1, <8>1, <8>2, FrameNumbers, Zenon
            <7> QED
              BY <7>1, <7>2
          <6>3. buflen \in Nat /\ offset \in Nat
            <7>1. buflen \in 0 .. Len(memory) /\ memory \in Seq(Byte) /\ offset \in Nat
              BY <2>1, Zenon DEF TypeOK
            <7> QED
              BY <7>1
          <6>4. \A s, l \in Nat : offset <= s => ~(s + 5 + l <= buflen)
            BY <4>2, <6>3
          <6> QED
            BY <6>1, <6>2, <6>4, Zenon
        <5>2. n <= Len(sent) /\ \A i \in 1 .. n : FrameEnd(i) <= buflen
          BY <2>2, Zenon DEF Decoded
        <5>3. w = n
          BY <2>1, <5>1, <5>2, WholeCount, Zenon DEF w
        <5> QED
          BY <2>1, <5>3
      <4> QED
        BY <2>1, <4>1, <4>2 DEF Progress
    <3> QED
      BY <3>2, <3>3, Zenon DEF OneMessagePerFrame, n, w
  <2>3. CASE PastCut
    <3>1. n - 1 \in Nat /\ n - 1 <= Len(sent) /\ Decoded(n - 1) /\ Cut(n)
      <4>1. n # 0 /\ Decoded(n - 1) /\ Cut(n)
        BY <2>1, <2>3, Zenon DEF PastCut
      <4>2. n - 1 \in Nat
        BY <2>1, <4>1
      <4> QED
        BY <4>1, <4>2, Zenon DEF Decoded
    <3>2. \A i \in 1 .. Len(sent) : i > n - 1 => ~(FrameEnd(i) <= buflen)
      <4>1. \A i \in 1 .. Len(sent) : i > n - 1 => i >= n
        BY <2>1
      <4> QED
        BY <2>1, <3>1, <4>1, CutMeansNotBetween, Zenon
    <3>3. w = n - 1
      BY <2>1, <3>1, <3>2, WholeCount, Zenon DEF Decoded
    <3> HIDE DEF n, w
    <3>4. n <= w + 1 /\ w <= n
      BY <2>1, <3>3
    <3> QED
      BY <3>4, Zenon DEF OneMessagePerFrame, n, w
  <2>4. CASE messages = << >> /\ pc # "done"
    <3>1. 0 <= Len(sent) /\ \A i \in 1 .. 0 : FALSE
      BY <2>1
    <3>2. w \in Nat
      BY <2>1, <3>1, WholeCount, Zenon
    <3>3. n <= w + 1
      <4> HIDE DEF w
      <4> QED
        BY <2>1, <2>4, <3>2
    <3> QED
      BY <2>4, <3>3, Zenon DEF OneMessagePerFrame
  <2>5. pc \in {"build", "loop", "done", "sender exit", "receiver exit", "fault"}
    BY <2>1, Zenon DEF TypeOK
  <2> QED
    BY <2>1, <2>2, <2>3, <2>4, <2>5 DEF Prefix, Progress, AtFrame
<1> QED
  BY StreamInvAlways, <1>1, PTL

\* With memory to spare, only a frame with a tag outside the enum ends the receiver, and all
\* the frames in front of it are decoded by then.
THEOREM StreamRefusesOnlyUnknown == Spec => []RefusesOnlyUnknown
<1> DEFINE n == Len(messages)
           Refused == /\ Decoded(n) /\ n < Len(sent)
                      /\ starts[n + 1] = offset /\ offset < buflen
                      /\ sent[n + 1].type \notin Type
<1>1. IInv /\ StreamInv /\ pc = "receiver exit" /\ ~AllocMayFail => Refused
  <2>1. pc = "receiver exit" => /\ pc # "loop" /\ pc # "done" /\ pc # "fault"
    OBVIOUS
  <2> QED
    BY <2>1, Zenon DEF StreamInv, Progress
<1>2. IInv /\ StreamInv /\ Refused /\ CutBetweenFrames =>
        n < Cardinality(WholeFrames) /\ sent[n + 1].type \notin Type
  <2> SUFFICES ASSUME IInv, StreamInv, Refused, CutBetweenFrames
               PROVE  n < Cardinality(WholeFrames) /\ sent[n + 1].type \notin Type
    OBVIOUS
  <2>1. /\ TypeOK /\ Framed /\ n \in Nat /\ Len(sent) \in Nat
        /\ n <= Len(sent) /\ \A i \in 1 .. n : FrameEnd(i) <= buflen
    <3>1. TypeOK /\ Framed /\ n \in Nat /\ Len(sent) \in Nat
      BY FrameNumbers, Zenon DEF IInv, StreamInv
    <3> QED
      BY <3>1, Zenon DEF Decoded
  <2>2. n < Len(sent) /\ starts[n + 1] = offset /\ offset < buflen /\ sent[n + 1].type \notin Type
    OBVIOUS
  <2> HIDE DEF n, Refused
  <2>3. n + 1 \in 1 .. Len(sent)
    BY <2>1, <2>2
  <2>4. FrameEnd(n + 1) <= buflen
    <3>1. ~Cut(n + 1)
      BY <2>1, CutMeansNotBetween, Zenon
    <3>2. FrameEnd(n + 1) \in Nat
      <4>1. starts[n + 1] \in Nat /\ Len(sent[n + 1].val) \in Nat
            /\ FrameEnd(n + 1) = starts[n + 1] + 5 + Len(sent[n + 1].val)
        BY <2>1, <2>3, FrameNumbers, Zenon
      <4>2. \A s, l \in Nat : s + 5 + l \in Nat
        OBVIOUS
      <4> QED
        BY <4>1, <4>2, Zenon
    <3>3. buflen \in Nat
      <4>1. buflen \in 0 .. Len(memory) /\ memory \in Seq(Byte)
        BY <2>1, Zenon DEF TypeOK
      <4> QED
        BY <4>1
    <3>4. ~(buflen < FrameEnd(n + 1))
      BY <2>2, <2>3, <3>1, Zenon DEF Cut
    <3>5. \A e \in Nat : ~(buflen < e) => e <= buflen
      BY <3>3
    <3> QED
      BY <3>2, <3>4, <3>5, Zenon
  <2>5. n + 1 \in Nat /\ n + 1 <= Len(sent) /\ \A i \in 1 .. n + 1 : i = n + 1 \/ i \in 1 .. n
    BY <2>1, <2>3
  <2>6. Cardinality(WholeFrames) \in Nat /\ n + 1 <= Cardinality(WholeFrames)
    BY <2>1, <2>4, <2>5, WholeCount, Zenon
  <2> QED
    BY <2>1, <2>2, <2>6
<1>3. IInv /\ StreamInv => RefusesOnlyUnknown
  BY <1>1, <1>2, Zenon DEF RefusesOnlyUnknown
<1> QED
  BY StreamInvAlways, <1>3, PTL

\* A read that gets the whole stream cuts no frame.
LEMMA WholeReadCutsNone ==
  ASSUME IInv, StreamInv, pc \notin {"build", "sender exit"}, ShortReads = FALSE
  PROVE  \A i : ~Cut(i)
<1>1. TypeOK /\ Framed /\ buflen = Len(stream)
  BY DEF IInv, StreamInv, Prefix
<1>2. /\ Len(stream) \in Nat
      /\ \A i \in 1 .. Len(sent) :
           /\ FrameEnd(i) <= Len(stream)
           /\ Len(sent[i].val) \in Nat /\ starts[i] \in Nat
           /\ FrameEnd(i) = starts[i] + 5 + Len(sent[i].val)
  BY <1>1, FrameNumbers, Zenon
<1>3. \A s, l \in Nat : s + 5 + l <= Len(stream) => ~(Len(stream) < s + 5 + l)
  BY ONLY <1>2
<1> QED
  BY <1>1, <1>2, <1>3, Zenon DEF Cut

\* When the read gets the whole stream, the messages that come out are those that went in.
LEMMA AllDelivered ==
  ASSUME IInv, StreamInv, Return, ShortReads = FALSE, Sender = Receiver
  PROVE  messages = sent
<1> DEFINE n == Len(messages)
           e == FrameEnd(n)
<1>1. /\ TypeOK /\ Framed /\ Prefix /\ Progress /\ pc = "loop" /\ buflen <= offset
  BY DEF IInv, StreamInv, Return
<1>2. /\ n \in Nat /\ Len(sent) \in Nat /\ Len(stream) \in Nat /\ (messages = << >> <=> n = 0)
      /\ \A i \in 1 .. Len(sent) :
           /\ FrameEnd(i) <= Len(stream)
           /\ Len(sent[i].val) \in Nat /\ starts[i] \in Nat
           /\ FrameEnd(i) = starts[i] + 5 + Len(sent[i].val)
           /\ i < Len(sent) => FrameEnd(i) = starts[i + 1]
  BY <1>1, FrameNumbers, Zenon
<1>3. buflen = Len(stream) /\ 0 < buflen
  BY <1>1 DEF Prefix
<1>4. AtFrame
  <2>1. ~PastCut
    BY <1>1, WholeReadCutsNone DEF PastCut
  <2> QED
    BY <1>1, <2>1 DEF Progress
<1>5. /\ n <= Len(sent) /\ offset = IF n = 0 THEN 0 ELSE e
      /\ \A i \in 1 .. n : messages[i] = sent[i]
  <2>1. \A m : ExchangedIf(Sender # Receiver, m) = m
    BY DEF ExchangedIf
  <2> QED
    BY <1>2, <1>4, <2>1, Zenon DEF AtFrame, Decoded
<1>6. n = Len(sent)
  <2> SUFFICES ASSUME n # Len(sent) PROVE FALSE
    OBVIOUS
  <2>1. n # 0
    <3> HIDE DEF n, e
    <3> QED
      BY <1>1, <1>2, <1>3, <1>5
  <2>2. n \in 1 .. Len(sent) /\ n < Len(sent) /\ n + 1 \in 1 .. Len(sent)
    <3> HIDE DEF n, e
    <3> QED
      BY <1>2, <1>5, <2>1
  <2>3. e = starts[n + 1] /\ starts[n + 1] + 5 + Len(sent[n + 1].val) <= Len(stream)
        /\ starts[n + 1] \in Nat /\ Len(sent[n + 1].val) \in Nat
    BY <1>2, <2>2, Zenon
  <2>4. \A s, l \in Nat : s + 5 + l <= Len(stream) => ~(Len(stream) <= s)
    BY <1>2
  <2>5. Len(stream) <= e
    BY <1>1, <1>3, <1>5, <2>1, Zenon
  <2> QED
    BY <2>3, <2>4, <2>5, Zenon
<1>7. /\ messages \in Seq([type : Type, val : Seq(Byte)])
      /\ sent \in Seq(Outgoing \cup Foreign)
  BY <1>1, Zenon DEF TypeOK
<1>8. \A S, s : s \in Seq(S) => s = [i \in 1 .. Len(s) |-> s[i]]
  OBVIOUS
<1>9. Len(messages) = Len(sent) /\ \A i \in 1 .. Len(sent) : messages[i] = sent[i]
  BY <1>5, <1>6, Zenon
<1>10. messages = [i \in 1 .. Len(messages) |-> messages[i]]
       /\ sent = [i \in 1 .. Len(sent) |-> sent[i]]
  BY <1>7, <1>8, Zenon
<1>11. [i \in 1 .. Len(messages) |-> messages[i]] = [i \in 1 .. Len(sent) |-> sent[i]]
  BY <1>9, Zenon
<1> QED
  BY <1>10, <1>11, Zenon

\* Between hosts of one byte order, and as long as the read gets the whole stream, every step
\* of sender, socket and receiver is a step of TLVChannel or a step in which nothing happens
\* there: the messages come out all at once and in order, or the transfer fails and none does.
THEOREM StreamStepsChannel ==
  ASSUME ShortReads = FALSE, \A h \in Hosts : h[1] = h[2]
  PROVE  Init /\ [][Next]_vars => Channel!Init /\ [][Channel!Next]_(Channel!channelVars)
<1>1. Init => Channel!Init
  BY DEF Init, Channel!Init
<1>2. IInv /\ StreamInv /\ [Next]_vars => [Channel!Next]_(Channel!channelVars)
  <2> SUFFICES ASSUME IInv, StreamInv, [Next]_vars
               PROVE  [Channel!Next]_(Channel!channelVars)
    OBVIOUS
  <2>1. CASE \E m \in Outgoing \cup Foreign : Send(m)
    <3> PICK m \in Outgoing \cup Foreign : Send(m)
      BY <2>1
    <3>1. pc = "build" /\ pc' = "build" /\ sent' = Append(sent, m)
      BY DEF Send
    <3>2. Channel!Put(m)
      BY <3>1 DEF Channel!Put
    <3> QED
      BY <3>2, Zenon DEF Channel!Next
  <2>2. CASE SenderExit
    <3>1. pc = "build" /\ pc' = "sender exit" /\ sent' = sent
      BY <2>2 DEF SenderExit, sender
    <3>2. Channel!Fail
      BY <3>1 DEF Channel!Fail
    <3> QED
      BY <3>2, Zenon DEF Channel!Next
  <2>3. CASE Receive
    <3>1. pc = "build" /\ pc' = "loop" /\ sent' = sent
      BY <2>3 DEF Receive, sender
    <3>2. Channel!Close
      BY <3>1 DEF Channel!Close
    <3> QED
      BY <3>2, Zenon DEF Channel!Next
  <2>4. CASE ParseFrame
    <3>1. pc = "loop" /\ pc' = "loop" /\ sent' = sent
      BY <2>4 DEF ParseFrame, sender
    <3> QED
      BY <3>1 DEF Channel!channelVars
  <2>5. CASE BadType \/ OutOfMemory
    <3>1. pc = "loop" /\ pc' = "receiver exit" /\ sent' = sent
      BY <2>5 DEF BadType, OutOfMemory, sender
    <3>2. Channel!Fail
      BY <3>1 DEF Channel!Fail
    <3> QED
      BY <3>2, Zenon DEF Channel!Next
  <2>6. CASE Fault
    <3>1. Cut(Len(messages) + 1)
      BY <2>6, FaultMeansCut DEF StreamInv
    <3>2. pc \notin {"build", "sender exit"}
      BY <2>6 DEF Fault
    <3> QED
      BY <3>1, <3>2, WholeReadCutsNone, Zenon
  <2>7. CASE Return
    <3>1. pc = "loop" /\ pc' = "done" /\ sent' = sent /\ messages' = messages
      BY <2>7 DEF Return, sender, result
    <3>2. Sender = Receiver
      BY Zenon DEF IInv, TypeOK, Sender, Receiver
    <3>3. messages = sent
      BY <2>7, <3>2, AllDelivered
    <3>4. Channel!Deliver
      BY <3>1, <3>3 DEF Channel!Deliver
    <3> QED
      BY <3>4, Zenon DEF Channel!Next
  <2>8. CASE Terminated \/ UNCHANGED vars
    <3>1. pc' = pc /\ sent' = sent /\ messages' = messages
      BY <2>8 DEF Terminated, vars
    <3> QED
      BY <3>1 DEF Channel!channelVars
  <2> QED
    BY <2>1, <2>2, <2>3, <2>4, <2>5, <2>6, <2>7, <2>8, Zenon DEF Next, Deserialize
<1> QED
  BY <1>1, <1>2, StreamInvSteps, PTL

=============================================================================
