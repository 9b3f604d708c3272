------------------------------ MODULE TLVWire ------------------------------
(***************************************************************************)
(* The codec of src/tlv.c: what the serialize_*() functions put into a     *)
(* frame and what one iteration of deserialize() takes out of it.          *)
(*                                                                         *)
(* An integer of w bytes is a word: the sequence of its w base-256 digits, *)
(* most significant first (a negative number is its two's complement, a    *)
(* float or a double its bit pattern).  The casts of the code between      *)
(* types of one width leave the word alone.  Memory holds the digits of a  *)
(* word in the order of the host, so every memcpy between an integer and a *)
(* byte buffer goes through InMemory.                                      *)
(***************************************************************************)
EXTENDS Integers, SequencesExt

CONSTANT
  LengthLimit  \* UINT32_MAX: the longest payload complex_serialize accepts

\* Four base-256 digits hold every accepted length (256^4 itself is past TLC's integers).
FourDigits(n) == n \div 16777216 < 256

ASSUME LengthLimitAssumption == LengthLimit \in Nat /\ FourDigits(LengthLimit)

Byte == 0 .. 255
ByteOrder == {"little", "big"}

-----------------------------------------------------------------------------
(* The enum Type of tlv.h. *)

T_NUL == 0
T_U08 == 1
T_U16 == 2
T_U32 == 3
T_U64 == 4
T_S08 == 5
T_S16 == 6
T_S32 == 7
T_S64 == 8
T_F32 == 9
T_F64 == 10
T_STR == 11
T_BOL == 12
T_BIN == 13
T_TIM == 14
T_CHR == 15
T_ERR == 16

Type == T_NUL .. T_ERR

\* The types whose value is copied to a heap block of the frame's length.
OwningType == {T_STR, T_BIN, T_ERR}

\* The number of bytes deserialize() reads for a type that is not owning.
FixedWidth == [t \in Type \ OwningType |->
  IF t = T_NUL THEN 0
  ELSE IF t \in {T_U08, T_S08, T_BOL} THEN 1
  ELSE IF t \in {T_U16, T_S16} THEN 2
  ELSE IF t \in {T_U32, T_S32, T_F32, T_CHR} THEN 4
  ELSE 8]  \* T_U64, T_S64, T_F64, T_TIM

\* A decoded Message: its tag, and the word or the payload of the union member that tag
\* makes valid.
IsMessage(m) ==
  /\ m \in [type : Type, val : Seq(Byte)]
  /\ m.type \notin OwningType => Len(m.val) = FixedWidth[m.type]

-----------------------------------------------------------------------------
(* Host and network byte order. *)

\* The bytes of a word in the memory of a host, lowest address first; its own inverse.
InMemory(order, word) == IF order = "little" THEN Reverse(word) ELSE word

\* htons, htonl, ntohs and ntohl of <arpa/inet.h>, as functions from word to word.
Hton(order, word) == IF order = "little" THEN Reverse(word) ELSE word

\* hton64: both halves converted, then exchanged, on every host.
\* (Hton64Unexchanged: the halves stay where they are.)
Hton64Unexchanged(order, word) ==
  Hton(order, SubSeq(word, 1, 4)) \o Hton(order, SubSeq(word, 5, 8))

Hton64(order, word) ==
  LET hi == Hton(order, SubSeq(word, 1, 4))
      lo == Hton(order, SubSeq(word, 5, 8))
  IN  lo \o hi

Ntoh64(order, word) == Hton64(order, word)

\* The conversion the code picks for a word, by its width.
ToNetwork(order, word) ==
  CASE Len(word) = 1 -> word
    [] Len(word) \in {2, 4} -> Hton(order, word)
    [] Len(word) = 8 -> Hton64(order, word)

FromNetwork(order, word) ==
  CASE Len(word) = 1 -> word
    [] Len(word) \in {2, 4} -> Hton(order, word)
    [] Len(word) = 8 -> Ntoh64(order, word)

\* The four digits of a uint32_t length, and the length they denote.
LengthWord(n) ==
  << n \div 16777216, (n \div 65536) % 256, (n \div 256) % 256, n % 256 >>

LengthOf(word) ==
  word[1] * 16777216 + word[2] * 65536 + word[3] * 256 + word[4]

-----------------------------------------------------------------------------
(* Serialization: the bytes of the Buffer each function returns. *)

Header(order, type, len) ==
  << type >> \o InMemory(order, Hton(order, LengthWord(len)))

\* simple_serialize and its 16, 32 and 64-bit forms.
SimpleSerialize(order, word, type) ==
  Header(order, type, Len(word)) \o InMemory(order, ToNetwork(order, word))

\* (uint32_t)n
ToU32(n) == n % (LengthLimit + 1)

\* complex_serialize.  (ComplexSerializeTotal: the length field counts the header too.)
ComplexSerializeTotal(order, bytes, type) ==
  Header(order, type, 5 + ToU32(Len(bytes))) \o bytes

ComplexSerialize(order, bytes, type) ==
  Header(order, type, ToU32(Len(bytes))) \o bytes

\* The guard of complex_serialize that ends the program.  (TooBigNever: no guard.)
TooBigNever(m) == FALSE

TooBig(m) == m.type \in OwningType /\ Len(m.val) > LengthLimit

\* The serialize_*() function of the message's type (none makes a T_NUL frame).
Serialize(order, m) ==
  IF m.type \in OwningType THEN ComplexSerialize(order, m.val, m.type)
                           ELSE SimpleSerialize(order, m.val, m.type)

\* The frame layout tlv.h documents, whatever the host: tag, big-endian length, value.
DocumentedFrame(m) == << m.type >> \o LengthWord(Len(m.val)) \o m.val

-----------------------------------------------------------------------------
(* Deserialization: the reads of one loop iteration, from the bytes they copy. *)

\* The cases of the switch; any other tag ends the program.
\* (KnownAny: without the default case.)
KnownAny(tag) == TRUE

Known(tag) == tag \in Type

\* ntohl of the four bytes behind the tag.  (ReadLengthUnconverted: without ntohl.)
ReadLengthUnconverted(order, bytes) == LengthOf(InMemory(order, bytes))

ReadLength(order, bytes) == LengthOf(Hton(order, InMemory(order, bytes)))

\* How many bytes behind the header the case of a type copies.
BytesRead(type, len) ==
  IF type \in OwningType THEN len
  ELSE IF type \in Type THEN FixedWidth[type] ELSE 0

\* The Message the case of a type builds from those bytes.
\* (DecodeUnconverted: the value is left in network order.)
DecodeUnconverted(order, type, bytes) ==
  [type |-> type,
   val  |-> IF type \in OwningType \/ bytes = << >> THEN bytes
            ELSE InMemory(order, bytes)]

Decode(order, type, bytes) ==
  [type |-> type,
   val  |-> IF type \in OwningType \/ bytes = << >> THEN bytes
            ELSE FromNetwork(order, InMemory(order, bytes))]

=============================================================================
