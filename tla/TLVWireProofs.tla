--------------------------- MODULE TLVWireProofs ----------------------------
(***************************************************************************)
(* Proofs about the codec, for every word and message and both byte        *)
(* orders: what deserialize() takes out of a frame of the library is what  *)
(* was put into it, and which frames follow the layout tlv.h documents.    *)
(***************************************************************************)
EXTENDS TLVWire, SequenceTheorems, TLAPS

Word(n) == {w \in Seq(Byte) : Len(w) = n}

\* The halves of an 8-byte word exchanged.
Exchanged(word) == SubSeq(word, 5, 8) \o SubSeq(word, 1, 4)

-----------------------------------------------------------------------------
(* Byte order. *)

LEMMA Part ==
  ASSUME NEW w \in Seq(Byte), NEW m \in 1 .. Len(w), NEW n \in m .. Len(w)
  PROVE  /\ SubSeq(w, m, n) \in Seq(Byte) /\ Len(SubSeq(w, m, n)) = n - m + 1
         /\ \A i \in 1 .. n - m + 1 : SubSeq(w, m, n)[i] = w[m + i - 1]
<1>1. \A i \in m .. n : w[i] \in Byte
  OBVIOUS
<1> QED
  BY <1>1, SubSeqProperties

\* The two parts of a concatenation.
LEMMA TwoParts ==
  ASSUME NEW u \in Seq(Byte), NEW v \in Seq(Byte), u # << >>, v # << >>
  PROVE  /\ SubSeq(u \o v, 1, Len(u)) = u
         /\ SubSeq(u \o v, Len(u) + 1, Len(u) + Len(v)) = v
<1>1. Len(u) \in Nat \ {0} /\ Len(v) \in Nat \ {0}
  BY EmptySeq
<1>2. SubSeq(u \o v, 1, Len(u)) = SubSeq(u, 1, Len(u))
  BY <1>1, SubSeqOfConcat1
<1>3. SubSeq(u \o v, Len(u) + 1, Len(u) + Len(v)) = SubSeq(v, 1, Len(v))
  BY <1>1, SubSeqOfConcat2
<1> QED
  BY <1>2, <1>3, SubSeqFull

LEMMA ReverseTwice ==
  ASSUME NEW s \in Seq(Byte)
  PROVE  Reverse(s) \in Seq(Byte) /\ Len(Reverse(s)) = Len(s) /\ Reverse(Reverse(s)) = s
<1>1. Len(s) \in Nat /\ DOMAIN s = 1 .. Len(s)
  OBVIOUS
<1>2. \A i \in 1 .. Len(s) : s[Len(s) - i + 1] \in Byte
  BY <1>1
<1>3. Reverse(s) \in Seq(Byte) /\ Len(Reverse(s)) = Len(s)
  BY <1>1, <1>2 DEF Reverse
<1>4. \A i \in 1 .. Len(s) : Reverse(s)[i] = s[Len(s) - i + 1]
  BY <1>1 DEF Reverse
<1>5. \A i \in 1 .. Len(s) : Reverse(Reverse(s))[i] = s[i]
  <2>1. ASSUME NEW i \in 1 .. Len(s)  PROVE Reverse(Reverse(s))[i] = s[i]
    <3>1. Len(s) - i + 1 \in 1 .. Len(s) /\ Len(s) - (Len(s) - i + 1) + 1 = i
      BY <1>1
    <3>2. Reverse(Reverse(s))[i] = Reverse(s)[Len(s) - i + 1]
      BY <1>1, <1>3 DEF Reverse
    <3> QED
      BY <1>4, <3>1, <3>2
  <2> QED  BY <2>1
<1>6. Reverse(Reverse(s)) \in Seq(Byte) /\ Len(Reverse(Reverse(s))) = Len(s)
  <2>1. \A i \in 1 .. Len(s) : Reverse(s)[Len(s) - i + 1] \in Byte
    BY <1>1, <1>3
  <2> QED
    BY <1>1, <1>3, <2>1 DEF Reverse
<1> QED
  BY <1>1, <1>3, <1>5, <1>6

LEMMA ReverseAt ==
  ASSUME NEW s \in Seq(Byte)
  PROVE  \A i \in 1 .. Len(s) : Reverse(s)[i] = s[Len(s) - i + 1]
  BY DEF Reverse

LEMMA MemoryTwice ==
  ASSUME NEW order \in ByteOrder, NEW s \in Seq(Byte)
  PROVE  /\ InMemory(order, s) \in Seq(Byte) /\ Len(InMemory(order, s)) = Len(s)
         /\ InMemory(order, InMemory(order, s)) = s
         /\ Hton(order, s) = InMemory(order, s)
  BY ReverseTwice DEF InMemory, Hton

\* An 8-byte word and its halves.
LEMMA JoinHalves ==
  ASSUME NEW u \in Word(4), NEW v \in Word(4)
  PROVE  /\ u \o v \in Word(8)
         /\ SubSeq(u \o v, 1, 4) = u /\ SubSeq(u \o v, 5, 8) = v
<1>1. /\ u \in Seq(Byte) /\ v \in Seq(Byte) /\ Len(u) = 4 /\ Len(v) = 4
      /\ u # << >> /\ v # << >>
  BY EmptySeq DEF Word
<1>2. u \o v \in Seq(Byte) /\ Len(u \o v) = 8
  <2>1. u \o v \in Seq(Byte) /\ Len(u \o v) = Len(u) + Len(v)
    BY ONLY <1>1, ConcatProperties, Zenon
  <2> QED
    BY <1>1, <2>1
<1>3. /\ SubSeq(u \o v, 1, Len(u)) = u
      /\ SubSeq(u \o v, Len(u) + 1, Len(u) + Len(v)) = v
  BY <1>1, TwoParts
<1>4. Len(u) + 1 = 5 /\ Len(u) + Len(v) = 8
  BY <1>1
<1> QED
  BY <1>1, <1>2, <1>3, <1>4, Zenon DEF Word

LEMMA SplitHalves ==
  ASSUME NEW w \in Word(8)
  PROVE  /\ SubSeq(w, 1, 4) \in Word(4) /\ SubSeq(w, 5, 8) \in Word(4)
         /\ SubSeq(w, 1, 4) \o SubSeq(w, 5, 8) = w
<1>1. w \in Seq(Byte) /\ Len(w) = 8
  BY DEF Word
<1>2. SubSeq(w, 1, 4) \in Word(4) /\ SubSeq(w, 5, 8) \in Word(4)
  <2>1. SubSeq(w, 1, 4) \in Seq(Byte) /\ Len(SubSeq(w, 1, 4)) = 4
    <3>1. 1 \in 1 .. Len(w) /\ 4 \in 1 .. Len(w) /\ 4 - 1 + 1 = 4
      BY <1>1
    <3> QED
      BY ONLY <1>1, <3>1, Part
  <2>2. SubSeq(w, 5, 8) \in Seq(Byte) /\ Len(SubSeq(w, 5, 8)) = 4
    <3>1. 5 \in 1 .. Len(w) /\ 8 \in 5 .. Len(w) /\ 8 - 5 + 1 = 4
      BY <1>1
    <3> QED
      BY ONLY <1>1, <3>1, Part
  <2> QED
    BY <2>1, <2>2 DEF Word
<1>3. SubSeq(w, 1, 4) \o SubSeq(w, 4 + 1, 8) = SubSeq(w, 1, 8)
  <2>1. 1 \in 1 .. Len(w) + 1 /\ 4 \in 1 - 1 .. Len(w) /\ 8 \in 4 .. Len(w)
    BY <1>1
  <2> QED
    BY ONLY <1>1, <2>1, ConcatAdjacentSubSeq
<1>4. SubSeq(w, 1, 8) = w
  BY <1>1, SubSeqFull
<1>5. 4 + 1 = 5
  OBVIOUS
<1> QED
  BY <1>2, <1>3, <1>4, <1>5, Zenon

LEMMA ReverseOfJoined ==
  ASSUME NEW u \in Seq(Byte), NEW v \in Seq(Byte)
  PROVE  Reverse(Reverse(v) \o Reverse(u)) = u \o v
<1> DEFINE s == Reverse(v) \o Reverse(u)
           n == Len(u)
           m == Len(v)
<1>1. n \in Nat /\ m \in Nat
  OBVIOUS
<1>2. /\ Reverse(u) \in Seq(Byte) /\ Len(Reverse(u)) = n
      /\ Reverse(v) \in Seq(Byte) /\ Len(Reverse(v)) = m
  BY ReverseTwice
<1>3. /\ \A i \in 1 .. n : Reverse(u)[i] = u[n - i + 1]
      /\ \A i \in 1 .. m : Reverse(v)[i] = v[m - i + 1]
  BY DEF Reverse
<1>4. /\ s \in Seq(Byte) /\ Len(s) = m + n
      /\ \A i \in 1 .. m + n : s[i] = IF i <= m THEN Reverse(v)[i] ELSE Reverse(u)[i - m]
  <2> HIDE DEF n, m
  <2>1. /\ s \in Seq(Byte) /\ Len(s) = Len(Reverse(v)) + Len(Reverse(u))
        /\ \A i \in 1 .. Len(Reverse(v)) + Len(Reverse(u)) :
             s[i] = IF i <= Len(Reverse(v)) THEN Reverse(v)[i]
                                            ELSE Reverse(u)[i - Len(Reverse(v))]
    BY <1>2, ConcatProperties, Zenon
  <2> QED
    BY <1>2, <2>1, Zenon
<1>5. /\ u \o v \in Seq(Byte) /\ Len(u \o v) = n + m
      /\ \A i \in 1 .. n + m : (u \o v)[i] = IF i <= n THEN u[i] ELSE v[i - n]
  BY ConcatProperties
<1> HIDE DEF s, n, m
<1>6. /\ Reverse(s) \in Seq(Byte) /\ Len(Reverse(s)) = m + n
      /\ \A i \in 1 .. m + n : Reverse(s)[i] = s[m + n - i + 1]
  <2>1. Reverse(s) \in Seq(Byte) /\ Len(Reverse(s)) = Len(s)
    BY <1>4, ReverseTwice, Zenon
  <2>2. \A i \in 1 .. Len(s) : Reverse(s)[i] = s[Len(s) - i + 1]
    BY <1>4, ReverseAt, Zenon
  <2>3. Len(s) = m + n
    BY <1>4
  <2> QED
    BY ONLY <1>1, <2>1, <2>2, <2>3
<1>7. ASSUME NEW i \in 1 .. n + m  PROVE Reverse(s)[i] = (u \o v)[i]
  <2>1. m + n - i + 1 \in 1 .. m + n
    BY <1>1
  <2>2. Reverse(s)[i] = s[m + n - i + 1]
    BY <1>1, <1>6
  <2>3. CASE i <= n
    <3>1. ~(m + n - i + 1 <= m) /\ (m + n - i + 1) - m = n - i + 1
          /\ n - i + 1 \in 1 .. n /\ n - (n - i + 1) + 1 = i
      BY <1>1, <2>3
    <3>2. s[m + n - i + 1] = Reverse(u)[n - i + 1]
      BY <1>4, <2>1, <3>1
    <3>3. Reverse(u)[n - i + 1] = u[i]
      BY <1>3, <3>1
    <3> QED
      BY <1>5, <2>2, <2>3, <3>2, <3>3
  <2>4. CASE i > n
    <3>1. m + n - i + 1 <= m /\ m + n - i + 1 \in 1 .. m
          /\ m - (m + n - i + 1) + 1 = i - n
      BY <1>1, <2>4
    <3>2. s[m + n - i + 1] = Reverse(v)[m + n - i + 1]
      BY <1>4, <2>1, <3>1
    <3>3. Reverse(v)[m + n - i + 1] = v[i - n]
      BY <1>3, <3>1
    <3> QED
      BY <1>1, <1>5, <2>2, <2>4, <3>2, <3>3
  <2>5. i <= n \/ i > n
    BY <1>1
  <2> QED
    BY <2>3, <2>4, <2>5, Zenon
<1>8. m + n = n + m
  BY <1>1
<1>9. Reverse(s) = u \o v
  BY <1>5, <1>6, <1>7, <1>8, SeqEqual
<1> QED
  BY <1>9 DEF s

\* tlv.h, ntoh64: "the operation is its own inverse", on a host of either byte order.
THEOREM Hton64OwnInverse ==
  ASSUME NEW order \in ByteOrder, NEW word \in Word(8)
  PROVE  /\ Hton64(order, word) \in Word(8)
         /\ Ntoh64(order, Hton64(order, word)) = word
<1> DEFINE hi == SubSeq(word, 1, 4)
           lo == SubSeq(word, 5, 8)
           nhi == Hton(order, hi)
           nlo == Hton(order, lo)
<1>1. hi \in Word(4) /\ lo \in Word(4) /\ hi \o lo = word
  BY SplitHalves
<1>2. nhi \in Word(4) /\ nlo \in Word(4) /\ Hton(order, nhi) = hi /\ Hton(order, nlo) = lo
  <2> HIDE DEF hi, lo
  <2> QED  BY <1>1, MemoryTwice DEF Word
<1>3. Hton64(order, word) = nlo \o nhi
  BY DEF Hton64
<1>4. /\ nlo \o nhi \in Word(8)
      /\ SubSeq(nlo \o nhi, 1, 4) = nlo /\ SubSeq(nlo \o nhi, 5, 8) = nhi
  <2> HIDE DEF nlo, nhi
  <2> QED  BY <1>2, JoinHalves
<1>5. Hton64(order, nlo \o nhi) = Hton(order, nhi) \o Hton(order, nlo)
  <2> HIDE DEF nlo, nhi
  <2> QED  BY <1>4, Zenon DEF Hton64
<1> QED
  <2> HIDE DEF hi, lo, nlo, nhi
  <2> QED  BY <1>1, <1>2, <1>3, <1>4, <1>5, Zenon DEF Ntoh64

\* On a little-endian host hton64 reverses the bytes, and memory reverses them back; on a
\* big-endian one it exchanges the halves, where it should leave the word alone.
LEMMA Hton64Wire ==
  ASSUME NEW word \in Word(8)
  PROVE  /\ InMemory("little", Hton64("little", word)) = word
         /\ InMemory("big", Hton64("big", word)) = Exchanged(word)
<1> DEFINE hi == SubSeq(word, 1, 4)
           lo == SubSeq(word, 5, 8)
<1>1. hi \in Word(4) /\ lo \in Word(4) /\ hi \o lo = word
  BY SplitHalves
<1>2. InMemory("big", Hton64("big", word)) = lo \o hi
  BY DEF InMemory, Hton64, Hton
<1>3. Hton64("little", word) = Reverse(lo) \o Reverse(hi)
  BY DEF Hton64, Hton
<1>4. Reverse(Reverse(lo) \o Reverse(hi)) = hi \o lo
  <2> HIDE DEF hi, lo
  <2> QED  BY <1>1, ReverseOfJoined DEF Word
<1> QED
  BY <1>1, <1>2, <1>3, <1>4 DEF Exchanged, InMemory

LEMMA NarrowWords ==
  ASSUME NEW order \in ByteOrder, NEW w \in Seq(Byte), Len(w) \in {2, 4}
  PROVE  ToNetwork(order, w) = Hton(order, w) /\ FromNetwork(order, w) = Hton(order, w)
<1>1. CASE Len(w) = 2
  BY <1>1 DEF ToNetwork, FromNetwork
<1>2. CASE Len(w) = 4
  BY <1>2 DEF ToNetwork, FromNetwork
<1> QED
  BY <1>1, <1>2

LEMMA OneByteInMemory ==
  ASSUME NEW order \in ByteOrder, NEW w \in Seq(Byte), Len(w) = 1
  PROVE  InMemory(order, w) = w
<1>1. Reverse(w)[1] = w[1]
  <2>1. 1 \in 1 .. Len(w) /\ Len(w) - 1 + 1 = 1
    OBVIOUS
  <2>2. Reverse(w)[1] = w[Len(w) - 1 + 1]
    BY <2>1, ReverseAt, Zenon
  <2> QED
    BY <2>1, <2>2, Zenon
<1>2. Reverse(w) \in Seq(Byte) /\ Len(Reverse(w)) = Len(w)
  BY ReverseTwice
<1>3. \A i \in 1 .. Len(w) : Reverse(w)[i] = w[i]
  BY <1>1
<1>4. Reverse(w) = w
  BY <1>2, <1>3, SeqEqual
<1> QED
  BY <1>4 DEF InMemory

\* A word comes back as it was sent between hosts of one byte order.
LEMMA WordRoundTrip ==
  ASSUME NEW order \in ByteOrder, NEW word \in Seq(Byte), Len(word) \in {1, 2, 4, 8}
  PROVE  LET bytes == InMemory(order, ToNetwork(order, word))
         IN  /\ bytes \in Seq(Byte) /\ Len(bytes) = Len(word)
             /\ FromNetwork(order, InMemory(order, bytes)) = word
<1> DEFINE net == ToNetwork(order, word)
<1>1. net \in Seq(Byte) /\ Len(net) = Len(word) /\ FromNetwork(order, net) = word
  <2>1. CASE Len(word) = 1
    <3>1. \A w \in Seq(Byte) : Len(w) = 1 =>
            ToNetwork(order, w) = w /\ FromNetwork(order, w) = w
      BY DEF ToNetwork, FromNetwork
    <3> QED
      BY <2>1, <3>1
  <2>2. CASE Len(word) \in {2, 4}
    <3>1. Hton(order, word) \in Seq(Byte) /\ Len(Hton(order, word)) = Len(word)
          /\ Hton(order, Hton(order, word)) = word
      BY MemoryTwice
    <3> QED
      BY <2>2, <3>1, NarrowWords
  <2>3. CASE Len(word) = 8
    <3>1. Hton64(order, word) \in Word(8) /\ Ntoh64(order, Hton64(order, word)) = word
      BY <2>3, Hton64OwnInverse DEF Word
    <3> QED
      BY <2>3, <3>1 DEF ToNetwork, FromNetwork, Word
  <2> QED
    BY <2>1, <2>2, <2>3
<1> HIDE DEF net
<1> QED
  BY <1>1, MemoryTwice DEF net

LEMMA ExchangedTwice ==
  ASSUME NEW word \in Word(8)
  PROVE  Exchanged(word) \in Word(8) /\ Exchanged(Exchanged(word)) = word
<1> DEFINE hi == SubSeq(word, 1, 4)
           lo == SubSeq(word, 5, 8)
<1>1. hi \in Word(4) /\ lo \in Word(4) /\ hi \o lo = word
  BY SplitHalves
<1>2. Exchanged(word) = lo \o hi
  BY DEF Exchanged
<1> HIDE DEF hi, lo
<1>3. lo \o hi \in Word(8) /\ SubSeq(lo \o hi, 1, 4) = lo /\ SubSeq(lo \o hi, 5, 8) = hi
  BY <1>1, JoinHalves
<1>4. Exchanged(lo \o hi) = SubSeq(lo \o hi, 5, 8) \o SubSeq(lo \o hi, 1, 4)
  BY DEF Exchanged
<1> QED
  BY <1>1, <1>2, <1>3, <1>4, Zenon

\* A word of at most four bytes lies in a frame as it is; so does one of eight, but for the
\* exchange on a big-endian host.
LEMMA WordOnWire ==
  ASSUME NEW order \in ByteOrder, NEW word \in Seq(Byte), Len(word) \in {1, 2, 4, 8}
  PROVE  InMemory(order, ToNetwork(order, word)) =
           IF order = "big" /\ Len(word) = 8 THEN Exchanged(word) ELSE word
<1>1. CASE Len(word) = 1
  <2>1. ToNetwork(order, word) = word
    BY <1>1 DEF ToNetwork
  <2> QED
    BY <1>1, <2>1, OneByteInMemory
<1>2. CASE Len(word) \in {2, 4}
  <2>1. ToNetwork(order, word) = Hton(order, word)
    BY <1>2, NarrowWords
  <2>2. InMemory(order, Hton(order, word)) = word
    BY MemoryTwice, Zenon
  <2>3. \A k \in {2, 4} : k # 8
    OBVIOUS
  <2> QED
    BY <1>2, <2>1, <2>2, <2>3, Zenon
<1>3. CASE Len(word) = 8
  <2>1. word \in Word(8)
    BY <1>3 DEF Word
  <2>2. ToNetwork(order, word) = Hton64(order, word)
    BY <1>3 DEF ToNetwork
  <2> QED
    BY <1>3, <2>1, <2>2, Hton64Wire DEF ByteOrder
<1> QED
  BY <1>1, <1>2, <1>3

\* From any host to any other a word comes back as it was sent, but one of eight bytes whose
\* halves one of the two hosts exchanges and the other does not.
LEMMA WordCrosses ==
  ASSUME NEW from \in ByteOrder, NEW to \in ByteOrder,
         NEW word \in Seq(Byte), Len(word) \in {1, 2, 4, 8}
  PROVE  FromNetwork(to, InMemory(to, InMemory(from, ToNetwork(from, word)))) =
           IF from # to /\ Len(word) = 8 THEN Exchanged(word) ELSE word
<1>1. CASE from = to \/ Len(word) # 8
  <2>1. InMemory(from, ToNetwork(from, word)) = InMemory(to, ToNetwork(to, word))
    BY <1>1, WordOnWire
  <2>2. FromNetwork(to, InMemory(to, InMemory(to, ToNetwork(to, word)))) = word
    BY WordRoundTrip
  <2> QED
    BY <1>1, <2>1, <2>2
<1>2. CASE from # to /\ Len(word) = 8
  <2>1. word \in Word(8)
    BY <1>2 DEF Word
  <2>2. /\ Exchanged(word) \in Seq(Byte) /\ Len(Exchanged(word)) = 8
        /\ Exchanged(Exchanged(word)) = word
    BY <2>1, ExchangedTwice DEF Word
  <2>3. InMemory(from, ToNetwork(from, word)) = IF from = "big" THEN Exchanged(word) ELSE word
    BY <1>2, WordOnWire
  <2>4. InMemory(to, ToNetwork(to, Exchanged(word))) =
          IF to = "big" THEN word ELSE Exchanged(word)
    BY <2>2, WordOnWire
  <2>5. \/ from = "big" /\ to = "little"
        \/ from = "little" /\ to = "big"
    BY <1>2 DEF ByteOrder
  <2>6. InMemory(from, ToNetwork(from, word)) = InMemory(to, ToNetwork(to, Exchanged(word)))
    BY <2>3, <2>4, <2>5
  <2>7. FromNetwork(to, InMemory(to, InMemory(to, ToNetwork(to, Exchanged(word))))) = Exchanged(word)
    BY <2>2, WordRoundTrip
  <2> QED
    BY <1>2, <2>6, <2>7
<1> QED
  BY <1>1, <1>2

-----------------------------------------------------------------------------
(* The length field. *)

LEMMA ShorterFits ==
  ASSUME NEW n \in Nat, NEW k \in Nat, k <= n, FourDigits(n)
  PROVE  FourDigits(k)
  BY SMT DEF FourDigits

LEMMA LengthDigits ==
  ASSUME NEW n \in Nat, FourDigits(n)
  PROVE  LengthWord(n) \in Word(4) /\ LengthOf(LengthWord(n)) = n
<1> DEFINE d1 == n \div 16777216
           d2 == (n \div 65536) % 256
           d3 == (n \div 256) % 256
           d4 == n % 256
<1>1. d1 \in Byte /\ d2 \in Byte /\ d3 \in Byte /\ d4 \in Byte
  BY SMT DEF Byte, FourDigits
<1>2. d1 * 16777216 + d2 * 65536 + d3 * 256 + d4 = n
  BY SMT
<1>3. LengthWord(n) = << d1, d2, d3, d4 >>
  BY SMTT(30) DEF LengthWord
<1> HIDE DEF d1, d2, d3, d4
<1> QED
  BY <1>1, <1>2, <1>3, SMTT(30) DEF LengthOf, Word

LEMMA LengthRoundTrip ==
  ASSUME NEW order \in ByteOrder, NEW n \in Nat, FourDigits(n)
  PROVE  LET bytes == InMemory(order, Hton(order, LengthWord(n)))
         IN  bytes = LengthWord(n) /\ ReadLength(order, bytes) = n
<1>1. LengthWord(n) \in Seq(Byte) /\ LengthOf(LengthWord(n)) = n
  BY LengthDigits DEF Word
<1> QED
  BY <1>1, MemoryTwice DEF ReadLength

-----------------------------------------------------------------------------
(* Frames. *)

\* The bytes f are the tag t, the length field l and the value v, in this order.
IsFrame(f, t, l, v) ==
  /\ f \in Seq(Byte) /\ Len(f) = 5 + Len(v)
  /\ f[1] = t
  /\ \A i \in 1 .. 4 : f[1 + i] = l[i]
  /\ \A i \in 1 .. Len(v) : f[5 + i] = v[i]

LEMMA FrameParts ==
  ASSUME NEW t \in Byte, NEW l \in Word(4), NEW v \in Seq(Byte)
  PROVE  IsFrame((<< t >> \o l) \o v, t, l, v)
<1> DEFINE h == << t >> \o l
           f == h \o v
<1>1. << t >> \in Seq(Byte) /\ Len(<< t >>) = 1 /\ << t >>[1] = t
      /\ l \in Seq(Byte) /\ Len(l) = 4
  BY DEF Word
<1>2. /\ h \in Seq(Byte) /\ Len(h) = 1 + 4
      /\ \A i \in 1 .. 1 + 4 : h[i] = IF i <= 1 THEN << t >>[i] ELSE l[i - 1]
  <2> DEFINE b == << t >>
  <2>1. b \in Seq(Byte) /\ Len(b) = 1 /\ b[1] = t
    BY <1>1
  <2> HIDE DEF b
  <2>2. /\ b \o l \in Seq(Byte) /\ Len(b \o l) = Len(b) + Len(l)
        /\ \A i \in 1 .. Len(b) + Len(l) :
             (b \o l)[i] = IF i <= Len(b) THEN b[i] ELSE l[i - Len(b)]
    BY <1>1, <2>1, ConcatProperties, Zenon
  <2>3. /\ b \o l \in Seq(Byte) /\ Len(b \o l) = 1 + 4
        /\ \A i \in 1 .. 1 + 4 : (b \o l)[i] = IF i <= 1 THEN b[i] ELSE l[i - 1]
    BY ONLY <1>1, <2>1, <2>2
  <2> QED
    BY <2>3 DEF b
<1>3. h[1] = t /\ \A i \in 1 .. 4 : h[1 + i] = l[i]
  <2> HIDE DEF h
  <2> QED  BY <1>1, <1>2
<1> HIDE DEF h
<1>4. /\ h \o v \in Seq(Byte) /\ Len(h \o v) = Len(h) + Len(v)
      /\ \A i \in 1 .. Len(h) + Len(v) : (h \o v)[i] = IF i <= Len(h) THEN h[i] ELSE v[i - Len(h)]
  BY <1>2, ConcatProperties, Zenon
<1> HIDE DEF f
<1>5. f = h \o v
  BY DEF f
<1>6. Len(h) = 5 /\ Len(v) \in Nat
  BY <1>2, LenProperties
<1>7. /\ f \in Seq(Byte) /\ Len(f) = 5 + Len(v)
      /\ \A i \in 1 .. 5 + Len(v) : f[i] = IF i <= 5 THEN h[i] ELSE v[i - 5]
  BY <1>4, <1>5, <1>6, Zenon
<1>8. IsFrame(f, t, l, v)
  BY <1>3, <1>6, <1>7 DEF IsFrame
<1> QED
  BY <1>8 DEF f, h

LEMMA Widths ==
  ASSUME NEW t \in Type \ OwningType
  PROVE  FixedWidth[t] \in {0, 1, 2, 4, 8} /\ (t # T_NUL => FixedWidth[t] # 0)
  BY DEF FixedWidth

\* The value as it lies in a frame of the library.
WireValue(order, m) ==
  IF m.type \in OwningType THEN m.val ELSE InMemory(order, ToNetwork(order, m.val))

\* What the serialize functions may be given.
Serializable(m) == IsMessage(m) /\ m.type # T_NUL /\ ~TooBig(m)

LEMMA SerializableFacts ==
  ASSUME NEW m, Serializable(m)
  PROVE  /\ m.type \in Type /\ m.type \in Byte /\ m.val \in Seq(Byte)
         /\ m = [type |-> m.type, val |-> m.val]
         /\ m.type \notin OwningType =>
              Len(m.val) \in {1, 2, 4, 8} /\ Len(m.val) = FixedWidth[m.type]
         /\ Len(m.val) \in Nat /\ FourDigits(Len(m.val))
<1>1. m \in [type : Type, val : Seq(Byte)]
  BY DEF Serializable, IsMessage
<1>2. m.type \notin OwningType =>
        Len(m.val) \in {1, 2, 4, 8} /\ Len(m.val) = FixedWidth[m.type]
  BY <1>1, Widths DEF Serializable, IsMessage
<1>3. m.type \in Byte
  BY <1>1 DEF Type, Byte, T_NUL, T_ERR
<1>4. Len(m.val) \in Nat
  BY <1>1
<1>5. FourDigits(Len(m.val))
  <2>1. CASE m.type \in OwningType
    <3>1. Len(m.val) <= LengthLimit
      BY <1>4, <2>1, LengthLimitAssumption DEF Serializable, TooBig
    <3> QED  BY <1>4, <3>1, LengthLimitAssumption, ShorterFits
  <2>2. CASE m.type \notin OwningType
    <3>1. \A k \in {1, 2, 4, 8} : FourDigits(k)
      BY SMT DEF FourDigits
    <3> QED  BY <1>2, <2>2, <3>1, Zenon
  <2> QED  BY <2>1, <2>2
<1> QED
  BY <1>1, <1>2, <1>3, <1>4, <1>5

LEMMA SmallMod ==
  ASSUME NEW n \in Nat, NEW limit \in Nat, n <= limit
  PROVE  n % (limit + 1) = n
OBVIOUS

LEMMA SerializeIsFrame ==
  ASSUME NEW order \in ByteOrder, NEW m, Serializable(m)
  PROVE  /\ WireValue(order, m) \in Seq(Byte)
         /\ Len(WireValue(order, m)) = Len(m.val)
         /\ Serialize(order, m) =
              (<< m.type >> \o LengthWord(Len(m.val))) \o WireValue(order, m)
<1>1. Header(order, m.type, Len(m.val)) = << m.type >> \o LengthWord(Len(m.val))
  BY SerializableFacts, LengthRoundTrip DEF Header
<1>2. WireValue(order, m) \in Seq(Byte) /\ Len(WireValue(order, m)) = Len(m.val)
  BY SerializableFacts, WordRoundTrip DEF WireValue
<1>3. Serialize(order, m) = Header(order, m.type, Len(m.val)) \o WireValue(order, m)
  <2>1. CASE m.type \in OwningType
    <3>1. Len(m.val) \in Nat /\ Len(m.val) <= LengthLimit
      BY <2>1, SerializableFacts, LengthLimitAssumption DEF Serializable, TooBig
    <3>2. ToU32(Len(m.val)) = Len(m.val)
      BY <3>1, LengthLimitAssumption, SmallMod DEF ToU32
    <3> QED
      BY <2>1, <3>2, Zenon DEF Serialize, ComplexSerialize, WireValue
  <2>2. CASE m.type \notin OwningType
    BY <2>2, Zenon DEF Serialize, SimpleSerialize, WireValue
  <2> QED
    BY <2>1, <2>2
<1> QED
  BY <1>1, <1>2, <1>3

\* For every message the library can serialize, from a host to any other: the reads of
\* deserialize() at the start of its frame find its tag and its length, the case of the tag
\* copies as many bytes as the length says, and gives back the message; but between hosts of
\* different byte order hton64 and ntoh64 exchange the halves of its 8-byte value once.
THEOREM FrameCrosses ==
  ASSUME NEW from \in ByteOrder, NEW to \in ByteOrder, NEW m, Serializable(m)
  PROVE  LET f == Serialize(from, m)
             n == ReadLength(to, [j \in 1 .. 4 |-> f[1 + j]])
         IN  /\ f \in Seq(Byte) /\ Len(f) = 5 + n
             /\ f[1] = m.type /\ Known(f[1])
             /\ n = Len(m.val) /\ BytesRead(f[1], n) = n
             /\ Decode(to, f[1], [j \in 1 .. n |-> f[5 + j]]) =
                  IF from # to /\ m.type \notin OwningType /\ Len(m.val) = 8
                  THEN [m EXCEPT !.val = Exchanged(m.val)] ELSE m
<1> DEFINE f == Serialize(from, m)
           v == WireValue(from, m)
           d == IF from # to /\ m.type \notin OwningType /\ Len(m.val) = 8
                THEN [m EXCEPT !.val = Exchanged(m.val)] ELSE m
           l == LengthWord(Len(m.val))
           k == [j \in 1 .. 4 |-> f[1 + j]]
           b == [j \in 1 .. Len(m.val) |-> f[5 + j]]
<1>1. /\ m.type \in Type /\ m.type \in Byte /\ m.val \in Seq(Byte)
      /\ m = [type |-> m.type, val |-> m.val]
      /\ m.type \notin OwningType =>
           Len(m.val) \in {1, 2, 4, 8} /\ Len(m.val) = FixedWidth[m.type]
      /\ Len(m.val) \in Nat /\ FourDigits(Len(m.val))
  BY SerializableFacts
<1>2. l \in Word(4) /\ ReadLength(to, l) = Len(m.val)
  BY <1>1, LengthDigits, LengthRoundTrip
<1>3. v \in Seq(Byte) /\ Len(v) = Len(m.val) /\ f = (<< m.type >> \o l) \o v
  BY SerializeIsFrame
<1>4. /\ f \in Seq(Byte) /\ Len(f) = 5 + Len(v) /\ f[1] = m.type
      /\ \A i \in 1 .. 4 : f[1 + i] = l[i]
      /\ \A i \in 1 .. Len(v) : f[5 + i] = v[i]
  <2> HIDE DEF f, v, l
  <2>1. /\ m.type \in Byte /\ l \in Word(4) /\ v \in Seq(Byte)
        /\ f = (<< m.type >> \o l) \o v
    BY <1>1, <1>2, <1>3
  <2>2. IsFrame(f, m.type, l, v)
    BY <2>1, FrameParts, Zenon
  <2> QED  BY <2>2, Zenon DEF IsFrame
<1>5. k = l
  <2>1. l = [j \in 1 .. 4 |-> l[j]]
    BY <1>2 DEF Word
  <2> HIDE DEF f, l
  <2> QED  BY <1>4, <2>1
<1>6. b = v
  <2>1. v = [j \in 1 .. Len(m.val) |-> v[j]]
    BY <1>3
  <2> HIDE DEF f, v
  <2> QED  BY <1>3, <1>4, <2>1
<1>7. BytesRead(m.type, Len(m.val)) = Len(m.val)
  BY <1>1 DEF BytesRead
<1>8. Decode(to, m.type, v) = d
  <2>1. CASE m.type \in OwningType
    BY <1>1, <2>1 DEF Decode, WireValue
  <2>2. CASE m.type \notin OwningType
    <3>1. FromNetwork(to, InMemory(to, v)) =
            IF from # to /\ Len(m.val) = 8 THEN Exchanged(m.val) ELSE m.val
      BY <1>1, <2>2, WordCrosses DEF WireValue
    <3>2. v # << >>
      <4>1. Len(v) # 0
        <5>1. Len(m.val) \in {1, 2, 4, 8} /\ Len(v) = Len(m.val)
          BY <1>1, <1>3, <2>2, Zenon
        <5>2. \A x \in {1, 2, 4, 8} : x # 0
          OBVIOUS
        <5> QED  BY <5>1, <5>2, Zenon
      <4>2. Len(<< >>) = 0
        BY EmptySeq
      <4> HIDE DEF v
      <4> QED  BY <4>1, <4>2
    <3> HIDE DEF v
    <3> QED  BY <1>1, <2>2, <3>1, <3>2 DEF Decode
  <2> QED  BY <2>1, <2>2
<1>9. ReadLength(to, k) = Len(m.val) /\ Known(f[1])
  BY <1>1, <1>2, <1>4, <1>5 DEF Known
<1> HIDE DEF f, k, v, l, d
<1>10. Len(f) = 5 + Len(m.val)
  BY <1>3, <1>4
<1>11. Decode(to, f[1], b) = d /\ BytesRead(f[1], Len(m.val)) = Len(m.val)
  BY <1>4, <1>6, <1>7, <1>8, Zenon
<1> QED
  BY <1>4, <1>9, <1>10, <1>11, Zenon DEF f, k, d

\* On hosts of one byte order, be it either, every message comes back: deserialize() finds
\* the tag and the length, copies as many bytes as the length says, and gives back the
\* message.
THEOREM FrameRoundTrip ==
  ASSUME NEW order \in ByteOrder, NEW m, Serializable(m)
  PROVE  LET f == Serialize(order, m)
             n == ReadLength(order, [j \in 1 .. 4 |-> f[1 + j]])
         IN  /\ f \in Seq(Byte) /\ Len(f) = 5 + n
             /\ f[1] = m.type /\ Known(f[1])
             /\ n = Len(m.val) /\ BytesRead(f[1], n) = n
             /\ Decode(order, f[1], [j \in 1 .. n |-> f[5 + j]]) = m
  BY FrameCrosses, Zenon

\* tlv.h, Wire format: a frame is the tag, the big-endian length and the big-endian value.
\* It is, for every message, on a little-endian host, and on a big-endian one for every
\* message but those of 8 bytes, whose halves hton64 exchanges.
THEOREM FrameLayout ==
  ASSUME NEW order \in ByteOrder, NEW m, Serializable(m)
  PROVE  Serialize(order, m) =
           DocumentedFrame(
             IF order = "big" /\ m.type \notin OwningType /\ Len(m.val) = 8
             THEN [m EXCEPT !.val = Exchanged(m.val)] ELSE m)
<1> DEFINE swapped == order = "big" /\ m.type \notin OwningType /\ Len(m.val) = 8
           frame(v) == (<< m.type >> \o LengthWord(Len(m.val))) \o v
<1>1. /\ m.val \in Seq(Byte) /\ m = [type |-> m.type, val |-> m.val]
      /\ m.type \notin OwningType => Len(m.val) \in {1, 2, 4, 8}
  BY SerializableFacts
<1>2. Serialize(order, m) = frame(WireValue(order, m))
  BY SerializeIsFrame
<1>3. DocumentedFrame(m) = frame(m.val)
  BY DEF DocumentedFrame
<1>4. CASE swapped
  <2>1. m.val \in Word(8)
    BY <1>1, <1>4 DEF Word
  <2>2. ToNetwork(order, m.val) = Hton64(order, m.val)
    BY <1>4 DEF ToNetwork
  <2>3. WireValue(order, m) = Exchanged(m.val)
    BY <1>4, <2>1, <2>2, Hton64Wire DEF WireValue
  <2>4. Len(Exchanged(m.val)) = 8
    BY <2>1, SplitHalves, JoinHalves DEF Exchanged, Word
  <2>5. DocumentedFrame([m EXCEPT !.val = Exchanged(m.val)]) = frame(Exchanged(m.val))
    BY <1>1, <1>4, <2>4 DEF DocumentedFrame
  <2> QED
    BY <1>2, <1>4, <2>3, <2>5, Zenon
<1>5. CASE ~swapped
  <2>1. WireValue(order, m) = m.val
    <3>1. CASE m.type \in OwningType
      BY <3>1 DEF WireValue
    <3>2. CASE m.type \notin OwningType /\ Len(m.val) = 8
      <4>1. order = "little" /\ m.val \in Word(8)
        BY <1>1, <1>5, <3>2 DEF ByteOrder, Word
      <4>2. ToNetwork(order, m.val) = Hton64(order, m.val)
        BY <3>2 DEF ToNetwork
      <4> QED
        BY <3>2, <4>1, <4>2, Hton64Wire DEF WireValue
    <3>3. CASE m.type \notin OwningType /\ Len(m.val) \in {1, 2, 4}
      <4>1. Len(m.val) \in {2, 4} => ToNetwork(order, m.val) = Hton(order, m.val)
        BY NarrowWords, <1>1
      <4>2. Len(m.val) = 1 => ToNetwork(order, m.val) = m.val
        BY DEF ToNetwork
      <4>3. Len(m.val) = 1 => InMemory(order, m.val) = m.val
        BY <1>1, OneByteInMemory
      <4> QED
        BY <1>1, <3>3, <4>1, <4>2, <4>3, MemoryTwice DEF WireValue
    <3> QED
      BY <1>1, <3>1, <3>2, <3>3
  <2> QED
    BY <1>2, <1>3, <1>5, <2>1, Zenon
<1> QED
  BY <1>4, <1>5
=============================================================================
