------------------------- MODULE TLVOwnershipProofs -------------------------
(***************************************************************************)
(* What the ownership rules are worth, for any number of Buffers, messages *)
(* and blocks: no block is used, reallocated or freed that is not          *)
(* allocated, and each allocated block is held in exactly one place.       *)
(***************************************************************************)
EXTENDS TLVOwnership, TLAPS

-----------------------------------------------------------------------------
(* The inductive invariant: who holds which block. *)

\* The blocks held by the Buffers, the elements of the array, the array itself and popped.
BufferBlocks  == {buffers[v] : v \in Vars} \ {NULL}
PayloadBlocks == {elems[i].bytes : i \in DOMAIN elems} \ {NULL}
ArrayBlock    == {array} \ {NULL}
PoppedBlock   == {popped.bytes} \ {NULL}

\* A block is held by one kind of holder,
Apart(B, P, A, Q, T) ==
  /\ B \cap P = {} /\ B \cap A = {} /\ B \cap Q = {} /\ B \cap T = {}
  /\ P \cap A = {} /\ P \cap Q = {} /\ P \cap T = {}
  /\ A \cap Q = {} /\ A \cap T = {}
  /\ Q \cap T = {}

\* by one holder of its kind,
BuffersDiffer ==
  \A v, w \in Vars : buffers[v] = buffers[w] /\ buffers[v] # NULL => v = w

ElemsDiffer ==
  \A i, j \in DOMAIN elems : elems[i].bytes = elems[j].bytes /\ elems[i].bytes # NULL => i = j

\* and the held blocks are the live ones.
Accounted ==
  /\ Apart(BufferBlocks, PayloadBlocks, ArrayBlock, PoppedBlock, texts)
  /\ live = BufferBlocks \cup PayloadBlocks \cup ArrayBlock \cup PoppedBlock \cup texts

\* Messages of a plain type point to nothing; there are no elements without an array; views
\* look into messages the program still has.
PlainMessages ==
  /\ \A i \in DOMAIN elems : elems[i].type \notin OwningType => elems[i].bytes = NULL
  /\ popped.type \notin OwningType => popped.bytes = NULL

NoStrayViews == views \subseteq PayloadBlocks \cup PoppedBlock

IInv ==
  /\ TypeOK /\ NoMisuse
  /\ BuffersDiffer /\ ElemsDiffer /\ Accounted
  /\ PlainMessages /\ NoStrayViews
  /\ array = NULL => elems = << >>

-----------------------------------------------------------------------------
(* Sequences. *)

LEMMA SeqFacts ==
  ASSUME NEW S, NEW s \in Seq(S)
  PROVE  /\ Len(s) \in Nat /\ DOMAIN s = 1 .. Len(s)
         /\ \A i \in 1 .. Len(s) : s[i] \in S
         /\ s # << >> => Len(s) \in 1 .. Len(s)
  OBVIOUS

LEMMA FunctionIsSeq ==
  ASSUME NEW S, NEW n \in Nat, NEW f \in [1 .. n -> S]
  PROVE  f \in Seq(S) /\ DOMAIN f = 1 .. n /\ Len(f) = n
  OBVIOUS

LEMMA FrontFacts ==
  ASSUME NEW S, NEW s \in Seq(S), s # << >>
  PROVE  /\ Front(s) \in Seq(S) /\ Len(Front(s)) = Len(s) - 1
         /\ \A i \in 1 .. Len(s) - 1 : Front(s)[i] = s[i]
         /\ Last(s) = s[Len(s)]
<1>1. Len(s) \in Nat /\ Len(s) - 1 \in Nat /\ Len(s) >= 1
  OBVIOUS
<1>2. Front(s) = SubSeq(s, 1, Len(s) - 1) /\ Last(s) = s[Len(s)]
  BY DEF Front, Last
<1>3. ASSUME NEW n \in Nat, n <= Len(s)
      PROVE  /\ SubSeq(s, 1, n) \in Seq(S) /\ Len(SubSeq(s, 1, n)) = n
             /\ \A i \in 1 .. n : SubSeq(s, 1, n)[i] = s[i]
  BY <1>1, <1>3
<1>4. Len(s) - 1 <= Len(s)
  BY <1>1
<1> QED
  BY <1>1, <1>2, <1>3, <1>4, Zenon

LEMMA ExceptFacts ==
  ASSUME NEW S, NEW s \in Seq(S), NEW i \in 1 .. Len(s), NEW e \in S,
         NEW t, t = [s EXCEPT ![i] = e]
  PROVE  /\ t \in Seq(S) /\ Len(t) = Len(s)
         /\ t[i] = e /\ \A j \in 1 .. Len(s) : j # i => t[j] = s[j]
  OBVIOUS

LEMMA ImageOfCup ==
  ASSUME NEW f, NEW D, NEW R
  PROVE  R \cup {f[i] : i \in {0} \cup D} = R \cup {f[0]} \cup {f[i] : i \in D}
<1>1. ASSUME NEW x \in {f[i] : i \in {0} \cup D} PROVE x \in {f[0]} \cup {f[i] : i \in D}
  <2>1. PICK i \in {0} \cup D : x = f[i]
    OBVIOUS
  <2> QED
    BY <2>1, Zenon
<1>2. ASSUME NEW i \in D PROVE f[i] \in {f[j] : j \in {0} \cup D}
  BY Zenon
<1>3. f[0] \in {f[j] : j \in {0} \cup D}
  BY Zenon
<1> QED
  BY <1>1, <1>2, <1>3, Zenon

-----------------------------------------------------------------------------
(* The held blocks. *)

\* What each holder holds is NULL or live, and fresh blocks are held by none.
LEMMA HeldIsLive ==
  ASSUME IInv
  PROVE  /\ NULL \notin Block /\ live \subseteq Block /\ freed \subseteq Block
         /\ \A v \in Vars : buffers[v] \in live \cup {NULL}
         /\ \A i \in DOMAIN elems : elems[i].bytes \in live \cup {NULL} /\ elems[i] \in Message
         /\ array \in live \cup {NULL} /\ popped.bytes \in live \cup {NULL}
         /\ texts \subseteq live /\ views \subseteq live
         /\ NULL \notin live
         /\ ~misused
<1>1. /\ live = BufferBlocks \cup PayloadBlocks \cup ArrayBlock \cup PoppedBlock \cup texts
      /\ live \subseteq Block /\ freed \subseteq Block /\ views \subseteq PayloadBlocks \cup PoppedBlock
      /\ NULL \notin Block /\ ~misused
  BY OwnershipAssumption, Zenon DEF IInv, Accounted, NoStrayViews, TypeOK, NoMisuse
<1>2. \A v \in Vars : buffers[v] \in live \cup {NULL}
  BY <1>1, Zenon DEF BufferBlocks
<1>3. \A i \in DOMAIN elems : elems[i].bytes \in live \cup {NULL}
  BY <1>1, Zenon DEF PayloadBlocks
<1>4. \A i \in DOMAIN elems : elems[i] \in Message
  BY SeqFacts, Zenon DEF IInv, TypeOK
<1>5. array \in live \cup {NULL} /\ popped.bytes \in live \cup {NULL}
  BY <1>1, Zenon DEF ArrayBlock, PoppedBlock
<1> QED
  BY <1>1, <1>2, <1>3, <1>4, <1>5, Zenon

\* What message_free() frees is what the message points to.
LEMMA FreesPayload ==
  ASSUME IInv
  PROVE  /\ \A i \in DOMAIN elems :
              /\ FreedOf(elems[i]) = elems[i].bytes
              /\ Zeroed(elems[i]) \in Message /\ Zeroed(elems[i]).type = elems[i].type
              /\ Zeroed(elems[i]).bytes = NULL
         /\ FreedOf(popped) = popped.bytes
<1>1. PlainMessages /\ (\A i \in DOMAIN elems : elems[i] \in Message)
  BY HeldIsLive, Zenon DEF IInv
<1>2. ASSUME NEW m \in Message, m.type \notin OwningType => m.bytes = NULL
      PROVE  /\ FreedOf(m) = m.bytes
             /\ Zeroed(m) \in Message /\ Zeroed(m).type = m.type /\ Zeroed(m).bytes = NULL
  BY <1>2 DEF FreedOf, Zeroed, Message, Pointer
<1> QED
  BY <1>1, <1>2 DEF PlainMessages, IInv, TypeOK

\* One Buffer variable is given a block that no other Buffer holds.
LEMMA BufferSet ==
  ASSUME IInv, NEW v \in Vars, NEW b \in Pointer,
         b = NULL \/ b = buffers[v] \/ b \notin BufferBlocks,
         buffers' = [buffers EXCEPT ![v] = b]
  PROVE  /\ buffers' \in [Vars -> Pointer]
         /\ BufferBlocks' = (BufferBlocks \ {buffers[v]}) \cup ({b} \ {NULL})
         /\ BuffersDiffer'
<1>1. buffers \in [Vars -> Pointer] /\ BuffersDiffer
  BY Zenon DEF IInv, TypeOK
<1>2. buffers' \in [Vars -> Pointer] /\ buffers'[v] = b
      /\ \A w \in Vars : w # v => buffers'[w] = buffers[w]
  BY <1>1
<1>3. \A w \in Vars : w # v /\ buffers[w] # NULL => buffers[w] # buffers[v]
  BY <1>1, Zenon DEF BuffersDiffer
<1>4. BufferBlocks' = (BufferBlocks \ {buffers[v]}) \cup ({b} \ {NULL})
  BY <1>2, <1>3 DEF BufferBlocks
<1>5. BuffersDiffer'
  BY <1>1, <1>2, <1>3 DEF BuffersDiffer, BufferBlocks
<1> QED
  BY <1>2, <1>4, <1>5

\* What no step of an action changes stays as it is.
LEMMA SameBuffers ==
  ASSUME IInv, buffers' = buffers
  PROVE  BufferBlocks' = BufferBlocks /\ BuffersDiffer' /\ buffers' \in [Vars -> Pointer]
  BY Zenon DEF BufferBlocks, BuffersDiffer, IInv, TypeOK

LEMMA SameSession ==
  ASSUME IInv, UNCHANGED session
  PROVE  /\ PayloadBlocks' = PayloadBlocks /\ ArrayBlock' = ArrayBlock /\ PoppedBlock' = PoppedBlock
         /\ ElemsDiffer' /\ PlainMessages'
         /\ array' \in Pointer /\ elems' \in Seq(Message) /\ popped' \in Message
         /\ array' = NULL => elems' = << >>
<1>1. array' = array /\ elems' = elems /\ popped' = popped
  BY DEF session
<1> QED
  BY <1>1, Zenon DEF PayloadBlocks, ArrayBlock, PoppedBlock, ElemsDiffer, PlainMessages, IInv, TypeOK

\* What is left to show of a step is where its blocks go.
LEMMA Assemble ==
  ASSUME live' \subseteq Block, freed' \subseteq Block,
         misused' \in BOOLEAN, ~misused', ended' \in BOOLEAN,
         buffers' \in [Vars -> Pointer], BuffersDiffer',
         array' \in Pointer, elems' \in Seq(Message), popped' \in Message,
         ElemsDiffer', PlainMessages', array' = NULL => elems' = << >>,
         Accounted', NoStrayViews'
  PROVE  IInv'
<1>1. texts' \subseteq Block /\ views' \subseteq Block
  BY Zenon DEF Accounted, NoStrayViews
<1> QED
  BY <1>1, Zenon DEF IInv, TypeOK, NoMisuse

-----------------------------------------------------------------------------
(* The actions. *)

LEMMA SerializeKeeps ==
  ASSUME IInv, NEW v \in Vars, Serialize(v), UNCHANGED ended
  PROVE  IInv'
<1>1. PICK b \in Fresh : Malloc(b) /\ buffers' = [buffers EXCEPT ![v] = b]
  BY Zenon DEF Serialize
<1>2. /\ buffers[v] = NULL /\ UNCHANGED session /\ views' = views /\ texts' = texts
      /\ b \in Block /\ b \notin live /\ live' = live \cup {b}
      /\ freed' = freed /\ misused' = misused
  BY <1>1 DEF Serialize, Malloc, Fresh
<1>3. live = BufferBlocks \cup PayloadBlocks \cup ArrayBlock \cup PoppedBlock \cup texts
  BY Zenon DEF IInv, Accounted
<1>4. /\ buffers' \in [Vars -> Pointer] /\ BuffersDiffer'
      /\ BufferBlocks' = (BufferBlocks \ {buffers[v]}) \cup ({b} \ {NULL})
  BY <1>1, <1>2, <1>3, BufferSet, Zenon DEF Pointer
<1>5. BufferBlocks' = BufferBlocks \cup {b}
  BY <1>2, <1>4, OwnershipAssumption DEF BufferBlocks
<1>6. Accounted'
  BY <1>2, <1>3, <1>5, SameSession DEF IInv, Accounted, Apart
<1>7. live' \subseteq Block /\ freed' \subseteq Block /\ ~misused' /\ misused' \in BOOLEAN
  BY <1>2, HeldIsLive, Zenon DEF IInv, TypeOK
<1>8. NoStrayViews' /\ ended' \in BOOLEAN
  BY <1>2, SameSession, Zenon DEF IInv, TypeOK, NoStrayViews
<1> QED
  BY <1>2, <1>4, <1>6, <1>7, <1>8, SameSession, Assemble, Zenon

LEMMA FreeBufferKeeps ==
  ASSUME IInv, NEW v \in Vars, FreeBuffer(v), UNCHANGED ended
  PROVE  IInv'
<1>1. /\ buffers[v] # NULL /\ UNCHANGED session /\ views' = views /\ texts' = texts
      /\ buffers' = [buffers EXCEPT ![v] = NULL]
      /\ live' = live \ {buffers[v]} /\ freed' = freed \cup ({buffers[v]} \ {NULL})
      /\ misused' = (misused \/ buffers[v] \notin live \cup {NULL})
  BY DEF FreeBuffer, FreeBlock
<1>2. buffers[v] \in BufferBlocks
  BY <1>1, Zenon DEF BufferBlocks
<1>3. /\ buffers' \in [Vars -> Pointer] /\ BuffersDiffer'
      /\ BufferBlocks' = BufferBlocks \ {buffers[v]}
  <2>1. /\ buffers' \in [Vars -> Pointer] /\ BuffersDiffer'
        /\ BufferBlocks' = (BufferBlocks \ {buffers[v]}) \cup ({NULL} \ {NULL})
    BY <1>1, BufferSet, Zenon DEF Pointer
  <2> QED
    BY <2>1
<1>4. Accounted'
  BY <1>1, <1>2, <1>3, SameSession DEF IInv, Accounted, Apart
<1>5. live' \subseteq Block /\ freed' \subseteq Block /\ ~misused' /\ misused' \in BOOLEAN
  BY <1>1, HeldIsLive DEF IInv, TypeOK
<1>6. NoStrayViews' /\ ended' \in BOOLEAN
  BY <1>1, SameSession, Zenon DEF IInv, TypeOK, NoStrayViews
<1> QED
  BY <1>1, <1>3, <1>4, <1>5, <1>6, SameSession, Assemble, Zenon

LEMMA BufAppendKeeps ==
  ASSUME IInv, NEW v \in Vars, NEW w \in Vars, BufAppend(v, w), UNCHANGED ended
  PROVE  IInv'
<1> DEFINE p == buffers[v]
           q == buffers[w]
<1>1. PICK b \in Fresh \cup {p} :
        /\ ReallocThenFree(p, b, q)
        /\ buffers' = [buffers EXCEPT ![v] = b, ![w] = NULL]
  BY Zenon DEF BufAppend, FreedByAppend
<1>2. /\ v # w /\ p # NULL /\ q # NULL /\ UNCHANGED session /\ views' = views /\ texts' = texts
      /\ live' = (live \ {p, q}) \cup {b}
      /\ freed' = freed \cup ({p, q} \ {b, NULL})
      /\ misused' = (misused \/ ~({p, q} \subseteq live \cup {NULL}))
  BY <1>1 DEF BufAppend, ReallocThenFree
<1>3. /\ p \in live /\ q \in live /\ p # q /\ b \in Block /\ b # q
      /\ p \in BufferBlocks /\ q \in BufferBlocks
      /\ b \in BufferBlocks => b = p
      /\ b \notin PayloadBlocks \cup ArrayBlock \cup PoppedBlock \cup texts
  <2>1. p \in BufferBlocks /\ q \in BufferBlocks /\ p # q
    BY <1>2, Zenon DEF BufferBlocks, IInv, BuffersDiffer
  <2>2. live = BufferBlocks \cup PayloadBlocks \cup ArrayBlock \cup PoppedBlock \cup texts
        /\ Apart(BufferBlocks, PayloadBlocks, ArrayBlock, PoppedBlock, texts)
        /\ live \subseteq Block
    BY Zenon DEF IInv, Accounted, TypeOK
  <2>3. b = p \/ b \in Block \ live
    BY <1>1, Zenon DEF Fresh
  <2> QED
    BY <2>1, <2>2, <2>3, Zenon DEF Apart
<1>4. buffers \in [Vars -> Pointer] /\ BuffersDiffer
  BY Zenon DEF IInv, TypeOK
<1>5. /\ buffers' \in [Vars -> Pointer] /\ buffers'[v] = b /\ buffers'[w] = NULL
      /\ \A u \in Vars : u # v /\ u # w => buffers'[u] = buffers[u]
  BY <1>1, <1>2, <1>3, <1>4 DEF Pointer
<1>6. \A u \in Vars : buffers[u] # NULL /\ u # v /\ u # w => buffers[u] # p /\ buffers[u] # q
  BY <1>4, Zenon DEF BuffersDiffer
<1> HIDE DEF p, q
<1>7. BufferBlocks' = (BufferBlocks \ {p, q}) \cup {b}
  <2>1. b # NULL
    BY <1>3, OwnershipAssumption
  <2>2. ASSUME NEW x \in BufferBlocks' PROVE x \in (BufferBlocks \ {p, q}) \cup {b}
    BY <1>5, <1>6 DEF BufferBlocks
  <2>3. ASSUME NEW x \in (BufferBlocks \ {p, q}) \cup {b} PROVE x \in BufferBlocks'
    BY <1>5, <2>1 DEF BufferBlocks, p, q
  <2> QED
    BY <2>2, <2>3
<1>8. BuffersDiffer'
  <2>1. \A u \in Vars : buffers[u] # NULL => buffers[u] \in BufferBlocks
    BY Zenon DEF BufferBlocks
  <2> QED
    BY <1>3, <1>4, <1>5, <1>6, <2>1 DEF BuffersDiffer
<1>9. Accounted'
  BY <1>2, <1>3, <1>7, SameSession DEF IInv, Accounted, Apart
<1>10. live' \subseteq Block /\ freed' \subseteq Block /\ ~misused' /\ misused' \in BOOLEAN
  BY <1>2, <1>3, HeldIsLive DEF IInv, TypeOK
<1>11. NoStrayViews' /\ ended' \in BOOLEAN
  BY <1>2, SameSession, Zenon DEF IInv, TypeOK, NoStrayViews
<1> QED
  BY <1>2, <1>5, <1>8, <1>9, <1>10, <1>11, SameSession, Assemble, Zenon

\* Where each block of the decoded messages goes: the array's to own[0], the payload of an
\* owning message to its own, all of them fresh and different.
LEMMA DeserializeKeeps ==
  ASSUME IInv, NEW v \in Vars, Deserialize(v), UNCHANGED ended
  PROVE  IInv'
<1>1. /\ array = NULL /\ buffers[v] # NULL
      /\ freed' = freed /\ buffers' = buffers /\ popped' = popped /\ views' = views
      /\ texts' = texts
  BY DEF Deserialize
<1> PICK n \in 0 .. MaxMessages :
        \E types \in [1 .. n -> Type], own \in [0 .. n -> Fresh] :
          /\ IsInjective(own)
          /\ array' = own[0]
          /\ elems' = [i \in 1 .. n |->
               [type |-> types[i], bytes |-> PayloadOf(types[i], own[i], buffers[v])]]
          /\ live' = live \cup {own[i] : i \in {0} \cup {j \in 1 .. n : types[j] \in OwningType}}
          /\ misused' = (misused \/ buffers[v] \notin live)
  BY Zenon DEF Deserialize
<1>2. PICK types \in [1 .. n -> Type], own \in [0 .. n -> Fresh] :
        /\ IsInjective(own)
        /\ array' = own[0]
        /\ elems' = [i \in 1 .. n |->
             [type |-> types[i], bytes |-> PayloadOf(types[i], own[i], buffers[v])]]
        /\ live' = live \cup {own[i] : i \in {0} \cup {j \in 1 .. n : types[j] \in OwningType}}
        /\ misused' = (misused \/ buffers[v] \notin live)
  OBVIOUS
<1> DEFINE O == {j \in 1 .. n : types[j] \in OwningType}
<1>3. /\ n \in Nat /\ 0 \in 0 .. n
      /\ \A i \in 1 .. n : i \in 0 .. n /\ i # 0
  BY OwnershipAssumption
<1>4. /\ \A i \in 0 .. n : own[i] \in Block /\ own[i] \notin live /\ own[i] # NULL
      /\ \A i, j \in 0 .. n : own[i] = own[j] => i = j
  <2>1. \A i \in 0 .. n : own[i] \in Block \ (live \cup freed)
    BY Zenon DEF Fresh
  <2>2. \A i, j \in 0 .. n : own[i] = own[j] => i = j
    <3>1. DOMAIN own = 0 .. n
      OBVIOUS
    <3> QED
      BY <1>2, <3>1, Zenon DEF IsInjective
  <2> QED
    BY <2>1, <2>2, OwnershipAssumption, Zenon
<1>5. \A i \in 1 .. n :
        /\ elems'[i] = [type |-> types[i], bytes |-> IF types[i] \in OwningType THEN own[i] ELSE NULL]
        /\ elems'[i].type = types[i]
        /\ elems'[i].bytes = IF types[i] \in OwningType THEN own[i] ELSE NULL
        /\ elems'[i] \in Message
  <2>1. \A i \in 1 .. n : types[i] \in Type /\ own[i] \in Block
    BY <1>3, <1>4, Zenon
  <2> QED
    BY <1>2, <2>1, Zenon DEF PayloadOf, Message, Pointer
<1>6. elems' \in Seq(Message) /\ DOMAIN elems' = 1 .. n /\ Len(elems') = n
  <2>1. elems' = [i \in 1 .. n |-> elems'[i]]
    BY <1>2, Zenon
  <2>2. elems' \in [1 .. n -> Message]
    BY <1>5, <2>1, Zenon
  <2> QED
    BY <1>3, <2>2, FunctionIsSeq, Zenon
<1>7. elems = << >>
  BY <1>1, Zenon DEF IInv
<1>8. PayloadBlocks = {}
  BY <1>7 DEF PayloadBlocks
<1>9. /\ PayloadBlocks' = {own[i] : i \in O}
      /\ ArrayBlock' = {own[0]} /\ PoppedBlock' = PoppedBlock
  <2>1. PayloadBlocks' = {own[i] : i \in O}
    <3>1. ASSUME NEW x \in PayloadBlocks' PROVE x \in {own[i] : i \in O}
      <4>1. PICK i \in 1 .. n : x = elems'[i].bytes /\ x # NULL
        BY <1>6, Zenon DEF PayloadBlocks
      <4>2. types[i] \in OwningType /\ x = own[i]
        BY <1>5, <4>1, Zenon
      <4> QED
        BY <4>2, Zenon
    <3>2. ASSUME NEW i \in O PROVE own[i] \in PayloadBlocks'
      <4>1. i \in 1 .. n /\ types[i] \in OwningType
        OBVIOUS
      <4>2. i \in DOMAIN elems' /\ elems'[i].bytes = own[i] /\ own[i] # NULL
        BY <1>3, <1>4, <1>5, <1>6, <4>1, Zenon
      <4> QED
        BY <4>2, Zenon DEF PayloadBlocks
    <3> QED
      BY <3>1, <3>2, Zenon
  <2> QED
    BY <1>1, <1>2, <1>3, <1>4, <2>1 DEF ArrayBlock, PoppedBlock
<1>10. ElemsDiffer' /\ PlainMessages'
  <2>1. ElemsDiffer'
    <3> SUFFICES ASSUME NEW i \in 1 .. n, NEW j \in 1 .. n,
                        elems'[i].bytes = elems'[j].bytes, elems'[i].bytes # NULL
                 PROVE  i = j
      BY <1>6, Zenon DEF ElemsDiffer
    <3>1. elems'[i].bytes = own[i] /\ elems'[j].bytes = own[j]
      BY <1>5, Zenon
    <3> QED
      BY <1>3, <1>4, <3>1, Zenon
  <2> QED
    BY <1>1, <1>5, <1>6, <2>1, Zenon DEF PlainMessages, IInv
<1>11. Accounted'
  <2>1. live' = live \cup {own[0]} \cup {own[i] : i \in O}
    <3>1. live' = live \cup {own[i] : i \in {0} \cup O}
      BY <1>2, Zenon
    <3> HIDE DEF O
    <3> QED
      BY <3>1, ImageOfCup, Zenon
  <2>2. /\ \A x \in {own[i] : i \in O} : x \notin live /\ x # own[0]
        /\ own[0] \notin live
    <3>1. \A i \in O : i \in 0 .. n /\ i # 0
      BY <1>3, Zenon
    <3>2. \A i \in O : own[i] \notin live /\ own[i] # own[0]
      BY <1>3, <1>4, <3>1, Zenon
    <3>3. \A x \in {own[i] : i \in O} : x \notin live /\ x # own[0]
      <4> TAKE x \in {own[i] : i \in O}
      <4>1. PICK i \in O : x = own[i]
        OBVIOUS
      <4> QED
        BY <3>2, <4>1, Zenon
    <3> QED
      BY <1>3, <1>4, <3>3, Zenon
  <2>3. /\ live = BufferBlocks \cup PayloadBlocks \cup ArrayBlock \cup PoppedBlock \cup texts
        /\ Apart(BufferBlocks, PayloadBlocks, ArrayBlock, PoppedBlock, texts)
    BY Zenon DEF IInv, Accounted
  <2>4. BufferBlocks' = BufferBlocks /\ ArrayBlock = {}
    BY <1>1, SameBuffers DEF ArrayBlock
  <2> DEFINE P == {own[i] : i \in O}
             a == own[0]
  <2> HIDE DEF P, a
  <2>5. /\ live' = BufferBlocks \cup P \cup {a} \cup PoppedBlock \cup texts
        /\ Apart(BufferBlocks, P, {a}, PoppedBlock, texts)
    BY <1>8, <2>1, <2>2, <2>3, <2>4 DEF Apart, P, a
  <2> QED
    BY <1>1, <1>9, <2>4, <2>5, Zenon DEF Accounted, P, a
<1>12. NoStrayViews'
  BY <1>1, <1>8, <1>9, Zenon DEF NoStrayViews, IInv
<1>13. live' \subseteq Block /\ freed' \subseteq Block /\ ~misused' /\ misused' \in BOOLEAN
  <2>1. \A i \in {0} \cup O : own[i] \in Block
    BY <1>3, <1>4, Zenon
  <2>2. live' \subseteq Block
    <3> SUFFICES ASSUME NEW x \in live' PROVE x \in Block
      OBVIOUS
    <3>1. x \in live \/ \E i \in {0} \cup O : x = own[i]
      BY <1>2, Zenon
    <3> QED
      BY <2>1, <3>1, HeldIsLive, Zenon
  <2>3. buffers[v] \in live /\ ~misused /\ misused \in BOOLEAN
    BY <1>1, HeldIsLive, Zenon DEF IInv, TypeOK
  <2>4. ~misused' /\ misused' \in BOOLEAN
    BY <1>2, <2>3, Zenon
  <2> QED
    BY <1>1, <2>2, <2>4, HeldIsLive, Zenon
<1>14. array' \in Pointer /\ array' # NULL /\ popped' \in Message /\ ended' \in BOOLEAN
  BY <1>1, <1>2, <1>3, <1>4, Zenon DEF Pointer, IInv, TypeOK
<1> QED
  BY <1>1, <1>6, <1>10, <1>11, <1>12, <1>13, <1>14, SameBuffers, Assemble, Zenon

\* A view adds a pointer to what an element holds.
LEMMA ViewKeeps ==
  ASSUME IInv, NEW i \in DOMAIN elems, View(i), UNCHANGED ended
  PROVE  IInv'
<1>1. /\ UNCHANGED << heap, buffers, session, texts >>
      /\ views' = views \cup ({elems[i].bytes} \ {NULL})
  BY DEF View
<1>2. elems[i].bytes = NULL \/ elems[i].bytes \in PayloadBlocks
  BY Zenon DEF PayloadBlocks
<1>3. NoStrayViews'
  BY <1>1, <1>2, SameSession DEF NoStrayViews, IInv
<1>4. live' = live /\ freed' = freed /\ misused' = misused /\ buffers' = buffers /\ texts' = texts
  BY <1>1 DEF heap
<1>5. Accounted'
  BY <1>1, <1>4, SameSession, SameBuffers, Zenon DEF IInv, Accounted
<1>6. live' \subseteq Block /\ freed' \subseteq Block /\ ~misused' /\ misused' \in BOOLEAN
      /\ ended' \in BOOLEAN
  BY <1>4, HeldIsLive, Zenon DEF IInv, TypeOK
<1> QED
  BY <1>1, <1>3, <1>4, <1>5, <1>6, SameSession, SameBuffers, Assemble, Zenon

\* What a view points to may be read.
LEMMA ReadViewKeeps ==
  ASSUME IInv, ReadView, UNCHANGED ended
  PROVE  IInv'
<1>1. PICK b \in views : UseBlock(b)
  BY Zenon DEF ReadView
<1>2. /\ live' = live /\ freed' = freed /\ misused' = (misused \/ b \notin live \cup {NULL})
      /\ buffers' = buffers /\ texts' = texts /\ views' = views /\ UNCHANGED session
  BY <1>1 DEF ReadView, UseBlock
<1>3. live' \subseteq Block /\ freed' \subseteq Block /\ ~misused' /\ misused' \in BOOLEAN
      /\ ended' \in BOOLEAN
  BY <1>2, HeldIsLive, Zenon DEF IInv, TypeOK
<1>4. Accounted' /\ NoStrayViews'
  BY <1>2, SameSession, SameBuffers, Zenon DEF IInv, Accounted, NoStrayViews
<1> QED
  BY <1>2, <1>3, <1>4, SameSession, SameBuffers, Assemble, Zenon

LEMMA CstrKeeps ==
  ASSUME IInv, NEW i \in DOMAIN elems, Cstr(i), UNCHANGED ended
  PROVE  IInv'
<1>1. PICK b \in Fresh : live' = live \cup {b} /\ texts' = texts \cup {TextOf(b, elems[i])}
  BY Zenon DEF Cstr
<1>2. /\ texts' = texts \cup {b} /\ b \in Block /\ b \notin live
      /\ freed' = freed /\ buffers' = buffers /\ UNCHANGED session /\ views' = views
      /\ misused' = (misused \/ elems[i].bytes \notin live \cup {NULL})
  BY <1>1 DEF Cstr, TextOf, Fresh
<1>3. live' \subseteq Block /\ freed' \subseteq Block /\ ~misused' /\ misused' \in BOOLEAN
      /\ ended' \in BOOLEAN
  BY <1>1, <1>2, HeldIsLive, Zenon DEF IInv, TypeOK
<1>4. Accounted'
  BY <1>1, <1>2, SameSession, SameBuffers DEF IInv, Accounted, Apart
<1>5. NoStrayViews'
  BY <1>2, SameSession, Zenon DEF IInv, NoStrayViews
<1> QED
  BY <1>2, <1>3, <1>4, <1>5, SameSession, SameBuffers, Assemble, Zenon

LEMMA FreeTextKeeps ==
  ASSUME IInv, NEW b \in texts, FreeText(b), UNCHANGED ended
  PROVE  IInv'
<1>1. /\ live' = live \ {b} /\ freed' = freed \cup ({b} \ {NULL}) /\ texts' = texts \ {b}
      /\ misused' = (misused \/ b \notin live \cup {NULL})
      /\ buffers' = buffers /\ UNCHANGED session /\ views' = views
  BY DEF FreeText, FreeBlock
<1>2. live' \subseteq Block /\ freed' \subseteq Block /\ ~misused' /\ misused' \in BOOLEAN
      /\ ended' \in BOOLEAN
  BY <1>1, HeldIsLive DEF IInv, TypeOK
<1>3. Accounted'
  BY <1>1, SameSession, SameBuffers DEF IInv, Accounted, Apart
<1>4. NoStrayViews'
  BY <1>1, SameSession, Zenon DEF IInv, NoStrayViews
<1> QED
  BY <1>1, <1>2, <1>3, <1>4, SameSession, SameBuffers, Assemble, Zenon

\* The element freed in place points to nothing afterwards, and no view of it is left.
LEMMA MessageFreeKeeps ==
  ASSUME IInv, NEW i \in DOMAIN elems, MessageFree(i), UNCHANGED ended
  PROVE  IInv'
<1> DEFINE p == elems[i].bytes
<1>1. /\ elems' = [elems EXCEPT ![i] = Zeroed(elems[i])]
      /\ live' = live \ {p} /\ freed' = freed \cup ({p} \ {NULL})
      /\ misused' = (misused \/ p \notin live \cup {NULL})
      /\ views' = views \ {p}
      /\ buffers' = buffers /\ array' = array /\ popped' = popped /\ texts' = texts
  BY FreesPayload DEF MessageFree, FreeBlock
<1>2. /\ elems \in Seq(Message) /\ DOMAIN elems = 1 .. Len(elems)
      /\ ElemsDiffer /\ PlainMessages
  BY SeqFacts, Zenon DEF IInv, TypeOK
<1>3. /\ elems' \in Seq(Message) /\ DOMAIN elems' = DOMAIN elems
      /\ elems'[i] = Zeroed(elems[i]) /\ elems'[i].bytes = NULL
      /\ elems'[i].type = elems[i].type
      /\ \A j \in DOMAIN elems : j # i => elems'[j] = elems[j]
  <2>1. Zeroed(elems[i]) \in Message /\ Zeroed(elems[i]).bytes = NULL
        /\ Zeroed(elems[i]).type = elems[i].type
    BY FreesPayload, Zenon
  <2>2. /\ elems' \in Seq(Message) /\ Len(elems') = Len(elems)
        /\ elems'[i] = Zeroed(elems[i])
        /\ \A j \in 1 .. Len(elems) : j # i => elems'[j] = elems[j]
    <3> DEFINE z == Zeroed(elems[i])
    <3>1. z \in Message /\ elems \in Seq(Message) /\ i \in 1 .. Len(elems)
          /\ elems' = [elems EXCEPT ![i] = z]
      BY <1>1, <1>2, <2>1, Zenon
    <3> HIDE DEF z
    <3>2. /\ elems' \in Seq(Message) /\ Len(elems') = Len(elems)
          /\ elems'[i] = z /\ \A j \in 1 .. Len(elems) : j # i => elems'[j] = elems[j]
      BY ONLY <3>1, ExceptFacts
    <3> QED
      BY <3>2 DEF z
  <2> QED
    BY <1>2, <2>1, <2>2, SeqFacts, Zenon
<1>4. PayloadBlocks' = PayloadBlocks \ {p}
  <2>1. ASSUME NEW x \in PayloadBlocks' PROVE x \in PayloadBlocks \ {p}
    <3>1. PICK j \in DOMAIN elems : x = elems'[j].bytes /\ x # NULL
      BY <1>3, Zenon DEF PayloadBlocks
    <3>2. j # i /\ x = elems[j].bytes
      BY <1>3, <3>1, Zenon
    <3>3. x # p
      BY <1>2, <3>1, <3>2, Zenon DEF ElemsDiffer
    <3> QED
      BY <3>1, <3>2, <3>3, Zenon DEF PayloadBlocks
  <2>2. ASSUME NEW x \in PayloadBlocks \ {p} PROVE x \in PayloadBlocks'
    <3>1. PICK j \in DOMAIN elems : x = elems[j].bytes /\ x # NULL
      BY Zenon DEF PayloadBlocks
    <3>2. j # i /\ x = elems'[j].bytes
      BY <1>3, <3>1, Zenon
    <3> QED
      BY <1>3, <3>1, <3>2, Zenon DEF PayloadBlocks
  <2> QED
    BY <2>1, <2>2, Zenon
<1>5. ElemsDiffer' /\ PlainMessages'
  BY <1>1, <1>2, <1>3, Zenon DEF ElemsDiffer, PlainMessages
<1>6. p \in PayloadBlocks \/ p = NULL
  BY Zenon DEF PayloadBlocks
<1>7. /\ BufferBlocks' = BufferBlocks /\ ArrayBlock' = ArrayBlock /\ PoppedBlock' = PoppedBlock
  BY <1>1, SameBuffers, Zenon DEF ArrayBlock, PoppedBlock
<1>8. NULL \notin live
  BY HeldIsLive
<1> HIDE DEF p
<1>9. Accounted'
  BY <1>1, <1>4, <1>6, <1>7, <1>8 DEF IInv, Accounted, Apart
<1>10. NoStrayViews'
  BY <1>1, <1>4, <1>7, Zenon DEF IInv, NoStrayViews
<1>11. live' \subseteq Block /\ freed' \subseteq Block /\ ~misused' /\ misused' \in BOOLEAN
  <2>1. p \in live \cup {NULL}
    BY HeldIsLive, Zenon DEF p
  <2> QED
    BY <1>1, <2>1, HeldIsLive DEF IInv, TypeOK
<1>12. array' \in Pointer /\ popped' \in Message /\ ended' \in BOOLEAN
       /\ (array' = NULL => elems' = << >>)
  <2>1. array = NULL => DOMAIN elems = {}
    <3>1. DOMAIN << >> = {}
      OBVIOUS
    <3> QED
      BY <3>1, Zenon DEF IInv
  <2> QED
    BY <1>1, <2>1, Zenon DEF IInv, TypeOK
<1> QED
  BY <1>1, <1>3, <1>5, <1>9, <1>10, <1>11, <1>12, SameBuffers, Assemble, Zenon

\* The last element moves to popped, and its payload with it.
LEMMA PopKeeps ==
  ASSUME IInv, Pop, UNCHANGED ended
  PROVE  IInv'
<1> DEFINE n == Len(elems)
<1>1. /\ elems # << >> /\ popped = Empty
      /\ popped' = Last(elems) /\ elems' = Front(elems)
      /\ live' = live /\ freed' = freed /\ misused' = misused
      /\ buffers' = buffers /\ array' = array /\ texts' = texts /\ views' = views
  BY DEF Pop, heap
<1>2. /\ elems \in Seq(Message) /\ DOMAIN elems = 1 .. n /\ n \in Nat /\ n \in 1 .. n
      /\ ElemsDiffer /\ PlainMessages
  BY <1>1, SeqFacts, Zenon DEF IInv, TypeOK
<1>3. /\ elems' \in Seq(Message) /\ DOMAIN elems' = 1 .. n - 1
      /\ \A j \in 1 .. n - 1 : elems'[j] = elems[j]
      /\ popped' = elems[n]
  BY <1>1, <1>2, FrontFacts, SeqFacts, Zenon
<1>4. /\ \A j \in 1 .. n - 1 : j \in 1 .. n /\ j # n
      /\ \A j \in 1 .. n : j = n \/ j \in 1 .. n - 1
  <2>1. n \in Nat
    BY <1>2, Zenon
  <2> HIDE DEF n
  <2> QED
    BY ONLY <2>1
<1> DEFINE p == elems[n].bytes
<1>5. PayloadBlocks' = PayloadBlocks \ {p}
  <2>1. ASSUME NEW x \in PayloadBlocks' PROVE x \in PayloadBlocks \ {p}
    <3>1. PICK j \in 1 .. n - 1 : x = elems'[j].bytes /\ x # NULL
      BY <1>3, Zenon DEF PayloadBlocks
    <3>2. x = elems[j].bytes /\ j \in 1 .. n /\ j # n
      BY <1>3, <1>4, <3>1, Zenon
    <3>3. x # p
      BY <1>2, <3>1, <3>2, Zenon DEF ElemsDiffer
    <3> QED
      BY <1>2, <3>1, <3>2, <3>3, Zenon DEF PayloadBlocks
  <2>2. ASSUME NEW x \in PayloadBlocks \ {p} PROVE x \in PayloadBlocks'
    <3>1. PICK j \in 1 .. n : x = elems[j].bytes /\ x # NULL
      BY <1>2, Zenon DEF PayloadBlocks
    <3>2. j \in 1 .. n - 1 /\ x = elems'[j].bytes
      BY <1>3, <1>4, <3>1, Zenon
    <3> QED
      BY <1>3, <3>1, <3>2, Zenon DEF PayloadBlocks
  <2> QED
    BY <2>1, <2>2, Zenon
<1>6. PoppedBlock' = {p} \ {NULL} /\ PoppedBlock = {}
  <2>1. popped.bytes = NULL
    BY <1>1 DEF Empty
  <2> QED
    BY <1>3, <2>1 DEF PoppedBlock
<1>7. ElemsDiffer' /\ PlainMessages'
  <2>1. ElemsDiffer'
    BY <1>2, <1>3, <1>4, Zenon DEF ElemsDiffer
  <2>2. PlainMessages'
    BY <1>2, <1>3, <1>4, Zenon DEF PlainMessages
  <2> QED
    BY <2>1, <2>2
<1>8. BufferBlocks' = BufferBlocks /\ ArrayBlock' = ArrayBlock
  BY <1>1, SameBuffers, Zenon DEF ArrayBlock
<1>9. p \in PayloadBlocks \/ p = NULL
  BY <1>2, Zenon DEF PayloadBlocks
<1>10. NULL \notin PayloadBlocks
  BY DEF PayloadBlocks
<1>11. popped' \in Message
  BY <1>2, <1>3, SeqFacts, Zenon
<1> HIDE DEF p
<1>12. Accounted' /\ NoStrayViews'
  BY <1>1, <1>5, <1>6, <1>8, <1>9, <1>10 DEF IInv, Accounted, Apart, NoStrayViews
<1>13. live' \subseteq Block /\ freed' \subseteq Block /\ ~misused' /\ misused' \in BOOLEAN
       /\ array' \in Pointer /\ ended' \in BOOLEAN
  BY <1>1, HeldIsLive, Zenon DEF IInv, TypeOK
<1>14. array' # NULL
  BY <1>1, Zenon DEF IInv
<1> QED
  BY <1>1, <1>3, <1>7, <1>11, <1>12, <1>13, <1>14, SameBuffers, Assemble, Zenon

\* The array may move; popped comes back as its last element.
LEMMA PutBackKeeps ==
  ASSUME IInv, PutBack, UNCHANGED ended
  PROVE  IInv'
<1> DEFINE n == Len(elems)
           p == popped.bytes
<1>1. PICK b \in Fresh \cup {array} : ReallocThenFree(array, b, NULL) /\ array' = b
  BY Zenon DEF PutBack
<1>2. /\ array # NULL /\ array' = b
      /\ live' = (live \ {array, NULL}) \cup {b}
      /\ freed' = freed \cup ({array, NULL} \ {b, NULL})
      /\ misused' = (misused \/ ~({array, NULL} \subseteq live \cup {NULL}))
      /\ elems' = Append(elems, popped) /\ popped' = Empty
      /\ buffers' = buffers /\ views' = views /\ texts' = texts
  BY <1>1 DEF PutBack, ReallocThenFree
<1>3. /\ elems \in Seq(Message) /\ popped \in Message /\ DOMAIN elems = 1 .. n /\ n \in Nat
      /\ ElemsDiffer /\ PlainMessages
  BY SeqFacts, Zenon DEF IInv, TypeOK
<1>4. /\ elems' \in Seq(Message) /\ DOMAIN elems' = 1 .. n + 1
      /\ elems'[n + 1] = popped /\ \A j \in 1 .. n : elems'[j] = elems[j]
  <2>1. /\ elems' \in Seq(Message) /\ Len(elems') = n + 1
        /\ elems'[n + 1] = popped /\ \A j \in 1 .. n : elems'[j] = elems[j]
    <3> DEFINE s == elems
               t == elems'
    <3>1. s \in Seq(Message) /\ popped \in Message /\ t = Append(s, popped)
      BY <1>2, <1>3, Zenon
    <3> HIDE DEF s, t
    <3>2. /\ t \in Seq(Message) /\ Len(t) = Len(s) + 1
          /\ t[Len(s) + 1] = popped /\ \A j \in 1 .. Len(s) : t[j] = s[j]
      BY ONLY <3>1
    <3> QED
      BY <3>2, Zenon DEF s, t
  <2>2. DOMAIN elems' = 1 .. Len(elems')
    BY <2>1, SeqFacts, Zenon
  <2> QED
    BY <2>1, <2>2, Zenon
<1>5. /\ \A j \in 1 .. n : j \in 1 .. n + 1 /\ j # n + 1
      /\ \A j \in 1 .. n + 1 : j = n + 1 \/ j \in 1 .. n
      /\ n + 1 \in 1 .. n + 1
  <2>1. n \in Nat
    BY <1>3, Zenon
  <2> HIDE DEF n
  <2> QED
    BY ONLY <2>1
<1>6. /\ live = BufferBlocks \cup PayloadBlocks \cup ArrayBlock \cup PoppedBlock \cup texts
      /\ Apart(BufferBlocks, PayloadBlocks, ArrayBlock, PoppedBlock, texts)
      /\ ArrayBlock = {array} /\ PoppedBlock = {p} \ {NULL}
  BY <1>2 DEF IInv, Accounted, ArrayBlock, PoppedBlock
<1>7. PayloadBlocks' = PayloadBlocks \cup PoppedBlock
  <2>1. ASSUME NEW x \in PayloadBlocks' PROVE x \in PayloadBlocks \cup PoppedBlock
    <3>1. PICK j \in 1 .. n + 1 : x = elems'[j].bytes /\ x # NULL
      BY <1>4, Zenon DEF PayloadBlocks
    <3>2. CASE j = n + 1
      BY <1>4, <3>1, <3>2, Zenon DEF PoppedBlock
    <3>3. CASE j \in 1 .. n
      BY <1>3, <1>4, <3>1, <3>3, Zenon DEF PayloadBlocks
    <3> QED
      BY <1>5, <3>2, <3>3, Zenon
  <2>2. ASSUME NEW x \in PayloadBlocks PROVE x \in PayloadBlocks'
    <3>1. PICK j \in 1 .. n : x = elems[j].bytes /\ x # NULL
      BY <1>3, Zenon DEF PayloadBlocks
    <3>2. j \in 1 .. n + 1 /\ x = elems'[j].bytes
      BY <1>4, <1>5, <3>1, Zenon
    <3> QED
      BY <1>4, <3>1, <3>2, Zenon DEF PayloadBlocks
  <2>3. ASSUME NEW x \in PoppedBlock PROVE x \in PayloadBlocks'
    BY <1>4, <1>5, <2>3, Zenon DEF PayloadBlocks, PoppedBlock
  <2> QED
    BY <2>1, <2>2, <2>3, Zenon
<1>8. ElemsDiffer'
  <2> SUFFICES ASSUME NEW i \in 1 .. n + 1, NEW j \in 1 .. n + 1,
                      elems'[i].bytes = elems'[j].bytes, elems'[i].bytes # NULL
               PROVE  i = j
    BY <1>4, Zenon DEF ElemsDiffer
  <2>1. \A k \in 1 .. n : elems[k].bytes # NULL => elems[k].bytes # p
    <3>1. \A k \in 1 .. n : elems[k].bytes # NULL => elems[k].bytes \in PayloadBlocks
      BY <1>3, Zenon DEF PayloadBlocks
    <3>2. p # NULL => p \notin PayloadBlocks
      BY <1>6 DEF Apart
    <3> QED
      BY <3>1, <3>2, Zenon
  <2> QED
    BY <1>3, <1>4, <1>5, <2>1, Zenon DEF ElemsDiffer
<1>9. PlainMessages'
  <2>1. popped'.bytes = NULL
    BY <1>2 DEF Empty
  <2> QED
    BY <1>3, <1>4, <1>5, <2>1, Zenon DEF PlainMessages
<1>10. /\ PoppedBlock' = {} /\ BufferBlocks' = BufferBlocks
  <2>1. popped'.bytes = NULL
    BY <1>2 DEF Empty
  <2> QED
    BY <1>2, <2>1, SameBuffers DEF PoppedBlock
<1>11. b \in Block /\ b # NULL /\ (b = array \/ b \notin live) /\ array \in live /\ NULL \notin live
  <2>1. array \in live /\ live \subseteq Block /\ NULL \notin Block
    BY <1>2, HeldIsLive, Zenon
  <2> QED
    BY <1>1, <2>1, Zenon DEF Fresh
<1>12. ArrayBlock' = {b}
  BY <1>2, <1>11 DEF ArrayBlock
<1> HIDE DEF n, p
<1>13. Accounted'
  BY <1>2, <1>6, <1>7, <1>10, <1>11, <1>12 DEF Accounted, Apart
<1>14. NoStrayViews'
  BY <1>2, <1>7, <1>10, Zenon DEF IInv, NoStrayViews
<1>15. live' \subseteq Block /\ freed' \subseteq Block /\ ~misused' /\ misused' \in BOOLEAN
  BY <1>2, <1>11, HeldIsLive DEF IInv, TypeOK
<1>16. array' \in Pointer /\ popped' \in Message /\ ended' \in BOOLEAN /\ array' # NULL
  <2>1. Empty \in Message
    BY DEF Empty, Message, Pointer, Type
  <2> QED
    BY <1>2, <1>11, <2>1, Zenon DEF Pointer, IInv, TypeOK
<1> QED
  BY <1>2, <1>4, <1>8, <1>9, <1>13, <1>14, <1>15, <1>16, SameBuffers, Assemble, Zenon

LEMMA FreePoppedKeeps ==
  ASSUME IInv, FreePopped, UNCHANGED ended
  PROVE  IInv'
<1> DEFINE p == popped.bytes
<1>1. /\ live' = live \ {p} /\ freed' = freed \cup ({p} \ {NULL})
      /\ misused' = (misused \/ p \notin live \cup {NULL})
      /\ popped' = Empty /\ views' = views \ {p}
      /\ buffers' = buffers /\ array' = array /\ elems' = elems /\ texts' = texts
  BY FreesPayload DEF FreePopped, FreeBlock
<1>2. popped'.bytes = NULL /\ popped' \in Message
  BY <1>1 DEF Empty, Message, Pointer, Type
<1>3. /\ PoppedBlock' = {} /\ PoppedBlock = {p} \ {NULL}
      /\ PayloadBlocks' = PayloadBlocks /\ ArrayBlock' = ArrayBlock /\ BufferBlocks' = BufferBlocks
  BY <1>1, <1>2, SameBuffers DEF PoppedBlock, PayloadBlocks, ArrayBlock
<1>4. ElemsDiffer' /\ PlainMessages'
  BY <1>1, <1>2, Zenon DEF ElemsDiffer, PlainMessages, IInv
<1>5. p \in live \cup {NULL} /\ NULL \notin live
  BY HeldIsLive
<1> HIDE DEF p
<1>6. Accounted' /\ NoStrayViews'
  BY <1>1, <1>3, <1>5 DEF IInv, Accounted, Apart, NoStrayViews
<1>7. live' \subseteq Block /\ freed' \subseteq Block /\ ~misused' /\ misused' \in BOOLEAN
  BY <1>1, <1>5, HeldIsLive DEF IInv, TypeOK
<1>8. array' \in Pointer /\ elems' \in Seq(Message) /\ ended' \in BOOLEAN
      /\ (array' = NULL => elems' = << >>)
  BY <1>1, Zenon DEF IInv, TypeOK
<1> QED
  BY <1>1, <1>2, <1>4, <1>6, <1>7, <1>8, SameBuffers, Assemble, Zenon

\* The last element takes the place of one that points to nothing.
LEMMA SwapRemoveKeeps ==
  ASSUME IInv, NEW i \in DOMAIN elems, SwapRemove(i), UNCHANGED ended
  PROVE  IInv'
<1> DEFINE n == Len(elems)
           t == [elems EXCEPT ![i] = Last(elems)]
<1>1. /\ elems[i].bytes = NULL /\ elems' = Front(t)
      /\ live' = live /\ freed' = freed /\ misused' = misused
      /\ buffers' = buffers /\ array' = array /\ popped' = popped /\ views' = views
      /\ texts' = texts
  BY DEF SwapRemove, heap
<1>2. /\ elems \in Seq(Message) /\ DOMAIN elems = 1 .. n /\ n \in Nat /\ i \in 1 .. n
      /\ ElemsDiffer /\ PlainMessages
  BY SeqFacts, Zenon DEF IInv, TypeOK
<1>3. n \in 1 .. n /\ elems # << >>
  <2>1. elems # << >>
    <3>1. DOMAIN << >> = {}
      OBVIOUS
    <3> QED
      BY <3>1
  <2> QED
    BY <1>2, <2>1, SeqFacts, Zenon
<1>4. Last(elems) = elems[n] /\ elems[n] \in Message
  BY <1>2, <1>3, FrontFacts, SeqFacts, Zenon
<1>5. /\ t \in Seq(Message) /\ Len(t) = n
      /\ t[i] = elems[n] /\ \A j \in 1 .. n : j # i => t[j] = elems[j]
  <2> DEFINE e == Last(elems)
  <2>1. elems \in Seq(Message) /\ i \in 1 .. Len(elems) /\ e \in Message
        /\ t = [elems EXCEPT ![i] = e]
    BY <1>2, <1>4, Zenon
  <2> HIDE DEF e, t
  <2>2. /\ t \in Seq(Message) /\ Len(t) = Len(elems)
        /\ t[i] = e /\ \A j \in 1 .. Len(elems) : j # i => t[j] = elems[j]
    BY ONLY <2>1, ExceptFacts
  <2> QED
    BY <1>4, <2>2, Zenon DEF e
<1> HIDE DEF t
<1>6. t # << >>
  <2>1. Len(<< >>) = 0
    OBVIOUS
  <2>2. n # 0
    BY <1>2
  <2> QED
    BY <1>5, <2>1, <2>2, Zenon
<1>7. /\ elems' \in Seq(Message) /\ DOMAIN elems' = 1 .. n - 1
      /\ \A j \in 1 .. n - 1 : elems'[j] = t[j]
  BY <1>1, <1>5, <1>6, FrontFacts, SeqFacts, Zenon
<1>8. /\ \A j \in 1 .. n - 1 : j \in 1 .. n /\ j # n
      /\ \A j \in 1 .. n : j = n \/ j \in 1 .. n - 1
  <2>1. n \in Nat
    BY <1>2, Zenon
  <2> HIDE DEF n
  <2> QED
    BY ONLY <2>1
<1>9. PayloadBlocks' = PayloadBlocks
  <2>1. ASSUME NEW x \in PayloadBlocks' PROVE x \in PayloadBlocks
    <3>1. PICK j \in 1 .. n - 1 : x = elems'[j].bytes /\ x # NULL
      BY <1>7, Zenon DEF PayloadBlocks
    <3>2. x = elems[n].bytes \/ x = elems[j].bytes
      BY <1>5, <1>7, <1>8, <3>1, Zenon
    <3> QED
      BY <1>2, <1>3, <1>8, <3>1, <3>2, Zenon DEF PayloadBlocks
  <2>2. ASSUME NEW x \in PayloadBlocks PROVE x \in PayloadBlocks'
    <3>1. PICK j \in 1 .. n : x = elems[j].bytes /\ x # NULL
      BY <1>2, Zenon DEF PayloadBlocks
    <3>2. j # i
      BY <1>1, <3>1, Zenon
    <3>3. CASE j \in 1 .. n - 1
      BY <1>5, <1>7, <1>8, <3>1, <3>2, <3>3, Zenon DEF PayloadBlocks
    <3>4. CASE j = n
      <4>1. i \in 1 .. n - 1
        BY <1>2, <1>8, <3>2, <3>4, Zenon
      <4> QED
        BY <1>5, <1>7, <3>1, <3>4, <4>1, Zenon DEF PayloadBlocks
    <3> QED
      BY <1>8, <3>3, <3>4, Zenon
  <2> QED
    BY <2>1, <2>2, Zenon
<1>10. ElemsDiffer'
  <2> SUFFICES ASSUME NEW j \in 1 .. n - 1, NEW k \in 1 .. n - 1,
                      elems'[j].bytes = elems'[k].bytes, elems'[j].bytes # NULL
               PROVE  j = k
    BY <1>7, Zenon DEF ElemsDiffer
  <2>1. /\ elems'[j] = IF j = i THEN elems[n] ELSE elems[j]
        /\ elems'[k] = IF k = i THEN elems[n] ELSE elems[k]
    BY <1>5, <1>7, <1>8, Zenon
  <2> QED
    BY <1>2, <1>3, <1>8, <2>1, Zenon DEF ElemsDiffer
<1>11. PlainMessages'
  <2>1. ASSUME NEW j \in 1 .. n - 1 PROVE elems'[j] = elems[n] \/ elems'[j] = elems[j]
    BY <1>5, <1>7, <1>8, Zenon
  <2>2. /\ n \in 1 .. n
        /\ \A j \in 1 .. n : elems[j].type \notin OwningType => elems[j].bytes = NULL
        /\ popped.type \notin OwningType => popped.bytes = NULL
    BY <1>2, <1>3, Zenon DEF PlainMessages
  <2>3. ASSUME NEW j \in 1 .. n - 1, elems'[j].type \notin OwningType
        PROVE  elems'[j].bytes = NULL
    BY <1>8, <2>1, <2>2, <2>3, Zenon
  <2> QED
    BY <1>1, <1>7, <2>2, <2>3, Zenon DEF PlainMessages
<1>12. /\ PoppedBlock' = PoppedBlock /\ ArrayBlock' = ArrayBlock /\ BufferBlocks' = BufferBlocks
  BY <1>1, SameBuffers, Zenon DEF PoppedBlock, ArrayBlock
<1>13. Accounted' /\ NoStrayViews'
  BY <1>1, <1>9, <1>12, Zenon DEF IInv, Accounted, NoStrayViews
<1>14. live' \subseteq Block /\ freed' \subseteq Block /\ ~misused' /\ misused' \in BOOLEAN
       /\ array' \in Pointer /\ popped' \in Message /\ ended' \in BOOLEAN
  BY <1>1, HeldIsLive, Zenon DEF IInv, TypeOK
<1>15. array' # NULL
  BY <1>1, <1>3, Zenon DEF IInv
<1> QED
  BY <1>1, <1>7, <1>10, <1>11, <1>13, <1>14, <1>15, SameBuffers, Assemble, Zenon

LEMMA FreeArrayKeeps ==
  ASSUME IInv, FreeArray, UNCHANGED ended
  PROVE  IInv'
<1>1. /\ array # NULL /\ \A i \in DOMAIN elems : elems[i].bytes = NULL
      /\ live' = live \ {array} /\ freed' = freed \cup ({array} \ {NULL})
      /\ misused' = (misused \/ array \notin live \cup {NULL})
      /\ array' = NULL /\ elems' = << >>
      /\ buffers' = buffers /\ popped' = popped /\ views' = views /\ texts' = texts
  BY DEF FreeArray, FreeBlock
<1>2. DOMAIN << >> = {} /\ << >> \in Seq(Message)
  OBVIOUS
<1>3. /\ PayloadBlocks = {} /\ PayloadBlocks' = {}
      /\ ArrayBlock = {array} /\ ArrayBlock' = {} /\ PoppedBlock' = PoppedBlock
      /\ BufferBlocks' = BufferBlocks
  BY <1>1, <1>2, SameBuffers DEF PayloadBlocks, ArrayBlock, PoppedBlock
<1>4. ElemsDiffer' /\ PlainMessages'
  BY <1>1, <1>2, Zenon DEF ElemsDiffer, PlainMessages, IInv
<1>5. Accounted' /\ NoStrayViews'
  BY <1>1, <1>3 DEF IInv, Accounted, Apart, NoStrayViews
<1>6. live' \subseteq Block /\ freed' \subseteq Block /\ ~misused' /\ misused' \in BOOLEAN
  BY <1>1, HeldIsLive DEF IInv, TypeOK
<1>7. array' \in Pointer /\ elems' \in Seq(Message) /\ popped' \in Message /\ ended' \in BOOLEAN
  BY <1>1, <1>2, Zenon DEF IInv, TypeOK, Pointer
<1> QED
  BY <1>1, <1>4, <1>5, <1>6, <1>7, SameBuffers, Assemble, Zenon

-----------------------------------------------------------------------------
(* The invariant holds of every behaviour. *)

LEMMA StepKeepsIInv ==
  ASSUME IInv, [Next]_vars
  PROVE  IInv'
<1>1. ASSUME Step, UNCHANGED ended PROVE IInv'
  <2>1. CASE \E v \in Vars : Serialize(v) \/ FreeBuffer(v) \/ Deserialize(v)
    BY <1>1, <2>1, SerializeKeeps, FreeBufferKeeps, DeserializeKeeps, Zenon
  <2>2. CASE \E v, w \in Vars : BufAppend(v, w)
    BY <1>1, <2>2, BufAppendKeeps, Zenon
  <2>3. CASE \E i \in DOMAIN elems : View(i) \/ Cstr(i) \/ MessageFree(i) \/ SwapRemove(i)
    BY <1>1, <2>3, ViewKeeps, CstrKeeps, MessageFreeKeeps, SwapRemoveKeeps, Zenon
  <2>4. CASE \E b \in texts : FreeText(b)
    BY <1>1, <2>4, FreeTextKeeps, Zenon
  <2>5. CASE ReadView \/ Pop \/ PutBack \/ FreePopped \/ FreeArray
    BY <1>1, <2>5, ReadViewKeeps, PopKeeps, PutBackKeeps, FreePoppedKeeps, FreeArrayKeeps, Zenon
  <2> QED
    BY <1>1, <2>1, <2>2, <2>3, <2>4, <2>5, Zenon DEF Step
<1>2. ASSUME UNCHANGED << heap, buffers, session, views, texts >>, ended' \in BOOLEAN
      PROVE  IInv'
  <2>1. /\ live' = live /\ freed' = freed /\ misused' = misused /\ buffers' = buffers
        /\ texts' = texts /\ views' = views /\ UNCHANGED session
    BY <1>2 DEF heap
  <2>2. live' \subseteq Block /\ freed' \subseteq Block /\ ~misused' /\ misused' \in BOOLEAN
    BY <2>1, HeldIsLive, Zenon DEF IInv, TypeOK
  <2>3. Accounted' /\ NoStrayViews'
    BY <2>1, SameSession, SameBuffers, Zenon DEF IInv, Accounted, NoStrayViews
  <2> QED
    BY <1>2, <2>1, <2>2, <2>3, SameSession, SameBuffers, Assemble, Zenon
<1>3. ASSUME Exit PROVE IInv'
  BY <1>2, <1>3 DEF Exit
<1>4. ASSUME UNCHANGED vars PROVE IInv'
  <2>1. UNCHANGED << heap, buffers, session, views, texts >> /\ ended' = ended
    BY <1>4 DEF vars, heap, session
  <2> QED
    BY <1>2, <2>1, Zenon DEF IInv, TypeOK
<1> QED
  BY <1>1, <1>3, <1>4, Zenon DEF Next, Finished

LEMMA IInvAlways == Spec => []IInv
<1>1. Init => IInv
  <2> SUFFICES ASSUME Init PROVE IInv
    OBVIOUS
  <2>1. DOMAIN << >> = {} /\ << >> \in Seq(Message)
    OBVIOUS
  <2>2. /\ live = {} /\ freed = {} /\ buffers = [v \in Vars |-> NULL]
        /\ array = NULL /\ elems = << >> /\ popped = Empty
        /\ views = {} /\ texts = {} /\ misused = FALSE /\ ended = FALSE
    BY DEF Init
  <2>3. popped.bytes = NULL /\ popped \in Message
    BY <2>2 DEF Empty, Message, Pointer, Type
  <2>4. /\ BufferBlocks = {} /\ PayloadBlocks = {} /\ ArrayBlock = {} /\ PoppedBlock = {}
    BY <2>1, <2>2, <2>3 DEF BufferBlocks, PayloadBlocks, ArrayBlock, PoppedBlock
  <2>5. Accounted /\ NoStrayViews
    BY <2>2, <2>4 DEF Accounted, Apart, NoStrayViews
  <2>6. BuffersDiffer /\ ElemsDiffer /\ PlainMessages
    BY <2>1, <2>2, <2>3 DEF BuffersDiffer, ElemsDiffer, PlainMessages
  <2>7. TypeOK /\ NoMisuse
    BY <2>1, <2>2, <2>3 DEF TypeOK, NoMisuse, Pointer
  <2> QED
    BY <2>2, <2>5, <2>6, <2>7 DEF IInv
<1>2. IInv /\ [Next]_vars => IInv'
  BY StepKeepsIInv
<1> QED
  BY <1>1, <1>2, PTL DEF Spec

-----------------------------------------------------------------------------
(* Theorems. *)

\* Buffers, array, messages, views and strings keep their types under every sequence of
\* calls of a program that follows the rules.
THEOREM OwnershipTypes == Spec => []TypeOK
<1>1. IInv => TypeOK
  BY DEF IInv
<1> QED
  BY IInvAlways, <1>1, PTL

\* A program that follows the rules never uses, reallocates or frees a block that is not
\* allocated, however many Buffers and messages it has and in whatever order it lets go of
\* them: payloads outlive the Buffer they came from, strings outlive their message, and
\* message_free() may be called again.
THEOREM OwnershipNoMisuse == Spec => []NoMisuse
<1>1. IInv => NoMisuse
  BY DEF IInv
<1> QED
  BY IInvAlways, <1>1, PTL

LEMMA HeldBlocks ==
  /\ \A v : Held(<< "buffer", v >>) = buffers[v]
  /\ \A i : Held(<< "elem", i >>) = elems[i].bytes
  /\ \A b : Held(<< "text", b >>) = b
  /\ Held(<< "array", 0 >>) = array
  /\ Held(<< "popped", 0 >>) = popped.bytes
  BY DEF Held

\* Every block is held in exactly one place, and what is held is allocated: nothing leaks,
\* and nothing is freed twice.
THEOREM EachBlockOwnedOnce == Spec => []OwnedOnce
<1>1. IInv => OwnedOnce
  <2> SUFFICES ASSUME IInv PROVE OwnedOnce
    OBVIOUS
  <2>1. /\ live = BufferBlocks \cup PayloadBlocks \cup ArrayBlock \cup PoppedBlock \cup texts
        /\ Apart(BufferBlocks, PayloadBlocks, ArrayBlock, PoppedBlock, texts)
        /\ BuffersDiffer /\ ElemsDiffer
    BY Zenon DEF IInv, Accounted
  <2>2. ASSUME NEW h \in Holders
        PROVE  \/ \E v \in Vars : h = << "buffer", v >> /\ Held(h) = buffers[v]
               \/ \E i \in DOMAIN elems : h = << "elem", i >> /\ Held(h) = elems[i].bytes
               \/ h \in {<< "text", b >> : b \in texts} /\ Held(h) \in texts
                  /\ h = << "text", Held(h) >>
               \/ h = << "array", 0 >> /\ Held(h) = array
               \/ h = << "popped", 0 >> /\ Held(h) = popped.bytes
    <3>1. CASE \E v \in Vars : h = << "buffer", v >>
      BY <3>1, HeldBlocks, Zenon
    <3>2. CASE \E i \in DOMAIN elems : h = << "elem", i >>
      BY <3>2, HeldBlocks, Zenon
    <3>3. CASE \E b \in texts : h = << "text", b >>
      BY <3>3, HeldBlocks, Zenon
    <3>4. CASE h = << "array", 0 >> \/ h = << "popped", 0 >>
      BY <3>4, HeldBlocks, Zenon
    <3> QED
      BY <3>1, <3>2, <3>3, <3>4, Zenon DEF Holders
  <2>3. NULL \notin texts
    BY HeldIsLive
  <2>4. {Held(h) : h \in Holders} \ {NULL} = live
    <3>1. ASSUME NEW h \in Holders, Held(h) # NULL PROVE Held(h) \in live
      BY <2>2, <3>1, HeldIsLive, Zenon
    <3>2. ASSUME NEW b \in live PROVE b # NULL /\ \E h \in Holders : b = Held(h)
      <4>1. b # NULL
        BY HeldIsLive, Zenon
      <4>2. CASE b \in BufferBlocks
        <5>1. PICK v \in Vars : b = buffers[v]
          BY <4>2, Zenon DEF BufferBlocks
        <5> QED
          BY <4>1, <5>1, HeldBlocks, Zenon DEF Holders
      <4>3. CASE b \in PayloadBlocks
        <5>1. PICK i \in DOMAIN elems : b = elems[i].bytes
          BY <4>3, Zenon DEF PayloadBlocks
        <5> QED
          BY <4>1, <5>1, HeldBlocks, Zenon DEF Holders
      <4>4. CASE b \in texts
        BY <4>1, <4>4, HeldBlocks, Zenon DEF Holders
      <4>5. CASE b \in ArrayBlock
        BY <4>1, <4>5, HeldBlocks, Zenon DEF Holders, ArrayBlock
      <4>6. CASE b \in PoppedBlock
        BY <4>1, <4>6, HeldBlocks, Zenon DEF Holders, PoppedBlock
      <4> QED
        BY <2>1, <4>2, <4>3, <4>4, <4>5, <4>6, Zenon
    <3> QED
      BY <3>1, <3>2
  <2>5. ASSUME NEW g \in Holders, NEW h \in Holders, Held(g) = Held(h), Held(g) # NULL
        PROVE  g = h
    <3> DEFINE b == Held(g)
               InBuffers(x) == \E v \in Vars : x = << "buffer", v >> /\ b = buffers[v]
               InElems(x) == \E i \in DOMAIN elems : x = << "elem", i >> /\ b = elems[i].bytes
    <3>1. ASSUME NEW x \in Holders, Held(x) = b
          PROVE  \/ InBuffers(x) /\ b \in BufferBlocks
                 \/ InElems(x) /\ b \in PayloadBlocks
                 \/ b \in texts /\ x = << "text", b >>
                 \/ x = << "array", 0 >> /\ b \in ArrayBlock
                 \/ x = << "popped", 0 >> /\ b \in PoppedBlock
      BY <2>2, <2>5, <3>1, Zenon
         DEF BufferBlocks, PayloadBlocks, ArrayBlock, PoppedBlock
    <3>2. ASSUME InBuffers(g), InBuffers(h) PROVE g = h
      BY <2>1, <2>5, <3>2, Zenon DEF BuffersDiffer
    <3>3. ASSUME InElems(g), InElems(h) PROVE g = h
      BY <2>1, <2>5, <3>3, Zenon DEF ElemsDiffer
    <3> HIDE DEF b, InBuffers, InElems
    <3>4. Held(g) = b /\ Held(h) = b
      BY <2>5 DEF b
    <3>5. /\ ~(b \in BufferBlocks /\ b \in PayloadBlocks)
          /\ ~(b \in BufferBlocks \cup PayloadBlocks /\ b \in texts)
          /\ ~(b \in BufferBlocks \cup PayloadBlocks \cup texts /\ b \in ArrayBlock)
          /\ ~(b \in BufferBlocks \cup PayloadBlocks \cup texts \cup ArrayBlock
               /\ b \in PoppedBlock)
      BY <2>1 DEF Apart
    <3>7. CASE InBuffers(g) /\ b \in BufferBlocks
      BY <3>1, <3>2, <3>4, <3>5, <3>7, Zenon
    <3>8. CASE InElems(g) /\ b \in PayloadBlocks
      BY <3>1, <3>3, <3>4, <3>5, <3>8, Zenon
    <3>9. CASE g = << "text", b >> /\ b \in texts
      BY <3>1, <3>4, <3>5, <3>9, Zenon
    <3>10. CASE g = << "array", 0 >> /\ b \in ArrayBlock
      BY <3>1, <3>4, <3>5, <3>10, Zenon
    <3>11. CASE g = << "popped", 0 >> /\ b \in PoppedBlock
      BY <3>1, <3>4, <3>5, <3>11, Zenon
    <3> QED
      BY <3>1, <3>4, <3>7, <3>8, <3>9, <3>10, <3>11, Zenon
  <2> QED
    BY <2>4, <2>5, Zenon DEF OwnedOnce
<1> QED
  BY IInvAlways, <1>1, PTL
=============================================================================
