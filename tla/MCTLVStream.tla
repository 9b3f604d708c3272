---------------------------- MODULE MCTLVStream -----------------------------
(***************************************************************************)
(* Small instances of TLVStream.  The digits of each value are distinct,   *)
(* so that no exchange of bytes goes unnoticed.                            *)
(***************************************************************************)
EXTENDS TLVStream

Msg(t, v) == [type |-> t, val |-> v]

Digits(n) == [i \in 1 .. n |-> i]

\* One value of each type the library serializes: an integer of every width and sign, an
\* empty string, a binary value that holds zero bytes, an error of the longest legal length
\* and one past LengthLimit = 3.
EveryType ==
  {Msg(t, Digits(FixedWidth[t])) : t \in Type \ (OwningType \cup {T_NUL})}
    \cup {Msg(T_STR, << >>), Msg(T_BIN, << 0, 255 >>), Msg(T_ERR, << 102, 110, 102 >>),
             Msg(T_ERR, << 4, 4, 4, 4 >>)}

\* A message of each width, and one past LengthLimit = 3.
EveryWidth ==
  { Msg(T_BOL, << 1 >>), Msg(T_S16, << 252, 24 >>), Msg(T_CHR, << 0, 1, 246, 0 >>),
    Msg(T_TIM, Digits(8)), Msg(T_STR, << >>), Msg(T_BIN, << 16, 0 >>),
    Msg(T_ERR, << 4, 4, 4, 4 >>) }

\* The two shortest frames, to fill the array.
Shortest == { Msg(T_BOL, << 1 >>), Msg(T_STR, << >>) }

Narrow == { Msg(T_U16, << 1, 2 >>), Msg(T_U08, << 9 >>), Msg(T_STR, << 104 >>) }
Wide64 == { Msg(T_U64, Digits(8)), Msg(T_U32, Digits(4)) }

\* The frame without a value, and a tag a later version may add.
Peers == { Msg(T_NUL, << >>), Msg(17, << 5, 6 >>) }

NoPeers == {}

SameOrder == {<< o, o >> : o \in ByteOrder}
AnyOrder  == ByteOrder \X ByteOrder
OnlyBig   == { << "big", "big" >> }

\* Behind the bytes read lie zeros, bytes of an earlier stream, or nothing that is mapped.
EmptyTail  == { << >> }
SomeTail   == { << >>, [i \in 1 .. 13 |-> 0], [i \in 1 .. 13 |-> 3] }

\* Streams of three messages; and, to fill the array twice, longer ones that go on with their
\* third message, if it is of the shortest frames.
Bounded == \A i \in DOMAIN sent : i > 3 => sent[i] = sent[3] /\ sent[3] \in Shortest

BoundedNext ==
  \/ \E m \in Outgoing \cup Foreign : Send(m) /\ Bounded'
  \/ SenderExit \/ Receive \/ Deserialize \/ Terminated

BoundedSpec == Init /\ [][BoundedNext]_vars /\ WF_vars(Deserialize)
=============================================================================
