---------------------------- MODULE TLVOwnership ----------------------------
(***************************************************************************)
(* The heap blocks of a program that follows the ownership rules of        *)
(* README.md and tlv.h: what serialize_*(), buf_append(), deserialize(),   *)
(* message_free(), message_cstr() and the array macros allocate,           *)
(* reallocate and free, and what each of the program's variables holds.    *)
(*                                                                         *)
(* A block is an address.  No address is handed out twice, so that using   *)
(* or freeing a freed block cannot go unnoticed.  The rules are the        *)
(* guards: the program forgets a Buffer it freed or appended, forgets the  *)
(* views of a message it frees, and calls message_free() on a message      *)
(* before it discards it.                                                  *)
(***************************************************************************)
EXTENDS Integers, SequencesExt

CONSTANTS
  Vars,         \* the program's Buffer variables
  Block,        \* the addresses of heap blocks
  NULL,
  MaxMessages   \* bound: elements of the array

ASSUME OwnershipAssumption == NULL \notin Block /\ MaxMessages \in Nat

\* The types that differ in ownership: T_BIN stands for T_ERR too, T_U32 for all others.
Type == {"T_U32", "T_STR", "T_BIN"}
OwningType == {"T_STR", "T_BIN"}

Pointer == Block \cup {NULL}
Message == [type : Type, bytes : Pointer]

\* A message variable that holds nothing.
Empty == [type |-> "T_U32", bytes |-> NULL]

VARIABLES
  live,     \* the blocks that are allocated
  freed,    \* the blocks that were
  buffers,  \* the bytes of each Buffer the program owns
  array,    \* the block of the array of messages
  elems,    \* its elements
  popped,   \* a Message the program took out of the array
  views,    \* the bytes of the String and Buffer views the program holds
  texts,    \* the strings message_cstr() returned
  misused,  \* has a block been used, reallocated or freed that was not allocated?
  ended     \* has expect() or exists() ended the program?

vars == << live, freed, buffers, array, elems, popped, views, texts, misused, ended >>

TypeOK ==
  /\ live \subseteq Block /\ freed \subseteq Block
  /\ buffers \in [Vars -> Pointer]
  /\ array \in Pointer
  /\ elems \in Seq(Message)
  /\ popped \in Message
  /\ views \subseteq Block /\ texts \subseteq Block
  /\ misused \in BOOLEAN /\ ended \in BOOLEAN

Init ==
  /\ live = {} /\ freed = {}
  /\ buffers = [v \in Vars |-> NULL]
  /\ array = NULL /\ elems = << >> /\ popped = Empty
  /\ views = {} /\ texts = {}
  /\ misused = FALSE /\ ended = FALSE

-----------------------------------------------------------------------------
(* The heap. *)

Fresh == Block \ (live \cup freed)

\* malloc returns block b.
Malloc(b) ==
  /\ b \in Fresh
  /\ live' = live \cup {b}
  /\ UNCHANGED << freed, misused >>

\* free(p)
FreeBlock(p) ==
  /\ live' = live \ {p}
  /\ freed' = freed \cup ({p} \ {NULL})
  /\ misused' = (misused \/ p \notin live \cup {NULL})

\* q = realloc(p, ...), which may move the block, and then free(also).
ReallocThenFree(p, q, also) ==
  /\ q \in Fresh \cup {p}
  /\ live' = (live \ {p, also}) \cup {q}
  /\ freed' = freed \cup ({p, also} \ {q, NULL})
  /\ misused' = (misused \/ ~({p, also} \subseteq live \cup {NULL}))

\* Something reads the bytes p points to.
UseBlock(p) ==
  /\ misused' = (misused \/ p \notin live \cup {NULL})
  /\ UNCHANGED << live, freed >>

heap    == << live, freed, misused >>
session == << array, elems, popped >>

-----------------------------------------------------------------------------
(* Buffers. *)

\* Any of the serialize_*() functions.
Serialize(v) ==
  /\ buffers[v] = NULL
  /\ \E b \in Fresh : Malloc(b) /\ buffers' = [buffers EXCEPT ![v] = b]
  /\ UNCHANGED << session, views, texts >>

\* v = buf_append(v, w), which frees the bytes of w.  (KeptAfter: it does not.)
KeptAfter(after) == NULL

FreedByAppend(after) == after

BufAppend(v, w) ==
  /\ v # w /\ buffers[v] # NULL /\ buffers[w] # NULL
  /\ \E b \in Fresh \cup {buffers[v]} :
       /\ ReallocThenFree(buffers[v], b, FreedByAppend(buffers[w]))
       /\ buffers' = [buffers EXCEPT ![v] = b, ![w] = NULL]
  /\ UNCHANGED << session, views, texts >>

\* free(v.bytes)
FreeBuffer(v) ==
  /\ buffers[v] # NULL
  /\ FreeBlock(buffers[v])
  /\ buffers' = [buffers EXCEPT ![v] = NULL]
  /\ UNCHANGED << session, views, texts >>

-----------------------------------------------------------------------------
(* Messages. *)

\* The bytes of a decoded message: an owning type gets a block of its own.
\* (IntoBuffer: the message points into the buffer it was decoded from.)
IntoBuffer(type, own, buf) == IF type \in OwningType THEN buf ELSE NULL

PayloadOf(type, own, buf) == IF type \in OwningType THEN own ELSE NULL

\* msgs = deserialize(v), for any stream.
Deserialize(v) ==
  /\ array = NULL /\ buffers[v] # NULL
  /\ \E n \in 0 .. MaxMessages :
     \E types \in [1 .. n -> Type], own \in [0 .. n -> Fresh] :
       /\ IsInjective(own)
       /\ array' = own[0]
       /\ elems' = [i \in 1 .. n |->
            [type |-> types[i], bytes |-> PayloadOf(types[i], own[i], buffers[v])]]
       /\ live' = live \cup {own[i] : i \in {0} \cup {j \in 1 .. n : types[j] \in OwningType}}
       /\ misused' = (misused \/ buffers[v] \notin live)
  /\ UNCHANGED << freed, buffers, popped, views, texts >>

\* What expect() of the accessor of a type asks of the message.  Past it, an accessor returns
\* a copy of the union's member: of a plain type, nothing the program could misuse.
Fits(m, type) == m.type = type

\* message_str(m), or message_bin(m), message_err(m).
View(i) ==
  /\ i \in DOMAIN elems
  /\ \E type \in OwningType : Fits(elems[i], type)
  /\ views' = views \cup ({elems[i].bytes} \ {NULL})
  /\ UNCHANGED << heap, buffers, session, texts >>

ReadView ==
  /\ \E b \in views : UseBlock(b)
  /\ UNCHANGED << buffers, session, views, texts >>

\* message_cstr(msgs[i]): the block it returns.  (UncopiedText: the message's own bytes.)
UncopiedText(own, m) == m.bytes
TextOf(own, m) == own

Cstr(i) ==
  /\ i \in DOMAIN elems
  /\ Fits(elems[i], "T_STR")
  /\ \E b \in Fresh :
       /\ live' = live \cup {b}
       /\ texts' = texts \cup {TextOf(b, elems[i])}
  /\ misused' = (misused \/ elems[i].bytes \notin live \cup {NULL})
  /\ UNCHANGED << freed, buffers, session, views >>

FreeText(b) ==
  /\ b \in texts
  /\ FreeBlock(b)
  /\ texts' = texts \ {b}
  /\ UNCHANGED << buffers, session, views >>

\* What message_free() leaves of a message.  (NotZeroed: the pointer stays.)
NotZeroed(m) == m
Zeroed(m) == IF m.type \in OwningType THEN [m EXCEPT !.bytes = NULL] ELSE m

\* The block message_free() frees.  (NoErrCase: the switch misses a type.)
NoErrCase(m) == IF m.type = "T_STR" THEN m.bytes ELSE NULL
FreedOf(m) == IF m.type \in OwningType THEN m.bytes ELSE NULL

\* message_free(&msgs[i]), any number of times.
MessageFree(i) ==
  /\ i \in DOMAIN elems
  /\ FreeBlock(FreedOf(elems[i]))
  /\ elems' = [elems EXCEPT ![i] = Zeroed(elems[i])]
  /\ views' = views \ {elems[i].bytes}
  /\ UNCHANGED << buffers, array, popped, texts >>

-----------------------------------------------------------------------------
(* The array of messages. *)

\* popped = da_pop(msgs)
Pop ==
  /\ popped = Empty /\ elems # << >>
  /\ popped' = Last(elems)
  /\ elems' = Front(elems)
  /\ UNCHANGED << heap, buffers, array, views, texts >>

\* da_append(msgs, popped), which may move the array.
PutBack ==
  /\ popped # Empty /\ array # NULL /\ Len(elems) < MaxMessages
  /\ \E b \in Fresh \cup {array} :
       /\ ReallocThenFree(array, b, NULL)
       /\ array' = b
  /\ elems' = Append(elems, popped)
  /\ popped' = Empty
  /\ UNCHANGED << buffers, views, texts >>

\* message_free(&popped)
FreePopped ==
  /\ popped # Empty
  /\ FreeBlock(FreedOf(popped))
  /\ popped' = Empty
  /\ views' = views \ {popped.bytes}
  /\ UNCHANGED << buffers, array, elems, texts >>

\* da_swap_remove(msgs, i), of a message that was freed before.
SwapRemove(i) ==
  /\ i \in DOMAIN elems
  /\ elems[i].bytes = NULL
  /\ elems' = Front([elems EXCEPT ![i] = Last(elems)])
  /\ UNCHANGED << heap, buffers, array, popped, views, texts >>

\* da_free(msgs), after message_free() of each element.
FreeArray ==
  /\ array # NULL
  /\ \A i \in DOMAIN elems : elems[i].bytes = NULL
  /\ FreeBlock(array)
  /\ array' = NULL /\ elems' = << >>
  /\ UNCHANGED << buffers, popped, views, texts >>

-----------------------------------------------------------------------------

\* An accessor of a type that does not fit, or an allocation that fails.
Exit ==
  /\ \/ \E i \in DOMAIN elems : \E type \in Type : ~Fits(elems[i], type)
     \/ Fresh # {}
  /\ ended' = TRUE
  /\ UNCHANGED << heap, buffers, session, views, texts >>

Step ==
  \/ \E v \in Vars : Serialize(v) \/ FreeBuffer(v) \/ Deserialize(v)
  \/ \E v, w \in Vars : BufAppend(v, w)
  \/ \E i \in DOMAIN elems : View(i) \/ Cstr(i) \/ MessageFree(i) \/ SwapRemove(i)
  \/ \E b \in texts : FreeText(b)
  \/ ReadView \/ Pop \/ PutBack \/ FreePopped \/ FreeArray

\* The program is over, or has let go of everything it held.
Finished ==
  /\ \/ ended
     \/ /\ \A v \in Vars : buffers[v] = NULL
        /\ array = NULL /\ popped = Empty /\ views = {} /\ texts = {}
  /\ UNCHANGED vars

Next ==
  \/ ~ended /\ Step /\ UNCHANGED ended
  \/ ~ended /\ Exit
  \/ Finished

Spec == Init /\ [][Next]_vars

-----------------------------------------------------------------------------
(* Properties. *)

\* A program that follows the rules never uses, reallocates or frees a block that is not
\* allocated: payloads outlive the buffer they were decoded from, strings outlive their
\* message, and message_free() may be called on a message again.
NoMisuse == ~misused

\* The places a block can be held in.
Holders ==
  {<< "buffer", v >> : v \in Vars} \cup {<< "elem", i >> : i \in DOMAIN elems}
    \cup {<< "text", b >> : b \in texts} \cup {<< "array", 0 >>, << "popped", 0 >>}

Held(h) ==
  CASE h[1] = "buffer" -> buffers[h[2]]
    [] h[1] = "elem"   -> elems[h[2]].bytes
    [] h[1] = "text"   -> h[2]
    [] h[1] = "array"  -> array
    [] h[1] = "popped" -> popped.bytes

\* Every block is held in exactly one place, and what is held is allocated: a program that
\* lets go of everything by the rules has leaked nothing and freed nothing twice.
OwnedOnce ==
  /\ {Held(h) : h \in Holders} \ {NULL} = live
  /\ \A g, h \in Holders : Held(g) = Held(h) /\ Held(g) # NULL => g = h
=============================================================================
