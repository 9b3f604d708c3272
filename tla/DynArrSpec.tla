----------------------------- MODULE DynArrSpec -----------------------------
(***************************************************************************)
(* What dynarr.h promises: each live array is a finite sequence of         *)
(* elements of its own, changed only by the operations on that array.      *)
(* Headers, capacities and heap blocks do not exist at this level.         *)
(***************************************************************************)
EXTENDS SequencesExt

CONSTANTS
  Arrays,  \* the array variables of the program
  Inputs   \* the sequences of elements one operation may add

VARIABLES
  live,      \* the arrays that are allocated
  contents,  \* the elements of each
  ended      \* has an operation ended the program?

arrayVars == << live, contents, ended >>

Init == live = {} /\ contents = [a \in Arrays |-> << >>] /\ ended = FALSE

\* Array a, and no other, now holds s.
Becomes(a, s) ==
  /\ contents' = [contents EXCEPT ![a] = s]
  /\ UNCHANGED ended

New(a) == a \notin live /\ live' = live \cup {a} /\ Becomes(a, << >>)

Free(a) == a \in live /\ live' = live \ {a} /\ Becomes(a, << >>)

Copy(a, b) ==
  a \in live /\ b \notin live /\ live' = live \cup {b} /\ Becomes(b, contents[a])

\* da_append adds one element, da_extend any number.
Add(a, s) ==
  a \in live /\ Becomes(a, contents[a] \o s) /\ UNCHANGED live

Pop(a) ==
  a \in live /\ contents[a] # << >> /\ Becomes(a, Front(contents[a])) /\ UNCHANGED live

\* Element i is replaced by the last one.
SwapRemove(a, i) ==
  /\ a \in live
  /\ Becomes(a, Front([contents[a] EXCEPT ![i] = Last(contents[a])]))
  /\ UNCHANGED live

Clear(a) == a \in live /\ Becomes(a, << >>) /\ UNCHANGED live

End == ended' = TRUE /\ UNCHANGED << live, contents >>

Next ==
  \/ \E a \in Arrays : New(a) \/ Free(a) \/ Pop(a) \/ Clear(a)
  \/ \E a \in Arrays, s \in Inputs : Add(a, s)
  \/ \E a, b \in Arrays : Copy(a, b)
  \/ \E a \in Arrays : \E i \in DOMAIN contents[a] : SwapRemove(a, i)
  \/ End

Spec == Init /\ [][Next]_arrayVars
=============================================================================
