------------------------------- MODULE DynArr -------------------------------
(***************************************************************************)
(* The dynamic array macros of dynarr.h, and the two functions of          *)
(* libdynarr they call.  An array is one heap block: a header of count and *)
(* capacity, then the room for the elements, which the model keeps as the  *)
(* sequence of the element slots that lie wholly inside the block.  A      *)
(* write to any other slot corrupts the heap; nothing is said of what the  *)
(* program does afterwards.                                                *)
(***************************************************************************)
EXTENDS DynArrHeader, Sequences, FiniteSets

CONSTANTS
  Arrays,         \* the array variables of the program
  Elem,           \* the elements
  Junk,           \* what a slot holds before it is written
  ElemSize,       \* sizeof(*arr)
  ExprSizes,      \* sizeof of the expressions passed to da_append
  ReserveSizes,   \* the sizes passed to da_reserve
  ExtendLengths,  \* the lengths passed to da_extend
  MaxCount,       \* bound: elements of one array
  AvoidTightOne,  \* does the program keep every array from the capacity of one?
  AllocMayFail    \* may malloc, calloc and realloc return NULL?

ASSUME DynArrAssumption ==
  /\ Junk \notin Elem
  /\ ElemSize \in Nat \ {0}
  /\ ExprSizes \subseteq Nat \ {0}
  /\ ReserveSizes \subseteq Nat /\ ExtendLengths \subseteq Nat
  /\ MaxCount \in Nat
  /\ AvoidTightOne \in BOOLEAN /\ AllocMayFail \in BOOLEAN

VARIABLES
  live,      \* the arrays that are allocated
  count,     \* the header's count,
  capacity,  \* and its capacity
  slots,     \* the slots of the block
  promised,  \* history: the most that da_reserve was asked for
  smashed,   \* has an element been written outside its block?
  ended      \* has exists() or assert() ended the program?

vars == << live, count, capacity, slots, promised, smashed, ended >>

Running == ~smashed /\ ~ended

TypeOK ==
  /\ live \subseteq Arrays
  /\ count \in [Arrays -> Nat]
  /\ capacity \in [Arrays -> Nat]
  /\ slots \in [Arrays -> Seq(Elem \cup {Junk})]
  /\ promised \in [Arrays -> Nat]
  /\ smashed \in BOOLEAN /\ ended \in BOOLEAN

Init ==
  /\ live = {}
  /\ count = [a \in Arrays |-> 0]
  /\ capacity = [a \in Arrays |-> 0]
  /\ slots = [a \in Arrays |-> << >>]
  /\ promised = [a \in Arrays |-> 0]
  /\ smashed = FALSE /\ ended = FALSE

-----------------------------------------------------------------------------
(* Heap blocks. *)

\* realloc of a block of slots s to the given bytes of element room.
\* (ReallocWithoutHeader: the header's 16 bytes are left out of the request.
\*  ReallocFresh: a new block that the elements are not copied to.)
ReallocWithoutHeader(s, bytes) ==
  [i \in 1 .. (bytes - 4) \div ElemSize |-> IF i <= Len(s) THEN s[i] ELSE Junk]

ReallocFresh(s, bytes) == [i \in 1 .. bytes \div ElemSize |-> Junk]

Realloc(s, bytes) ==
  [i \in 1 .. bytes \div ElemSize |-> IF i <= Len(s) THEN s[i] ELSE Junk]

\* arr[first], arr[first + 1], ... = the elements of t, as far as there are slots.
Written(s, first, t) ==
  [i \in DOMAIN s |-> IF i - first + 1 \in DOMAIN t THEN t[i - first + 1] ELSE s[i]]

Fits(s, first, t) == first - 1 + Len(t) <= Len(s)

\* The header and the block of array a after an operation, and what was reserved.
Becomes(a, n, cap, s, r) ==
  /\ count'    = [count EXCEPT ![a] = n]
  /\ capacity' = [capacity EXCEPT ![a] = cap]
  /\ slots'    = [slots EXCEPT ![a] = s]
  /\ promised' = [promised EXCEPT ![a] = r]
  /\ UNCHANGED ended

-----------------------------------------------------------------------------
(* Lifecycle. *)

\* da_new: new_header() of libdynarr.
New(a) ==
  /\ Running /\ a \notin live
  /\ live' = live \cup {a}
  /\ Becomes(a, 0, FreshCapacity, << >>, 0)
  /\ UNCHANGED smashed

Free(a) ==
  /\ Running /\ a \in live
  /\ live' = live \ {a}
  /\ Becomes(a, 0, 0, << >>, 0)
  /\ UNCHANGED smashed

\* da_copy: copy_header() of libdynarr allocates the elements alone.
Copy(a, b) ==
  /\ Running /\ a \in live /\ b \in Arrays \ live
  /\ AvoidTightOne => count[a] # 1
  /\ live' = live \cup {b}
  /\ Becomes(b, count[a], count[a], SubSeq(slots[a], 1, count[a]), 0)
  /\ UNCHANGED smashed

-----------------------------------------------------------------------------
(* Adding elements. *)

\* da_append(arr, e), where e is an expression of the given size.
DaAppend(a, e, size) ==
  LET cap == CapacityAfterAppend(count[a], capacity[a])
      s   == IF count[a] = capacity[a] THEN Realloc(slots[a], cap * size) ELSE slots[a]
  IN  /\ Running /\ a \in live /\ count[a] < MaxCount
      /\ Becomes(a, count[a] + 1, cap, Written(s, count[a] + 1, << e >>), promised[a])
      /\ smashed' = ~Fits(s, count[a] + 1, << e >>)
      /\ UNCHANGED live

\* The capacity and the slots da_reserve(arr, n) leaves.
ReservedCapacity(a, n) == IF n > capacity[a] THEN n ELSE capacity[a]
ReservedSlots(a, n) == IF n > capacity[a] THEN Realloc(slots[a], n * ElemSize) ELSE slots[a]

\* da_extend(arr, t, Len(t)), where t lies outside the array.
DaExtend(a, t) ==
  LET n == count[a] + Len(t)
      s == ReservedSlots(a, n)
  IN  /\ Running /\ a \in live /\ n <= MaxCount
      /\ AvoidTightOne => ReservedCapacity(a, n) # 1
      /\ Becomes(a, n, ReservedCapacity(a, n), Written(s, count[a] + 1, t), promised[a])
      /\ smashed' = ~Fits(s, count[a] + 1, t)
      /\ UNCHANGED live

DaReserve(a, n) ==
  /\ Running /\ a \in live
  /\ AvoidTightOne => ReservedCapacity(a, n) # 1
  /\ Becomes(a, count[a], ReservedCapacity(a, n), ReservedSlots(a, n),
             IF n > promised[a] THEN n ELSE promised[a])
  /\ UNCHANGED << live, smashed >>

-----------------------------------------------------------------------------
(* Removing elements. *)

\* da_pop checks nothing: the program must not pop an empty array.
Pop(a) ==
  /\ Running /\ a \in live /\ count[a] > 0
  /\ Becomes(a, count[a] - 1, capacity[a], slots[a], promised[a])
  /\ UNCHANGED << live, smashed >>

\* The block after arr[i] = arr[count - 1], for an index i that counts from 0.
\* (NotMoved: the assignment is forgotten.
\*  Shifted: the elements behind it move up instead.)
NotMoved(a, i) == slots[a]

Shifted(a, i) ==
  [j \in DOMAIN slots[a] |-> slots[a][IF i < j /\ j < count[a] THEN j + 1 ELSE j]]

MovedLast(a, i) == [slots[a] EXCEPT ![i + 1] = slots[a][count[a]]]

\* (SwapRemoveOffByOne: the assert lets the index count through.)
SwapRemoveOffByOne(a, i) ==
  /\ Running /\ a \in live /\ i <= count[a]
  /\ Becomes(a, count[a] - 1, capacity[a], slots[a], promised[a])
  /\ UNCHANGED << live, smashed >>

SwapRemove(a, i) ==
  /\ Running /\ a \in live /\ i < count[a]
  /\ Becomes(a, count[a] - 1, capacity[a], MovedLast(a, i), promised[a])
  /\ UNCHANGED << live, smashed >>

\* da_last(arr)
DaLast(a) == slots[a][count[a]]

\* da_clear keeps the allocation.  (CapacityDropped: it resets the capacity as well.)
CapacityDropped(a) == 0
CapacityKept(a) == capacity[a]

Clear(a) ==
  /\ Running /\ a \in live
  /\ Becomes(a, 0, CapacityKept(a), slots[a], promised[a])
  /\ UNCHANGED << live, smashed >>

-----------------------------------------------------------------------------
(* Operations that end the program. *)

\* The assert of da_swap_remove (and of da_get, which changes nothing otherwise).
AssertFails(a, i) ==
  /\ Running /\ a \in live /\ i >= count[a]
  /\ ended' = TRUE
  /\ UNCHANGED << live, count, capacity, slots, promised, smashed >>

\* exists() after calloc in da_new, malloc in da_copy or realloc in a growing operation.
OutOfMemory ==
  /\ Running /\ AllocMayFail
  /\ \E a \in Arrays :
       \/ a \notin live
       \/ count[a] = capacity[a]
       \/ \E n \in ReserveSizes : n > capacity[a]
       \/ \E n \in ExtendLengths : count[a] + n > capacity[a]
  /\ ended' = TRUE
  /\ UNCHANGED << live, count, capacity, slots, promised, smashed >>

Halted == ~Running /\ UNCHANGED vars

Next ==
  \/ \E a \in Arrays : New(a) \/ Free(a) \/ Pop(a) \/ Clear(a)
  \/ \E a, b \in Arrays : Copy(a, b)
  \/ \E a \in Arrays, e \in Elem, size \in ExprSizes : DaAppend(a, e, size)
  \/ \E a \in Arrays, n \in ExtendLengths : \E t \in [1 .. n -> Elem] : DaExtend(a, t)
  \/ \E a \in Arrays, n \in ReserveSizes : DaReserve(a, n)
  \/ \E a \in Arrays, i \in 0 .. MaxCount : SwapRemove(a, i) \/ AssertFails(a, i)
  \/ OutOfMemory
  \/ Halted

Spec == Init /\ [][Next]_vars
-----------------------------------------------------------------------------
(* Properties. *)

\* No element is ever written outside its array's block (da_append, da_extend).
WritesInBounds == ~smashed

\* dynarr.h: the capacity is the "Number of elements the allocation can hold", whatever
\* sequence of growing, reserving, copying, clearing and removing led to it.
CapacityHonest ==
  \A a \in live : count[a] <= capacity[a] /\ capacity[a] <= Len(slots[a])

\* What da_reserve was asked for stays available through any pops, clears and appends, so
\* that no append within it reallocates.
ReserveHonoured == \A a \in live : promised[a] <= capacity[a]

\* The macros implement arrays that are sequences of their own: no element is lost or
\* changed when a block moves, and a copy shares nothing with its source.
Contents(a) == IF a \in live THEN SubSeq(slots[a], 1, count[a]) ELSE << >>

Abstract == INSTANCE DynArrSpec WITH
  Inputs   <- UNION {[1 .. n -> Elem] : n \in ExtendLengths \cup {1}},
  contents <- [a \in Arrays |-> Contents(a)]

ImplementsSequences == Abstract!Spec

\* More than that: each macro does what the operation of its own name promises, so that
\* da_swap_remove removes the element it was asked to, and not the last one as da_pop does.
DoesAsNamed ==
  [][\A a \in Arrays :
       /\ New(a) => Abstract!New(a)
       /\ Free(a) => Abstract!Free(a)
       /\ Pop(a) => Abstract!Pop(a)
       /\ Clear(a) => Abstract!Clear(a)
       /\ \A b \in Arrays : Copy(a, b) => Abstract!Copy(a, b)
       /\ \A e \in Elem, size \in ExprSizes :
            DaAppend(a, e, size) => Abstract!Add(a, << e >>)
       /\ \A n \in ExtendLengths : \A t \in [1 .. n -> Elem] :
            DaExtend(a, t) => Abstract!Add(a, t)
       /\ \A n \in ReserveSizes :
            DaReserve(a, n) => UNCHANGED << live, Contents(a), ended >>
       /\ \A i \in 0 .. MaxCount : SwapRemove(a, i) => Abstract!SwapRemove(a, i + 1)]_vars

\* dynarr.h, da_swap_remove: "Use da_last() to read the element before removal if you need
\* its value": what da_last reads is what the array loses.
Occurrences(s, n, e) == Cardinality({i \in 1 .. n : s[i] = e})

LastIsRemoved ==
  \A a \in live : \A i \in 0 .. count[a] - 1 :
    LET left == count[a] - 1
    IN  \A e \in Elem :
          Occurrences(slots[a], count[a], e) =
            Occurrences(MovedLast(a, i), left, e) + (IF e = DaLast(a) THEN 1 ELSE 0)

=============================================================================
