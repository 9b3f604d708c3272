---------------------------- MODULE DynArrProofs ----------------------------
(***************************************************************************)
(* Proofs about the dynamic array macros, for every set of arrays, element *)
(* size and sequence of operations.  All theorems assume a program that    *)
(* keeps its arrays from the capacity of one; those about the blocks and   *)
(* the elements in them also that da_append is never given an expression   *)
(* smaller than an element.                                                *)
(***************************************************************************)
EXTENDS DynArr, TLAPS

\* The inductive invariant: what an operation may rely on of the array it is given.
IInv ==
  /\ TypeOK
  /\ \A a \in Arrays :
       /\ count[a] <= capacity[a]
       /\ capacity[a] # 1
       /\ promised[a] <= capacity[a]
       /\ ~smashed => count[a] <= Len(slots[a])

Slot == Elem \cup {Junk}

-----------------------------------------------------------------------------
(* The operators. *)

\* da_append never shrinks the header's capacity, makes a full array grow, and never
\* arrives at the capacity of one (dynarr.h, da_append).
LEMMA AppendGrows ==
  ASSUME NEW n \in Nat, NEW cap \in Nat, n <= cap, cap # 1
  PROVE  /\ CapacityAfterAppend(n, cap) \in Nat
         /\ CapacityAfterAppend(n, cap) >= cap
         /\ CapacityAfterAppend(n, cap) > n
         /\ CapacityAfterAppend(n, cap) # 1
  BY DEF CapacityAfterAppend, GrownCapacity

\* A reallocated block has as many slots as its bytes hold.
LEMMA ReallocSlots ==
  ASSUME NEW s \in Seq(Slot), NEW bytes \in Nat
  PROVE  Realloc(s, bytes) \in Seq(Slot) /\ Len(Realloc(s, bytes)) = bytes \div ElemSize
<1>1. bytes \div ElemSize \in Nat
  BY DynArrAssumption
<1>2. \A i \in 1 .. bytes \div ElemSize : (IF i <= Len(s) THEN s[i] ELSE Junk) \in Slot
  BY <1>1 DEF Slot
<1> QED
  BY <1>1, <1>2 DEF Realloc

\* Writing elements changes neither the number of slots nor what may lie in them.
LEMMA WrittenSlots ==
  ASSUME NEW s \in Seq(Slot), NEW first \in Nat, NEW t \in Seq(Elem)
  PROVE  Written(s, first, t) \in Seq(Slot) /\ Len(Written(s, first, t)) = Len(s)
<1>1. DOMAIN s = 1 .. Len(s) /\ Len(s) \in Nat
  OBVIOUS
<1>2. \A i \in DOMAIN s :
        (IF i - first + 1 \in DOMAIN t THEN t[i - first + 1] ELSE s[i]) \in Slot
  BY <1>1 DEF Slot
<1> QED
  BY <1>1, <1>2 DEF Written

\* Room for cap elements of at least the array's element size holds cap slots.
LEMMA RoomForElements ==
  ASSUME NEW cap \in Nat, NEW size \in Nat, size >= ElemSize
  PROVE  cap * size \in Nat /\ (cap * size) \div ElemSize >= cap
<1>1. ElemSize \in Nat \ {0}
  BY DynArrAssumption
<1>2. cap * size >= cap * ElemSize /\ cap * size \in Nat /\ cap * ElemSize \in Nat
  BY <1>1, SMT
<1>3. \A x \in Nat : x >= cap * ElemSize => x \div ElemSize >= cap
  BY <1>1, SMTT(60)
<1> QED
  BY <1>2, <1>3
-----------------------------------------------------------------------------
(* The invariant. *)

\* What every operation on one array has in common: it keeps the invariant if the header
\* and the block it leaves are in order.
LEMMA BecomesKeepsIInv ==
  ASSUME IInv, Running, NEW a \in Arrays,
         NEW n \in Nat, NEW cap \in Nat, NEW s \in Seq(Slot), NEW r \in Nat,
         Becomes(a, n, cap, s, r),
         n <= cap, cap # 1, r <= cap, ~smashed' => n <= Len(s),
         live' \subseteq Arrays, smashed' \in BOOLEAN
  PROVE  IInv'
<1>1. TypeOK'
  BY DEF IInv, TypeOK, Becomes, Slot
<1>2. ASSUME NEW b \in Arrays
      PROVE  /\ count'[b] <= capacity'[b]
             /\ capacity'[b] # 1
             /\ promised'[b] <= capacity'[b]
             /\ ~smashed' => count'[b] <= Len(slots'[b])
  <2>1. CASE b = a
    BY <2>1 DEF IInv, TypeOK, Becomes
  <2>2. CASE b # a
    BY <2>2 DEF IInv, TypeOK, Becomes, Running
  <2> QED
    BY <2>1, <2>2
<1> QED
  BY <1>1, <1>2 DEF IInv

\* What the invariant and the assumptions say of one array.
LEMMA OneArray ==
  ASSUME IInv, NEW a \in Arrays
  PROVE  /\ count[a] \in Nat /\ capacity[a] \in Nat /\ promised[a] \in Nat
         /\ slots[a] \in Seq(Slot)
         /\ count[a] <= capacity[a] /\ capacity[a] # 1 /\ promised[a] <= capacity[a]
         /\ ~smashed => count[a] <= Len(slots[a])
  BY DEF IInv, TypeOK, Slot

LEMMA NewKeepsIInv ==
  ASSUME IInv, NEW a \in Arrays, New(a)  PROVE IInv'
<1> DEFINE s == << >>
           z == 0
<1>1. s \in Seq(Slot) /\ Len(s) = z
  OBVIOUS
<1>2. live' \subseteq Arrays /\ smashed' \in BOOLEAN
  BY DEF New, IInv, TypeOK
<1>3. Running /\ Becomes(a, z, z, s, z)
  BY DEF New, FreshCapacity
<1>4. z \in Nat /\ z # 1 /\ z <= z
  OBVIOUS
<1> HIDE DEF s, z
<1> QED
  BY <1>1, <1>2, <1>3, <1>4, BecomesKeepsIInv

LEMMA FreeKeepsIInv ==
  ASSUME IInv, NEW a \in Arrays, Free(a)  PROVE IInv'
<1> DEFINE s == << >>
           z == 0
<1>1. s \in Seq(Slot) /\ Len(s) = z
  OBVIOUS
<1>2. live' \subseteq Arrays /\ smashed' \in BOOLEAN
  BY DEF Free, IInv, TypeOK
<1>3. Running /\ Becomes(a, z, z, s, z)
  BY DEF Free, FreshCapacity
<1>4. z \in Nat /\ z # 1 /\ z <= z
  OBVIOUS
<1> HIDE DEF s, z
<1> QED
  BY <1>1, <1>2, <1>3, <1>4, BecomesKeepsIInv

\* The copy is tight; the assumption keeps its capacity from being one.
LEMMA CopyKeepsIInv ==
  ASSUME AvoidTightOne, IInv, NEW a \in Arrays, NEW b \in Arrays, Copy(a, b)  PROVE IInv'
<1> DEFINE s == SubSeq(slots[a], 1, count[a])
<1>1. count[a] \in Nat /\ slots[a] \in Seq(Slot) /\ count[a] <= Len(slots[a])
  BY OneArray DEF Copy, Running
<1>2. s \in Seq(Slot) /\ Len(s) = count[a]
  BY <1>1
<1>3. live' \subseteq Arrays /\ smashed' \in BOOLEAN
  BY DEF Copy, IInv, TypeOK
<1>4. count[a] # 1 /\ Running /\ Becomes(b, count[a], count[a], s, 0)
  BY DEF Copy
<1> HIDE DEF s
<1> QED
  BY <1>1, <1>2, <1>3, <1>4, BecomesKeepsIInv

LEMMA DaAppendKeepsIInv ==
  ASSUME IInv, NEW a \in Arrays, NEW e \in Elem, NEW size \in ExprSizes,
         DaAppend(a, e, size)
  PROVE  IInv'
<1> DEFINE cap == CapacityAfterAppend(count[a], capacity[a])
           s   == IF count[a] = capacity[a] THEN Realloc(slots[a], cap * size)
                                            ELSE slots[a]
           w   == Written(s, count[a] + 1, << e >>)
<1>1. count[a] \in Nat /\ capacity[a] \in Nat /\ promised[a] \in Nat
      /\ slots[a] \in Seq(Slot)
      /\ count[a] <= capacity[a] /\ capacity[a] # 1 /\ promised[a] <= capacity[a]
  BY OneArray
<1>2. cap \in Nat /\ cap >= capacity[a] /\ cap > count[a] /\ cap # 1
  BY <1>1, AppendGrows
<1>3. size \in Nat
  BY DynArrAssumption
<1>4. cap * size \in Nat
  BY <1>2, <1>3
<1>5. s \in Seq(Slot)
  BY <1>1, <1>4, ReallocSlots
<1>6. w \in Seq(Slot) /\ Len(w) = Len(s)
  <2>1. << e >> \in Seq(Elem) /\ count[a] + 1 \in Nat
    BY <1>1
  <2> QED
    BY <1>5, <2>1, WrittenSlots
<1>7. /\ Running /\ Becomes(a, count[a] + 1, cap, w, promised[a])
      /\ smashed' = ~Fits(s, count[a] + 1, << e >>) /\ live' = live
  BY DEF DaAppend
<1>8. ~smashed' => count[a] + 1 <= Len(w)
  <2>1. Len(<< e >>) = 1 /\ Len(s) \in Nat
    BY <1>5
  <2>2. ~smashed' => Fits(s, count[a] + 1, << e >>)
    BY <1>7, Zenon
  <2> HIDE DEF s, w
  <2> QED
    BY <1>1, <1>6, <2>1, <2>2 DEF Fits
<1>9. live' \subseteq Arrays /\ smashed' \in BOOLEAN
  BY <1>7 DEF IInv, TypeOK, Fits
<1>10. count[a] + 1 \in Nat /\ count[a] + 1 <= cap /\ promised[a] <= cap
  BY <1>1, <1>2
<1> HIDE DEF cap, s, w
<1> QED
  BY <1>1, <1>2, <1>6, <1>7, <1>8, <1>9, <1>10, BecomesKeepsIInv

\* What da_reserve leaves, for da_extend as well.
LEMMA Reserved ==
  ASSUME IInv, Running, NEW a \in Arrays, NEW n \in Nat,
         ReservedCapacity(a, n) # 1
  PROVE  /\ ReservedCapacity(a, n) \in Nat
         /\ ReservedCapacity(a, n) >= capacity[a] /\ ReservedCapacity(a, n) >= n
         /\ ReservedSlots(a, n) \in Seq(Slot)
         /\ count[a] <= Len(ReservedSlots(a, n))
<1>1. ElemSize \in Nat \ {0}
  BY DynArrAssumption
<1>2. n * ElemSize \in Nat /\ (n * ElemSize) \div ElemSize >= n
  BY <1>1, RoomForElements
<1>3. /\ Realloc(slots[a], n * ElemSize) \in Seq(Slot)
      /\ Len(Realloc(slots[a], n * ElemSize)) >= n
  BY <1>2, OneArray, ReallocSlots
<1> QED
  BY <1>3, OneArray DEF ReservedCapacity, ReservedSlots, Running

LEMMA DaReserveKeepsIInv ==
  ASSUME AvoidTightOne, IInv, NEW a \in Arrays, NEW n \in ReserveSizes, DaReserve(a, n)
  PROVE  IInv'
<1> DEFINE r == IF n > promised[a] THEN n ELSE promised[a]
<1>1. n \in Nat
  BY DynArrAssumption
<1>2. /\ Running /\ ReservedCapacity(a, n) # 1
      /\ Becomes(a, count[a], ReservedCapacity(a, n), ReservedSlots(a, n), r)
      /\ live' = live /\ smashed' = smashed
  BY DEF DaReserve
<1>3. r \in Nat /\ r <= ReservedCapacity(a, n) /\ count[a] <= ReservedCapacity(a, n)
      /\ count[a] \in Nat
  BY <1>1, <1>2, Reserved, OneArray
<1>4. live' \subseteq Arrays /\ smashed' \in BOOLEAN
  BY <1>2 DEF IInv, TypeOK
<1> HIDE DEF r
<1> QED
  BY <1>1, <1>2, <1>3, <1>4, Reserved, BecomesKeepsIInv

LEMMA DaExtendKeepsIInv ==
  ASSUME AvoidTightOne, IInv, NEW a \in Arrays, NEW t \in Seq(Elem), DaExtend(a, t)
  PROVE  IInv'
<1> DEFINE n == count[a] + Len(t)
           s == ReservedSlots(a, n)
           w == Written(s, count[a] + 1, t)
<1>1. n \in Nat /\ count[a] \in Nat /\ promised[a] \in Nat
  BY OneArray
<1>2. /\ Running /\ ReservedCapacity(a, n) # 1
      /\ Becomes(a, n, ReservedCapacity(a, n), w, promised[a])
      /\ smashed' = ~Fits(s, count[a] + 1, t) /\ live' = live
  BY DEF DaExtend
<1>3. /\ ReservedCapacity(a, n) \in Nat
      /\ ReservedCapacity(a, n) >= capacity[a] /\ ReservedCapacity(a, n) >= n
      /\ s \in Seq(Slot)
  <2> HIDE DEF n
  <2> QED  BY <1>1, <1>2, Reserved
<1>4. w \in Seq(Slot) /\ Len(w) = Len(s)
  <2>1. count[a] + 1 \in Nat
    BY <1>1
  <2> HIDE DEF n, s
  <2> QED
    BY <1>3, <2>1, WrittenSlots
<1>5. ~smashed' => n <= Len(w)
  <2>1. Len(t) \in Nat /\ Len(s) \in Nat
    BY <1>3
  <2>2. ~smashed' => Fits(s, count[a] + 1, t)
    BY <1>2, Zenon
  <2> HIDE DEF s, w
  <2> QED
    BY <1>1, <1>4, <2>1, <2>2 DEF Fits
<1>6. live' \subseteq Arrays /\ smashed' \in BOOLEAN
  BY <1>2 DEF IInv, TypeOK, Fits
<1>7. promised[a] <= ReservedCapacity(a, n)
  <2> HIDE DEF n
  <2> QED  BY <1>3, OneArray
<1> HIDE DEF n, s, w
<1> QED
  BY <1>1, <1>2, <1>3, <1>4, <1>5, <1>6, <1>7, BecomesKeepsIInv

LEMMA PopKeepsIInv ==
  ASSUME IInv, NEW a \in Arrays, Pop(a)  PROVE IInv'
<1> DEFINE n == count[a] - 1
           c == capacity[a]
           s == slots[a]
<1>1. /\ n \in Nat /\ c \in Nat /\ c # 1 /\ n <= c
      /\ promised[a] \in Nat /\ promised[a] <= c
      /\ s \in Seq(Slot) /\ n <= Len(s)
  BY OneArray DEF Pop, Running
<1>2. Running /\ Becomes(a, n, c, s, promised[a])
  BY DEF Pop
<1>3. live' \subseteq Arrays /\ smashed' \in BOOLEAN
  BY DEF Pop, IInv, TypeOK
<1> HIDE DEF n, c, s
<1> QED
  BY <1>1, <1>2, <1>3, BecomesKeepsIInv

\* The last element that is moved lies in the block.
LEMMA SwapRemoveKeepsIInv ==
  ASSUME IInv, NEW a \in Arrays, NEW i \in Nat, SwapRemove(a, i)  PROVE IInv'
<1> DEFINE n == count[a] - 1
           c == capacity[a]
           s == MovedLast(a, i)
<1>1. /\ n \in Nat /\ c \in Nat /\ c # 1 /\ n <= c
      /\ promised[a] \in Nat /\ promised[a] <= c
      /\ slots[a] \in Seq(Slot) /\ count[a] \in 1 .. Len(slots[a])
  BY OneArray DEF SwapRemove, Running
<1>2. slots[a][count[a]] \in Slot
  BY <1>1
<1>3. s \in Seq(Slot) /\ Len(s) = Len(slots[a])
  <2>1. slots[a] \in [1 .. Len(slots[a]) -> Slot] /\ Len(slots[a]) \in Nat
    BY <1>1
  <2>2. s \in [1 .. Len(slots[a]) -> Slot]
    BY <1>2, <2>1 DEF MovedLast
  <2> HIDE DEF s
  <2> QED
    BY <2>1, <2>2
<1>4. n <= Len(s)
  BY <1>1, <1>3
<1>5. Running /\ Becomes(a, n, c, s, promised[a])
  BY DEF SwapRemove
<1>6. live' \subseteq Arrays /\ smashed' \in BOOLEAN
  BY DEF SwapRemove, IInv, TypeOK
<1> HIDE DEF n, c, s
<1> QED
  BY <1>1, <1>3, <1>4, <1>5, <1>6, BecomesKeepsIInv

LEMMA ClearKeepsIInv ==
  ASSUME IInv, NEW a \in Arrays, Clear(a)  PROVE IInv'
<1> DEFINE z == 0
           c == capacity[a]
           s == slots[a]
<1>1. /\ z \in Nat /\ c \in Nat /\ c # 1 /\ z <= c
      /\ promised[a] \in Nat /\ promised[a] <= c
      /\ s \in Seq(Slot) /\ z <= Len(s)
  BY OneArray
<1>2. Running /\ Becomes(a, z, c, s, promised[a])
  BY DEF Clear, CapacityKept
<1>3. live' \subseteq Arrays /\ smashed' \in BOOLEAN
  BY DEF Clear, IInv, TypeOK
<1> HIDE DEF z, c, s
<1> QED
  BY <1>1, <1>2, <1>3, BecomesKeepsIInv

\* The steps that leave every array alone.
LEMMA OthersKeepIInv ==
  ASSUME IInv,
         \/ \E a \in Arrays, i \in 0 .. MaxCount : AssertFails(a, i)
         \/ OutOfMemory
         \/ UNCHANGED vars
  PROVE  IInv'
<1>1. /\ UNCHANGED << live, count, capacity, slots, promised, smashed >>
      /\ ended' \in BOOLEAN
  BY DEF AssertFails, OutOfMemory, vars, IInv, TypeOK
<1> QED
  BY <1>1 DEF IInv, TypeOK

LEMMA StepKeepsIInv ==
  ASSUME AvoidTightOne, IInv, [Next]_vars  PROVE IInv'
<1>1. ASSUME NEW a \in Arrays, New(a) \/ Free(a) \/ Pop(a) \/ Clear(a)  PROVE IInv'
  BY <1>1, NewKeepsIInv, FreeKeepsIInv, PopKeepsIInv, ClearKeepsIInv
<1>2. ASSUME NEW a \in Arrays, NEW b \in Arrays, Copy(a, b)  PROVE IInv'
  BY <1>2, CopyKeepsIInv
<1>3. ASSUME NEW a \in Arrays, NEW e \in Elem, NEW size \in ExprSizes, DaAppend(a, e, size)
      PROVE  IInv'
  BY <1>3, DaAppendKeepsIInv
<1>4. ASSUME NEW a \in Arrays, NEW n \in ExtendLengths, NEW t \in [1 .. n -> Elem],
             DaExtend(a, t)
      PROVE  IInv'
  <2>1. t \in Seq(Elem)
    BY DynArrAssumption
  <2> QED
    BY <1>4, <2>1, DaExtendKeepsIInv
<1>5. ASSUME NEW a \in Arrays, NEW n \in ReserveSizes, DaReserve(a, n)  PROVE IInv'
  BY <1>5, DaReserveKeepsIInv
<1>6. ASSUME NEW a \in Arrays, NEW i \in 0 .. MaxCount, SwapRemove(a, i)  PROVE IInv'
  BY <1>6, DynArrAssumption, SwapRemoveKeepsIInv
<1>7. CASE \/ \E a \in Arrays, i \in 0 .. MaxCount : AssertFails(a, i)
           \/ OutOfMemory
           \/ UNCHANGED vars
  BY <1>7, OthersKeepIInv
<1> QED
  BY <1>1, <1>2, <1>3, <1>4, <1>5, <1>6, <1>7 DEF Next, Halted

LEMMA InitHasIInv == Init => IInv
<1> SUFFICES ASSUME Init  PROVE IInv
  OBVIOUS
<1>1. << >> \in Seq(Slot) /\ Len(<< >>) = 0
  OBVIOUS
<1>2. TypeOK
  BY <1>1 DEF Init, TypeOK, Slot
<1>3. ASSUME NEW a \in Arrays
      PROVE  /\ count[a] = 0 /\ capacity[a] = 0 /\ promised[a] = 0
             /\ slots[a] = << >>
  BY DEF Init
<1> QED
  BY <1>1, <1>2, <1>3 DEF IInv

-----------------------------------------------------------------------------
(* The theorems. *)

LEMMA IInvAlways ==
  ASSUME AvoidTightOne  PROVE Spec => []IInv
<1>1. IInv /\ [Next]_vars => IInv'
  BY StepKeepsIInv
<1> QED
  BY InitHasIInv, <1>1, PTL DEF Spec

\* Whatever is appended, reserved, copied and removed, headers and blocks keep their types:
\* in particular no operation copies or moves an element from outside its block.
THEOREM TypeCorrect ==
  ASSUME AvoidTightOne  PROVE Spec => []TypeOK
<1>1. IInv => TypeOK
  BY DEF IInv
<1> QED
  BY IInvAlways, <1>1, PTL

\* No operation takes back what da_reserve promised, even when da_append is given elements
\* of the wrong size.
THEOREM ReservationKept ==
  ASSUME AvoidTightOne  PROVE Spec => []ReserveHonoured
<1>1. IInv => ReserveHonoured
  BY DEF IInv, TypeOK, ReserveHonoured
<1> QED
  BY IInvAlways, <1>1, PTL

-----------------------------------------------------------------------------
(* With elements of the right size, every block holds what its header says. *)

BlockInv == IInv /\ ~smashed /\ \A a \in Arrays : capacity[a] <= Len(slots[a])

LEMMA BecomesKeepsBlockInv ==
  ASSUME BlockInv, IInv', NEW a \in Arrays,
         NEW n, NEW cap, NEW s, NEW r,
         Becomes(a, n, cap, s, r), cap <= Len(s), ~smashed'
  PROVE  BlockInv'
<1>1. ASSUME NEW b \in Arrays  PROVE capacity'[b] <= Len(slots'[b])
  <2>1. CASE b = a
    BY <2>1 DEF BlockInv, IInv, TypeOK, Becomes
  <2>2. CASE b # a
    BY <2>2 DEF BlockInv, IInv, TypeOK, Becomes
  <2> QED
    BY <2>1, <2>2
<1> QED
  BY <1>1 DEF BlockInv

LEMMA DaAppendKeepsBlockInv ==
  ASSUME BlockInv, IInv', NEW a \in Arrays, NEW e \in Elem,
         NEW size \in ExprSizes, size >= ElemSize, DaAppend(a, e, size)
  PROVE  BlockInv'
<1> DEFINE cap == CapacityAfterAppend(count[a], capacity[a])
           s   == IF count[a] = capacity[a] THEN Realloc(slots[a], cap * size)
                                            ELSE slots[a]
           w   == Written(s, count[a] + 1, << e >>)
<1>1. /\ count[a] \in Nat /\ capacity[a] \in Nat /\ slots[a] \in Seq(Slot)
      /\ count[a] <= capacity[a] /\ capacity[a] # 1 /\ capacity[a] <= Len(slots[a])
  BY OneArray DEF BlockInv
<1>2. cap \in Nat /\ cap > count[a] /\ (count[a] # capacity[a] => cap = capacity[a])
  BY <1>1, AppendGrows DEF CapacityAfterAppend
<1>3. size \in Nat
  BY DynArrAssumption
<1>4. s \in Seq(Slot) /\ cap <= Len(s)
  <2>1. cap * size \in Nat /\ (cap * size) \div ElemSize >= cap
    <3> HIDE DEF cap
    <3> QED  BY <1>2, <1>3, RoomForElements
  <2>2. /\ Realloc(slots[a], cap * size) \in Seq(Slot)
        /\ Len(Realloc(slots[a], cap * size)) >= cap
    <3> HIDE DEF cap
    <3>1. Len(Realloc(slots[a], cap * size)) = (cap * size) \div ElemSize
      BY <1>1, <2>1, ReallocSlots
    <3> QED  BY <1>1, <2>1, <3>1, ReallocSlots
  <2> HIDE DEF cap
  <2> QED
    BY <1>1, <1>2, <2>2
<1>5. Len(w) = Len(s)
  <2>1. << e >> \in Seq(Elem) /\ count[a] + 1 \in Nat
    BY <1>1
  <2> HIDE DEF s
  <2> QED
    BY <1>4, <2>1, WrittenSlots
<1>6. /\ Becomes(a, count[a] + 1, cap, w, promised[a])
      /\ smashed' = ~Fits(s, count[a] + 1, << e >>)
  BY DEF DaAppend
<1>7. Fits(s, count[a] + 1, << e >>)
  <2>1. Len(<< e >>) = 1 /\ Len(s) \in Nat
    BY <1>4
  <2> HIDE DEF s, cap
  <2> QED
    BY <1>1, <1>2, <1>4, <2>1 DEF Fits
<1>8. ~smashed'
  BY <1>6, <1>7, Zenon
<1> HIDE DEF cap, s, w
<1> QED
  BY <1>4, <1>5, <1>6, <1>8, BecomesKeepsBlockInv

LEMMA ReservedRoom ==
  ASSUME BlockInv, NEW a \in Arrays, NEW n \in Nat
  PROVE  /\ ReservedSlots(a, n) \in Seq(Slot)
         /\ ReservedCapacity(a, n) \in Nat /\ ReservedCapacity(a, n) >= n
         /\ ReservedCapacity(a, n) <= Len(ReservedSlots(a, n))
<1>1. ElemSize \in Nat \ {0}
  BY DynArrAssumption
<1>2. n * ElemSize \in Nat /\ (n * ElemSize) \div ElemSize >= n
  BY <1>1, RoomForElements
<1>3. slots[a] \in Seq(Slot) /\ capacity[a] \in Nat /\ capacity[a] <= Len(slots[a])
  BY OneArray DEF BlockInv
<1>4. /\ Realloc(slots[a], n * ElemSize) \in Seq(Slot)
      /\ Len(Realloc(slots[a], n * ElemSize)) >= n
  BY <1>2, <1>3, ReallocSlots
<1> QED
  BY <1>3, <1>4 DEF ReservedCapacity, ReservedSlots

LEMMA DaExtendKeepsBlockInv ==
  ASSUME BlockInv, IInv', NEW a \in Arrays, NEW t \in Seq(Elem), DaExtend(a, t)
  PROVE  BlockInv'
<1> DEFINE n == count[a] + Len(t)
           s == ReservedSlots(a, n)
           w == Written(s, count[a] + 1, t)
<1>1. n \in Nat /\ count[a] \in Nat /\ count[a] + 1 \in Nat /\ Len(t) \in Nat
  BY OneArray DEF BlockInv
<1>2. /\ s \in Seq(Slot) /\ Len(s) \in Nat
      /\ ReservedCapacity(a, n) \in Nat /\ ReservedCapacity(a, n) >= n
      /\ ReservedCapacity(a, n) <= Len(s)
  <2> HIDE DEF n
  <2> QED  BY <1>1, ReservedRoom
<1>3. Len(w) = Len(s)
  <2> HIDE DEF n, s
  <2> QED  BY <1>1, <1>2, WrittenSlots
<1>4. /\ Becomes(a, n, ReservedCapacity(a, n), w, promised[a])
      /\ smashed' = ~Fits(s, count[a] + 1, t)
  BY DEF DaExtend
<1>5. Fits(s, count[a] + 1, t)
  <2> HIDE DEF s
  <2> QED  BY <1>1, <1>2 DEF Fits
<1>6. ~smashed'
  BY <1>4, <1>5, Zenon
<1> HIDE DEF n, s, w
<1> QED
  BY <1>2, <1>3, <1>4, <1>6, BecomesKeepsBlockInv

LEMMA CopyKeepsBlockInv ==
  ASSUME BlockInv, IInv', NEW a \in Arrays, NEW b \in Arrays, Copy(a, b)
  PROVE  BlockInv'
<1> DEFINE s == SubSeq(slots[a], 1, count[a])
<1>1. count[a] \in Nat /\ slots[a] \in Seq(Slot) /\ count[a] <= Len(slots[a])
  BY OneArray DEF BlockInv
<1>2. count[a] <= Len(s)
  BY <1>1
<1>3. Becomes(b, count[a], count[a], s, 0) /\ ~smashed'
  BY DEF Copy, Running
<1> HIDE DEF s
<1> QED
  BY <1>2, <1>3, BecomesKeepsBlockInv

\* The operations that leave the block where it is, or have none.
LEMMA InPlaceKeepsBlockInv ==
  ASSUME BlockInv, IInv', NEW a \in Arrays,
         \/ New(a) \/ Free(a) \/ Pop(a) \/ Clear(a)
         \/ \E n \in ReserveSizes : DaReserve(a, n)
         \/ \E i \in 0 .. MaxCount : SwapRemove(a, i)
  PROVE  BlockInv'
<1>1. /\ count[a] \in Nat /\ capacity[a] \in Nat /\ slots[a] \in Seq(Slot)
      /\ capacity[a] <= Len(slots[a])
  BY OneArray DEF BlockInv
<1>2. CASE New(a) \/ Free(a)
  <2> DEFINE s == << >>
             z == 0
  <2>1. Becomes(a, z, z, s, z) /\ ~smashed'
    BY <1>2 DEF New, Free, FreshCapacity, Running
  <2>2. z <= Len(s)
    OBVIOUS
  <2> HIDE DEF s, z
  <2> QED
    BY <2>1, <2>2, BecomesKeepsBlockInv
<1>3. CASE Pop(a) \/ Clear(a)
  <2>1. /\ \E n : Becomes(a, n, capacity[a], slots[a], promised[a])
        /\ ~smashed'
    BY <1>3 DEF Pop, Clear, CapacityKept, Running
  <2> QED
    BY <1>1, <2>1, BecomesKeepsBlockInv
<1>4. ASSUME NEW n \in ReserveSizes, DaReserve(a, n)  PROVE BlockInv'
  <2>1. n \in Nat
    BY DynArrAssumption
  <2>2. /\ \E r : Becomes(a, count[a], ReservedCapacity(a, n), ReservedSlots(a, n), r)
        /\ ~smashed'
    BY <1>4 DEF DaReserve, Running
  <2> QED
    BY <2>1, <2>2, ReservedRoom, BecomesKeepsBlockInv
<1>5. ASSUME NEW i \in 0 .. MaxCount, SwapRemove(a, i)  PROVE BlockInv'
  <2>1. /\ Becomes(a, count[a] - 1, capacity[a], MovedLast(a, i), promised[a])
        /\ ~smashed'
    BY <1>5 DEF SwapRemove, Running
  <2>2. Len(MovedLast(a, i)) = Len(slots[a])
    BY <1>1 DEF MovedLast
  <2> QED
    BY <1>1, <2>1, <2>2, BecomesKeepsBlockInv
<1> QED
  BY <1>2, <1>3, <1>4, <1>5

LEMMA StepKeepsBlockInv ==
  ASSUME AvoidTightOne, \A size \in ExprSizes : size >= ElemSize, BlockInv, [Next]_vars
  PROVE  BlockInv'
<1>1. IInv'
  BY StepKeepsIInv DEF BlockInv
<1>2. ASSUME NEW a \in Arrays, NEW e \in Elem, NEW size \in ExprSizes, DaAppend(a, e, size)
      PROVE  BlockInv'
  BY <1>1, <1>2, DaAppendKeepsBlockInv
<1>3. ASSUME NEW a \in Arrays, NEW n \in ExtendLengths, NEW t \in [1 .. n -> Elem],
             DaExtend(a, t)
      PROVE  BlockInv'
  <2>1. t \in Seq(Elem)
    BY DynArrAssumption
  <2> QED
    BY <1>1, <1>3, <2>1, DaExtendKeepsBlockInv
<1>4. ASSUME NEW a \in Arrays, NEW b \in Arrays, Copy(a, b)  PROVE BlockInv'
  BY <1>1, <1>4, CopyKeepsBlockInv
<1>5. CASE \/ \E a \in Arrays, i \in 0 .. MaxCount : AssertFails(a, i)
           \/ OutOfMemory
           \/ UNCHANGED vars
  <2>1. UNCHANGED << capacity, slots, smashed >>
    BY <1>5 DEF AssertFails, OutOfMemory, vars
  <2> QED
    BY <1>1, <2>1 DEF BlockInv
<1> QED
  BY <1>1, <1>2, <1>3, <1>4, <1>5, InPlaceKeepsBlockInv DEF Next, Halted

LEMMA BlockInvAlways ==
  ASSUME AvoidTightOne, \A size \in ExprSizes : size >= ElemSize
  PROVE  Spec => []BlockInv
<1>1. Init => BlockInv
  <2>1. Init => \A a \in Arrays : capacity[a] = 0 /\ Len(slots[a]) = 0
    BY DEF Init
  <2>2. Init => ~smashed
    BY DEF Init
  <2> QED
    BY <2>1, <2>2, InitHasIInv DEF BlockInv
<1>2. BlockInv /\ [Next]_vars => BlockInv'
  BY StepKeepsBlockInv
<1> QED
  BY <1>1, <1>2, PTL DEF Spec

\* da_append and da_extend never write outside the block of their array.
THEOREM NoWriteOutOfBounds ==
  ASSUME AvoidTightOne, \A size \in ExprSizes : size >= ElemSize
  PROVE  Spec => []WritesInBounds
<1>1. BlockInv => WritesInBounds
  BY DEF BlockInv, WritesInBounds
<1> QED
  BY BlockInvAlways, <1>1, PTL

\* The capacity of every array is a number of elements that its block does hold.
THEOREM CapacityIsHonest ==
  ASSUME AvoidTightOne, \A size \in ExprSizes : size >= ElemSize
  PROVE  Spec => []CapacityHonest
<1>1. BlockInv => CapacityHonest
  BY DEF BlockInv, IInv, TypeOK, CapacityHonest
<1> QED
  BY BlockInvAlways, <1>1, PTL

-----------------------------------------------------------------------------
(* Each array is the sequence of its elements. *)

\* All the elements of all the arrays, as DynArrSpec sees them.
AllContents == [a \in Arrays |-> Contents(a)]

LEMMA Prefixes ==
  ASSUME NEW s \in Seq(Slot), NEW n \in Nat, n <= Len(s)
  PROVE  /\ SubSeq(s, 1, n) \in Seq(Slot) /\ Len(SubSeq(s, 1, n)) = n
         /\ \A i \in 1 .. n : SubSeq(s, 1, n)[i] = s[i]
  OBVIOUS

LEMMA SameElements ==
  ASSUME NEW s \in Seq(Slot), NEW t \in Seq(Slot), Len(s) = Len(t),
         \A i \in 1 .. Len(s) : s[i] = t[i]
  PROVE  s = t
  OBVIOUS

LEMMA LiveContents ==
  ASSUME BlockInv, NEW a \in live
  PROVE  /\ a \in Arrays /\ count[a] \in Nat /\ slots[a] \in Seq(Slot)
         /\ count[a] <= capacity[a] /\ capacity[a] <= Len(slots[a]) /\ capacity[a] \in Nat
         /\ count[a] <= Len(slots[a]) /\ Len(slots[a]) \in Nat
         /\ Contents(a) = SubSeq(slots[a], 1, count[a])
         /\ Contents(a) \in Seq(Slot) /\ Len(Contents(a)) = count[a]
         /\ \A i \in 1 .. count[a] : Contents(a)[i] = slots[a][i]
<1>1. a \in Arrays
  BY DEF BlockInv, IInv, TypeOK
<1>2. /\ count[a] \in Nat /\ slots[a] \in Seq(Slot) /\ capacity[a] \in Nat
      /\ count[a] <= capacity[a] /\ capacity[a] <= Len(slots[a])
  BY <1>1, OneArray DEF BlockInv
<1>3. count[a] <= Len(slots[a]) /\ Len(slots[a]) \in Nat
  BY <1>2
<1>4. Contents(a) = SubSeq(slots[a], 1, count[a])
  BY DEF Contents
<1> QED
  BY <1>1, <1>2, <1>3, <1>4, Prefixes

\* An operation on one array changes the elements of no other.
LEMMA BecomesContents ==
  ASSUME BlockInv, NEW a \in Arrays, NEW n, NEW cap, NEW s, NEW r,
         Becomes(a, n, cap, s, r), live' \ {a} = live \ {a},
         NEW c, c = IF a \in live' THEN SubSeq(s, 1, n) ELSE << >>
  PROVE  AllContents' = [AllContents EXCEPT ![a] = c] /\ ended' = ended
<1>1. count'[a] = n /\ slots'[a] = s /\ ended' = ended
  BY DEF BlockInv, IInv, TypeOK, Becomes
<1>2. \A b \in Arrays : b # a => count'[b] = count[b] /\ slots'[b] = slots[b]
  BY DEF BlockInv, IInv, TypeOK, Becomes
<1>3. Contents(a)' = c
  BY <1>1 DEF Contents
<1>4. \A b \in Arrays : b # a => Contents(b)' = Contents(b)
  BY <1>2 DEF Contents
<1>5. \A b \in Arrays : AllContents'[b] = IF b = a THEN c ELSE AllContents[b]
  BY <1>3, <1>4, Zenon DEF AllContents
<1>6. AllContents' = [b \in Arrays |-> Contents(b)'] /\ AllContents = [b \in Arrays |-> Contents(b)]
  BY Zenon DEF AllContents
<1> QED
  BY <1>1, <1>5, <1>6

\* Elements written behind the others.
LEMMA AddedElements ==
  ASSUME NEW s \in Seq(Slot), NEW n \in Nat, n <= Len(s), NEW t \in Seq(Elem),
         NEW u \in Seq(Slot), n + Len(t) <= Len(u), \A i \in 1 .. n : u[i] = s[i]
  PROVE  SubSeq(Written(u, n + 1, t), 1, n + Len(t)) = SubSeq(s, 1, n) \o t
<1> DEFINE w == Written(u, n + 1, t)
           m == n + Len(t)
           p == SubSeq(s, 1, n)
<1>1. /\ m \in Nat /\ Len(t) \in Nat /\ t \in Seq(Slot) /\ Len(u) \in Nat /\ DOMAIN u = 1 .. Len(u)
      /\ DOMAIN t = 1 .. Len(t)
  BY DEF Slot
<1>2. w \in Seq(Slot) /\ Len(w) = Len(u)
  <2>1. n + 1 \in Nat
    OBVIOUS
  <2> QED
    BY <2>1, WrittenSlots
<1>3. \A i \in 1 .. Len(u) : w[i] = IF i - n \in 1 .. Len(t) THEN t[i - n] ELSE u[i]
  BY <1>1 DEF Written
<1>4. p \in Seq(Slot) /\ Len(p) = n /\ \A i \in 1 .. n : p[i] = s[i]
  BY Prefixes
<1>5. SubSeq(w, 1, m) \in Seq(Slot) /\ Len(SubSeq(w, 1, m)) = m
      /\ \A i \in 1 .. m : SubSeq(w, 1, m)[i] = w[i]
  <2> HIDE DEF w, m
  <2>1. m <= Len(w)
    BY <1>2 DEF m
  <2> QED
    BY <1>1, <1>2, <2>1, Prefixes
<1> HIDE DEF w, p
<1>6. /\ p \o t \in Seq(Slot) /\ Len(p \o t) = m
      /\ \A i \in 1 .. m : (p \o t)[i] = IF i <= n THEN p[i] ELSE t[i - n]
  BY <1>1, <1>4
<1>7. \A i \in 1 .. m : w[i] = (p \o t)[i]
  <2> TAKE i \in 1 .. m
  <2>1. i \in 1 .. Len(u) /\ (i <= n => i \in 1 .. n) /\ (i - n \in 1 .. Len(t) <=> ~(i <= n))
    BY <1>1
  <2>2. /\ w[i] = (IF i - n \in 1 .. Len(t) THEN t[i - n] ELSE u[i])
        /\ (p \o t)[i] = (IF i <= n THEN p[i] ELSE t[i - n])
    BY <1>3, <1>6, <2>1, Zenon
  <2> QED
    BY <1>4, <2>1, <2>2, Zenon
<1> HIDE DEF m
<1>8. SubSeq(w, 1, m) = p \o t
  BY <1>5, <1>6, <1>7, SameElements
<1> QED
  BY <1>8 DEF m, w, p

\* What the operations of DynArrSpec ask of the contents.
LEMMA AbstractBecomes ==
  ASSUME NEW a, NEW c, AllContents' = [AllContents EXCEPT ![a] = c], ended' = ended
  PROVE  Abstract!Becomes(a, c)
  BY DEF Abstract!Becomes, AllContents

LEMMA AllContentsOf == \A a \in Arrays : AllContents[a] = Contents(a)
  BY DEF AllContents

LEMMA NewDoes ==
  ASSUME BlockInv, NEW a \in Arrays, New(a)
  PROVE  Abstract!New(a)
<1> DEFINE s == << >>
           z == 0
           c == IF a \in live' THEN SubSeq(s, 1, z) ELSE << >>
<1>1. a \notin live /\ live' = live \cup {a} /\ Becomes(a, z, z, s, z)
  BY DEF New, FreshCapacity
<1>2. c = << >>
  BY SMT
<1> HIDE DEF s, z, c
<1>3. live' \ {a} = live \ {a}
  BY <1>1
<1>4. c = IF a \in live' THEN SubSeq(s, 1, z) ELSE << >>
  BY DEF c
<1>5. AllContents' = [AllContents EXCEPT ![a] = c] /\ ended' = ended
  BY <1>1, <1>3, <1>4, BecomesContents
<1>6. Abstract!Becomes(a, << >>)
  BY <1>2, <1>5, AbstractBecomes
<1> QED
  BY <1>1, <1>6 DEF Abstract!New

LEMMA FreeDoes ==
  ASSUME BlockInv, NEW a \in Arrays, Free(a)
  PROVE  Abstract!Free(a)
<1> DEFINE s == << >>
           z == 0
           c == << >>
<1>1. a \in live /\ live' = live \ {a} /\ Becomes(a, z, z, s, z)
  BY DEF Free
<1> HIDE DEF s, z
<1>2. live' \ {a} = live \ {a} /\ c = IF a \in live' THEN SubSeq(s, 1, z) ELSE << >>
  BY <1>1
<1>3. AllContents' = [AllContents EXCEPT ![a] = c] /\ ended' = ended
  <2> HIDE DEF c
  <2> QED
    BY <1>1, <1>2, BecomesContents
<1>4. Abstract!Becomes(a, << >>)
  BY <1>3, AbstractBecomes
<1> QED
  BY <1>1, <1>4 DEF Abstract!Free

LEMMA CopyDoes ==
  ASSUME BlockInv, NEW a \in Arrays, NEW b \in Arrays, Copy(a, b)
  PROVE  Abstract!Copy(a, b)
<1> DEFINE n == count[a]
           s == SubSeq(slots[a], 1, n)
<1>1. a \in live /\ b \notin live /\ live' = live \cup {b} /\ Becomes(b, n, n, s, 0)
  BY DEF Copy
<1>2. /\ Contents(a) = s /\ s \in Seq(Slot) /\ Len(s) = n /\ n \in Nat
  BY <1>1, LiveContents
<1> HIDE DEF n, s
<1>3. SubSeq(s, 1, n) = s
  BY <1>2
<1>4. live' \ {b} = live \ {b} /\ s = IF b \in live' THEN SubSeq(s, 1, n) ELSE << >>
  BY <1>1, <1>3
<1>5. AllContents' = [AllContents EXCEPT ![b] = s] /\ ended' = ended
  BY <1>1, <1>4, BecomesContents
<1>6. Abstract!Becomes(b, s)
  BY <1>5, AbstractBecomes
<1>7. s = [x \in Arrays |-> Contents(x)][a]
  BY <1>2
<1> QED
  BY <1>1, <1>6, <1>7, Zenon DEF Abstract!Copy

\* What a live array that stays where it is becomes.
LEMMA StaysLive ==
  ASSUME BlockInv, NEW a \in live, live' = live, NEW n, NEW cap, NEW s, NEW r,
         Becomes(a, n, cap, s, r)
  PROVE  Abstract!Becomes(a, SubSeq(s, 1, n))
<1> DEFINE c == SubSeq(s, 1, n)
<1>1. a \in Arrays
  BY LiveContents
<1>2. c = IF a \in live' THEN SubSeq(s, 1, n) ELSE << >>
  OBVIOUS
<1> HIDE DEF c
<1>3. AllContents' = [AllContents EXCEPT ![a] = c] /\ ended' = ended
  BY <1>1, <1>2, BecomesContents
<1>4. Abstract!Becomes(a, c)
  BY <1>3, AbstractBecomes
<1> QED
  BY <1>4 DEF c

LEMMA ReallocKeeps ==
  ASSUME NEW s \in Seq(Slot), NEW bytes \in Nat, NEW n \in Nat,
         n <= Len(s), n <= Len(Realloc(s, bytes))
  PROVE  \A i \in 1 .. n : Realloc(s, bytes)[i] = s[i]
<1>1. bytes \div ElemSize \in Nat
  BY DynArrAssumption
<1>2. Len(Realloc(s, bytes)) = bytes \div ElemSize
  BY ReallocSlots
<1> QED
  BY <1>1, <1>2 DEF Realloc

LEMMA DaAppendDoes ==
  ASSUME BlockInv, NEW a \in Arrays, NEW e \in Elem,
         NEW size \in ExprSizes, size >= ElemSize, DaAppend(a, e, size)
  PROVE  Abstract!Add(a, << e >>)
<1> DEFINE n   == count[a]
           cap == CapacityAfterAppend(n, capacity[a])
           s   == slots[a]
           u   == IF n = capacity[a] THEN Realloc(s, cap * size) ELSE s
           t   == << e >>
           w   == Written(u, n + 1, t)
<1>1. /\ a \in live /\ live' = live /\ Becomes(a, n + 1, cap, w, promised[a])
  BY DEF DaAppend
<1>2. /\ n \in Nat /\ s \in Seq(Slot) /\ n <= Len(s) /\ capacity[a] \in Nat
      /\ n <= capacity[a] /\ capacity[a] <= Len(s) /\ capacity[a] # 1
      /\ Contents(a) = SubSeq(s, 1, n)
  BY <1>1, LiveContents, OneArray DEF BlockInv
<1>3. cap \in Nat /\ cap > n /\ (n # capacity[a] => cap = capacity[a])
  BY <1>2, AppendGrows DEF CapacityAfterAppend
<1>4. size \in Nat
  BY DynArrAssumption
<1> HIDE DEF cap
<1>5. u \in Seq(Slot) /\ n + 1 <= Len(u) /\ \A i \in 1 .. n : u[i] = s[i]
  <2>1. CASE n = capacity[a]
    <3> DEFINE bytes == cap * size
    <3>1. bytes \in Nat /\ bytes \div ElemSize >= cap
      BY <1>3, <1>4, RoomForElements
    <3> HIDE DEF bytes, n, s
    <3>2. /\ Realloc(s, bytes) \in Seq(Slot) /\ Len(Realloc(s, bytes)) = bytes \div ElemSize
      BY <1>2, <3>1, ReallocSlots
    <3>3. Len(Realloc(s, bytes)) \in Nat
      BY <3>2
    <3>4. n + 1 <= Len(Realloc(s, bytes)) /\ n <= Len(Realloc(s, bytes))
      BY <1>2, <1>3, <3>1, <3>2, <3>3
    <3>5. \A i \in 1 .. n : Realloc(s, bytes)[i] = s[i]
      BY <1>2, <3>1, <3>4, ReallocKeeps
    <3> QED
      BY <2>1, <3>2, <3>4, <3>5 DEF bytes
  <2>2. CASE n # capacity[a]
    <3>1. n + 1 <= Len(s)
      BY <1>2, <1>3, <2>2
    <3> QED
      BY <1>2, <2>2, <3>1
  <2> QED
    BY <2>1, <2>2
<1>6. t \in Seq(Elem) /\ Len(t) = 1
  OBVIOUS
<1> HIDE DEF n, s, u, t
<1>7. SubSeq(w, 1, n + Len(t)) = SubSeq(s, 1, n) \o t
  <2>1. n + Len(t) <= Len(u)
    BY <1>5, <1>6
  <2> QED
    BY <1>2, <1>5, <1>6, <2>1, AddedElements
<1> HIDE DEF w
<1>8. Abstract!Becomes(a, SubSeq(w, 1, n + 1))
  BY <1>1, StaysLive
<1>9. Abstract!Becomes(a, Contents(a) \o t)
  BY <1>2, <1>6, <1>7, <1>8, Zenon
<1>10. Contents(a) = [x \in Arrays |-> Contents(x)][a]
  OBVIOUS
<1>11. Abstract!Add(a, t)
  BY <1>1, <1>9, <1>10, Zenon DEF Abstract!Add
<1> QED
  BY <1>11 DEF t

LEMMA DaExtendDoes ==
  ASSUME BlockInv, NEW a \in Arrays, NEW t \in Seq(Elem), DaExtend(a, t)
  PROVE  Abstract!Add(a, t)
<1> DEFINE n == count[a]
           m == n + Len(t)
           s == slots[a]
           u == ReservedSlots(a, m)
           w == Written(u, n + 1, t)
<1>1. /\ a \in live /\ live' = live /\ Becomes(a, m, ReservedCapacity(a, m), w, promised[a])
  BY DEF DaExtend
<1>2. /\ n \in Nat /\ s \in Seq(Slot) /\ n <= Len(s) /\ Contents(a) = SubSeq(s, 1, n)
      /\ m \in Nat /\ n <= m /\ Len(t) \in Nat
  BY <1>1, LiveContents
<1>3. u \in Seq(Slot) /\ m <= Len(u) /\ \A i \in 1 .. n : u[i] = s[i]
  <2> HIDE DEF n, m
  <2>1. u \in Seq(Slot) /\ m <= Len(u)
    <3>1. /\ u \in Seq(Slot) /\ ReservedCapacity(a, m) \in Nat
          /\ ReservedCapacity(a, m) >= m /\ ReservedCapacity(a, m) <= Len(u)
      BY <1>2, ReservedRoom
    <3> QED
      BY <1>2, <3>1
  <2>2. CASE m > capacity[a]
    <3> DEFINE bytes == m * ElemSize
    <3>1. u = Realloc(s, bytes)
      BY <2>2 DEF ReservedSlots
    <3>2. bytes \in Nat
      BY <1>2, DynArrAssumption
    <3> HIDE DEF bytes, s, u
    <3>3. n <= Len(Realloc(s, bytes))
      BY <1>2, <2>1, <3>1
    <3> QED
      BY <1>2, <2>1, <3>1, <3>2, <3>3, ReallocKeeps
  <2>3. CASE ~(m > capacity[a])
    BY <2>1, <2>3 DEF ReservedSlots
  <2> QED
    BY <2>1, <2>2, <2>3
<1> HIDE DEF n, s, u
<1>4. SubSeq(w, 1, m) = SubSeq(s, 1, n) \o t
  BY <1>2, <1>3, AddedElements
<1> HIDE DEF w, m
<1>5. Abstract!Becomes(a, SubSeq(w, 1, m))
  BY <1>1, StaysLive
<1>6. Abstract!Becomes(a, Contents(a) \o t)
  BY <1>2, <1>4, <1>5, Zenon
<1>7. Contents(a) = [x \in Arrays |-> Contents(x)][a]
  OBVIOUS
<1> QED
  BY <1>1, <1>6, <1>7, Zenon DEF Abstract!Add

LEMMA PopDoes ==
  ASSUME BlockInv, NEW a \in Arrays, Pop(a)
  PROVE  Abstract!Pop(a)
<1> DEFINE n == count[a]
           s == slots[a]
           c == Contents(a)
<1>1. a \in live /\ live' = live /\ n > 0 /\ Becomes(a, n - 1, capacity[a], s, promised[a])
  BY DEF Pop
<1>2. /\ n \in Nat /\ s \in Seq(Slot) /\ n <= Len(s) /\ c = SubSeq(s, 1, n)
      /\ c \in Seq(Slot) /\ Len(c) = n
  BY <1>1, LiveContents
<1>3. Abstract!Becomes(a, SubSeq(s, 1, n - 1))
  <2> DEFINE m == n - 1
  <2> HIDE DEF m, s
  <2>1. Becomes(a, m, capacity[a], s, promised[a])
    BY <1>1 DEF m
  <2>2. Abstract!Becomes(a, SubSeq(s, 1, m))
    BY <1>1, <2>1, StaysLive
  <2> QED
    BY <2>2 DEF m
<1> HIDE DEF n, s
<1>4. SubSeq(s, 1, n - 1) = SubSeq(c, 1, n - 1) /\ c # << >>
  BY <1>1, <1>2
<1>5. c = [x \in Arrays |-> Contents(x)][a]
  OBVIOUS
<1> HIDE DEF c
<1>6. Abstract!Front(c) = SubSeq(c, 1, n - 1)
  BY <1>2 DEF Abstract!Front
<1> QED
  BY <1>1, <1>3, <1>4, <1>5, <1>6, Zenon DEF Abstract!Pop

LEMMA ClearDoes ==
  ASSUME BlockInv, NEW a \in Arrays, Clear(a)
  PROVE  Abstract!Clear(a)
<1> DEFINE s == slots[a]
           z == 0
<1>1. a \in live /\ live' = live /\ Becomes(a, z, capacity[a], s, promised[a])
  BY DEF Clear, CapacityKept
<1>2. s \in Seq(Slot)
  BY <1>1, LiveContents
<1> HIDE DEF s
<1>3. SubSeq(s, 1, z) = << >>
  BY <1>2
<1> HIDE DEF z
<1>4. Abstract!Becomes(a, SubSeq(s, 1, z))
  BY <1>1, StaysLive
<1> QED
  BY <1>1, <1>3, <1>4 DEF Abstract!Clear

LEMMA DaReserveDoes ==
  ASSUME BlockInv, NEW a \in Arrays, NEW k \in ReserveSizes, DaReserve(a, k)
  PROVE  AllContents' = AllContents /\ UNCHANGED << live, Contents(a), ended >>
<1> DEFINE n == count[a]
           s == slots[a]
           u == ReservedSlots(a, k)
           c == SubSeq(u, 1, n)
<1>1. PICK r : a \in live /\ live' = live /\ Becomes(a, n, ReservedCapacity(a, k), u, r)
  BY DEF DaReserve
<1>2. /\ n \in Nat /\ s \in Seq(Slot) /\ n <= Len(s) /\ Contents(a) = SubSeq(s, 1, n)
      /\ n <= capacity[a] /\ capacity[a] \in Nat /\ k \in Nat
  BY <1>1, LiveContents, DynArrAssumption
<1>3. u \in Seq(Slot) /\ n <= Len(u) /\ \A i \in 1 .. n : u[i] = s[i]
  <2> HIDE DEF n
  <2>1. CASE k > capacity[a]
    <3> DEFINE bytes == k * ElemSize
    <3>1. u = Realloc(s, bytes)
      BY <2>1 DEF ReservedSlots
    <3>2. bytes \in Nat
      BY <1>2, DynArrAssumption
    <3>3. /\ u \in Seq(Slot) /\ ReservedCapacity(a, k) \in Nat
          /\ ReservedCapacity(a, k) >= k /\ ReservedCapacity(a, k) <= Len(u)
      BY <1>2, ReservedRoom
    <3> HIDE DEF bytes, s, u
    <3>4. n <= Len(u) /\ n <= Len(Realloc(s, bytes))
      BY <1>2, <2>1, <3>1, <3>3
    <3> QED
      BY <1>2, <3>1, <3>2, <3>3, <3>4, ReallocKeeps
  <2>2. CASE ~(k > capacity[a])
    BY <1>2, <2>2 DEF ReservedSlots
  <2> QED
    BY <2>1, <2>2
<1> HIDE DEF n, s, u
<1>4. c = Contents(a)
  <2>1. /\ SubSeq(s, 1, n) \in Seq(Slot) /\ Len(SubSeq(s, 1, n)) = n
        /\ \A i \in 1 .. n : SubSeq(s, 1, n)[i] = s[i]
    BY <1>2, Prefixes
  <2>2. /\ c \in Seq(Slot) /\ Len(c) = n /\ \A i \in 1 .. n : c[i] = u[i]
    BY <1>2, <1>3, Prefixes
  <2> HIDE DEF c
  <2> QED
    BY <1>2, <1>3, <2>1, <2>2, SameElements
<1>5. c = IF a \in live' THEN SubSeq(u, 1, n) ELSE << >>
  BY <1>1
<1> HIDE DEF c
<1>6. AllContents' = [AllContents EXCEPT ![a] = c] /\ ended' = ended
  BY <1>1, <1>5, BecomesContents
<1>7. AllContents' = AllContents
  BY <1>4, <1>6 DEF AllContents
<1>8. Contents(a)' = Contents(a)
  BY <1>7 DEF AllContents
<1> QED
  BY <1>1, <1>6, <1>7, <1>8

LEMMA SwapRemoveDoes ==
  ASSUME BlockInv, NEW a \in Arrays, NEW i \in 0 .. MaxCount, SwapRemove(a, i)
  PROVE  Abstract!SwapRemove(a, i + 1) /\ i + 1 \in DOMAIN Contents(a)
<1> DEFINE n == count[a]
           s == slots[a]
           c == Contents(a)
           j == i + 1
           m == n - 1
           t == [s EXCEPT ![j] = s[n]]
           d == [c EXCEPT ![j] = c[Len(c)]]
<1>1. /\ a \in live /\ live' = live /\ i < n
      /\ Becomes(a, m, capacity[a], t, promised[a])
  BY DEF SwapRemove, MovedLast
<1>2. /\ n \in Nat /\ s \in Seq(Slot) /\ n <= Len(s) /\ c = SubSeq(s, 1, n)
      /\ c \in Seq(Slot) /\ Len(c) = n
  BY <1>1, LiveContents
<1>3. j \in 1 .. n
  BY <1>1, <1>2, DynArrAssumption
<1> HIDE DEF n, s, c, j
<1>4. SubSeq(t, 1, m) = SubSeq(d, 1, Len(d) - 1)
  <2>1. /\ s \in Seq(Slot) /\ n \in Nat /\ n <= Len(s) /\ j \in 1 .. n /\ c \in Seq(Slot) /\ Len(c) = n
        /\ n \in 1 .. n /\ n \in 1 .. Len(s) /\ j \in 1 .. Len(s) /\ m \in Nat /\ m <= n /\ m <= Len(s)
    BY <1>2, <1>3
  <2>2. \A x \in 1 .. n : c[x] = s[x]
    BY <1>2, Prefixes
  <2>3. /\ t \in Seq(Slot) /\ Len(t) = Len(s)
        /\ \A x \in 1 .. Len(s) : t[x] = IF x = j THEN s[n] ELSE s[x]
    BY <2>1
  <2>4. /\ d \in Seq(Slot) /\ Len(d) = n /\ \A x \in 1 .. n : d[x] = IF x = j THEN c[n] ELSE c[x]
    <3> DEFINE e == c[n]
    <3>1. e \in Slot /\ d = [c EXCEPT ![j] = e]
      BY <2>1
    <3> HIDE DEF e, d
    <3>2. d \in Seq(Slot) /\ Len(d) = n /\ \A x \in 1 .. n : d[x] = IF x = j THEN e ELSE c[x]
      BY <2>1, <3>1
    <3> QED
      BY <3>2, Zenon DEF e
  <2>5. \A x \in 1 .. m : x \in 1 .. n /\ x \in 1 .. Len(s)
    BY <2>1
  <2> HIDE DEF t, d, m
  <2>6. \A x \in 1 .. m : t[x] = d[x]
    <3>1. c[n] = s[n]
      BY <2>1, <2>2, Zenon
    <3> TAKE x \in 1 .. m
    <3>2. c[x] = s[x] /\ t[x] = (IF x = j THEN s[n] ELSE s[x]) /\ d[x] = (IF x = j THEN c[n] ELSE c[x])
      BY <2>2, <2>3, <2>4, <2>5, Zenon
    <3> QED
      BY <3>1, <3>2, Zenon
  <2>7. /\ SubSeq(t, 1, m) \in Seq(Slot) /\ Len(SubSeq(t, 1, m)) = m
        /\ \A x \in 1 .. m : SubSeq(t, 1, m)[x] = t[x]
    BY <2>1, <2>3, Prefixes
  <2>8. m <= Len(d)
    BY <2>1, <2>4
  <2>9. /\ SubSeq(d, 1, m) \in Seq(Slot) /\ Len(SubSeq(d, 1, m)) = m
        /\ \A x \in 1 .. m : SubSeq(d, 1, m)[x] = d[x]
    BY <2>1, <2>4, <2>8, Prefixes
  <2>10. SubSeq(t, 1, m) = SubSeq(d, 1, m)
    BY <2>6, <2>7, <2>9, SameElements
  <2>11. m = n - 1
    BY DEF m
  <2> QED
    BY <2>4, <2>10, <2>11, Zenon
<1> HIDE DEF m, t
<1>5. Abstract!Becomes(a, SubSeq(t, 1, m))
  BY <1>1, StaysLive
<1> HIDE DEF d
<1>6. c = [x \in Arrays |-> Contents(x)][a]
  BY DEF c
<1>7. Abstract!Last(c) = c[Len(c)]
  BY DEF Abstract!Last
<1>8. Abstract!Front(d) = SubSeq(d, 1, Len(d) - 1)
  BY DEF Abstract!Front
<1>9. d = [[x \in Arrays |-> Contents(x)][a] EXCEPT ![j] = Abstract!Last([x \in Arrays |-> Contents(x)][a])]
  BY <1>6, <1>7, Zenon DEF d
<1>10. Abstract!Becomes(a, Abstract!Front(d))
  BY <1>4, <1>5, <1>8, Zenon
<1>11. Abstract!SwapRemove(a, j)
  BY <1>1, <1>9, <1>10, Zenon DEF Abstract!SwapRemove
<1>12. j \in DOMAIN c
  BY <1>2, <1>3
<1> QED
  BY <1>11, <1>12 DEF j, c

\* What ends the program, or does nothing, changes no element.
LEMMA EndsDo ==
  ASSUME BlockInv,
         \/ \E a \in Arrays, i \in 0 .. MaxCount : AssertFails(a, i)
         \/ OutOfMemory
         \/ UNCHANGED vars
  PROVE  Abstract!End \/ UNCHANGED << live, AllContents, ended >>
<1>1. live' = live /\ count' = count /\ slots' = slots /\ (ended' = TRUE \/ ended' = ended)
  BY DEF AssertFails, OutOfMemory, vars
<1>2. AllContents' = AllContents
  BY <1>1 DEF AllContents, Contents
<1> QED
  BY <1>1, <1>2 DEF Abstract!End, AllContents

\* Each macro does what the operation of its own name promises: for arrays that are kept from
\* the capacity of one and elements of the right size, da_append and da_extend add exactly
\* what they are given, da_swap_remove removes the element it was asked to, and no operation
\* touches another array, whatever moves, grows or is copied.
THEOREM MacrosDoAsNamed ==
  ASSUME AvoidTightOne, \A size \in ExprSizes : size >= ElemSize
  PROVE  Spec => DoesAsNamed
<1>1. \A n \in ExtendLengths : \A t \in [1 .. n -> Elem] : t \in Seq(Elem)
  BY DynArrAssumption
<1> DEFINE Named(a) ==
      /\ New(a) => Abstract!New(a)
      /\ Free(a) => Abstract!Free(a)
      /\ Pop(a) => Abstract!Pop(a)
      /\ Clear(a) => Abstract!Clear(a)
      /\ \A b \in Arrays : Copy(a, b) => Abstract!Copy(a, b)
      /\ \A e \in Elem, size \in ExprSizes : DaAppend(a, e, size) => Abstract!Add(a, << e >>)
      /\ \A n \in ExtendLengths : \A t \in [1 .. n -> Elem] : DaExtend(a, t) => Abstract!Add(a, t)
      /\ \A n \in ReserveSizes : DaReserve(a, n) => UNCHANGED << live, Contents(a), ended >>
      /\ \A i \in 0 .. MaxCount : SwapRemove(a, i) => Abstract!SwapRemove(a, i + 1)
<1>2. BlockInv => [\A a \in Arrays : Named(a)]_vars
  <2> SUFFICES ASSUME BlockInv, NEW a \in Arrays PROVE Named(a)
    OBVIOUS
  <2>1. /\ New(a) => Abstract!New(a)
        /\ Free(a) => Abstract!Free(a)
        /\ Pop(a) => Abstract!Pop(a)
        /\ Clear(a) => Abstract!Clear(a)
    BY NewDoes, FreeDoes, PopDoes, ClearDoes, Zenon
  <2>2. \A b \in Arrays : Copy(a, b) => Abstract!Copy(a, b)
    BY CopyDoes, Zenon
  <2>3. \A e \in Elem, size \in ExprSizes : DaAppend(a, e, size) => Abstract!Add(a, << e >>)
    BY DaAppendDoes, Zenon
  <2>4. \A n \in ExtendLengths : \A t \in [1 .. n -> Elem] : DaExtend(a, t) => Abstract!Add(a, t)
    BY <1>1, DaExtendDoes, Zenon
  <2>5. \A n \in ReserveSizes : DaReserve(a, n) => UNCHANGED << live, Contents(a), ended >>
    BY DaReserveDoes, Zenon
  <2>6. \A i \in 0 .. MaxCount : SwapRemove(a, i) => Abstract!SwapRemove(a, i + 1)
    BY SwapRemoveDoes, Zenon
  <2> QED
    BY <2>1, <2>2, <2>3, <2>4, <2>5, <2>6, Zenon
<1> QED
  BY BlockInvAlways, <1>2, PTL DEF Spec, DoesAsNamed

\* So the arrays of dynarr.h are sequences of their own: every behaviour of the headers and
\* blocks is one of DynArrSpec.
THEOREM ArraysAreSequences ==
  ASSUME AvoidTightOne, \A size \in ExprSizes : size >= ElemSize
  PROVE  Spec => ImplementsSequences
<1> DEFINE Added == UNION {[1 .. n -> Elem] : n \in ExtendLengths \cup {1}}
<1>1. Init => Abstract!Init
  <2> SUFFICES ASSUME Init PROVE Abstract!Init
    OBVIOUS
  <2>1. live = {} /\ ended = FALSE
    BY DEF Init
  <2> QED
    BY <2>1 DEF Abstract!Init, Contents
<1>2. BlockInv /\ [Next]_vars => [Abstract!Next]_(Abstract!arrayVars)
  <2> SUFFICES ASSUME BlockInv, [Next]_vars
               PROVE  Abstract!Next \/ UNCHANGED << live, AllContents, ended >>
    BY DEF Abstract!arrayVars, AllContents
  <2>1. ASSUME NEW a \in Arrays, New(a) \/ Free(a) \/ Pop(a) \/ Clear(a)
        PROVE  Abstract!Next
    BY <2>1, NewDoes, FreeDoes, PopDoes, ClearDoes, Zenon DEF Abstract!Next
  <2>2. ASSUME NEW a \in Arrays, NEW b \in Arrays, Copy(a, b) PROVE Abstract!Next
    BY <2>2, CopyDoes, Zenon DEF Abstract!Next
  <2>3. ASSUME NEW a \in Arrays, NEW e \in Elem, NEW size \in ExprSizes, DaAppend(a, e, size)
        PROVE  Abstract!Next
    <3>1. << e >> \in Added
      <4>1. << e >> \in [1 .. 1 -> Elem]
        OBVIOUS
      <4> QED
        BY <4>1
    <3>2. Abstract!Add(a, << e >>)
      BY <2>3, DaAppendDoes, Zenon
    <3> QED
      BY <3>1, <3>2, Zenon DEF Abstract!Next
  <2>4. ASSUME NEW a \in Arrays, NEW n \in ExtendLengths, NEW t \in [1 .. n -> Elem],
               DaExtend(a, t)
        PROVE  Abstract!Next
    <3>1. t \in Added /\ t \in Seq(Elem)
      BY DynArrAssumption
    <3>2. Abstract!Add(a, t)
      BY <2>4, <3>1, DaExtendDoes, Zenon
    <3> QED
      BY <3>1, <3>2, Zenon DEF Abstract!Next
  <2>5. ASSUME NEW a \in Arrays, NEW n \in ReserveSizes, DaReserve(a, n)
        PROVE  UNCHANGED << live, AllContents, ended >>
    <3>1. AllContents' = AllContents /\ live' = live /\ ended' = ended
      BY <2>5, DaReserveDoes
    <3> QED
      BY <3>1
  <2>6. ASSUME NEW a \in Arrays, NEW i \in 0 .. MaxCount, SwapRemove(a, i)
        PROVE  Abstract!Next
    <3>1. Abstract!SwapRemove(a, i + 1) /\ i + 1 \in DOMAIN Contents(a)
      BY <2>6, SwapRemoveDoes, Zenon
    <3>2. Contents(a) = [x \in Arrays |-> Contents(x)][a]
      OBVIOUS
    <3> QED
      BY <3>1, <3>2, Zenon DEF Abstract!Next
  <2>7. CASE \/ \E a \in Arrays, i \in 0 .. MaxCount : AssertFails(a, i)
             \/ OutOfMemory
             \/ UNCHANGED vars
    BY <2>7, EndsDo, Zenon DEF Abstract!Next
  <2> QED
    BY <2>1, <2>2, <2>3, <2>4, <2>5, <2>6, <2>7, Zenon DEF Next, Halted
<1> QED
  BY BlockInvAlways, <1>1, <1>2, PTL DEF Spec, ImplementsSequences, Abstract!Spec
=============================================================================
