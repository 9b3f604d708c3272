---------------------------- MODULE DynArrHeader ----------------------------
(***************************************************************************)
(* The capacity arithmetic of the dynamic array macros of dynarr.h, shared *)
(* by the model of the macros and by the model of deserialize(), which     *)
(* appends to such an array.                                               *)
(***************************************************************************)
EXTENDS Integers

\* new_header(): count and capacity of a fresh array (libdynarr, calloc of a header).
FreshCapacity == 0

\* The capacity da_append reallocates to.  (GrownFromOne: no initial capacity of 8.)
GrownFromOne(capacity) == IF capacity = 0 THEN 1 ELSE capacity + capacity \div 2

GrownCapacity(capacity) ==
  IF capacity = 0 THEN 8 ELSE capacity + capacity \div 2

\* The header's capacity after da_append to an array of count elements.
\* (GrownTooLate: the test for a full array is off by one.)
GrownTooLate(count, capacity) ==
  IF count > capacity THEN GrownCapacity(capacity) ELSE capacity

CapacityAfterAppend(count, capacity) ==
  IF count = capacity THEN GrownCapacity(capacity) ELSE capacity

=============================================================================
