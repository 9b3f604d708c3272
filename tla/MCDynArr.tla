------------------------------ MODULE MCDynArr ------------------------------
(***************************************************************************)
(* Small instances of DynArr.  Sizes are in units of four bytes.           *)
(***************************************************************************)
EXTENDS DynArr, TLC

CONSTANTS a, b, x, y

OneArray  == {a}
TwoArrays == {a, b}
TwoElems  == {x, y}

\* The model never tells two arrays, or two elements, apart.
Symmetry == Permutations({a, b}) \cup Permutations({x, y})

\* sizeof(uint64_t), and the sizes of a literal that is an int or a uint64_t, in units of 4.
Exact   == {2}
Mixed   == {1, 2, 3}
Wider   == {2, 3}

=============================================================================
