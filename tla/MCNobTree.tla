----------------------------- MODULE MCNobTree ------------------------------
(* NobTree for TLC: a directory in a directory, beside it and below it entries of other kinds. *)
EXTENDS NobTree

Paths == {<< >>, << "a" >>, << "b" >>, << "a", "b" >>}
AnySource ==
  {t \in [Paths -> Kind \cup {"none"}] :
     /\ Under(t)
     /\ t[<< "b" >>] \in {"none", "file", "directory", "other"}
     /\ t[<< "a", "b" >>] \in {"none", "file", "symlink"}}
Nothing == [p \in Paths |-> "none"]
\* Nothing is there, or a directory with a file or a directory at one of the paths.
SomeTarget == {Nothing} \cup
  {[[Nothing EXCEPT ![<< >>] = "directory"] EXCEPT ![<< n >>] = k] : n \in {"a", "b"}, k \in {"file", "directory"}}

\* State constraint: a walk reads nothing of what a copy leaves, the target and the temporary
\* memory, so that walks are followed only where no copy came before.
FreshWalks == Walking => dst \in Targets /\ temp = [k \in 1 .. TempLimit |-> "."]
=============================================================================
