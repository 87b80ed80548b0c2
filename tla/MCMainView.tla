------------------------------- MODULE MCMainView -------------------------------
(***************************************************************************)
(* Instances of MainView and the vault under it.                           *)
(***************************************************************************)
EXTENDS MainView, TLC

\* Names, values and passwords are interchangeable.
Symmetry == Permutations(Name) \cup Permutations(Value) \cup Permutations(Key)

==============================================================================
