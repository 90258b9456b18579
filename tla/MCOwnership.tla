----------------------------- MODULE MCOwnership -----------------------------
(* TLC instance of Ownership. *)
EXTENDS Ownership, TLC

\* The objects of a kind differ in nothing but their name.
Symmetry == Permutations(Objects) \cup Permutations(Maps) \cup Permutations(Callbacks)
                \cup Permutations(Rdmas)
=============================================================================
