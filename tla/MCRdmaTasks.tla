---------------------------- MODULE MCRdmaTasks ----------------------------
(* Instances of RdmaTasks for TLC. *)
EXTENDS RdmaTasks, TLC

\* Operations and tasks are interchangeable.
Symmetry == Permutations(Ops) \cup Permutations(Slots)
=============================================================================
