---------------------------- MODULE MCBufHandles ----------------------------
(* Instances of BufHandles for TLC. *)
EXTENDS BufHandles, TLC

\* Elements, Buf objects and BufInventory objects are interchangeable.
Symmetry == Permutations(Bufs) \cup Permutations(Handles) \cup Permutations(Pools)
=============================================================================
