----------------------------- MODULE MCRunLoop -----------------------------
(* Instances of RunLoop for TLC. *)
EXTENDS RunLoop, TLC

CONSTANTS o1, o2, o3, t1, t2

TwoOps == {o1, o2}
ThreeOps == {o1, o2, o3}
OneClient == {t1}
TwoClients == {t1, t2}

NoWaits == {}

\* The continuation of o1 blocks until o2 completed.
FirstWaitsForSecond == {<<o1, o2>>}

\* Operations are interchangeable as long as none waits for another, and so
\* are clients; only the safety run uses this.
Symmetry == Permutations(ThreeOps) \cup Permutations(TwoClients)
=============================================================================
