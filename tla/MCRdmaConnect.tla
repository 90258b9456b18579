--------------------------- MODULE MCRdmaConnect ---------------------------
(* Instances of RdmaConnect for TLC. *)
EXTENDS RdmaConnect

\* Descriptors of different lengths, sent and received in several pieces.
Descriptors == [p \in Peers |-> IF p = Client THEN 3 ELSE 2]
=============================================================================
