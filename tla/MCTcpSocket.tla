---------------------------- MODULE MCTcpSocket ----------------------------
(* Instances of TcpSocket for TLC. *)
EXTENDS TcpSocket

\* Both ends run this library: prefixes of eight bytes.
LibraryPrefixes == [e \in Ends |-> 2]

\* The server was written after the comments: a prefix of four bytes.
DocumentedServer == [e \in Ends |-> IF e = Client THEN 2 ELSE 1]

\* The client sends up to two messages on a connection, the server receives.
\* The two directions of a connection share no state but the call in progress.
ClientSendsTwo == [e \in Ends |-> IF e = Client THEN 2 ELSE 0]
=============================================================================
