--------------------------- MODULE MessageStream ---------------------------
(***************************************************************************)
(* What a message socket promises its program: two ends meet on numbered   *)
(* connections, and on each of them an end receives the messages of the    *)
(* other one whole, in the order they were sent and none left out.  A      *)
(* connection an end has left is never joined again, so nothing of it      *)
(* turns up on a later one.                                                *)
(***************************************************************************)
EXTENDS Naturals, Sequences

CONSTANTS
    Client, Server,  \* the two ends
    Conns,           \* the connections
    NoConn,          \* where an end is that is on none
    Sizes            \* the sizes a message may have

VARIABLES
    at,        \* at[e]: the connection end e is on
    sent,      \* sent[c][e]: sizes of the messages e sent on c
    received   \* received[c][e]: sizes of the messages e received on c

Ends == {Client, Server}
Peer(e) == IF e = Client THEN Server ELSE Client

Init ==
    /\ at = [e \in Ends |-> NoConn]
    /\ sent = [c \in Conns |-> [e \in Ends |-> <<>>]]
    /\ received = [c \in Conns |-> [e \in Ends |-> <<>>]]

\* An end joins a connection it has not been on before, or leaves the one it
\* was on.
Join(e, c) ==
    /\ at[e] # c
    /\ sent[c][e] = <<>> /\ received[c][e] = <<>>
    /\ at' = [at EXCEPT ![e] = c]
    /\ UNCHANGED <<sent, received>>

Leave(e) ==
    /\ at' = [at EXCEPT ![e] = NoConn]
    /\ UNCHANGED <<sent, received>>

Send(e, size) ==
    /\ at[e] \in Conns
    /\ sent' = [sent EXCEPT ![at[e]][e] = Append(@, size)]
    /\ UNCHANGED <<at, received>>

\* The next message of the other end, if it has sent one more.
Receive(e) ==
    LET c == at[e]
        k == Len(received[c][e]) + 1
    IN  /\ c \in Conns
        /\ k <= Len(sent[c][Peer(e)])
        /\ received' = [received EXCEPT ![c][e] = Append(@, sent[c][Peer(e)][k])]
        /\ UNCHANGED <<at, sent>>

Next ==
    \E e \in Ends :
        \/ \E c \in Conns : Join(e, c)
        \/ Leave(e)
        \/ \E size \in Sizes : Send(e, size)
        \/ Receive(e)

Spec == Init /\ [][Next]_<<at, sent, received>>
=============================================================================
