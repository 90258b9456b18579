----------------------------- MODULE RdmaConnect -----------------------------
(***************************************************************************)
(* rdma.hpp: how two programs set up an RDMA connection.  Each calls       *)
(* Rdma::connect(socket), which exports a connection, sends its descriptor *)
(* over the TCP socket and receives the peer's, all on the loop's thread;  *)
(* then the operation's start() connects and hands the connection on.  A   *)
(* call on the socket may throw at any moment, with a live peer too; the   *)
(* socket, the caller's, then stays open until the program ends.           *)
(*                                                                         *)
(* The user's side is that of test/rdma_loopback.cpp: it keeps the         *)
(* connection it is given in a variable, replacing what is there, and the  *)
(* operation lives until sync_wait returns.                                *)
(*                                                                         *)
(* External: the DOCA library, which establishes a connection both peers   *)
(* have connected or fails it, and reports that through a callback on the  *)
(* loop's thread; and the socket, which buffers Capacity units for each    *)
(* peer.  TcpSocket has the socket in detail.                              *)
(***************************************************************************)
EXTENDS Naturals, Sequences

CONSTANTS
    Client, Server,  \* the two programs
    Length,          \* Length[p]: units of p's framed descriptor
    Capacity         \* units the socket buffers in each direction

Peers == {Client, Server}
Other(p) == IF p = Client THEN Server ELSE Client

ASSUME ConnectAssumption ==
    /\ Client # Server
    /\ Length \in [Peers -> Nat \ {0}]
    /\ Capacity \in Nat \ {0}

VARIABLES
    pc,         \* pc[p]: idle; send, receive (inside Rdma::connect); ready
                \*   (there is an operation); marked, connected (inside start(),
                \*   after set_user_data and doca_rdma_connect); started;
                \*   threw; exited
    sent,       \* sent[p]: units of its descriptor p has sent
    received,   \* received[p]: units of the peer's descriptor p has read
    conn,       \* conn[p]: DOCA's state of the connection p exported
    holder,     \* holder[p]: who owns the RdmaConnection: nobody, call
                \*   (Rdma::connect), op (the operation), user
    userData,   \* userData[p]: the connection's user data is the operation
    event,      \* event[p]: the callback DOCA is about to make, or none
    values,     \* values[p]: what the receiver got: connection, empty, error
    opAlive     \* opAlive[p]: the operation has not been destroyed

call == <<pc, sent, received>>
doca == <<conn, userData, event>>
op == <<values, opAlive>>
vars == <<call, doca, op, holder>>

Init ==
    /\ pc = [p \in Peers |-> "idle"]
    /\ sent = [p \in Peers |-> 0]
    /\ received = [p \in Peers |-> 0]
    /\ conn = [p \in Peers |-> "none"]
    /\ holder = [p \in Peers |-> "nobody"]
    /\ userData = [p \in Peers |-> FALSE]
    /\ event = [p \in Peers |-> "none"]
    /\ values = [p \in Peers |-> <<>>]
    /\ opAlive = [p \in Peers |-> FALSE]

\* The kernel has closed p's end of the socket.
Gone(p) == pc[p] = "exited"
Buffered(p) == sent[Other(p)] - received[p]

\* rdma_connection_deleter: disconnects, which ends the program if it fails.
Disconnect(p) ==
    /\ holder' = [holder EXCEPT ![p] = "nobody"]
    /\ conn' = [conn EXCEPT ![p] = "disconnected"]

-----------------------------------------------------------------------------
(* Faulty variants: the code with one slip each. *)

\* Rdma::connect receives before it sends.
ExportAndReceive(p) ==
    /\ pc[p] = "idle"
    /\ pc' = [pc EXCEPT ![p] = "receive"]
    /\ conn' = [conn EXCEPT ![p] = "exported"]
    /\ holder' = [holder EXCEPT ![p] = "call"]
    /\ UNCHANGED <<sent, received, userData, event, op>>

\* receive_all counts a recv that delivered nothing as a unit.
ReceiveNothing(p) ==
    /\ pc[p] = "receive"
    /\ received' = [received EXCEPT ![p] = @ + 1]
    /\ pc' = IF received'[p] = Length[Other(p)] THEN [pc EXCEPT ![p] = "ready"] ELSE pc
    /\ UNCHANGED <<sent, doca, op, holder>>

\* send_all may begin again instead of going on where a short send stopped.
SendFromStart(p) ==
    /\ pc[p] = "send"
    /\ Buffered(Other(p)) < Capacity
    /\ \E done \in {0, sent[p]} : sent' = [sent EXCEPT ![p] = done + 1]
    /\ pc' = IF sent'[p] = Length[p] THEN [pc EXCEPT ![p] = "receive"] ELSE pc
    /\ UNCHANGED <<received, doca, op, holder>>

\* start() connects before it sets the connection's user data.
ConnectUnmarked(p) ==
    /\ pc[p] \in {"ready", "marked"}
    /\ pc' = [pc EXCEPT ![p] = "connected"]
    /\ conn' = [conn EXCEPT ![p] = "connecting"]
    /\ UNCHANGED <<sent, received, userData, event, op, holder>>

\* An exception leaves Rdma::connect without destroying the connection.
ThrowLeaks(p) ==
    /\ pc[p] \in {"send", "receive"}
    /\ pc' = [pc EXCEPT ![p] = "threw"]
    /\ holder' = [holder EXCEPT ![p] = "nobody"]
    /\ UNCHANGED <<sent, received, doca, op>>

-----------------------------------------------------------------------------
(* Rdma::connect *)

\* export_ctx(): DOCA makes a connection for the descriptor.
ExportCtx(p) ==
    /\ pc[p] = "idle"
    /\ pc' = [pc EXCEPT ![p] = "send"]
    /\ conn' = [conn EXCEPT ![p] = "exported"]
    /\ holder' = [holder EXCEPT ![p] = "call"]
    /\ UNCHANGED <<sent, received, userData, event, op>>

\* send_dynamic: blocks while the socket's buffer is full.
SendSome(p) ==
    /\ pc[p] = "send"
    /\ Buffered(Other(p)) < Capacity
    /\ sent' = [sent EXCEPT ![p] = @ + 1]
    /\ pc' = IF sent'[p] = Length[p] THEN [pc EXCEPT ![p] = "receive"] ELSE pc
    /\ UNCHANGED <<received, doca, op, holder>>

\* receive_dynamic, and the rdma_connection_sender it completes.
ReceiveSome(p) ==
    /\ pc[p] = "receive"
    /\ Buffered(p) > 0
    /\ received' = [received EXCEPT ![p] = @ + 1]
    /\ IF received'[p] = Length[Other(p)]
       THEN /\ pc' = [pc EXCEPT ![p] = "ready"]
            /\ holder' = [holder EXCEPT ![p] = "op"]
            /\ opAlive' = [opAlive EXCEPT ![p] = TRUE]
       ELSE UNCHANGED <<pc, holder, opAlive>>
    /\ UNCHANGED <<sent, doca, values>>

\* ::send or ::recv fails, for any reason, or finds the peer's end closed: the
\* call throws and drops its connection, and leaves the socket as it is.
Throw(p) ==
    /\ pc[p] \in {"send", "receive"}
    /\ pc' = [pc EXCEPT ![p] = "threw"]
    /\ Disconnect(p)
    /\ UNCHANGED <<sent, received, userData, event, op>>

-----------------------------------------------------------------------------
(* The operation *)

\* start(): the user data, then doca_rdma_connect, and at once the value.  The
\* callbacks of the connection run on this thread, after start().
SetUserData(p) ==
    /\ pc[p] = "ready"
    /\ pc' = [pc EXCEPT ![p] = "marked"]
    /\ userData' = [userData EXCEPT ![p] = TRUE]
    /\ UNCHANGED <<sent, received, conn, event, op, holder>>

Connect(p) ==
    /\ pc[p] = "marked"
    /\ pc' = [pc EXCEPT ![p] = "connected"]
    /\ conn' = [conn EXCEPT ![p] = "connecting"]
    /\ UNCHANGED <<sent, received, userData, event, op, holder>>

Deliver(p) ==
    /\ pc[p] = "connected"
    /\ pc' = [pc EXCEPT ![p] = "started"]
    /\ holder' = [holder EXCEPT ![p] = "user"]
    /\ values' = [values EXCEPT ![p] = Append(@, "connection")]
    /\ UNCHANGED <<sent, received, doca, opAlive>>

Start(p) == SetUserData(p) \/ Connect(p) \/ Deliver(p)

\* on_established: the operation's connection is delivered once more.  It was
\* moved from, so the value is empty, and the user's variable loses what it
\* held.  If the operation is gone the callback reads freed memory; here it
\* finds nothing.
OnEstablished(p) ==
    /\ event[p] = "established"
    /\ pc[p] = "started"
    /\ event' = [event EXCEPT ![p] = "none"]
    /\ IF opAlive[p]
       THEN /\ values' = [values EXCEPT ![p] = Append(@, "empty")]
            /\ IF holder[p] = "user" THEN Disconnect(p) ELSE UNCHANGED <<conn, holder>>
       ELSE UNCHANGED <<values, conn, holder>>
    /\ UNCHANGED <<call, userData, opAlive>>

\* on_failure: set_error, after the value.
OnFailure(p) ==
    /\ event[p] = "failure"
    /\ pc[p] = "started"
    /\ event' = [event EXCEPT ![p] = "none"]
    /\ values' = IF opAlive[p] THEN [values EXCEPT ![p] = Append(@, "error")] ELSE values
    /\ UNCHANGED <<call, conn, userData, opAlive, holder>>

\* sync_wait returns once the receiver was signalled and destroys the
\* operation; its connection has been moved out by then.
DestroyOp(p) ==
    /\ pc[p] = "started"
    /\ opAlive[p]
    /\ opAlive' = [opAlive EXCEPT ![p] = FALSE]
    /\ UNCHANGED <<call, doca, values, holder>>

\* The user destroys the connection.
DropConnection(p) ==
    /\ pc[p] = "started"
    /\ holder[p] = "user"
    /\ Disconnect(p)
    /\ UNCHANGED <<call, userData, event, op>>

-----------------------------------------------------------------------------
(* DOCA and the world *)

\* DOCA establishes the connection once both peers have connected.
Establish(p) ==
    /\ conn[p] = "connecting"
    /\ conn[Other(p)] \in {"connecting", "established"}
    /\ conn' = [conn EXCEPT ![p] = "established"]
    /\ event' = [event EXCEPT ![p] = "established"]
    /\ UNCHANGED <<call, userData, op, holder>>

\* The peer's end cannot be reached, or refuses.
FailConnection(p) ==
    /\ conn[p] = "connecting"
    /\ conn' = [conn EXCEPT ![p] = "failed"]
    /\ event' = [event EXCEPT ![p] = "failure"]
    /\ UNCHANGED <<call, userData, op, holder>>

\* A program ends: check_error() after a DOCA call that failed, or a kill.
ProgramEnds(p) ==
    /\ pc[p] # "idle" /\ ~Gone(p)
    /\ pc' = [pc EXCEPT ![p] = "exited"]
    /\ conn' = [conn EXCEPT ![p] = "disconnected"]
    /\ holder' = [holder EXCEPT ![p] = "nobody"]
    /\ event' = [event EXCEPT ![p] = "none"]
    /\ UNCHANGED <<sent, received, userData, op>>

-----------------------------------------------------------------------------
\* What the loop's thread cannot help doing: going on where the socket lets it,
\* and noticing that the peer's end is closed.
Handshake(p) ==
    \/ SendSome(p) \/ ReceiveSome(p) \/ Start(p)
    \/ Gone(Other(p)) /\ Throw(p)

Next == \E p \in Peers :
    \/ ExportCtx(p) \/ Handshake(p) \/ Throw(p)
    \/ OnEstablished(p) \/ OnFailure(p) \/ DestroyOp(p) \/ DropConnection(p)
    \/ Establish(p) \/ FailConnection(p) \/ ProgramEnds(p)

\* The loop's thread goes on with what it is doing.
Spec == Init /\ [][Next]_vars /\ \A p \in Peers : WF_vars(Handshake(p))

-----------------------------------------------------------------------------
(* Properties *)

TypeOK ==
    /\ pc \in [Peers -> {"idle", "send", "receive", "ready", "marked", "connected",
                       "started", "threw", "exited"}]
    /\ conn \in [Peers -> {"none", "exported", "connecting", "established",
                           "failed", "disconnected"}]
    /\ holder \in [Peers -> {"nobody", "call", "op", "user"}]
    /\ userData \in [Peers -> BOOLEAN]
    /\ event \in [Peers -> {"none", "established", "failure"}]
    /\ \A p \in Peers : /\ sent[p] \in 0 .. Length[p]
                        /\ received[p] \in 0 .. sent[Other(p)]
                        /\ Len(values[p]) <= 2

\* Whatever callback DOCA makes for a connection, the connection's user data
\* has been set: the type-erased callback never follows a wild pointer.
CallbackFindsUserData == \A p \in Peers : event[p] # "none" => userData[p]

\* On every path, exceptions included, an exported connection has exactly one
\* owner until it is disconnected, and none afterwards; and once it has been
\* delivered that owner is the user.
ConnectionOwned ==
    \A p \in Peers :
        /\ holder[p] = "nobody" <=> conn[p] \in {"none", "disconnected"}
        /\ values[p] # <<>> => holder[p] \in {"user", "nobody"}

\* If both programs call Rdma::connect, neither hangs in it, whoever is first
\* and whether or not a call throws or a program ends at any point.  The socket
\* must be able to buffer one of the descriptors, since both send before they
\* receive, and a program whose call threw must end at last: nothing in
\* Rdma::connect closes the socket its peer waits on.
EndsAfterThrow == \A p \in Peers : pc[p] = "threw" ~> pc[p] = "exited"

NoPeerHangs ==
    EndsAfterThrow =>
        \A p \in Peers : (\A q \in Peers : pc[q] # "idle") ~>
                             pc[p] \in {"started", "threw", "exited"}

\* The socket lets p go on: there is room for what it sends, or something to
\* read, or the peer's end is closed, which it will notice.
Starting(p) == pc[p] \in {"ready", "marked", "connected"}
Calling(p) == pc[p] \in {"send", "receive"} \/ Starting(p)
MayGoOn(p) ==
    \/ pc[p] = "send" /\ Buffered(Other(p)) < Capacity
    \/ pc[p] = "receive" /\ Buffered(p) > 0
    \/ pc[p] \in {"send", "receive"} /\ Gone(Other(p))
    \/ Starting(p)

\* At no moment of the exchange does each peer wait for the other: one that
\* has to wait has a peer that can go on, or that has yet to make its call, or
\* whose call threw and that holds its end of the socket open.
SetupNeverStuck ==
    \A p \in Peers : Calling(p) /\ pc[Other(p)] \notin {"idle", "threw"} =>
                         MayGoOn(p) \/ MayGoOn(Other(p))

\* What is left of p's call: units to send and to read, and start().
Left(p) ==
    CASE pc[p] \in {"idle", "send", "receive"} ->
             4 + (Length[p] - sent[p]) + (Length[Other(p)] - received[p])
      [] pc[p] = "ready" -> 3
      [] pc[p] = "marked" -> 2
      [] pc[p] = "connected" -> 1
      [] OTHER -> 0

\* Every step a peer makes inside its call brings it nearer to the end, and
\* nothing that happens, at the peer or in a callback, sets it back.
SetupAdvances ==
    [][\A p \in Peers : /\ Left(p)' <= Left(p)
                        /\ Handshake(p) \/ Throw(p) => Left(p)' < Left(p)]_vars

\* What the loopback test prints when connect's value arrives: it is connected.
ConnectedMeansEstablished ==
    \A p \in Peers :
        holder[p] = "user" => conn[p] \in {"established", "failed"}
=============================================================================
