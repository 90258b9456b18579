----------------------------- MODULE TcpSocket -----------------------------
(***************************************************************************)
(* common/tcp.hpp: tcp_socket, its length-prefixed messages, and           *)
(* tcp_server.  Two programs use it: Client owns a tcp_socket it connects, *)
(* Server a tcp_server and the tcp_socket it accepts into.  The kernel's   *)
(* side is external: connections are numbered, a file descriptor is a pair *)
(* of an end and a connection, and wire[c][e] is what the kernel holds for *)
(* end e of connection c.                                                  *)
(*                                                                         *)
(* Data is counted in units of four bytes: htonl() of a size_t is a prefix *)
(* of two units, of which the first carries the size modulo 2^32 and the   *)
(* second is zero.  The unit <<k, i>> is the i-th of the k-th message.     *)
(***************************************************************************)
EXTENDS Naturals, Sequences

CONSTANTS
    Client, Server,  \* the two ends
    NonBlocking,     \* ends whose native_handle() was made non-blocking
    PrefixUnits,     \* PrefixUnits[e]: length of the prefix end e uses
    Sizes,           \* sizes of the messages sent, in units
    MaxSize,         \* the max_size of receive_dynamic
    LenMod,          \* what a 32-bit size wraps at
    Capacity,        \* units the kernel buffers for one end
    CloseOnError,    \* TRUE: no more messages on a connection after a call threw
    MaxMessages,     \* MaxMessages[e]: messages end e sends on a connection
    MaxConnections   \* bound on the connections that are ever attempted

Ends == {Client, Server}
Other(e) == IF e = Client THEN Server ELSE Client
Conns == 1 .. MaxConnections
NoFd == 0            \* fd_ == -1
Idle == [op |-> "idle"]

ASSUME TcpAssumption ==
    /\ Client # Server
    /\ NonBlocking \subseteq Ends
    /\ PrefixUnits \in [Ends -> Nat \ {0}]
    /\ Sizes \subseteq Nat
    /\ MaxSize \in Nat /\ LenMod \in Nat \ {0} /\ Capacity \in Nat \ {0}
    /\ CloseOnError \in BOOLEAN
    /\ MaxMessages \in [Ends -> Nat]
    /\ MaxConnections \in Nat

VARIABLES
    fd,         \* fd[e]: tcp_socket::fd_, the number of its connection or NoFd
    connected,  \* connected[e]: tcp_socket::connected_
    act,        \* act[e]: the send_dynamic or receive_dynamic e is inside
    threw,      \* ends whose last call threw and that did not close or reconnect
    sent,       \* sent[c][e]: sizes of the messages e began to send on c
    got,        \* got[c][e]: the messages receive_dynamic returned at e on c
    listening,  \* tcp_server::listening_ (listen_fd_ is valid exactly then)
    backlog,    \* connections waiting to be accepted, oldest first
    open,       \* the file descriptors the kernel holds open
    overwritten,\* history: descriptors connect() overwrote on a socket that threw
    wire,       \* wire[c][e]: units on their way to end e of connection c
    attempts    \* connections attempted so far, the last one's number

objects == <<fd, connected, act, threw>>
logs == <<sent, got>>
kernel == <<open, overwritten, wire, attempts>>
server == <<listening, backlog>>
vars == <<objects, logs, server, kernel>>

PerEnd(x) == [c \in Conns |-> [e \in Ends |-> x]]

Init ==
    /\ fd = [e \in Ends |-> NoFd]
    /\ connected = [e \in Ends |-> FALSE]
    /\ act = [e \in Ends |-> Idle]
    /\ threw = {}
    /\ sent = PerEnd(<<>>)
    /\ got = PerEnd(<<>>)
    /\ listening = FALSE
    /\ backlog = <<>>
    /\ open = {}
    /\ overwritten = {}
    /\ wire = PerEnd(<<>>)
    /\ attempts = 0

\* send_dynamic or receive_dynamic may begin: the socket is connected and in no
\* other call, and a careful owner does not go on where a call threw.
MayCall(e) ==
    /\ act[e] = Idle
    /\ connected[e]
    /\ CloseOnError => e \notin threw

Throw(e, stillConnected) ==
    /\ act' = [act EXCEPT ![e] = Idle]
    /\ threw' = threw \cup {e}
    /\ connected' = [connected EXCEPT ![e] = stillConnected]

Room(e) == Capacity - Len(wire[fd[e]][Other(e)])

-----------------------------------------------------------------------------
(* Faulty variants: the code with one slip each. *)

\* accept()'s result is moved into socket without closing what it held.
AcceptKeepsOld ==
    /\ listening /\ backlog # <<>> /\ act[Server] = Idle
    /\ backlog' = Tail(backlog)
    /\ open' = open \cup {<<Server, Head(backlog)>>}
    /\ fd' = [fd EXCEPT ![Server] = Head(backlog)]
    /\ connected' = [connected EXCEPT ![Server] = TRUE]
    /\ threw' = threw \ {Server}
    /\ UNCHANGED <<act, logs, listening, overwritten, wire, attempts>>

\* send_dynamic calls send instead of send_all.
SendSomeOnce(e) ==
    LET a == act[e]
        k == Len(sent[fd[e]][e])
    IN  /\ a.op = "send"
        /\ \E n \in 1 .. Room(e) :
             /\ a.done + n <= a.part
             /\ wire' = [wire EXCEPT ![fd[e]][Other(e)] =
                            @ \o [i \in 1 .. n |-> <<k, a.done + i>>]]
             /\ act' = [act EXCEPT ![e] =
                   IF a.part = a.total THEN Idle
                   ELSE [a EXCEPT !.done = a.part, !.part = a.total]]
        /\ UNCHANGED <<fd, connected, threw, logs, server, open, overwritten, attempts>>

\* receive does not ask is_connected().
ReceiveDynamicUnchecked(e) ==
    /\ act[e] = Idle /\ e \notin threw
    /\ act' = [act EXCEPT ![e] = [op |-> "recv_prefix", buffer |-> <<>>,
                                  need |-> PrefixUnits[e]]]
    /\ UNCHANGED <<fd, connected, threw, logs, server, kernel>>

-----------------------------------------------------------------------------
(* tcp_server *)

Listen ==
    /\ ~listening
    /\ listening' = TRUE
    /\ UNCHANGED <<objects, logs, backlog, kernel>>

\* stop(): connections nobody accepted are reset by the kernel.
StopListening ==
    /\ listening
    /\ listening' = FALSE
    /\ backlog' = <<>>
    /\ UNCHANGED <<objects, logs, kernel>>

\* socket = server.accept(): the move assignment closes what socket held.
Accept ==
    LET c == Head(backlog) IN
    /\ listening
    /\ backlog # <<>>
    /\ act[Server] = Idle
    /\ backlog' = Tail(backlog)
    /\ open' = (open \ {<<Server, fd[Server]>>}) \cup {<<Server, c>>}
    /\ fd' = [fd EXCEPT ![Server] = c]
    /\ connected' = [connected EXCEPT ![Server] = TRUE]
    /\ threw' = threw \ {Server}
    /\ UNCHANGED <<act, logs, listening, overwritten, wire, attempts>>

-----------------------------------------------------------------------------
(* tcp_socket::connect and close *)

\* Only connected_ is tested: an fd_ that a failed call left open is overwritten.
BeginConnect ==
    /\ act[Client] = Idle
    /\ ~connected[Client]
    /\ attempts < MaxConnections
    /\ attempts' = attempts + 1
    /\ overwritten' = IF Client \in threw /\ fd[Client] # NoFd
                      THEN overwritten \cup {<<Client, fd[Client]>>} ELSE overwritten

Connect ==
    /\ BeginConnect
    /\ listening
    /\ open' = open \cup {<<Client, attempts + 1>>}
    /\ fd' = [fd EXCEPT ![Client] = attempts + 1]
    /\ connected' = [connected EXCEPT ![Client] = TRUE]
    /\ backlog' = Append(backlog, attempts + 1)
    /\ threw' = threw \ {Client}
    /\ UNCHANGED <<act, logs, listening, wire>>

\* The name does not resolve or nobody listens: the new descriptor is closed.
ConnectFails ==
    /\ BeginConnect
    /\ fd' = [fd EXCEPT ![Client] = NoFd]
    /\ Throw(Client, FALSE)
    /\ UNCHANGED <<logs, server, open, wire>>

\* The kernel drops what the socket has not read.
Close(e) ==
    /\ act[e] = Idle
    /\ open' = open \ {<<e, fd[e]>>}
    /\ fd' = [fd EXCEPT ![e] = NoFd]
    /\ connected' = [connected EXCEPT ![e] = connected[e] /\ fd[e] = NoFd]
    /\ threw' = threw \ {e}
    /\ wire' = [c \in Conns |->
                   IF c = fd[e] THEN [wire[c] EXCEPT ![e] = <<>>] ELSE wire[c]]
    /\ UNCHANGED <<act, logs, server, overwritten, attempts>>

-----------------------------------------------------------------------------
(* send_dynamic: send_all of the prefix, then send_all of the payload *)

SendDynamic(e, size) ==
    /\ MayCall(e)
    /\ Len(sent[fd[e]][e]) < MaxMessages[e]
    /\ sent' = [sent EXCEPT ![fd[e]][e] = Append(@, size)]
    /\ act' = [act EXCEPT ![e] = [op |-> "send", done |-> 0,
                                  part |-> PrefixUnits[e],
                                  total |-> PrefixUnits[e] + size]]
    /\ UNCHANGED <<fd, connected, threw, got, server, kernel>>

\* One ::send takes over some of what send_all still has to send.  When a
\* part is complete the next one begins, and after the last the call returns.
SendSome(e) ==
    LET a == act[e]
        c == fd[e]
        k == Len(sent[c][e])
    IN  /\ a.op = "send"
        /\ \E n \in 1 .. Room(e) :
             /\ a.done + n <= a.part
             /\ wire' = [wire EXCEPT ![c][Other(e)] =
                            @ \o [i \in 1 .. n |-> <<k, a.done + i>>]]
             /\ act' = [act EXCEPT ![e] =
                   IF a.done + n = a.total THEN Idle
                   ELSE [a EXCEPT !.done = a.done + n,
                                  !.part = IF a.done + n = a.part
                                           THEN a.total ELSE a.part]]
        /\ UNCHANGED <<fd, connected, threw, logs, server, open, overwritten, attempts>>

\* ::send returns -1: the peer is gone, the connection was reset, a signal
\* interrupted the call.
SendFails(e) ==
    /\ act[e].op = "send"
    /\ Throw(e, FALSE)
    /\ UNCHANGED <<fd, logs, server, kernel>>

\* EAGAIN: send() returns 0, send_all() throws, the socket stays connected.
SendWouldBlock(e) ==
    /\ act[e].op = "send"
    /\ e \in NonBlocking
    /\ Room(e) = 0
    /\ Throw(e, TRUE)
    /\ UNCHANGED <<fd, logs, server, kernel>>

-----------------------------------------------------------------------------
(* receive_dynamic: receive_all of the prefix, then of the payload *)

ReceiveDynamic(e) ==
    /\ MayCall(e)
    /\ act' = [act EXCEPT ![e] = [op |-> "recv_prefix", buffer |-> <<>>,
                                  need |-> PrefixUnits[e]]]
    /\ UNCHANGED <<fd, connected, threw, logs, server, kernel>>

\* The sizes the prefix that was read may stand for: what the peer encoded,
\* modulo 2^32, or anything at all if these units are not a prefix.
SizesRead(e, prefix) ==
    LET k == prefix[1][1]
    IN  IF \A i \in 1 .. Len(prefix) :
               prefix[i] = <<k, i>> /\ i <= PrefixUnits[Other(e)]
        THEN {sent[fd[e]][Other(e)][k] % LenMod}
        ELSE 0 .. MaxSize + 1

\* One ::recv delivers n units, and receive_all wants more.
ReceiveSome(e, n) ==
    LET a == act[e]
        w == wire[fd[e]][e]
        all == a.buffer \o SubSeq(w, 1, n)
    IN  /\ a.op \in {"recv_prefix", "recv_payload"}
        /\ n \in 1 .. Len(w)
        /\ Len(all) <= a.need
        /\ wire' = [wire EXCEPT ![fd[e]][e] = SubSeq(w, n + 1, Len(w))]
        /\ \/ /\ Len(all) < a.need
              /\ act' = [act EXCEPT ![e].buffer = all]
              /\ UNCHANGED <<got, threw, connected>>
           \/ /\ Len(all) = a.need /\ a.op = "recv_payload"
              /\ got' = [got EXCEPT ![fd[e]][e] = Append(@, all)]
              /\ act' = [act EXCEPT ![e] = Idle]
              /\ UNCHANGED <<threw, connected>>
           \/ /\ Len(all) = a.need /\ a.op = "recv_prefix"
              /\ \E size \in SizesRead(e, all) :
                   \/ /\ size > MaxSize
                      /\ Throw(e, connected[e])
                      /\ UNCHANGED got
                   \/ /\ size = 0
                      /\ got' = [got EXCEPT ![fd[e]][e] = Append(@, <<>>)]
                      /\ act' = [act EXCEPT ![e] = Idle]
                      /\ UNCHANGED <<threw, connected>>
                   \/ /\ size \in 1 .. MaxSize
                      /\ act' = [act EXCEPT ![e] =
                           [op |-> "recv_payload", buffer |-> <<>>, need |-> size]]
                      /\ UNCHANGED <<got, threw, connected>>
        /\ UNCHANGED <<fd, sent, server, open, overwritten, attempts>>

\* ::recv returns 0, the peer's end of stream, or -1, for any reason.
ReceiveFails(e) ==
    /\ act[e].op \in {"recv_prefix", "recv_payload"}
    /\ Throw(e, FALSE)
    /\ UNCHANGED <<fd, logs, server, kernel>>

ReceiveWouldBlock(e) ==
    /\ act[e].op \in {"recv_prefix", "recv_payload"}
    /\ e \in NonBlocking
    /\ wire[fd[e]][e] = <<>>
    /\ Throw(e, TRUE)
    /\ UNCHANGED <<fd, logs, server, kernel>>

-----------------------------------------------------------------------------
Next ==
    \/ Listen \/ StopListening \/ Accept
    \/ Connect \/ ConnectFails
    \/ \E e \in Ends :
         \/ Close(e)
         \/ \E size \in Sizes : SendDynamic(e, size)
         \/ SendSome(e) \/ SendFails(e) \/ SendWouldBlock(e)
         \/ ReceiveDynamic(e)
         \/ \E n \in 1 .. Capacity : ReceiveSome(e, n)
         \/ ReceiveFails(e) \/ ReceiveWouldBlock(e)

Spec == Init /\ [][Next]_vars

-----------------------------------------------------------------------------
(* Properties *)

TypeOK ==
    /\ fd \in [Ends -> Conns \cup {NoFd}]
    /\ connected \in [Ends -> BOOLEAN]
    /\ threw \subseteq Ends
    /\ listening \in BOOLEAN
    /\ open \subseteq Ends \X Conns /\ overwritten \subseteq Ends \X Conns
    /\ attempts \in 0 .. MaxConnections
    /\ \A e \in Ends :
         /\ act[e].op \in {"idle", "send", "recv_prefix", "recv_payload"}
         /\ act[e].op # "idle" => fd[e] # NoFd
    /\ \A c \in Conns, e \in Ends : Len(wire[c][e]) <= Capacity

\* The payload of the k-th message end e sent on connection c.
Payload(c, e, k) == [i \in 1 .. sent[c][e][k] |-> <<k, PrefixUnits[e] + i>>]

\* What receive_dynamic returns are the messages of the peer on the same
\* connection, whole, in order and none left out, however ::send and ::recv
\* split the stream, whichever calls threw and however often the two ends
\* closed and reconnected.
FramesIntact ==
    \A c \in Conns, e \in Ends :
        /\ Len(got[c][e]) <= Len(sent[c][Other(e)])
        /\ \A k \in 1 .. Len(got[c][e]) : got[c][e][k] = Payload(c, Other(e), k)

\* The descriptors the program lost are exactly those connect() overwrote on a
\* client that went on after a call had thrown, without closing: accept(), the
\* destructor, every other error path and every other order of connecting,
\* closing and reconnecting closes what it no longer refers to, and no socket
\* refers to a descriptor that is closed.
Held == {<<e, fd[e]>> : e \in {x \in Ends : fd[x] # NoFd}}

FdLeakOnlyOnReconnect ==
    /\ Held \subseteq open
    /\ open \ Held = overwritten

\* The two sockets are one message stream: what a program sees of the calls,
\* of errors, of closing and reconnecting is two ends that join new connections
\* only, and each receive_dynamic that returns hands over the next message the
\* peer began to send on the same connection, however many ::send and ::recv
\* lie in between.
Lengths(messages) == [k \in 1 .. Len(messages) |-> Len(messages[k])]

Received == [c \in Conns |-> [e \in Ends |-> Lengths(got[c][e])]]

Stream == INSTANCE MessageStream WITH
    NoConn <- NoFd, at <- fd, received <- Received

ImplementsMessageStream == Stream!Spec

\* A peer written after the comments, which describe a prefix of four bytes,
\* reads the messages of this library.
DocumentedPrefixInteroperates == FramesIntact
=============================================================================
