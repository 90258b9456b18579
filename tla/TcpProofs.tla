----------------------------- MODULE TcpProofs -----------------------------
(***************************************************************************)
(* Theorems about TcpSocket, for any sizes, prefixes, buffers and numbers  *)
(* of messages and connections: types, file descriptors, that messages     *)
(* arrive whole and in order, and that the sockets are message streams.    *)
(***************************************************************************)
EXTENDS TcpSocket, SequenceTheorems, TLAPS

Units == Nat \X Nat
Sending == [op : {"send"}, done : Nat, part : Nat, total : Nat]
Receiving == [op : {"recv_prefix", "recv_payload"}, buffer : Seq(Units), need : Nat]
Acts == {Idle} \cup Sending \cup Receiving

Types ==
    /\ fd \in [Ends -> Conns \cup {NoFd}]
    /\ connected \in [Ends -> BOOLEAN]
    /\ act \in [Ends -> Acts]
    /\ threw \subseteq Ends
    /\ sent \in [Conns -> [Ends -> Seq(Sizes)]]
    /\ got \in [Conns -> [Ends -> Seq(Seq(Units))]]
    /\ listening \in BOOLEAN
    /\ backlog \in Seq(Conns)
    /\ open \subseteq Ends \X Conns /\ overwritten \subseteq Ends \X Conns
    /\ wire \in [Conns -> [Ends -> Seq(Units)]]
    /\ attempts \in 0 .. MaxConnections

\* A call is inside a socket that has a descriptor, and the kernel's buffers
\* hold what they can hold.
Calls ==
    /\ \A e \in Ends : connected[e] \/ act[e] # Idle => fd[e] \in Conns
    /\ \A c \in Conns, e \in Ends : Len(wire[c][e]) <= Capacity

-----------------------------------------------------------------------------
(* The records of a call *)

LEMMA ActKinds ==
  \A a \in Acts :
     /\ a.op \in {"idle", "send", "recv_prefix", "recv_payload"}
     /\ a.op = "idle" <=> a = Idle
     /\ a.op = "send" <=> a \in Sending
     /\ a.op \in {"recv_prefix", "recv_payload"} <=> a \in Receiving
BY DEF Acts, Idle, Sending, Receiving

LEMMA NewActs ==
  /\ Idle \in Acts
  /\ \A d, p, t \in Nat : [op |-> "send", done |-> d, part |-> p, total |-> t] \in Sending
  /\ \A b \in Seq(Units), n \in Nat :
        /\ [op |-> "recv_prefix", buffer |-> b, need |-> n] \in Receiving
        /\ [op |-> "recv_payload", buffer |-> b, need |-> n] \in Receiving
BY DEF Acts, Sending, Receiving

LEMMA Others == \A e \in Ends : Other(e) \in Ends /\ Other(e) # e /\ Other(Other(e)) = e
BY TcpAssumption DEF Ends, Other

LEMMA Constants ==
  /\ \A e \in Ends : PrefixUnits[e] \in Nat /\ PrefixUnits[e] > 0
  /\ Capacity \in Nat /\ Capacity > 0 /\ MaxConnections \in Nat /\ NoFd \notin Conns
  /\ \A s \in Sizes : s \in Nat
BY TcpAssumption DEF NoFd, Conns

\* An act replaced in a record of a call keeps the calls typed.
LEMMA SetAct ==
  ASSUME Types, NEW e \in Ends, NEW a \in Acts, act' = [act EXCEPT ![e] = a]
  PROVE  /\ act' \in [Ends -> Acts] /\ act'[e] = a
         /\ \A x \in Ends \ {e} : act'[x] = act[x]
BY DEF Types

\* One entry of a table per connection and end.
LEMMA SetEntry ==
  ASSUME NEW S, NEW f \in [Conns -> [Ends -> S]], NEW c \in Conns, NEW e \in Ends,
         NEW x \in S
  PROVE  LET g == [f EXCEPT ![c][e] = x]
         IN  /\ g \in [Conns -> [Ends -> S]]
             /\ g[c][e] = x
             /\ \A d \in Conns, y \in Ends : d # c \/ y # e => g[d][y] = f[d][y]
OBVIOUS

LEMMA Concatenated ==
  ASSUME NEW S, NEW b \in Seq(S), NEW s \in Seq(S)
  PROVE  /\ b \o s \in Seq(S) /\ Len(b \o s) = Len(b) + Len(s)
         /\ \A i \in 1 .. Len(b) : (b \o s)[i] = b[i]
         /\ \A i \in 1 .. Len(s) : (b \o s)[Len(b) + i] = s[i]
OBVIOUS

LEMMA Split ==
  ASSUME NEW S, NEW w \in Seq(S), NEW n \in 1 .. Len(w)
  PROVE  /\ SubSeq(w, 1, n) \in Seq(S) /\ Len(SubSeq(w, 1, n)) = n
         /\ \A i \in 1 .. n : SubSeq(w, 1, n)[i] = w[i]
         /\ SubSeq(w, n + 1, Len(w)) \in Seq(S)
         /\ Len(SubSeq(w, n + 1, Len(w))) = Len(w) - n
         /\ \A i \in 1 .. Len(w) - n : SubSeq(w, n + 1, Len(w))[i] = w[n + i]
<1>1. Len(w) \in Nat /\ n \in Nat /\ n <= Len(w) /\ \A i \in 1 .. Len(w) : w[i] \in S
  OBVIOUS
<1>2. /\ SubSeq(w, 1, n) \in Seq(S) /\ Len(SubSeq(w, 1, n)) = n
      /\ \A i \in 1 .. n : SubSeq(w, 1, n)[i] = w[i]
  BY <1>1
<1>3. SubSeq(w, n + 1, Len(w)) = [i \in 1 .. Len(w) - n |-> w[n + i]]
  BY <1>1
<1> QED BY <1>1, <1>2, <1>3

\* What n units of a message are, and a wire they were appended to.
LEMMA Appended ==
  ASSUME NEW w \in Seq(Units), NEW n \in Nat, NEW k \in Nat, NEW d \in Nat
  PROVE  LET new == [i \in 1 .. n |-> <<k, d + i>>]
         IN  /\ w \o new \in Seq(Units)
             /\ Len(w \o new) = Len(w) + n
             /\ \A i \in 1 .. Len(w) : (w \o new)[i] = w[i]
             /\ \A i \in 1 .. n : (w \o new)[Len(w) + i] = <<k, d + i>>
<1> DEFINE new == [i \in 1 .. n |-> <<k, d + i>>]
<1>1. new \in Seq(Units) /\ Len(new) = n
  BY DEF Units
<1>2. \A i \in 1 .. n : new[i] = <<k, d + i>>
  OBVIOUS
<1> HIDE DEF new
<1>3. /\ w \o new \in Seq(Units) /\ Len(w \o new) = Len(w) + n
      /\ \A i \in 1 .. Len(w) : (w \o new)[i] = w[i]
      /\ \A i \in 1 .. n : (w \o new)[Len(w) + i] = new[i]
  BY <1>1
<1> QED BY <1>2, <1>3 DEF new

-----------------------------------------------------------------------------
(* Types and calls through every step *)

LEMMA EmptySequences ==
  /\ Len(<<>>) = 0 /\ <<>> \in Seq(Conns)
  /\ <<>> \in Seq(Sizes) /\ <<>> \in Seq(Units) /\ <<>> \in Seq(Seq(Units))
OBVIOUS

LEMMA InitTypes == ASSUME Init PROVE Types /\ Calls
<1>1. \A c \in Conns, e \in Ends : wire[c][e] = <<>>
  BY DEF Init, PerEnd
<1>2. \A c \in Conns, e \in Ends : Len(wire[c][e]) <= Capacity
  BY <1>1, Constants, EmptySequences
<1>3. Types
  <2>1. /\ sent \in [Conns -> [Ends -> Seq(Sizes)]]
        /\ got \in [Conns -> [Ends -> Seq(Seq(Units))]]
        /\ wire \in [Conns -> [Ends -> Seq(Units)]]
    BY EmptySequences DEF Init, PerEnd
  <2>2. attempts \in 0 .. MaxConnections
    BY Constants DEF Init
  <2> QED BY <2>1, <2>2, NewActs, EmptySequences DEF Init, Types
<1>4. Calls
  BY <1>2 DEF Init, Calls
<1> QED BY <1>3, <1>4

LEMMA Stutter == ASSUME Types, Calls, UNCHANGED vars PROVE Types' /\ Calls'
<1>1. UNCHANGED <<fd, connected, act, threw, sent, got, listening, backlog, open, overwritten,
                  wire, attempts>>
  BY DEF vars, objects, logs, kernel, server
<1> QED BY <1>1 DEF Types, Calls

LEMMA ThrowTypes ==
  ASSUME Types, Calls, NEW e \in Ends, NEW b \in BOOLEAN, Throw(e, b),
         b => fd'[e] \in Conns,
         fd' \in [Ends -> Conns \cup {NoFd}], \A x \in Ends \ {e} : fd'[x] = fd[x]
  PROVE  /\ act' \in [Ends -> Acts] /\ connected' \in [Ends -> BOOLEAN]
         /\ threw' \subseteq Ends
         /\ \A x \in Ends : connected'[x] \/ act'[x] # Idle => fd'[x] \in Conns
<1>1. /\ act' \in [Ends -> Acts] /\ act'[e] = Idle
      /\ \A x \in Ends \ {e} : act'[x] = act[x]
  BY NewActs, SetAct DEF Throw
<1>2. /\ connected' \in [Ends -> BOOLEAN] /\ connected'[e] = b
      /\ \A x \in Ends \ {e} : connected'[x] = connected[x]
  BY DEF Throw, Types
<1> QED BY <1>1, <1>2 DEF Throw, Types, Calls

LEMMA ServerTypes ==
  ASSUME Types, Calls, Listen \/ StopListening \/ Accept
  PROVE  Types' /\ Calls'
<1>1. CASE Listen \/ StopListening
  <2>1. /\ UNCHANGED <<fd, connected, act, threw, sent, got, open, overwritten, wire, attempts>>
        /\ listening' \in BOOLEAN /\ (backlog' = backlog \/ backlog' = <<>>)
    BY <1>1 DEF Listen, StopListening, objects, logs, kernel
  <2>2. backlog' \in Seq(Conns)
    BY <2>1, EmptySequences DEF Types
  <2>3. Types'
    BY <2>1, <2>2 DEF Types
  <2>4. Calls'
    BY <2>1 DEF Calls
  <2> QED BY <2>3, <2>4
<1>2. CASE Accept
  <2> DEFINE c == Head(backlog)
  <2>1. c \in Conns /\ Tail(backlog) \in Seq(Conns) /\ Server \in Ends
    BY <1>2 DEF Accept, Types, Ends
  <2>2. /\ fd' = [fd EXCEPT ![Server] = c] /\ connected' = [connected EXCEPT ![Server] = TRUE]
        /\ backlog' = Tail(backlog) /\ threw' \subseteq threw
        /\ open' \subseteq open \cup {<<Server, c>>}
        /\ UNCHANGED <<act, sent, got, listening, overwritten, wire, attempts>>
    BY <1>2 DEF Accept, logs
  <2> HIDE DEF c
  <2>3. Types'
    BY <2>1, <2>2 DEF Types
  <2>4. Calls'
    BY <2>1, <2>2 DEF Types, Calls
  <2> QED BY <2>3, <2>4
<1> QED BY <1>1, <1>2

LEMMA ClientTypes ==
  ASSUME Types, Calls, Connect \/ ConnectFails
  PROVE  Types' /\ Calls'
<1>1. /\ Client \in Ends /\ attempts' = attempts + 1 /\ attempts' \in 0 .. MaxConnections
      /\ attempts + 1 \in Conns /\ overwritten' \subseteq Ends \X Conns
  <2>1. /\ Client \in Ends /\ attempts' = attempts + 1 /\ attempts < MaxConnections
        /\ \/ overwritten' = overwritten
           \/ /\ fd[Client] # NoFd
              /\ overwritten' = overwritten \cup {<<Client, fd[Client]>>}
    BY DEF Connect, ConnectFails, BeginConnect, Ends
  <2>2. attempts \in Nat /\ MaxConnections \in Nat
    BY Constants DEF Types
  <2>3. overwritten' \subseteq Ends \X Conns
    BY <2>1 DEF Types
  <2> QED BY <2>1, <2>2, <2>3 DEF Conns
<1>2. CASE Connect
  <2>1. /\ fd' = [fd EXCEPT ![Client] = attempts + 1]
        /\ connected' = [connected EXCEPT ![Client] = TRUE]
        /\ backlog' = Append(backlog, attempts + 1)
        /\ open' = open \cup {<<Client, attempts + 1>>}
        /\ threw' \subseteq threw /\ UNCHANGED <<act, sent, got, listening, wire>>
    BY <1>2 DEF Connect, logs
  <2>2. backlog' \in Seq(Conns)
    BY <1>1, <2>1 DEF Types
  <2>3. Types'
    BY <1>1, <2>1, <2>2 DEF Types
  <2>4. Calls'
    BY <1>1, <2>1 DEF Types, Calls
  <2> QED BY <2>3, <2>4
<1>3. CASE ConnectFails
  <2>1. /\ fd' = [fd EXCEPT ![Client] = NoFd] /\ Throw(Client, FALSE)
        /\ UNCHANGED <<sent, got, listening, backlog, open, wire>>
    BY <1>3 DEF ConnectFails, logs, server
  <2>2. fd' \in [Ends -> Conns \cup {NoFd}] /\ \A x \in Ends \ {Client} : fd'[x] = fd[x]
    BY <2>1 DEF Types
  <2>3. /\ act' \in [Ends -> Acts] /\ connected' \in [Ends -> BOOLEAN]
        /\ threw' \subseteq Ends
        /\ \A x \in Ends : connected'[x] \/ act'[x] # Idle => fd'[x] \in Conns
    BY <1>1, <2>1, <2>2, ThrowTypes
  <2> QED BY <1>1, <2>1, <2>2, <2>3 DEF Types, Calls
<1> QED BY <1>2, <1>3

LEMMA CloseTypes == ASSUME Types, Calls, NEW e \in Ends, Close(e) PROVE Types' /\ Calls'
<1>1. /\ act[e] = Idle /\ open' \subseteq open /\ fd' = [fd EXCEPT ![e] = NoFd]
      /\ connected' = [connected EXCEPT ![e] = connected[e] /\ fd[e] = NoFd]
      /\ threw' \subseteq threw
      /\ UNCHANGED <<act, sent, got, listening, backlog, overwritten, attempts>>
  BY DEF Close, logs, server
<1>2. connected[e] => fd[e] # NoFd
  BY Constants DEF Calls
<1>3. connected' \in [Ends -> BOOLEAN] /\ ~connected'[e]
      /\ \A x \in Ends \ {e} : connected'[x] = connected[x]
  BY <1>1, <1>2 DEF Types
<1>4. wire' = [c \in Conns |-> IF c = fd[e] THEN [wire[c] EXCEPT ![e] = <<>>] ELSE wire[c]]
  BY DEF Close
<1>5. /\ wire' \in [Conns -> [Ends -> Seq(Units)]]
      /\ \A c \in Conns, x \in Ends : wire'[c][x] = wire[c][x] \/ wire'[c][x] = <<>>
  BY <1>4 DEF Types
<1>6. Types'
  BY <1>1, <1>3, <1>5 DEF Types
<1>7. Calls'
  <2>1. \A x \in Ends : connected'[x] \/ act'[x] # Idle => fd'[x] \in Conns
    BY <1>1, <1>3 DEF Types, Calls
  <2>2. ASSUME NEW c \in Conns, NEW x \in Ends PROVE Len(wire'[c][x]) <= Capacity
    <3>1. Len(wire[c][x]) <= Capacity
      BY DEF Calls
    <3>2. 0 <= Capacity
      BY Constants
    <3>3. Len(<<>>) = 0
      OBVIOUS
    <3>4. wire'[c][x] = wire[c][x] \/ wire'[c][x] = <<>>
      BY <1>5
    <3>5. CASE wire'[c][x] = wire[c][x]
      BY <3>1, <3>5
    <3>6. CASE wire'[c][x] = <<>>
      BY <3>2, <3>3, <3>6
    <3> QED BY <3>4, <3>5, <3>6
  <2> QED BY <2>1, <2>2 DEF Calls
<1> QED BY <1>6, <1>7

LEMMA BeginTypes ==
  ASSUME Types, Calls, NEW e \in Ends,
         ReceiveDynamic(e) \/ \E size \in Sizes : SendDynamic(e, size)
  PROVE  Types' /\ Calls'
<1>1. /\ fd[e] \in Conns
      /\ UNCHANGED <<fd, connected, threw, got, listening, backlog, open, overwritten, wire,
                     attempts>>
  BY DEF ReceiveDynamic, SendDynamic, MayCall, Calls, logs, server, kernel
<1>2. act' \in [Ends -> Acts] /\ \A x \in Ends \ {e} : act'[x] = act[x]
  <2>1. CASE ReceiveDynamic(e)
    <3>1. [op |-> "recv_prefix", buffer |-> <<>>, need |-> PrefixUnits[e]] \in Acts
      BY NewActs, Constants, EmptySequences DEF Acts
    <3> QED BY <2>1, <3>1, SetAct DEF ReceiveDynamic
  <2>2. ASSUME NEW size \in Sizes, SendDynamic(e, size)
        PROVE  act' \in [Ends -> Acts] /\ \A x \in Ends \ {e} : act'[x] = act[x]
    <3>1. [op |-> "send", done |-> 0, part |-> PrefixUnits[e],
           total |-> PrefixUnits[e] + size] \in Acts
      <4>1. 0 \in Nat /\ PrefixUnits[e] \in Nat /\ PrefixUnits[e] + size \in Nat
        BY Constants
      <4> QED BY NewActs, <4>1 DEF Acts
    <3> QED BY <2>2, <3>1, SetAct DEF SendDynamic
  <2> QED BY <2>1, <2>2
<1>3. sent' \in [Conns -> [Ends -> Seq(Sizes)]]
  <2>1. CASE sent' = sent
    BY <2>1 DEF Types
  <2>2. ASSUME NEW size \in Sizes, sent' = [sent EXCEPT ![fd[e]][e] = Append(@, size)]
        PROVE  sent' \in [Conns -> [Ends -> Seq(Sizes)]]
    <3>1. Append(sent[fd[e]][e], size) \in Seq(Sizes)
      BY <1>1 DEF Types
    <3> QED BY <1>1, <2>2, <3>1, SetEntry DEF Types
  <2> QED BY <2>1, <2>2 DEF ReceiveDynamic, SendDynamic, logs
<1>4. Types'
  BY <1>1, <1>2, <1>3 DEF Types
<1>5. Calls'
  BY <1>1, <1>2 DEF Calls
<1> QED BY <1>4, <1>5

LEMMA FailTypes ==
  ASSUME Types, Calls, NEW e \in Ends,
         SendFails(e) \/ SendWouldBlock(e) \/ ReceiveFails(e) \/ ReceiveWouldBlock(e)
  PROVE  Types' /\ Calls'
<1>1. /\ act[e].op \in {"send", "recv_prefix", "recv_payload"}
      /\ Throw(e, TRUE) \/ Throw(e, FALSE)
      /\ UNCHANGED <<fd, sent, got, listening, backlog, open, overwritten, wire, attempts>>
  BY DEF SendFails, SendWouldBlock, ReceiveFails, ReceiveWouldBlock, logs, server, kernel
<1>2. fd[e] \in Conns
  BY <1>1 DEF Calls, Idle
<1>3. /\ act' \in [Ends -> Acts] /\ connected' \in [Ends -> BOOLEAN]
      /\ threw' \subseteq Ends
      /\ \A x \in Ends : connected'[x] \/ act'[x] # Idle => fd'[x] \in Conns
  BY <1>1, <1>2, ThrowTypes DEF Types
<1> QED BY <1>1, <1>3 DEF Types, Calls

LEMMA SetWire ==
  ASSUME Types, NEW c \in Conns, NEW x \in Ends, NEW v \in Seq(Units),
         wire' = [wire EXCEPT ![c][x] = v]
  PROVE  /\ wire' \in [Conns -> [Ends -> Seq(Units)]] /\ wire'[c][x] = v
         /\ \A d \in Conns, y \in Ends : d # c \/ y # x => wire'[d][y] = wire[d][y]
BY DEF Types

\* What SendSome(e) does to the wire: n units more, and their message.
LEMMA WireGrows ==
  ASSUME Types, Calls, NEW e \in Ends, NEW n \in 1 .. Room(e), act[e].op = "send",
         wire' = [wire EXCEPT ![fd[e]][Other(e)] =
                     @ \o [i \in 1 .. n |-> <<Len(sent[fd[e]][e]), act[e].done + i>>]]
  PROVE  LET c == fd[e]
             w == wire[c][Other(e)]
             v == wire'[c][Other(e)]
         IN  /\ wire' \in [Conns -> [Ends -> Seq(Units)]]
             /\ \A d \in Conns, x \in Ends : d # c \/ x # Other(e) => wire'[d][x] = wire[d][x]
             /\ Len(v) = Len(w) + n /\ Len(v) <= Capacity
             /\ \A i \in 1 .. Len(w) : v[i] = w[i]
             /\ \A i \in 1 .. n : v[Len(w) + i] = <<Len(sent[c][e]), act[e].done + i>>
<1> DEFINE c == fd[e]
           w == wire[c][Other(e)]
           k == Len(sent[c][e])
           d == act[e].done
           v == w \o [i \in 1 .. n |-> <<k, d + i>>]
<1>1. act[e] \in Sending /\ act[e] # Idle
  BY ActKinds DEF Types, Idle
<1>2. c \in Conns /\ Other(e) \in Ends
  BY <1>1, Others DEF Calls
<1>3. w \in Seq(Units) /\ k \in Nat /\ d \in Nat
  BY <1>1, <1>2 DEF Types, Sending
<1>4. n \in Nat /\ Len(w) + n <= Capacity
  BY <1>3, Constants DEF Room
<1>5. wire' = [wire EXCEPT ![c][Other(e)] = v] /\ wire \in [Conns -> [Ends -> Seq(Units)]]
  BY DEF Types
<1> HIDE DEF w, k, d
<1>6. /\ v \in Seq(Units) /\ Len(v) = Len(w) + n
      /\ \A i \in 1 .. Len(w) : v[i] = w[i]
      /\ \A i \in 1 .. n : v[Len(w) + i] = <<k, d + i>>
  BY <1>3, <1>4, Appended
<1> HIDE DEF v
<1>7. /\ wire' \in [Conns -> [Ends -> Seq(Units)]] /\ wire'[c][Other(e)] = v
      /\ \A f \in Conns, x \in Ends : f # c \/ x # Other(e) => wire'[f][x] = wire[f][x]
  <2>1. v \in Seq(Units)
    BY <1>6
  <2> QED BY <1>2, <1>5, <2>1, SetWire
<1> QED BY <1>4, <1>6, <1>7 DEF w, k, d

LEMMA SendSomeTypes == ASSUME Types, Calls, NEW e \in Ends, SendSome(e) PROVE Types' /\ Calls'
<1>1. PICK n \in 1 .. Room(e) :
        /\ act[e].done + n <= act[e].part
        /\ wire' = [wire EXCEPT ![fd[e]][Other(e)] =
                       @ \o [i \in 1 .. n |-> <<Len(sent[fd[e]][e]), act[e].done + i>>]]
        /\ act' = [act EXCEPT ![e] =
             IF act[e].done + n = act[e].total THEN Idle
             ELSE [act[e] EXCEPT !.done = act[e].done + n,
                                 !.part = IF act[e].done + n = act[e].part
                                          THEN act[e].total ELSE act[e].part]]
  BY DEF SendSome
<1>2. /\ act[e].op = "send" /\ act[e] \in Sending /\ act[e] # Idle
      /\ UNCHANGED <<fd, connected, threw, sent, got, listening, backlog, open, overwritten, attempts>>
  BY ActKinds DEF SendSome, logs, server, Types, Idle
<1>3. /\ wire' \in [Conns -> [Ends -> Seq(Units)]]
      /\ \A c \in Conns, x \in Ends : Len(wire'[c][x]) <= Capacity
  BY <1>1, <1>2, WireGrows DEF Calls
<1>4. fd[e] \in Conns
  BY <1>2 DEF Calls
<1>5. act' \in [Ends -> Acts] /\ \A x \in Ends \ {e} : act'[x] = act[x]
  <2>1. act[e].done + n \in Nat
    BY <1>1, <1>2, <1>4, Constants DEF Sending
  <2>2. (IF act[e].done + n = act[e].total THEN Idle
         ELSE [act[e] EXCEPT !.done = act[e].done + n,
                             !.part = IF act[e].done + n = act[e].part
                                      THEN act[e].total ELSE act[e].part]) \in Acts
    BY <1>2, <2>1 DEF Sending, Acts
  <2> QED BY <1>1, <2>2, SetAct
<1>6. Types'
  BY <1>2, <1>3, <1>5 DEF Types
<1>7. Calls'
  BY <1>2, <1>3, <1>4, <1>5 DEF Calls
<1> QED BY <1>6, <1>7

\* What ReceiveSome(e, n) reads.
LEMMA Reads ==
  ASSUME Types, Calls, NEW e \in Ends, NEW n \in Nat, ReceiveSome(e, n)
  PROVE  LET c == fd[e]
             w == wire[c][e]
             all == act[e].buffer \o SubSeq(w, 1, n)
         IN  /\ c \in Conns /\ act[e] \in Receiving /\ act[e] # Idle
             /\ w \in Seq(Units) /\ n \in 1 .. Len(w)
             /\ all \in Seq(Units) /\ Len(all) = Len(act[e].buffer) + n
             /\ \A i \in 1 .. Len(act[e].buffer) : all[i] = act[e].buffer[i]
             /\ \A i \in 1 .. n : all[Len(act[e].buffer) + i] = w[i]
             /\ wire' \in [Conns -> [Ends -> Seq(Units)]]
             /\ \A d \in Conns, x \in Ends : d # c \/ x # e => wire'[d][x] = wire[d][x]
             /\ Len(wire'[c][e]) = Len(w) - n
             /\ \A i \in 1 .. Len(w) - n : wire'[c][e][i] = w[n + i]
<1> DEFINE c == fd[e]
           w == wire[c][e]
           b == act[e].buffer
           v == SubSeq(w, n + 1, Len(w))
<1>1. /\ act[e].op \in {"recv_prefix", "recv_payload"} /\ n \in 1 .. Len(w)
      /\ wire' = [wire EXCEPT ![c][e] = v]
  BY DEF ReceiveSome
<1>2. act[e] \in Receiving /\ act[e] # Idle
  BY <1>1, ActKinds DEF Types, Idle
<1>3. c \in Conns /\ b \in Seq(Units)
  BY <1>2 DEF Calls, Receiving
<1>4. w \in Seq(Units)
  BY <1>3 DEF Types
<1> HIDE DEF w, b
<1>5. /\ v \in Seq(Units) /\ Len(v) = Len(w) - n
      /\ \A i \in 1 .. Len(w) - n : v[i] = w[n + i]
  BY <1>1, <1>4, Split
<1>6. /\ SubSeq(w, 1, n) \in Seq(Units) /\ Len(SubSeq(w, 1, n)) = n
      /\ \A i \in 1 .. n : SubSeq(w, 1, n)[i] = w[i]
  BY <1>1, <1>4, Split
<1>7. /\ b \o SubSeq(w, 1, n) \in Seq(Units)
      /\ Len(b \o SubSeq(w, 1, n)) = Len(b) + n
      /\ \A i \in 1 .. Len(b) : (b \o SubSeq(w, 1, n))[i] = b[i]
      /\ \A i \in 1 .. n : (b \o SubSeq(w, 1, n))[Len(b) + i] = w[i]
  BY <1>3, <1>6, Concatenated
<1> HIDE DEF v
<1>8. /\ wire' \in [Conns -> [Ends -> Seq(Units)]] /\ wire'[c][e] = v
      /\ \A d \in Conns, x \in Ends : d # c \/ x # e => wire'[d][x] = wire[d][x]
  BY <1>1, <1>3, <1>5, SetEntry DEF Types
<1> QED BY <1>1, <1>2, <1>3, <1>4, <1>5, <1>7, <1>8 DEF w, b

\* The ways ReceiveSome(e, n) ends.
Incomplete(e, all) ==
    /\ Len(all) < act[e].need
    /\ act' = [act EXCEPT ![e].buffer = all]
    /\ UNCHANGED <<got, threw, connected>>
Returned(e, message) ==
    /\ got' = [got EXCEPT ![fd[e]][e] = Append(@, message)]
    /\ act' = [act EXCEPT ![e] = Idle]
    /\ UNCHANGED <<threw, connected>>
Expecting(e, size) ==
    /\ size \in 1 .. MaxSize
    /\ act' = [act EXCEPT ![e] = [op |-> "recv_payload", buffer |-> <<>>, need |-> size]]
    /\ UNCHANGED <<got, threw, connected>>

LEMMA ReceiveOutcomes ==
  ASSUME NEW e, NEW n, ReceiveSome(e, n)
  PROVE  LET all == act[e].buffer \o SubSeq(wire[fd[e]][e], 1, n)
         IN  /\ Len(all) <= act[e].need
             /\ UNCHANGED <<fd, sent, listening, backlog, open, overwritten, attempts>>
             /\ \/ Incomplete(e, all)
                \/ Len(all) = act[e].need /\ act[e].op = "recv_payload" /\ Returned(e, all)
                \/ /\ Len(all) = act[e].need /\ act[e].op = "recv_prefix"
                   /\ \/ Throw(e, connected[e]) /\ UNCHANGED got
                      \/ \E size \in SizesRead(e, all) :
                           \/ size = 0 /\ Returned(e, <<>>)
                           \/ Expecting(e, size)
BY DEF ReceiveSome, Incomplete, Returned, Expecting, server

LEMMA ReceiveSomeTypes ==
  ASSUME Types, Calls, NEW e \in Ends, NEW n \in Nat, ReceiveSome(e, n)
  PROVE  Types' /\ Calls'
<1> DEFINE c == fd[e]
           all == act[e].buffer \o SubSeq(wire[c][e], 1, n)
<1>1. /\ c \in Conns /\ act[e] \in Receiving /\ act[e] # Idle /\ all \in Seq(Units)
      /\ wire' \in [Conns -> [Ends -> Seq(Units)]]
      /\ \A d \in Conns, x \in Ends : d # c \/ x # e => wire'[d][x] = wire[d][x]
      /\ Len(wire'[c][e]) = Len(wire[c][e]) - n /\ wire[c][e] \in Seq(Units)
  BY Reads
<1>2. UNCHANGED <<fd, sent, listening, backlog, open, overwritten, attempts>>
  BY ReceiveOutcomes
<1> HIDE DEF all
<1>3. \A d \in Conns, x \in Ends : Len(wire'[d][x]) <= Capacity
  <2>1. Len(wire[c][e]) \in Nat /\ Len(wire[c][e]) <= Capacity
    BY <1>1 DEF Calls
  <2>2. Len(wire'[c][e]) <= Capacity
    BY <1>1, <2>1, Constants
  <2> QED BY <1>1, <2>2 DEF Calls
<1>4. ASSUME NEW a \in Acts, act' = [act EXCEPT ![e] = a], UNCHANGED <<threw, connected>>,
             got' \in [Conns -> [Ends -> Seq(Seq(Units))]]
      PROVE  Types' /\ Calls'
  <2>1. act' \in [Ends -> Acts] /\ \A x \in Ends \ {e} : act'[x] = act[x]
    BY <1>4, SetAct
  <2>2. Types'
    BY <1>1, <1>2, <1>4, <2>1 DEF Types
  <2>3. Calls'
    BY <1>1, <1>2, <1>3, <1>4, <2>1 DEF Calls
  <2> QED BY <2>2, <2>3
<1>5. CASE Incomplete(e, all)
  <2>1. [act[e] EXCEPT !.buffer = all] \in Acts
    BY <1>1 DEF Receiving, Acts
  <2> QED BY <1>4, <1>5, <2>1 DEF Incomplete, Types
<1>6. ASSUME NEW m \in Seq(Units), Returned(e, m) PROVE Types' /\ Calls'
  <2>1. Append(got[c][e], m) \in Seq(Seq(Units))
    BY <1>1 DEF Types
  <2>2. got' \in [Conns -> [Ends -> Seq(Seq(Units))]]
    BY <1>1, <1>6, <2>1, SetEntry DEF Returned, Types
  <2> QED BY <1>4, <1>6, <2>2, NewActs DEF Returned
<1>7. CASE Throw(e, connected[e]) /\ UNCHANGED got
  <2>1. /\ act' \in [Ends -> Acts] /\ connected' \in [Ends -> BOOLEAN] /\ threw' \subseteq Ends
        /\ \A x \in Ends : connected'[x] \/ act'[x] # Idle => fd'[x] \in Conns
    BY <1>1, <1>2, <1>7, ThrowTypes DEF Types
  <2> QED BY <1>1, <1>2, <1>3, <1>7, <2>1 DEF Types, Calls
<1>8. ASSUME NEW size, Expecting(e, size) PROVE Types' /\ Calls'
  <2>1. [op |-> "recv_payload", buffer |-> <<>>, need |-> size] \in Acts
    <3>1. size \in Nat
      BY <1>8 DEF Expecting
    <3> QED BY <3>1, NewActs, EmptySequences DEF Acts
  <2> QED BY <1>4, <1>8, <2>1 DEF Expecting, Types
<1>9. \/ Incomplete(e, all) \/ Returned(e, all) \/ Returned(e, <<>>)
      \/ Throw(e, connected[e]) /\ UNCHANGED got
      \/ \E size : Expecting(e, size)
  BY ReceiveOutcomes DEF all
<1> QED BY <1>1, <1>5, <1>6, <1>7, <1>8, <1>9, EmptySequences

LEMMA TypesNext == Types /\ Calls /\ [Next]_vars => Types' /\ Calls'
<1> SUFFICES ASSUME Types, Calls, [Next]_vars PROVE Types' /\ Calls'
  OBVIOUS
<1>1. ASSUME NEW e \in Ends,
             \/ SendFails(e) \/ SendWouldBlock(e) \/ ReceiveFails(e) \/ ReceiveWouldBlock(e)
             \/ ReceiveDynamic(e) \/ \E size \in Sizes : SendDynamic(e, size)
             \/ Close(e)
      PROVE  Types' /\ Calls'
  BY <1>1, FailTypes, BeginTypes, CloseTypes
<1>2. ASSUME NEW e \in Ends, SendSome(e) \/ \E n \in 1 .. Capacity : ReceiveSome(e, n)
      PROVE  Types' /\ Calls'
  BY <1>2, SendSomeTypes, ReceiveSomeTypes, Constants
<1> QED BY <1>1, <1>2, Stutter, ServerTypes, ClientTypes DEF Next

(* Every operation of tcp_socket and tcp_server keeps the types: a call in    *)
(* progress has a file descriptor, and no wire holds more than the kernel     *)
(* buffers.                                                                   *)
THEOREM TypeCorrect == Spec => []TypeOK
<1>1. Types /\ Calls => TypeOK
  BY ActKinds, Constants DEF Types, Calls, TypeOK, NoFd
<1> QED BY <1>1, InitTypes, TypesNext, PTL DEF Spec

-----------------------------------------------------------------------------
(* File descriptors *)

\* A descriptor is open while its socket refers to it, and for ever once
\* connect() has overwritten it, which happens only to connections of the past;
\* and a socket that is not connected but has a descriptor has thrown.
Descriptors ==
    /\ \A e \in Ends, c \in Conns :
          <<e, c>> \in open <=> fd[e] = c \/ <<e, c>> \in overwritten
    /\ \A e \in Ends, c \in Conns :
          <<e, c>> \in overwritten => e = Client /\ fd[e] # c /\ c <= attempts
    /\ \A e \in Ends : fd[e] # NoFd /\ ~connected[e] => e \in threw
    /\ fd[Client] <= attempts

\* A step that opens and closes nothing.
LEMMA DescriptorsStay ==
  ASSUME Types, Descriptors, UNCHANGED <<fd, open, overwritten, attempts>>,
         \A e \in Ends : /\ connected[e] /\ ~connected'[e] => e \in threw'
                         /\ e \in threw => e \in threw'
  PROVE  Descriptors'
BY DEF Types, Descriptors

LEMMA ThrowDescriptors ==
  ASSUME Types, Descriptors, NEW e \in Ends, NEW b, Throw(e, b),
         UNCHANGED <<fd, open, overwritten, attempts>>
  PROVE  Descriptors'
<1>1. /\ threw' = threw \cup {e}
      /\ \A x \in Ends \ {e} : connected'[x] = connected[x]
  BY DEF Throw, Types
<1> QED BY <1>1, DescriptorsStay

\* connect() leaves what the socket had open behind, if a call threw there.
LEMMA ConnectDescriptors ==
  ASSUME Types, Descriptors, Connect \/ ConnectFails
  PROVE  Descriptors'
<1> DEFINE old == fd[Client]
           new == fd'[Client]
<1>1. /\ Client \in Ends /\ Server \in Ends /\ Client # Server /\ Ends = {Client, Server}
      /\ ~connected[Client] /\ attempts < MaxConnections /\ attempts' = attempts + 1
      /\ old # NoFd => Client \in threw
      /\ overwritten' = IF Client \in threw /\ old # NoFd
                        THEN overwritten \cup {<<Client, old>>} ELSE overwritten
  BY TcpAssumption DEF Connect, ConnectFails, BeginConnect, Ends, Descriptors
<1>2. /\ attempts \in Nat /\ MaxConnections \in Nat /\ NoFd \notin Conns
      /\ old \in Conns \cup {NoFd} /\ NoFd = 0 /\ \A c \in Conns : c \in Nat
  BY <1>1, Constants DEF Types, Conns, NoFd
<1>3. attempts + 1 \in Conns
  BY <1>1, <1>2 DEF Conns
<1>4. /\ new = attempts + 1 \/ new = NoFd
      /\ fd'[Server] = fd[Server]
      /\ open' = IF new = NoFd THEN open ELSE open \cup {<<Client, new>>}
      /\ new # NoFd => connected'[Client] = TRUE
      /\ connected'[Server] = connected[Server]
      /\ Server \in threw => Server \in threw'
  <2>1. CASE Connect
    <3>1. /\ fd' = [fd EXCEPT ![Client] = attempts + 1]
          /\ open' = open \cup {<<Client, attempts + 1>>}
          /\ connected' = [connected EXCEPT ![Client] = TRUE]
          /\ threw' = threw \ {Client}
      BY <2>1 DEF Connect
    <3>2. new = attempts + 1 /\ attempts + 1 # NoFd
      BY <1>1, <1>2, <1>3, <3>1 DEF Types
    <3> QED BY <1>1, <3>1, <3>2 DEF Types
  <2>2. CASE ConnectFails
    <3>1. /\ fd' = [fd EXCEPT ![Client] = NoFd] /\ open' = open
          /\ connected' = [connected EXCEPT ![Client] = FALSE]
          /\ threw' = threw \cup {Client}
      BY <2>2 DEF ConnectFails, Throw
    <3> QED BY <1>1, <3>1 DEF Types
  <2> QED BY <2>1, <2>2
<1>5. overwritten' = IF old # NoFd THEN overwritten \cup {<<Client, old>>} ELSE overwritten
  BY <1>1
<1> HIDE DEF new, old
<1>6. old = fd[Client] /\ new = fd'[Client]
  BY DEF new, old
<1>7. old <= attempts /\ old # attempts + 1
  BY <1>2, <1>6 DEF Descriptors, Conns
<1>8. ASSUME NEW c \in Conns PROVE <<Server, c>> \notin overwritten'
  BY <1>1, <1>5, <1>8 DEF Descriptors
<1>9. ASSUME NEW c \in Conns
      PROVE  /\ <<Client, c>> \in overwritten' <=> c = old \/ <<Client, c>> \in overwritten
             /\ <<Client, c>> \in open' <=> c = new \/ <<Client, c>> \in open
             /\ <<Server, c>> \in open' <=> <<Server, c>> \in open
  BY <1>1, <1>2, <1>4, <1>5
<1>10. ASSUME NEW e \in Ends, NEW c \in Conns
       PROVE  <<e, c>> \in open' <=> fd'[e] = c \/ <<e, c>> \in overwritten'
  <2>1. CASE e = Client
    BY <1>1, <1>6, <1>9, <2>1 DEF Descriptors
  <2>2. CASE e = Server
    <3>1. <<Server, c>> \notin overwritten
      BY <1>1 DEF Descriptors
    <3> QED BY <1>1, <1>4, <1>8, <1>9, <2>2, <3>1 DEF Descriptors
  <2> QED BY <1>1, <2>1, <2>2
<1>11. ASSUME NEW e \in Ends, NEW c \in Conns, <<e, c>> \in overwritten'
       PROVE  e = Client /\ fd'[e] # c /\ c <= attempts'
  <2>1. e = Client /\ (c = old \/ <<Client, c>> \in overwritten)
    BY <1>1, <1>8, <1>9, <1>11
  <2>2. c \in Nat /\ c <= attempts
    BY <1>1, <1>2, <1>7, <2>1 DEF Descriptors
  <2>3. c # new
    BY <1>2, <1>4, <2>2
  <2> QED BY <1>1, <1>2, <1>6, <2>1, <2>2, <2>3
<1>12. \A e \in Ends : fd'[e] # NoFd /\ ~connected'[e] => e \in threw'
  BY <1>1, <1>4, <1>6 DEF Descriptors
<1>13. fd'[Client] <= attempts'
  BY <1>1, <1>2, <1>4, <1>6
<1> QED BY <1>10, <1>11, <1>12, <1>13 DEF Descriptors

LEMMA InitDescriptors == ASSUME Init PROVE Descriptors
<1>1. Client \in Ends /\ NoFd \notin Conns /\ NoFd = 0
  BY Constants DEF Ends, NoFd
<1> QED BY <1>1 DEF Init, Descriptors

LEMMA DescriptorsNext ==
  ASSUME Types, Calls, Descriptors, [Next]_vars
  PROVE  Descriptors'
<1>1. ASSUME UNCHANGED <<fd, connected, threw, open, overwritten, attempts>> PROVE Descriptors'
  BY <1>1 DEF Descriptors
<1>2. CASE Listen \/ StopListening \/ UNCHANGED vars
  BY <1>1, <1>2 DEF Listen, StopListening, vars, objects, kernel
<1>0. Client # Server /\ Client \in Ends /\ Server \in Ends
  BY TcpAssumption DEF Ends
<1>3. CASE Accept
  <2> DEFINE c == Head(backlog)
  <2>1. c \in Conns /\ NoFd \notin Conns
    BY <1>3, Constants DEF Accept, Types
  <2>2. /\ fd' = [fd EXCEPT ![Server] = c] /\ connected' = [connected EXCEPT ![Server] = TRUE]
        /\ open' = (open \ {<<Server, fd[Server]>>}) \cup {<<Server, c>>}
        /\ threw' = threw \ {Server} /\ UNCHANGED <<overwritten, attempts>>
    BY <1>3 DEF Accept
  <2> HIDE DEF c
  <2>3. ASSUME NEW e \in Ends, NEW d \in Conns
        PROVE  /\ (<<e, d>> \in open)' <=> fd'[e] = d \/ <<e, d>> \in overwritten
               /\ <<e, d>> \in overwritten => e = Client /\ fd'[e] # d /\ d <= attempts
    BY <1>0, <2>1, <2>2 DEF Types, Descriptors
  <2>4. \A e \in Ends : fd'[e] # NoFd /\ ~connected'[e] => e \in threw'
    BY <1>0, <2>1, <2>2 DEF Types, Descriptors
  <2>5. fd'[Client] = fd[Client]
    BY <1>0, <2>2 DEF Types
  <2> QED BY <2>2, <2>3, <2>4, <2>5 DEF Descriptors
<1>5. ASSUME NEW x \in Ends, Close(x) PROVE Descriptors'
  <2>1. /\ fd' = [fd EXCEPT ![x] = NoFd] /\ open' = open \ {<<x, fd[x]>>}
        /\ connected' = [connected EXCEPT ![x] = connected[x] /\ fd[x] = NoFd]
        /\ threw' = threw \ {x} /\ NoFd \notin Conns
        /\ UNCHANGED <<overwritten, attempts>>
    BY <1>5, Constants DEF Close
  <2>2. ASSUME NEW e \in Ends, NEW d \in Conns
        PROVE  /\ (<<e, d>> \in open)' <=> fd'[e] = d \/ <<e, d>> \in overwritten
               /\ <<e, d>> \in overwritten => e = Client /\ fd'[e] # d /\ d <= attempts
    BY <2>1 DEF Types, Descriptors
  <2>3. ASSUME NEW e \in Ends, fd'[e] # NoFd, ~connected'[e] PROVE e \in threw'
    <3>1. e # x /\ fd'[e] = fd[e]
      BY <2>1, <2>3 DEF Types
    <3>2. connected'[e] = connected[e]
      BY <2>1, <3>1 DEF Types
    <3> QED BY <2>1, <2>3, <3>1, <3>2 DEF Descriptors
  <2>4. fd'[Client] <= attempts'
    <3>1. attempts \in Nat /\ (fd'[Client] = fd[Client] \/ fd'[Client] = 0)
      BY <1>0, <2>1, Constants DEF Types, NoFd
    <3> QED BY <2>1, <3>1 DEF Descriptors
  <2> QED BY <2>1, <2>2, <2>3, <2>4 DEF Descriptors
<1>6. ASSUME NEW e \in Ends,
             SendSome(e) \/ ReceiveDynamic(e) \/ \E size \in Sizes : SendDynamic(e, size)
      PROVE  Descriptors'
  BY <1>1, <1>6 DEF SendSome, ReceiveDynamic, SendDynamic, kernel
<1>7. ASSUME NEW e \in Ends,
             SendFails(e) \/ SendWouldBlock(e) \/ ReceiveFails(e) \/ ReceiveWouldBlock(e)
      PROVE  Descriptors'
  BY <1>7, ThrowDescriptors
     DEF SendFails, SendWouldBlock, ReceiveFails, ReceiveWouldBlock, kernel
<1>8. ASSUME NEW e \in Ends, NEW n \in Nat, ReceiveSome(e, n) PROVE Descriptors'
  <2>1. /\ UNCHANGED <<fd, open, overwritten, attempts>>
        /\ UNCHANGED <<threw, connected>> \/ Throw(e, connected[e])
    BY <1>8, ReceiveOutcomes DEF Incomplete, Returned, Expecting
  <2> QED BY <1>1, <2>1, ThrowDescriptors
<1> QED BY <1>2, <1>3, <1>5, <1>6, <1>7, <1>8, ConnectDescriptors, Constants DEF Next

(* tcp_socket's connect, destructor, move assignment and error paths, and     *)
(* accept: in every order of them no socket refers to a closed descriptor,    *)
(* and the descriptors that are lost are exactly those connect() overwrote    *)
(* on a socket that threw and was not closed.  Nothing is assumed of callers. *)
THEOREM OnlyReconnectionLeaks == Spec => []FdLeakOnlyOnReconnect
<1>1. Init => Descriptors
  BY InitDescriptors
<1>2. Types /\ Descriptors => FdLeakOnlyOnReconnect
  <2> SUFFICES ASSUME Types, Descriptors PROVE FdLeakOnlyOnReconnect
    OBVIOUS
  <2>1. ASSUME NEW p \in open, p \notin Held PROVE p \in overwritten
    <3>1. PICK e \in Ends, c \in Conns : p = <<e, c>>
      BY DEF Types
    <3>2. fd[e] # c
      BY <2>1, <3>1, Constants DEF Held
    <3> QED BY <2>1, <3>1, <3>2 DEF Descriptors
  <2>2. ASSUME NEW e \in Ends, fd[e] # NoFd PROVE <<e, fd[e]>> \in open
    BY <2>2 DEF Types, Descriptors
  <2>3. ASSUME NEW p \in overwritten PROVE p \in open /\ p \notin Held
    <3>1. PICK e \in Ends, c \in Conns : p = <<e, c>>
      BY DEF Types
    <3>2. <<e, c>> \in open /\ fd[e] # c
      BY <2>3, <3>1 DEF Descriptors
    <3> QED BY <3>1, <3>2 DEF Held
  <2>4. Held \subseteq open
    BY <2>2 DEF Held
  <2> QED BY <2>1, <2>3, <2>4 DEF FdLeakOnlyOnReconnect
<1>3. Types /\ Calls /\ Descriptors /\ [Next]_vars => Descriptors'
  BY DescriptorsNext
<1> QED BY <1>1, <1>2, <1>3, InitTypes, TypesNext, PTL DEF Spec

-----------------------------------------------------------------------------
(* Messages, of owners that send and receive no more on a connection where a  *)
(* call threw, and ends that agree on the prefix.  The units of a wire are described by how they follow one   *)
(* another: as far as the message of u tells, v lies d units after u.         *)

Careful ==
    /\ CloseOnError
    /\ PrefixUnits[Client] = PrefixUnits[Server]
    /\ \A size \in Sizes : size < LenMod

Follows(total, u, v, d) ==
    /\ d <= total - u[2] => v = <<u[1], u[2] + d>>
    /\ d = total - u[2] + 1 => v = <<u[1] + 1, 1>>

\* The unit after unit i of message k.
After(total, k, i) == IF i = total THEN <<k + 1, 1>> ELSE <<k, i + 1>>

\* If the next unit of message k, of which i units are there, lies d units
\* after u, then m units of k later everything is m units further on.
LEMMA FollowsOn ==
  ASSUME NEW t \in Nat, NEW total \in Nat, NEW u \in Units, NEW k \in Nat, NEW i \in Nat,
         NEW d \in Nat, NEW m \in Nat, m > 0, u[2] <= t, k = u[1] => t = total,
         i + m <= total, Follows(t, u, <<k, i + 1>>, d)
  PROVE  /\ Follows(t, u, <<k, i + m>>, d + m - 1)
         /\ Follows(t, u, After(total, k, i + m), d + m)
<1>1. u[1] \in Nat /\ u[2] \in Nat
  BY DEF Units
<1>2. d <= t - u[2] => k = u[1] /\ t = total /\ i + 1 = u[2] + d
  BY <1>1 DEF Follows
<1>3. d = t - u[2] + 1 => k = u[1] + 1 /\ i = 0
  BY <1>1 DEF Follows
<1>4. Follows(t, u, <<k, i + m>>, d + m - 1)
  <2>1. ASSUME d + m - 1 <= t - u[2] PROVE <<k, i + m>> = <<u[1], u[2] + (d + m - 1)>>
    BY <1>1, <1>2, <2>1
  <2>2. ASSUME d + m - 1 = t - u[2] + 1 PROVE <<k, i + m>> = <<u[1] + 1, 1>>
    BY <1>1, <1>2, <1>3, <2>2
  <2> QED BY <2>1, <2>2 DEF Follows
<1>5. Follows(t, u, After(total, k, i + m), d + m)
  <2>1. ASSUME d + m <= t - u[2] PROVE After(total, k, i + m) = <<u[1], u[2] + (d + m)>>
    BY <1>1, <1>2, <2>1 DEF After
  <2>2. ASSUME d + m = t - u[2] + 1 PROVE After(total, k, i + m) = <<u[1] + 1, 1>>
    BY <1>1, <1>2, <2>2 DEF After
  <2> QED BY <2>1, <2>2 DEF Follows
<1> QED BY <1>4, <1>5

LEMMA Shift ==
  ASSUME NEW d \in Nat, NEW l \in Nat, NEW m \in Nat, NEW n \in Nat, NEW total \in Nat,
         l <= m, m <= n, d + n <= total
  PROVE  /\ d + l \in Nat /\ d + m \in Nat /\ d + l <= d + m /\ d + m <= total
         /\ (d + m) - (d + l) = m - l /\ (d + m) + 1 - (d + l) = m + 1 - l
OBVIOUS

LEMMA FollowsInside ==
  ASSUME NEW total \in Nat, NEW k \in Nat, NEW i \in Nat, NEW j \in Nat, i <= j, j <= total
  PROVE  /\ Follows(total, <<k, i>>, <<k, j>>, j - i)
         /\ Follows(total, <<k, i>>, After(total, k, j), j + 1 - i)
BY DEF Follows, After

LEMMA FollowsFirst ==
  ASSUME NEW total \in Nat, NEW k \in Nat, NEW i \in Nat, NEW n \in Nat, NEW v,
         Follows(total, <<k, i + 1>>, v, n)
  PROVE  /\ n > 0 /\ i + n <= total => v = After(total, k, i + n)
         /\ i + n < total => v = <<k, i + n + 1>>
BY DEF Follows, After

-----------------------------------------------------------------------------
(* The invariant *)

Total(c, e, k) == PrefixUnits[e] + sent[c][e][k]
Waiting(c) == \E i \in 1 .. Len(backlog) : backlog[i] = c

\* End e may still read or write connection c.
Live(c, e) == (fd[e] = c /\ e \notin threw) \/ (e = Server /\ Waiting(c))

In(c, e, op) == fd[e] = c /\ act[e].op = op

\* The unit that e reads next on c, and the one it writes next.
ReadPos(c, e) ==
    LET g == Len(got[c][e]) + 1
    IN  IF In(c, e, "recv_prefix") THEN <<g, Len(act[e].buffer) + 1>>
        ELSE IF In(c, e, "recv_payload")
        THEN <<g, PrefixUnits[Other(e)] + Len(act[e].buffer) + 1>>
        ELSE <<g, 1>>
WritePos(c, e) ==
    IF In(c, e, "send") THEN <<Len(sent[c][e]), act[e].done + 1>>
    ELSE <<Len(sent[c][e]) + 1, 1>>

\* Connections are accepted in the order they were attempted, each once.
Queue ==
    /\ \A e \in Ends : fd[e] <= attempts
    /\ \A i \in 1 .. Len(backlog) : fd[Server] < backlog[i] /\ backlog[i] <= attempts
    /\ \A i, j \in 1 .. Len(backlog) : i < j => backlog[i] < backlog[j]
    /\ \A c \in Conns, e \in Ends : c > attempts =>
           sent[c][e] = <<>> /\ got[c][e] = <<>> /\ wire[c][e] = <<>>

\* What a call in progress has done so far.
Call(e) ==
    LET c == fd[e]
        s == sent[c][Other(e)]
        g == Len(got[c][e]) + 1
        a == act[e]
        P == PrefixUnits[Other(e)]
    IN  /\ a # Idle => e \notin threw
        /\ a.op = "send" =>
             /\ Len(sent[c][e]) > 0 /\ a.done < a.part /\ a.part <= a.total
             /\ a.total = Total(c, e, Len(sent[c][e]))
        /\ a.op = "recv_prefix" =>
             /\ a.need = P /\ Len(a.buffer) < P
             /\ Len(a.buffer) > 0 => g <= Len(s)
             /\ \A i \in 1 .. Len(a.buffer) : a.buffer[i] = <<g, i>>
        /\ a.op = "recv_payload" =>
             /\ g <= Len(s) /\ a.need = s[g] /\ Len(a.buffer) < s[g]
             /\ \A i \in 1 .. Len(a.buffer) : a.buffer[i] = <<g, P + i>>

\* u is a unit of a message e sent on c.
IsUnit(c, e, u) == u[1] \in 1 .. Len(sent[c][e]) /\ u[2] \in 1 .. Total(c, e, u[1])

\* The wire to end e of connection c continues what e has read, and what its
\* peer writes next continues the wire.
Link(c, e) ==
    LET w == wire[c][e]
        p == Other(e)
    IN  /\ \A i \in 1 .. Len(w) : IsUnit(c, p, w[i])
        /\ \A i \in 1 .. Len(w) : \A j \in i .. Len(w) :
               Follows(Total(c, p, w[i][1]), w[i], w[j], j - i)
        /\ Len(w) > 0 => w[1] = ReadPos(c, e)
        /\ Live(c, p) =>
             /\ \A i \in 1 .. Len(w) :
                    Follows(Total(c, p, w[i][1]), w[i], WritePos(c, p), Len(w) + 1 - i)
             /\ Len(w) = 0 => WritePos(c, p) = ReadPos(c, e)

Links == \A c \in Conns, e \in Ends : Live(c, e) => Link(c, e)

Messages == Queue /\ (\A e \in Ends : Call(e)) /\ Links /\ FramesIntact

-----------------------------------------------------------------------------
(* Steps that move no unit *)

LEMMA IdlePositions ==
  ASSUME NEW e \in Ends, act[e] = Idle, NEW c
  PROVE  /\ ReadPos(c, e) = <<Len(got[c][e]) + 1, 1>>
         /\ WritePos(c, e) = <<Len(sent[c][e]) + 1, 1>>
BY DEF Idle, ReadPos, WritePos, In

LEMMA FramesStay ==
  ASSUME FramesIntact, UNCHANGED <<sent, got>>
  PROVE  FramesIntact'
BY DEF FramesIntact, Payload

\* An end that stays live reads and writes where it did.
LEMMA LinksStay ==
  ASSUME Links, UNCHANGED <<sent, got>>,
         \A c \in Conns, e \in Ends : Live(c, e)' =>
            /\ Live(c, e) /\ wire'[c][e] = wire[c][e]
            /\ ReadPos(c, e)' = ReadPos(c, e) /\ WritePos(c, e)' = WritePos(c, e)
  PROVE  Links'
<1> SUFFICES ASSUME NEW c \in Conns, NEW e \in Ends, Live(c, e)' PROVE Link(c, e)'
  BY DEF Links
<1> DEFINE p == Other(e)
<1>1. p \in Ends
  BY Others
<1>2. /\ Link(c, e) /\ wire'[c][e] = wire[c][e] /\ ReadPos(c, e)' = ReadPos(c, e)
      /\ Live(c, p)' => Live(c, p) /\ WritePos(c, p)' = WritePos(c, p)
  BY <1>1 DEF Links
<1>3. \A k : Total(c, p, k)' = Total(c, p, k)
  BY DEF Total
<1>4. \A u : IsUnit(c, p, u)' <=> IsUnit(c, p, u)
  BY DEF IsUnit, Total
<1> QED BY <1>2, <1>3, <1>4 DEF Link

LEMMA Numbers ==
  ASSUME Types
  PROVE  /\ attempts \in Nat /\ \A e \in Ends : fd[e] \in Nat
         /\ Len(backlog) \in Nat /\ \A i \in 1 .. Len(backlog) : backlog[i] \in Conns
         /\ \A c \in Conns : c \in Nat /\ c > 0
BY Constants DEF Types, Conns, NoFd

\* A connection that waits is not the server's yet.
LEMMA WaitingIsNew ==
  ASSUME Types, Queue, NEW c, Waiting(c)
  PROVE  c \in Conns /\ fd[Server] # c /\ c <= attempts
BY Numbers DEF Waiting, Queue

\* tcp_server: nothing is in progress at the server when it accepts.
LEMMA ServerMessages ==
  ASSUME Types, Calls, Messages, Listen \/ StopListening \/ Accept
  PROVE  Messages'
<1>1. CASE Listen \/ StopListening
  <2>1. /\ UNCHANGED <<fd, connected, act, threw, sent, got, wire, attempts>>
        /\ backlog' = backlog \/ backlog' = <<>>
    BY <1>1 DEF Listen, StopListening, objects, logs, kernel
  <2>2. Queue'
    BY <2>1, EmptySequences DEF Messages, Queue
  <2>3. \A e \in Ends : Call(e)'
    BY <2>1 DEF Messages, Call, Total
  <2>4. ASSUME NEW c \in Conns, NEW e \in Ends
        PROVE  /\ Live(c, e)' => Live(c, e)
               /\ ReadPos(c, e)' = ReadPos(c, e) /\ WritePos(c, e)' = WritePos(c, e)
    BY <2>1, EmptySequences DEF Live, Waiting, ReadPos, WritePos, In
  <2>5. Links'
    BY <2>1, <2>4, LinksStay DEF Messages
  <2> QED BY <2>1, <2>2, <2>3, <2>5, FramesStay DEF Messages
<1>2. CASE Accept
  <2> DEFINE c == Head(backlog)
  <2>1. /\ act[Server] = Idle /\ Server \in Ends /\ backlog # <<>>
        /\ fd' = [fd EXCEPT ![Server] = c] /\ backlog' = Tail(backlog)
        /\ threw' = threw \ {Server}
        /\ UNCHANGED <<act, sent, got, wire, attempts>>
    BY <1>2 DEF Accept, logs, Ends
  <2>2. /\ c = backlog[1] /\ 1 \in 1 .. Len(backlog)
        /\ Len(Tail(backlog)) = Len(backlog) - 1
        /\ \A i \in 1 .. Len(backlog) - 1 : Tail(backlog)[i] = backlog[i + 1]
        /\ Len(backlog) \in Nat
    BY <2>1 DEF Types
  <2> HIDE DEF c
  <2>3. /\ fd'[Server] = c /\ c \in Conns /\ c <= attempts
        /\ \A e \in Ends \ {Server} : fd'[e] = fd[e]
    BY <2>1, <2>2, Numbers DEF Types, Messages, Queue
  <2>4. Queue'
    <3>1. \A e \in Ends : fd'[e] <= attempts
      BY <2>3 DEF Messages, Queue
    <3>2. ASSUME NEW i \in 1 .. Len(Tail(backlog))
          PROVE  /\ fd'[Server] < Tail(backlog)[i] /\ Tail(backlog)[i] <= attempts
                 /\ \A j \in 1 .. Len(Tail(backlog)) : i < j => Tail(backlog)[i] < Tail(backlog)[j]
      <4>1. i + 1 \in 1 .. Len(backlog) /\ 1 < i + 1
        BY <2>2
      <4>2. \A j \in 1 .. Len(Tail(backlog)) : j + 1 \in 1 .. Len(backlog)
        BY <2>2
      <4> QED BY <2>2, <2>3, <4>1, <4>2 DEF Messages, Queue
    <3> QED BY <2>1, <3>1, <3>2 DEF Messages, Queue
  <2>5. \A e \in Ends : Call(e)'
    <3>1. Call(Server)'
      BY <2>1 DEF Call, Idle
    <3>2. ASSUME NEW e \in Ends \ {Server} PROVE Call(e)'
      <4>1. Call(e) /\ fd'[e] = fd[e] /\ (e \notin threw => e \notin threw')
        BY <2>1, <2>3 DEF Messages
      <4> QED BY <2>1, <4>1 DEF Call, Total
    <3> QED BY <3>1, <3>2
  <2>6. ASSUME NEW d \in Conns, NEW e \in Ends
        PROVE  /\ Live(d, e)' => Live(d, e)
               /\ ReadPos(d, e)' = ReadPos(d, e) /\ WritePos(d, e)' = WritePos(d, e)
    <3>1. CASE e = Server
      <4>1. ReadPos(d, e)' = ReadPos(d, e) /\ WritePos(d, e)' = WritePos(d, e)
        BY <2>1, <3>1 DEF ReadPos, WritePos, In, Idle
      <4>2. Live(d, e)' => d = c \/ \E i \in 1 .. Len(backlog) - 1 : Tail(backlog)[i] = d
        BY <2>1, <2>2, <2>3, <3>1 DEF Live, Waiting
      <4>3. Live(d, e)' => Waiting(d)
        BY <2>2, <4>2 DEF Waiting
      <4> QED BY <3>1, <4>1, <4>3 DEF Live
    <3>2. CASE e # Server
      BY <2>1, <2>3, <3>2 DEF Live, ReadPos, WritePos, In
    <3> QED BY <3>1, <3>2
  <2>7. Links'
    BY <2>1, <2>6, LinksStay DEF Messages
  <2> QED BY <2>1, <2>4, <2>5, <2>7, FramesStay DEF Messages
<1> QED BY <1>1, <1>2

\* A call that throws takes its end off the connection, if it keeps the
\* descriptor or not.
LEMMA ThrowMessages ==
  ASSUME Types, Messages, NEW e \in Ends, NEW b, Throw(e, b),
         fd' = fd \/ fd' = [fd EXCEPT ![e] = NoFd],
         UNCHANGED <<sent, got, backlog>>,
         attempts' \in Nat, attempts' >= attempts,
         \A c \in Conns, x \in Ends :
            c # fd[e] \/ x # e => wire'[c][x] = wire[c][x]
  PROVE  Messages'
<1>1. /\ act'[e] = Idle /\ \A x \in Ends \ {e} : act'[x] = act[x]
      /\ threw' = threw \cup {e}
  BY DEF Throw, Types
<1>0. /\ fd'[e] = fd[e] \/ fd'[e] = NoFd
      /\ \A x \in Ends \ {e} : fd'[x] = fd[x]
      /\ NoFd = 0 /\ NoFd \notin Conns
  BY Constants DEF Types, NoFd
<1>2. Queue'
  <2>1. \A i \in 1 .. Len(backlog) : backlog[i] <= attempts'
    BY Numbers DEF Messages, Queue, Conns
  <2>2. \A x \in Ends : fd[x] <= attempts'
    BY Numbers DEF Messages, Queue
  <2>4. \A x \in Ends : fd'[x] <= fd[x] /\ fd'[x] \in Nat
    BY <1>0, Numbers
  <2>5. \A x \in Ends : fd'[x] <= attempts'
    BY <2>2, <2>4, Numbers
  <2>6. \A k \in 1 .. Len(backlog) : fd'[Server] < backlog[k]
    BY <2>4, Numbers, TcpAssumption DEF Messages, Queue, Ends, Conns
  <2>3. ASSUME NEW c \in Conns, c > attempts', NEW x \in Ends
        PROVE  sent[c][x] = <<>> /\ got[c][x] = <<>> /\ wire'[c][x] = <<>>
    <3>1. c > attempts /\ c # fd[e]
      BY <2>2, <2>3, Numbers
    <3> QED BY <3>1 DEF Messages, Queue
  <2> QED BY <2>1, <2>3, <2>5, <2>6 DEF Messages, Queue
<1>3. ASSUME NEW x \in Ends PROVE Call(x)'
  <2>1. CASE x = e
    BY <1>1, <2>1 DEF Call, Idle
  <2>2. CASE x # e
    <3>1. /\ Call(x) /\ act'[x] = act[x] /\ fd'[x] = fd[x]
          /\ x \notin threw => x \notin threw'
      BY <1>0, <1>1, <2>2 DEF Messages
    <3> QED BY <3>1 DEF Call, Total
  <2> QED BY <2>1, <2>2
<1>4. ASSUME NEW c \in Conns, NEW x \in Ends, Live(c, x)'
      PROVE  /\ Live(c, x) /\ wire'[c][x] = wire[c][x]
             /\ ReadPos(c, x)' = ReadPos(c, x) /\ WritePos(c, x)' = WritePos(c, x)
  <2>1. Live(c, x) /\ (x = e => fd[e] # c)
    <3>1. CASE x = e
      <4>1. x = Server /\ Waiting(c)
        BY <1>0, <1>1, <1>4, <3>1 DEF Live, Waiting
      <4> QED BY <3>1, <4>1, WaitingIsNew DEF Live, Messages
    <3>2. CASE x # e
      BY <1>0, <1>1, <1>4, <3>2 DEF Live, Waiting
    <3> QED BY <3>1, <3>2
  <2>2. wire'[c][x] = wire[c][x]
    BY <2>1
  <2>3. ReadPos(c, x)' = ReadPos(c, x) /\ WritePos(c, x)' = WritePos(c, x)
    <3>1. CASE x = e
      <4>1. fd[x] # c /\ fd'[x] # c
        BY <1>0, <2>1, <3>1
      <4> QED BY <4>1 DEF ReadPos, WritePos, In
    <3>2. CASE x # e
      <4>1. act'[x] = act[x] /\ fd'[x] = fd[x]
        BY <1>0, <1>1, <3>2
      <4> QED BY <4>1 DEF ReadPos, WritePos, In
    <3> QED BY <3>1, <3>2
  <2> QED BY <2>1, <2>2, <2>3
<1>5. Links'
  BY <1>4, LinksStay DEF Messages
<1> QED BY <1>2, <1>3, <1>5, FramesStay DEF Messages

LEMMA CloseMessages ==
  ASSUME Types, Calls, Messages, NEW e \in Ends, Close(e)
  PROVE  Messages'
<1>1. /\ act[e] = Idle /\ fd' = [fd EXCEPT ![e] = NoFd] /\ threw' = threw \ {e}
      /\ UNCHANGED <<act, sent, got, backlog, attempts>>
      /\ \A c \in Conns, x \in Ends :
            wire'[c][x] = IF c = fd[e] /\ x = e THEN <<>> ELSE wire[c][x]
  BY DEF Close, logs, server, Types
<1>2. fd'[e] = NoFd /\ (\A x \in Ends \ {e} : fd'[x] = fd[x]) /\ NoFd = 0 /\ NoFd \notin Conns
  BY <1>1, Constants DEF Types, NoFd
<1>3. Queue'
  <2>1. \A x \in Ends : fd'[x] <= fd[x] /\ fd'[x] \in Nat
    BY <1>2, Numbers
  <2>2. \A x \in Ends : fd'[x] <= attempts
    BY <2>1, Numbers DEF Messages, Queue
  <2>3. \A i \in 1 .. Len(backlog) : fd'[Server] < backlog[i]
    BY <2>1, Numbers DEF Messages, Queue, Ends, Conns
  <2>4. \A c \in Conns, x \in Ends : c > attempts => wire'[c][x] = <<>>
    BY <1>1 DEF Messages, Queue
  <2> QED BY <1>1, <2>2, <2>3, <2>4 DEF Messages, Queue
<1>4. ASSUME NEW x \in Ends PROVE Call(x)'
  <2>1. CASE x = e
    BY <1>1, <2>1 DEF Call, Idle
  <2>2. CASE x # e
    <3>1. Call(x) /\ fd'[x] = fd[x] /\ (x \notin threw => x \notin threw')
      BY <1>1, <1>2, <2>2 DEF Messages
    <3> QED BY <1>1, <3>1 DEF Call, Total
  <2> QED BY <2>1, <2>2
<1>5. ASSUME NEW c \in Conns, NEW x \in Ends, Live(c, x)'
      PROVE  /\ Live(c, x) /\ wire'[c][x] = wire[c][x]
             /\ ReadPos(c, x)' = ReadPos(c, x) /\ WritePos(c, x)' = WritePos(c, x)
  <2>1. CASE x = e
    <3>1. x = Server /\ Waiting(c)
      BY <1>1, <1>2, <1>5, <2>1 DEF Live, Waiting
    <3>2. c # fd[e]
      BY <2>1, <3>1, WaitingIsNew DEF Messages
    <3> QED BY <1>1, <2>1, <3>1, <3>2 DEF Live, ReadPos, WritePos, In, Idle
  <2>2. CASE x # e
    <3>1. fd'[x] = fd[x] /\ act'[x] = act[x] /\ wire'[c][x] = wire[c][x]
      BY <1>1, <1>2, <2>2
    <3>2. Live(c, x)
      BY <1>1, <1>5, <2>2, <3>1 DEF Live, Waiting
    <3> QED BY <1>1, <3>1, <3>2 DEF ReadPos, WritePos, In
  <2> QED BY <2>1, <2>2
<1>6. Links'
  BY <1>1, <1>5, LinksStay DEF Messages
<1> QED BY <1>1, <1>3, <1>4, <1>6, FramesStay DEF Messages

\* connect(): a connection nobody has used.
LEMMA ConnectMessages ==
  ASSUME Types, Calls, Messages, Connect
  PROVE  Messages'
<1> DEFINE c == attempts + 1
<1>1. /\ Client \in Ends /\ Server \in Ends /\ Client # Server /\ act[Client] = Idle
      /\ attempts' = c /\ fd' = [fd EXCEPT ![Client] = c]
      /\ backlog' = Append(backlog, c)
      /\ threw' = threw \ {Client}
      /\ UNCHANGED <<act, sent, got, wire>>
  BY TcpAssumption DEF Connect, BeginConnect, logs, Ends
<1>2. /\ c \in Conns /\ c > attempts
      /\ Len(backlog') = Len(backlog) + 1 /\ backlog'[Len(backlog) + 1] = c
      /\ \A i \in 1 .. Len(backlog) : backlog'[i] = backlog[i]
      /\ Len(backlog) \in Nat
  <2>1. attempts < MaxConnections /\ attempts \in Nat /\ MaxConnections \in Nat
    BY Constants, Numbers DEF Connect, BeginConnect
  <2>2. c \in Conns
    BY <2>1 DEF Conns
  <2> QED BY <1>1, <2>1, <2>2 DEF Types
<1>3. fd'[Client] = c /\ \A e \in Ends \ {Client} : fd'[e] = fd[e]
  BY <1>1 DEF Types
<1>4. \A e \in Ends : sent[c][e] = <<>> /\ got[c][e] = <<>> /\ wire[c][e] = <<>>
  BY <1>2 DEF Messages, Queue
<1> HIDE DEF c
<1>5. Queue'
  <2>1. \A e \in Ends : fd'[e] <= attempts'
    BY <1>1, <1>2, <1>3, Numbers DEF Messages, Queue, c
  <2>2. ASSUME NEW i \in 1 .. Len(backlog')
        PROVE  /\ fd'[Server] < backlog'[i] /\ backlog'[i] <= attempts'
               /\ \A j \in 1 .. Len(backlog') : i < j => backlog'[i] < backlog'[j]
    <3>1. i \in 1 .. Len(backlog) \/ i = Len(backlog) + 1
      BY <1>2
    <3>2. fd'[Server] = fd[Server] /\ fd[Server] <= attempts /\ attempts \in Nat /\ fd[Server] \in Nat
      BY <1>1, <1>3, Numbers DEF Messages, Queue
    <3>3. CASE i = Len(backlog) + 1
      BY <1>1, <1>2, <3>2, <3>3 DEF c
    <3>4. CASE i \in 1 .. Len(backlog)
      <4>1. /\ backlog'[i] = backlog[i] /\ fd[Server] < backlog[i] /\ backlog[i] <= attempts
            /\ backlog[i] \in Nat
        BY <1>2, <3>4, Numbers DEF Messages, Queue
      <4>2. ASSUME NEW j \in 1 .. Len(backlog'), i < j PROVE backlog'[i] < backlog'[j]
        <5>1. CASE j = Len(backlog) + 1
          BY <1>2, <3>2, <4>1, <5>1 DEF c
        <5>2. CASE j \in 1 .. Len(backlog)
          BY <1>2, <3>4, <4>1, <4>2, <5>2 DEF Messages, Queue
        <5> QED BY <1>2, <5>1, <5>2
      <4> QED BY <1>1, <3>2, <4>1, <4>2 DEF c
    <3> QED BY <3>1, <3>3, <3>4
  <2>3. \A d \in Conns : d > attempts' => d > attempts
    BY <1>1, <1>2, Numbers DEF c
  <2> QED BY <1>1, <2>1, <2>2, <2>3 DEF Messages, Queue
<1>6. ASSUME NEW x \in Ends PROVE Call(x)'
  <2>1. CASE x = Client
    BY <1>1, <2>1 DEF Call, Idle
  <2>2. CASE x # Client
    BY <1>1, <1>3, <2>2 DEF Messages, Call, Total
  <2> QED BY <2>1, <2>2
<1>7. ASSUME NEW d \in Conns, NEW x \in Ends
      PROVE  /\ ReadPos(d, x)' = ReadPos(d, x) /\ WritePos(d, x)' = WritePos(d, x)
             /\ Live(d, x)' => Live(d, x) \/ d = c
  <2>1. CASE x = Client
    <3>1. ReadPos(d, x)' = ReadPos(d, x) /\ WritePos(d, x)' = WritePos(d, x)
      BY <1>1, <2>1 DEF ReadPos, WritePos, In, Idle
    <3> QED BY <1>1, <1>3, <2>1, <3>1 DEF Live
  <2>2. CASE x # Client
    <3>1. fd'[x] = fd[x] /\ act'[x] = act[x] /\ (x \in threw' <=> x \in threw)
      BY <1>1, <1>3, <2>2
    <3>2. Waiting(d)' => Waiting(d) \/ d = c
      BY <1>2 DEF Waiting
    <3> QED BY <1>1, <3>1, <3>2 DEF ReadPos, WritePos, In, Live
  <2> QED BY <2>1, <2>2
<1>8. ASSUME NEW d \in Conns, NEW x \in Ends, Live(d, x)' PROVE Link(d, x)'
  <2> DEFINE p == Other(x)
  <2>1. p \in Ends
    BY Others
  <2>2. CASE d = c
    <3>1. fd[x] # c /\ fd[p] # c
      BY <1>2, <2>1, Numbers DEF Messages, Queue, c
    <3>2. /\ ReadPos(d, x) = <<1, 1>> /\ WritePos(d, p) = <<1, 1>>
      BY <1>4, <2>1, <2>2, <3>1, EmptySequences DEF ReadPos, WritePos, In
    <3>3. wire'[d][x] = <<>> /\ Len(<<>>) = 0
      BY <1>1, <1>4, <2>2
    <3> QED BY <1>7, <2>1, <3>2, <3>3 DEF Link
  <2>3. CASE d # c
    <3>1. Live(d, x) /\ Link(d, x) /\ (Live(d, p)' => Live(d, p))
      BY <1>7, <1>8, <2>1, <2>3 DEF Messages, Links
    <3>2. /\ wire' = wire /\ ReadPos(d, x)' = ReadPos(d, x) /\ WritePos(d, p)' = WritePos(d, p)
          /\ \A k : Total(d, p, k)' = Total(d, p, k)
          /\ \A u : IsUnit(d, p, u)' <=> IsUnit(d, p, u)
      BY <1>1, <1>7, <2>1 DEF Total, IsUnit
    <3> QED BY <3>1, <3>2 DEF Link
  <2> QED BY <2>2, <2>3
<1> QED BY <1>1, <1>5, <1>6, <1>8, FramesStay DEF Messages, Links

LEMMA ReceiveDynamicMessages ==
  ASSUME Careful, Types, Calls, Messages, NEW e \in Ends, ReceiveDynamic(e)
  PROVE  Messages'
<1>1. /\ act[e] = Idle /\ e \notin threw
      /\ act'[e] = [op |-> "recv_prefix", buffer |-> <<>>, need |-> PrefixUnits[e]]
      /\ \A x \in Ends \ {e} : act'[x] = act[x]
      /\ UNCHANGED <<fd, threw, sent, got, backlog, wire, attempts>>
  BY DEF Careful, ReceiveDynamic, MayCall, Types, logs, server, kernel
<1>2. act'[e].op = "recv_prefix" /\ act'[e].buffer = <<>> /\ Len(<<>>) = 0
  BY <1>1
<1>3. Queue'
  BY <1>1 DEF Messages, Queue
<1>4. ASSUME NEW c \in Conns, NEW x \in Ends, Live(c, x)'
      PROVE  /\ Live(c, x) /\ wire'[c][x] = wire[c][x]
             /\ ReadPos(c, x)' = ReadPos(c, x) /\ WritePos(c, x)' = WritePos(c, x)
  <2>1. Live(c, x)
    BY <1>1, <1>4 DEF Live, Waiting
  <2>2. CASE x = e
    <3>1. /\ ReadPos(c, x) = <<Len(got[c][x]) + 1, 1>>
          /\ WritePos(c, x) = <<Len(sent[c][x]) + 1, 1>>
      BY <1>1, <2>2, IdlePositions
    <3>2. ReadPos(c, x)' = <<Len(got[c][x]) + 1, 1>>
      BY <1>1, <1>2, <2>2 DEF ReadPos, In
    <3>3. WritePos(c, x)' = <<Len(sent[c][x]) + 1, 1>>
      BY <1>1, <1>2, <2>2 DEF WritePos, In
    <3> QED BY <1>1, <2>1, <3>1, <3>2, <3>3
  <2>3. CASE x # e
    BY <1>1, <2>1, <2>3 DEF ReadPos, WritePos, In
  <2> QED BY <2>2, <2>3
<1>5. Links'
  BY <1>1, <1>4, LinksStay DEF Messages
<1>6. ASSUME NEW x \in Ends PROVE Call(x)'
  <2>1. CASE x = e
    <3>1. PrefixUnits[Other(e)] = PrefixUnits[e] /\ PrefixUnits[e] > 0
      BY Constants DEF Careful, Ends, Other
    <3>2. act'[e].need = PrefixUnits[e]
      BY <1>1
    <3> QED BY <1>1, <1>2, <2>1, <3>1, <3>2 DEF Call
  <2>2. CASE x # e
    BY <1>1, <2>2 DEF Messages, Call, Total
  <2> QED BY <2>1, <2>2
<1> QED BY <1>1, <1>3, <1>5, <1>6, FramesStay DEF Messages

LEMMA SamePrefix == ASSUME Careful PROVE \A e \in Ends : PrefixUnits[Other(e)] = PrefixUnits[e]
BY DEF Careful, Ends, Other

\* send_dynamic: the next message of e begins where the last one ended.
LEMMA SendDynamicMessages ==
  ASSUME Careful, Types, Calls, Messages, NEW e \in Ends, NEW size \in Sizes,
         SendDynamic(e, size)
  PROVE  Messages'
<1> DEFINE c == fd[e]
           k == Len(sent[c][e]) + 1
<1>1. /\ act[e] = Idle /\ e \notin threw /\ c \in Conns
      /\ act'[e] = [op |-> "send", done |-> 0, part |-> PrefixUnits[e],
                    total |-> PrefixUnits[e] + size]
      /\ \A x \in Ends \ {e} : act'[x] = act[x]
      /\ sent' = [sent EXCEPT ![c][e] = Append(@, size)]
      /\ UNCHANGED <<fd, threw, got, backlog, wire, attempts>>
  BY DEF Careful, SendDynamic, MayCall, Calls, Types, server, kernel
<1>2. /\ act'[e].op = "send" /\ act'[e].done = 0 /\ act'[e].part = PrefixUnits[e]
      /\ act'[e].total = PrefixUnits[e] + size
  BY <1>1
<1>3. sent[c][e] \in Seq(Sizes) /\ Len(sent[c][e]) \in Nat
  BY <1>1 DEF Types
<1>4. /\ sent'[c][e] = Append(sent[c][e], size)
      /\ \A d \in Conns, x \in Ends : d # c \/ x # e => sent'[d][x] = sent[d][x]
  BY <1>1 DEF Types
<1>5. /\ Len(sent'[c][e]) = k /\ sent'[c][e][k] = size
      /\ \A i \in 1 .. Len(sent[c][e]) : sent'[c][e][i] = sent[c][e][i]
  BY <1>3, <1>4
<1> HIDE DEF k
<1>6. ASSUME NEW d \in Conns, NEW x \in Ends
      PROVE  /\ Len(sent[d][x]) <= Len(sent'[d][x])
             /\ \A i \in 1 .. Len(sent[d][x]) : sent'[d][x][i] = sent[d][x][i]
             /\ Len(sent[d][x]) \in Nat /\ Len(sent'[d][x]) \in Nat
  <2>1. Len(sent[d][x]) \in Nat
    BY DEF Types
  <2>2. CASE d = c /\ x = e
    BY <1>3, <1>5, <2>2 DEF k
  <2>3. CASE d # c \/ x # e
    BY <1>4, <2>1, <2>3
  <2> QED BY <2>2, <2>3
<1>7. Queue'
  <2>1. c <= attempts
    BY DEF Messages, Queue
  <2>2. \A d \in Conns, x \in Ends : d > attempts => sent'[d][x] = sent[d][x]
    BY <1>4, <2>1, Numbers
  <2> QED BY <1>1, <2>2 DEF Messages, Queue
<1>8. ASSUME NEW x \in Ends PROVE Call(x)'
  <2>1. CASE x = e
    <3>1. PrefixUnits[e] \in Nat /\ PrefixUnits[e] > 0 /\ size \in Nat /\ k > 0
      BY <1>3, Constants DEF k
    <3> QED BY <1>1, <1>2, <1>5, <2>1, <3>1 DEF Call, Total
  <2>2. CASE x # e
    <3>1. Call(x) /\ act'[x] = act[x] /\ Other(x) \in Ends
      BY <1>1, <2>2, Others DEF Messages
    <3>2. CASE act[x] = Idle
      BY <1>1, <3>1, <3>2 DEF Call, Idle
    <3>3. CASE act[x] # Idle
      <4>1. fd[x] \in Conns
        BY <3>3 DEF Calls
      <4>2. sent'[fd[x]][x] = sent[fd[x]][x]
        BY <1>4, <2>2, <4>1
      <4>3. /\ Len(sent[fd[x]][Other(x)]) <= Len(sent'[fd[x]][Other(x)])
            /\ Len(sent[fd[x]][Other(x)]) \in Nat /\ Len(sent'[fd[x]][Other(x)]) \in Nat
            /\ \A i \in 1 .. Len(sent[fd[x]][Other(x)]) :
                  sent'[fd[x]][Other(x)][i] = sent[fd[x]][Other(x)][i]
        BY <1>6, <3>1, <4>1
      <4>4. Len(got[fd[x]][x]) \in Nat
        BY <4>1 DEF Types
      <4>5. /\ act[x].op = "recv_prefix" \/ act[x].op = "recv_payload" =>
                   act[x] \in Receiving
            /\ act[x].op = "send" => act[x] \in Sending
        BY ActKinds DEF Types
      <4>6. Len(got[fd[x]][x]) + 1 <= Len(sent[fd[x]][Other(x)]) =>
              /\ Len(got[fd[x]][x]) + 1 <= Len(sent'[fd[x]][Other(x)])
              /\ sent'[fd[x]][Other(x)][Len(got[fd[x]][x]) + 1]
                   = sent[fd[x]][Other(x)][Len(got[fd[x]][x]) + 1]
        <5> DEFINE g == Len(got[fd[x]][x]) + 1
                   n == Len(sent[fd[x]][Other(x)])
        <5>1. g \in Nat /\ g > 0 /\ n \in Nat
          BY <4>3, <4>4
        <5> HIDE DEF g, n
        <5>2. g <= n => g \in 1 .. n
          BY <5>1
        <5>3. g <= n => g <= Len(sent'[fd[x]][Other(x)])
          BY <4>3, <5>1 DEF n
        <5>4. g <= n => sent'[fd[x]][Other(x)][g] = sent[fd[x]][Other(x)][g]
          BY <4>3, <5>2 DEF n
        <5> QED BY <5>3, <5>4 DEF g, n
      <4> QED BY <1>1, <3>1, <4>2, <4>6 DEF Call, Total
    <3> QED BY <3>2, <3>3
  <2> QED BY <2>1, <2>2
<1>9. ASSUME NEW d \in Conns, NEW x \in Ends
      PROVE  /\ Live(d, x)' <=> Live(d, x)
             /\ ReadPos(d, x)' = ReadPos(d, x) /\ WritePos(d, x)' = WritePos(d, x)
  <2>1. Live(d, x)' <=> Live(d, x)
    BY <1>1 DEF Live, Waiting
  <2>2. ReadPos(d, x)' = ReadPos(d, x)
    <3>1. CASE x = e
      <4>1. ReadPos(d, x) = <<Len(got[d][x]) + 1, 1>>
        BY <1>1, <3>1, IdlePositions
      <4>2. ReadPos(d, x)' = <<Len(got[d][x]) + 1, 1>>
        BY <1>1, <1>2, <3>1 DEF ReadPos, In
      <4> QED BY <4>1, <4>2
    <3>2. CASE x # e
      BY <1>1, <3>2 DEF ReadPos, In
    <3> QED BY <3>1, <3>2
  <2>3. WritePos(d, x)' = WritePos(d, x)
    <3>1. CASE d = c /\ x = e
      <4>1. WritePos(d, x) = <<k, 1>>
        BY <1>1, <3>1, IdlePositions DEF k
      <4>2. WritePos(d, x)' = <<k, 1>>
        BY <1>1, <1>2, <1>5, <3>1 DEF WritePos, In
      <4> QED BY <4>1, <4>2
    <3>2. CASE x = e /\ d # c
      BY <1>1, <1>4, <3>2 DEF WritePos, In
    <3>3. CASE x # e
      <4>1. act'[x] = act[x] /\ sent'[d][x] = sent[d][x] /\ fd' = fd
        BY <1>1, <1>4, <3>3
      <4> QED BY <4>1 DEF WritePos, In
    <3> QED BY <3>1, <3>2, <3>3
  <2> QED BY <2>1, <2>2, <2>3
<1>10. ASSUME NEW d \in Conns, NEW x \in Ends, Live(d, x)' PROVE Link(d, x)'
  <2> DEFINE p == Other(x)
             w == wire[d][x]
  <2>1. p \in Ends
    BY Others
  <2>2. /\ Link(d, x) /\ (Live(d, p)' <=> Live(d, p)) /\ wire' = wire
        /\ ReadPos(d, x)' = ReadPos(d, x) /\ WritePos(d, p)' = WritePos(d, p)
    BY <1>1, <1>9, <1>10, <2>1 DEF Messages, Links
  <2> HIDE DEF p
  <2>3. ASSUME NEW i \in 1 .. Len(w)
        PROVE  /\ IsUnit(d, p, w[i])' /\ Total(d, p, w[i][1])' = Total(d, p, w[i][1])
    <3>1. IsUnit(d, p, w[i])
      BY <2>2 DEF Link, p
    <3>2. w[i][1] \in 1 .. Len(sent[d][p])
      BY <3>1 DEF IsUnit
    <3>3. sent'[d][p][w[i][1]] = sent[d][p][w[i][1]]
      BY <1>6, <2>1, <3>2
    <3>4. w[i][1] \in 1 .. Len(sent'[d][p])
      BY <1>6, <2>1, <3>2
    <3> QED BY <2>2, <3>1, <3>3, <3>4 DEF IsUnit, Total
  <2>4. w' = w
    BY <2>2
  <2> HIDE DEF w
  <2> QED BY <2>2, <2>3, <2>4 DEF Link, p, w
<1>11. FramesIntact'
  <2>1. ASSUME NEW d \in Conns, NEW x \in Ends,
               NEW i \in 1 .. Len(got[d][x])
        PROVE  got'[d][x][i] = Payload(d, Other(x), i)'
    <3>1. /\ got[d][x][i] = Payload(d, Other(x), i) /\ Other(x) \in Ends
          /\ Len(got[d][x]) <= Len(sent[d][Other(x)]) /\ Len(got[d][x]) \in Nat
      BY Others DEF Messages, FramesIntact, Types
    <3>2. i \in 1 .. Len(sent[d][Other(x)])
      BY <1>6, <3>1
    <3>3. sent'[d][Other(x)][i] = sent[d][Other(x)][i]
      BY <1>6, <3>1, <3>2
    <3> QED BY <1>1, <3>1, <3>3 DEF Payload
  <2>2. ASSUME NEW d \in Conns, NEW x \in Ends
        PROVE  Len(got'[d][x]) <= Len(sent'[d][Other(x)])
    <3>1. /\ Len(got[d][x]) <= Len(sent[d][Other(x)]) /\ Len(got[d][x]) \in Nat
          /\ Other(x) \in Ends
      BY Others DEF Messages, FramesIntact, Types
    <3> QED BY <1>1, <1>6, <3>1
  <2> QED BY <1>1, <2>1, <2>2 DEF FramesIntact
<1> QED BY <1>7, <1>8, <1>10, <1>11 DEF Messages, Links

\* send_all: n units of a part go to the wire.
LEMMA SendSomeMessages ==
  ASSUME Types, Calls, Messages, NEW e \in Ends, SendSome(e)
  PROVE  Messages'
<1>0. PICK c \in Conns : c = fd[e]
  <2>1. act[e] # Idle
    BY DEF SendSome, Idle
  <2> QED BY <2>1 DEF Calls
<1> DEFINE r == Other(e)
           k == Len(sent[c][e])
           a == act[e]
           T == Total(c, e, k)
           w == wire[c][r]
           v == wire'[c][r]
<1>1. PICK n \in 1 .. Room(e) :
        /\ a.done + n <= a.part
        /\ wire' = [wire EXCEPT ![c][r] = @ \o [i \in 1 .. n |-> <<k, a.done + i>>]]
        /\ act' = [act EXCEPT ![e] =
             IF a.done + n = a.total THEN Idle
             ELSE [a EXCEPT !.done = a.done + n,
                            !.part = IF a.done + n = a.part THEN a.total ELSE a.part]]
  BY <1>0 DEF SendSome
<1>2. /\ a.op = "send" /\ a \in Sending /\ a # Idle
      /\ UNCHANGED <<fd, threw, sent, got, backlog, attempts>>
  BY ActKinds DEF SendSome, logs, server, Types, Idle
<1>3. c \in Conns /\ r \in Ends /\ r # e /\ Other(r) = e
  BY Others
<1>4. /\ a.done \in Nat /\ a.part \in Nat /\ a.total \in Nat /\ k \in Nat /\ k > 0
      /\ a.done < a.part /\ a.part <= a.total /\ a.total = T /\ e \notin threw
  BY <1>0, <1>2, <1>3 DEF Sending, Types, Messages, Call
<1>5. /\ \A d \in Conns, x \in Ends : d # c \/ x # r => wire'[d][x] = wire[d][x]
      /\ Len(v) = Len(w) + n
      /\ \A i \in 1 .. Len(w) : v[i] = w[i]
      /\ \A i \in 1 .. n : v[Len(w) + i] = <<k, a.done + i>>
  <2>1. wire' = [wire EXCEPT ![fd[e]][Other(e)] =
                    @ \o [i \in 1 .. n |-> <<Len(sent[fd[e]][e]), act[e].done + i>>]]
    BY <1>0, <1>1
  <2>2. /\ \A d \in Conns, x \in Ends :
              d # fd[e] \/ x # Other(e) => wire'[d][x] = wire[d][x]
        /\ Len(wire'[fd[e]][Other(e)]) = Len(wire[fd[e]][Other(e)]) + n
        /\ \A i \in 1 .. Len(wire[fd[e]][Other(e)]) :
              wire'[fd[e]][Other(e)][i] = wire[fd[e]][Other(e)][i]
        /\ \A i \in 1 .. n : wire'[fd[e]][Other(e)][Len(wire[fd[e]][Other(e)]) + i]
                               = <<Len(sent[fd[e]][e]), act[e].done + i>>
    BY <1>2, <2>1, WireGrows
  <2> QED BY <1>0, <2>2
<1>6. w \in Seq(Units) /\ Len(w) \in Nat /\ \A i \in 1 .. Len(w) : w[i] \in Units
  BY <1>3 DEF Types
<1>7. n \in Nat /\ n > 0 /\ a.done + n <= T /\ T \in Nat
  BY <1>1, <1>3, <1>4, Constants
<1>8. /\ \A x \in Ends \ {e} : act'[x] = act[x]
      /\ a.done + n = T => act'[e] = Idle
      /\ a.done + n # T =>
           /\ act'[e].op = "send" /\ act'[e].done = a.done + n /\ act'[e].total = T
           /\ act'[e].part = IF a.done + n = a.part THEN T ELSE a.part
  BY <1>1, <1>2, <1>4 DEF Types, Sending
<1> HIDE DEF w, v, T
<1>9. /\ In(c, e, "send") /\ WritePos(c, e) = <<k, a.done + 1>>
      /\ WritePos(c, e)' = After(T, k, a.done + n)
  <2>1. CASE a.done + n = T
    BY <1>0, <1>2, <1>8, <2>1 DEF In, WritePos, After, Idle
  <2>2. CASE a.done + n # T
    BY <1>0, <1>2, <1>8, <2>2 DEF In, WritePos, After
  <2> QED BY <2>1, <2>2
<1>10. ASSUME NEW d \in Conns, NEW x \in Ends
       PROVE  /\ Live(d, x)' <=> Live(d, x)
              /\ ReadPos(d, x)' = ReadPos(d, x)
              /\ d # c \/ x # e => WritePos(d, x)' = WritePos(d, x)
  <2>1. Live(d, x)' <=> Live(d, x)
    BY <1>2 DEF Live, Waiting
  <2>2. CASE x = e
    <3>1. act'[e].op \in {"send", "idle"}
      BY <1>8 DEF Idle
    <3>2. ReadPos(d, x) = <<Len(got[d][x]) + 1, 1>>
      BY <1>2, <2>2 DEF ReadPos, In
    <3>3. ReadPos(d, x)' = <<Len(got[d][x]) + 1, 1>>
      BY <1>2, <2>2, <3>1 DEF ReadPos, In
    <3>4. d # c => WritePos(d, x)' = WritePos(d, x)
      BY <1>0, <1>2, <2>2 DEF WritePos, In
    <3> QED BY <2>1, <2>2, <3>2, <3>3, <3>4
  <2>3. CASE x # e
    <3>1. act'[x] = act[x]
      BY <1>8, <2>3
    <3> QED BY <1>2, <2>1, <3>1 DEF ReadPos, WritePos, In
  <2> QED BY <2>2, <2>3
<1>11. ASSUME Live(c, r) PROVE Link(c, r)'
  <2>1. Live(c, e)
    BY <1>0, <1>4 DEF Live
  <2>2. /\ \A i \in 1 .. Len(w) : IsUnit(c, e, w[i])
        /\ \A i \in 1 .. Len(w) : \A j \in i .. Len(w) :
               Follows(Total(c, e, w[i][1]), w[i], w[j], j - i)
        /\ Len(w) > 0 => w[1] = ReadPos(c, r)
        /\ \A i \in 1 .. Len(w) :
               Follows(Total(c, e, w[i][1]), w[i], <<k, a.done + 1>>, Len(w) + 1 - i)
        /\ Len(w) = 0 => <<k, a.done + 1>> = ReadPos(c, r)
    BY <1>3, <1>9, <1>11, <2>1 DEF Messages, Links, Link, w
  <2>3. \A m : Total(c, e, m)' = Total(c, e, m)
    BY <1>2 DEF Total
  <2>4. \A u : IsUnit(c, e, u)' <=> IsUnit(c, e, u)
    BY <1>2 DEF IsUnit, Total
  <2>5. Total(c, e, k) = T
    BY DEF T
  \* An old unit and what follows it now.
  <2>6. ASSUME NEW i \in 1 .. Len(w), NEW m \in 1 .. n
        PROVE  /\ Follows(Total(c, e, w[i][1]), w[i], <<k, a.done + m>>, Len(w) + m - i)
               /\ Follows(Total(c, e, w[i][1]), w[i], After(T, k, a.done + m),
                          Len(w) + 1 + m - i)
    <3> DEFINE u == w[i]
               t == Total(c, e, u[1])
               d == Len(w) + 1 - i
    <3>1. IsUnit(c, e, u) /\ u \in Units /\ Follows(t, u, <<k, a.done + 1>>, d)
      BY <1>6, <2>2
    <3>2. t \in Nat /\ u[2] <= t /\ (k = u[1] => t = T)
      <4>1. u[1] \in 1 .. Len(sent[c][e]) /\ sent[c][e][u[1]] \in Nat
        <5>1. u[1] \in 1 .. Len(sent[c][e])
          BY <3>1 DEF IsUnit
        <5>2. sent[c][e] \in Seq(Sizes)
          BY <1>3 DEF Types
        <5> HIDE DEF u
        <5>3. sent[c][e][u[1]] \in Sizes
          BY <5>1, <5>2
        <5> QED BY <5>1, <5>3, Constants
      <4>2. t \in Nat
        BY <4>1, Constants DEF Total
      <4> QED BY <2>5, <3>1, <4>2 DEF IsUnit
    <3>3. d \in Nat /\ m \in Nat /\ m > 0 /\ a.done + m <= T
      BY <1>4, <1>6, <1>7
    <3> HIDE DEF u, t, d
    <3>4. /\ Follows(t, u, <<k, a.done + m>>, d + m - 1)
          /\ Follows(t, u, After(T, k, a.done + m), d + m)
      BY <1>4, <1>7, <3>1, <3>2, <3>3, FollowsOn
    <3>5. d + m - 1 = Len(w) + m - i /\ d + m = Len(w) + 1 + m - i
      BY <1>6, <3>3 DEF d
    <3> QED BY <3>4, <3>5 DEF u, t
  <2>7. /\ Len(v) = Len(w) + n
        /\ \A i \in 1 .. Len(v) : \/ i \in 1 .. Len(w) /\ v[i] = w[i]
                                  \/ \E m \in 1 .. n : i = Len(w) + m /\ v[i] = <<k, a.done + m>>
    <3>1. ASSUME NEW i \in 1 .. Len(v), i \notin 1 .. Len(w)
          PROVE  \E m \in 1 .. n : i = Len(w) + m /\ v[i] = <<k, a.done + m>>
      <4>1. i - Len(w) \in 1 .. n /\ i = Len(w) + (i - Len(w))
        BY <1>5, <1>6, <1>7, <3>1
      <4>2. v[Len(w) + (i - Len(w))] = <<k, a.done + (i - Len(w))>>
        BY <1>5, <4>1
      <4> QED BY <4>1, <4>2
    <3> QED BY <1>5, <3>1
  <2>8. \A i \in 1 .. Len(v) : IsUnit(c, e, v[i])
    <3>1. ASSUME NEW m \in 1 .. n PROVE IsUnit(c, e, <<k, a.done + m>>)
      BY <1>4, <1>7, <2>5 DEF IsUnit
    <3> QED BY <2>2, <2>7, <3>1
  <2>9. ASSUME NEW i \in 1 .. Len(v), NEW j \in i .. Len(v)
        PROVE  Follows(Total(c, e, v[i][1]), v[i], v[j], j - i)
    <3>1. CASE j \in 1 .. Len(w)
      <4>1. i \in 1 .. Len(w) /\ j \in i .. Len(w)
        BY <1>5, <1>6, <1>7, <3>1
      <4>2. v[i] = w[i] /\ v[j] = w[j]
        BY <1>5, <3>1, <4>1
      <4> QED BY <2>2, <4>1, <4>2
    <3>2. ASSUME NEW m \in 1 .. n, j = Len(w) + m, v[j] = <<k, a.done + m>>
          PROVE  Follows(Total(c, e, v[i][1]), v[i], v[j], j - i)
      <4>1. CASE i \in 1 .. Len(w)
        <5>1. v[i] = w[i]
          BY <1>5, <4>1
        <5> QED BY <2>6, <3>2, <4>1, <5>1
      <4>2. ASSUME NEW l \in 1 .. n, i = Len(w) + l, v[i] = <<k, a.done + l>>
            PROVE  Follows(Total(c, e, v[i][1]), v[i], v[j], j - i)
        <5>1. a.done + l \in Nat /\ a.done + m \in Nat /\ a.done + l <= a.done + m
              /\ a.done + m <= T /\ j - i = (a.done + m) - (a.done + l)
          <6>1. /\ l \in Nat /\ m \in Nat /\ m <= n /\ l <= m
                /\ j - i = m - l
            BY <1>5, <1>6, <1>7, <3>2, <4>2
          <6> DEFINE dn == a.done
          <6>2. dn \in Nat /\ dn + n <= T /\ n \in Nat /\ T \in Nat
            BY <1>4, <1>7
          <6> HIDE DEF dn
          <6>3. /\ dn + l \in Nat /\ dn + m \in Nat /\ dn + l <= dn + m
                /\ dn + m <= T /\ (dn + m) - (dn + l) = m - l
            BY <6>1, <6>2, Shift
          <6> QED BY <6>1, <6>3 DEF dn
        <5>2. Follows(T, <<k, a.done + l>>, <<k, a.done + m>>, j - i)
          BY <1>4, <1>7, <5>1, FollowsInside
        <5>3. v[i][1] = k
          BY <4>2
        <5> QED BY <2>5, <3>2, <4>2, <5>2, <5>3
      <4> QED BY <2>7, <4>1, <4>2
    <3>3. j \in 1 .. Len(v)
      BY <1>5, <1>6, <1>7
    <3> QED BY <2>7, <3>1, <3>2, <3>3
  <2>10. ASSUME NEW i \in 1 .. Len(v)
         PROVE  Follows(Total(c, e, v[i][1]), v[i], After(T, k, a.done + n), Len(v) + 1 - i)
    <3>1. CASE i \in 1 .. Len(w)
      <4>1. v[i] = w[i] /\ n \in 1 .. n /\ Len(v) + 1 - i = Len(w) + 1 + n - i
        BY <1>5, <1>6, <1>7, <3>1
      <4> QED BY <2>6, <3>1, <4>1
    <3>2. ASSUME NEW l \in 1 .. n, i = Len(w) + l, v[i] = <<k, a.done + l>>
          PROVE  Follows(Total(c, e, v[i][1]), v[i], After(T, k, a.done + n), Len(v) + 1 - i)
      <4>1. a.done + l \in Nat /\ a.done + n \in Nat /\ a.done + l <= a.done + n
            /\ a.done + n <= T /\ Len(v) + 1 - i = (a.done + n) + 1 - (a.done + l)
        <5>1. l \in Nat /\ l <= n /\ Len(v) + 1 - i = n + 1 - l
          BY <1>5, <1>6, <1>7, <3>2
        <5> DEFINE dn == a.done
        <5>2. dn \in Nat /\ dn + n <= T /\ n \in Nat /\ T \in Nat
          BY <1>4, <1>7
        <5> HIDE DEF dn
        <5>3. /\ dn + l \in Nat /\ dn + n \in Nat /\ dn + l <= dn + n
              /\ (dn + n) + 1 - (dn + l) = n + 1 - l
          BY <5>1, <5>2, Shift
        <5> QED BY <5>1, <5>2, <5>3 DEF dn
      <4>2. Follows(T, <<k, a.done + l>>, After(T, k, a.done + n), Len(v) + 1 - i)
        BY <1>4, <1>7, <4>1, FollowsInside
      <4>3. v[i][1] = k
        BY <3>2
      <4> QED BY <2>5, <3>2, <4>2, <4>3
    <3> QED BY <2>7, <3>1, <3>2
  <2>11. Len(v) > 0 /\ v[1] = ReadPos(c, r)
    <3>1. CASE Len(w) = 0
      <4>1. v[1] = <<k, a.done + 1>>
        BY <1>5, <1>7, <3>1
      <4> QED BY <1>5, <1>7, <2>2, <3>1, <4>1
    <3>2. CASE Len(w) > 0
      BY <1>5, <1>6, <1>7, <2>2, <3>2
    <3> QED BY <1>6, <3>1, <3>2
  <2>12. ReadPos(c, r)' = ReadPos(c, r) /\ WritePos(c, e)' = After(T, k, a.done + n)
    BY <1>3, <1>9, <1>10
  <2> QED BY <1>2, <1>3, <2>3, <2>4, <2>8, <2>9, <2>10, <2>11, <2>12 DEF Link, v
<1>12. Queue'
  <2>1. \A d \in Conns, x \in Ends : d > attempts => wire'[d][x] = wire[d][x]
    <3>1. c <= attempts
      BY <1>0 DEF Messages, Queue
    <3> QED BY <1>5, <3>1, Numbers
  <2> QED BY <1>2, <2>1 DEF Messages, Queue
<1>13. ASSUME NEW x \in Ends PROVE Call(x)'
  <2>1. CASE x = e /\ a.done + n = T
    BY <1>8, <2>1 DEF Call, Idle
  <2>2. CASE x = e /\ a.done + n # T
    <3>1. /\ act'[e].done < act'[e].part /\ act'[e].part <= act'[e].total
          /\ act'[e].op = "send" /\ act'[e].total = Total(c, e, k)
      BY <1>1, <1>4, <1>7, <1>8, <2>2 DEF T
    <3> QED BY <1>0, <1>2, <1>4, <2>2, <3>1 DEF Call, Total
  <2>3. CASE x # e
    <3>1. act'[x] = act[x] /\ Call(x)
      BY <1>8, <2>3 DEF Messages
    <3> QED BY <1>2, <3>1 DEF Call, Total
  <2> QED BY <2>1, <2>2, <2>3
<1>14. ASSUME NEW d \in Conns, NEW x \in Ends, Live(d, x)' PROVE Link(d, x)'
  <2>1. CASE d = c /\ x = r
    BY <1>3, <1>10, <1>11, <1>14, <2>1
  <2>2. CASE d # c \/ x # r
    <3> DEFINE p == Other(x)
    <3>1. p \in Ends /\ (d # c \/ p # e)
      BY <2>2, Others
    <3>2. /\ Link(d, x) /\ (Live(d, p)' => Live(d, p)) /\ wire'[d][x] = wire[d][x]
          /\ ReadPos(d, x)' = ReadPos(d, x) /\ WritePos(d, p)' = WritePos(d, p)
      BY <1>5, <1>10, <1>14, <2>2, <3>1 DEF Messages, Links
    <3>3. /\ \A m : Total(d, p, m)' = Total(d, p, m)
          /\ \A u : IsUnit(d, p, u)' <=> IsUnit(d, p, u)
      BY <1>2 DEF Total, IsUnit
    <3> QED BY <3>2, <3>3 DEF Link
  <2> QED BY <2>1, <2>2
<1> QED BY <1>2, <1>12, <1>13, <1>14, FramesStay DEF Messages, Links

\* receive_all: n units of a part are read, by an end that stays live.
LEMMA LinkShrinks ==
  ASSUME Types, NEW c \in Conns, NEW e \in Ends, NEW n \in 1 .. Len(wire[c][e]),
         NEW g \in Nat, NEW i \in Nat, Link(c, e), Live(c, Other(e)) \/ ~Live(c, Other(e))',
         ReadPos(c, e) = <<g, i + 1>>, i + n <= Total(c, Other(e), g),
         Total(c, Other(e), g) \in Nat, sent' = sent,
         Len(wire'[c][e]) = Len(wire[c][e]) - n,
         \A j \in 1 .. Len(wire[c][e]) - n : wire'[c][e][j] = wire[c][e][n + j],
         ReadPos(c, e)' = After(Total(c, Other(e), g), g, i + n),
         WritePos(c, Other(e))' = WritePos(c, Other(e))
  PROVE  Link(c, e)'
<1> DEFINE p == Other(e)
           w == wire[c][e]
           v == wire'[c][e]
           t == Total(c, p, g)
<1>1. w \in Seq(Units) /\ Len(w) \in Nat /\ p \in Ends
  BY Others DEF Types
<1>2. /\ \A x \in 1 .. Len(w) : IsUnit(c, p, w[x])
      /\ \A x \in 1 .. Len(w) : \A y \in x .. Len(w) :
             Follows(Total(c, p, w[x][1]), w[x], w[y], y - x)
      /\ w[1] = <<g, i + 1>>
      /\ Live(c, p) =>
           \A x \in 1 .. Len(w) :
              Follows(Total(c, p, w[x][1]), w[x], WritePos(c, p), Len(w) + 1 - x)
  BY <1>1 DEF Link
<1>3. Len(v) = Len(w) - n /\ \A x \in 1 .. Len(v) : v[x] = w[n + x] /\ n + x \in 1 .. Len(w)
  BY <1>1
<1>4. Len(w) > n => w[n + 1] = After(t, g, i + n)
  <2> SUFFICES ASSUME Len(w) > n PROVE w[n + 1] = After(t, g, i + n)
    OBVIOUS
  <2>1. /\ 1 \in 1 .. Len(w) /\ n + 1 \in 1 .. Len(w) /\ (n + 1) - 1 = n
        /\ n \in Nat /\ n > 0 /\ w[1][1] = g
    BY <1>1, <1>2
  <2>2. Follows(Total(c, p, w[1][1]), w[1], w[n + 1], (n + 1) - 1)
    BY <1>2, <2>1
  <2>3. Follows(t, <<g, i + 1>>, w[n + 1], n)
    BY <1>2, <2>1, <2>2
  <2> HIDE DEF t
  <2>4. t \in Nat /\ i + n <= t
    BY DEF t
  <2> QED BY <2>1, <2>3, <2>4, FollowsFirst
<1>5. Live(c, p) /\ Len(w) = n => WritePos(c, p) = After(t, g, i + n)
  <2> SUFFICES ASSUME Live(c, p), Len(w) = n PROVE WritePos(c, p) = After(t, g, i + n)
    OBVIOUS
  <2>1. Follows(Total(c, p, w[1][1]), w[1], WritePos(c, p), Len(w) + 1 - 1)
    BY <1>1, <1>2
  <2>2. w[1][1] = g /\ Len(w) + 1 - 1 = n /\ n \in Nat /\ n > 0
    BY <1>1, <1>2
  <2>3. Follows(t, <<g, i + 1>>, WritePos(c, p), n)
    BY <1>2, <2>1, <2>2
  <2> HIDE DEF t
  <2>4. t \in Nat /\ i + n <= t
    BY DEF t
  <2> QED BY <2>2, <2>3, <2>4, FollowsFirst
<1> HIDE DEF w, v, t
<1>6. \A m : Total(c, p, m)' = Total(c, p, m)
  BY DEF Total
<1>7. \A u : IsUnit(c, p, u)' <=> IsUnit(c, p, u)
  BY DEF IsUnit, Total
<1>8. \A x \in 1 .. Len(v) : IsUnit(c, p, v[x])
  BY <1>2, <1>3
<1>9. ASSUME NEW x \in 1 .. Len(v), NEW y \in x .. Len(v)
      PROVE  Follows(Total(c, p, v[x][1]), v[x], v[y], y - x)
  <2>1. /\ y \in 1 .. Len(v) /\ n + y \in (n + x) .. Len(w) /\ n + x \in 1 .. Len(w)
        /\ (n + y) - (n + x) = y - x
    BY <1>1, <1>3
  <2>2. Follows(Total(c, p, w[n + x][1]), w[n + x], w[n + y], (n + y) - (n + x))
    BY <1>2, <2>1
  <2> QED BY <1>3, <2>1, <2>2
<1>10. ASSUME Live(c, p), NEW x \in 1 .. Len(v)
       PROVE  Follows(Total(c, p, v[x][1]), v[x], WritePos(c, p), Len(v) + 1 - x)
  <2>1. n + x \in 1 .. Len(w) /\ Len(w) + 1 - (n + x) = Len(v) + 1 - x /\ v[x] = w[n + x]
    BY <1>1, <1>3
  <2>2. Follows(Total(c, p, w[n + x][1]), w[n + x], WritePos(c, p), Len(w) + 1 - (n + x))
    BY <1>2, <1>10, <2>1
  <2> QED BY <2>1, <2>2
<1>11. Len(v) > 0 => v[1] = After(t, g, i + n)
  <2> SUFFICES ASSUME Len(v) > 0 PROVE v[1] = After(t, g, i + n)
    OBVIOUS
  <2>1. 1 \in 1 .. Len(v) /\ Len(w) > n
    BY <1>1, <1>3
  <2> QED BY <1>3, <1>4, <2>1
<1>12. Live(c, p) /\ Len(v) = 0 => WritePos(c, p) = After(t, g, i + n)
  BY <1>1, <1>3, <1>5
<1>13. /\ ReadPos(c, e)' = After(t, g, i + n)
       /\ WritePos(c, p)' = WritePos(c, p)
       /\ Live(c, p)' => Live(c, p)
  BY DEF t
<1> QED BY <1>6, <1>7, <1>8, <1>9, <1>10, <1>11, <1>12, <1>13 DEF Link, v

LEMMA SmallModulo == ASSUME NEW a \in Nat, NEW b \in Nat, a < b PROVE a % b = a
OBVIOUS

\* receive_dynamic: what the wire holds is what the call expects.
LEMMA ReceiveSomeMessages ==
  ASSUME Careful, Types, Calls, Messages, NEW e \in Ends, NEW n \in Nat, ReceiveSome(e, n)
  PROVE  Messages'
<1>0. PICK c \in Conns : c = fd[e]
  BY Reads
<1> DEFINE p == Other(e)
           w == wire[c][e]
           b == act[e].buffer
           all == b \o SubSeq(w, 1, n)
           g == Len(got[c][e]) + 1
           P == PrefixUnits[p]
           i == IF act[e].op = "recv_prefix" THEN Len(b) ELSE P + Len(b)
           t == Total(c, p, g)
<1>1. /\ act[e] \in Receiving /\ act[e] # Idle /\ w \in Seq(Units) /\ n \in 1 .. Len(w)
      /\ all \in Seq(Units) /\ Len(all) = Len(b) + n
      /\ \A j \in 1 .. Len(b) : all[j] = b[j]
      /\ \A j \in 1 .. n : all[Len(b) + j] = w[j]
  BY <1>0, Reads
<1>2. /\ \A d \in Conns, x \in Ends : d # c \/ x # e => wire'[d][x] = wire[d][x]
      /\ Len(wire'[c][e]) = Len(w) - n
      /\ \A j \in 1 .. Len(w) - n : wire'[c][e][j] = w[n + j]
  <2>1. /\ \A d \in Conns, x \in Ends : d # fd[e] \/ x # e => wire'[d][x] = wire[d][x]
        /\ Len(wire'[fd[e]][e]) = Len(wire[fd[e]][e]) - n
        /\ \A j \in 1 .. Len(wire[fd[e]][e]) - n :
              wire'[fd[e]][e][j] = wire[fd[e]][e][n + j]
    BY Reads
  <2> QED BY <1>0, <2>1
<1>3. /\ Len(all) <= act[e].need
      /\ UNCHANGED <<fd, sent, listening, backlog, open, overwritten, attempts>>
      /\ \/ Incomplete(e, all)
         \/ Len(all) = act[e].need /\ act[e].op = "recv_payload" /\ Returned(e, all)
         \/ /\ Len(all) = act[e].need /\ act[e].op = "recv_prefix"
            /\ \/ Throw(e, connected[e]) /\ UNCHANGED got
               \/ \E size \in SizesRead(e, all) :
                    \/ size = 0 /\ Returned(e, <<>>)
                    \/ Expecting(e, size)
  BY <1>0, ReceiveOutcomes
<1>4. /\ act[e].op \in {"recv_prefix", "recv_payload"} /\ act[e].need \in Nat
      /\ b \in Seq(Units) /\ Len(b) \in Nat /\ n > 0 /\ Len(w) \in Nat
      /\ p \in Ends /\ P \in Nat /\ P > 0 /\ P = PrefixUnits[e]
  BY <1>1, ActKinds, Others, Constants, SamePrefix DEF Receiving, Acts
<1>5. Live(c, e) /\ Link(c, e) /\ Call(e)
  <2>1. Call(e) /\ e \notin threw
    BY <1>1 DEF Messages, Call
  <2> QED BY <1>0, <2>1 DEF Live, Messages, Links
<1>6. ReadPos(c, e) = <<g, i + 1>> /\ w[1] = <<g, i + 1>> /\ i \in Nat /\ g \in Nat /\ g > 0
  <2>1. Len(got[c][e]) \in Nat
    BY DEF Types
  <2>2. ReadPos(c, e) = <<g, i + 1>>
    BY <1>0, <1>4 DEF ReadPos, In
  <2>3. w[1] = ReadPos(c, e)
    BY <1>1, <1>4, <1>5 DEF Link
  <2> QED BY <1>4, <2>1, <2>2, <2>3
<1>7. /\ g \in 1 .. Len(sent[c][p]) /\ sent[c][p][g] \in Nat /\ sent[c][p][g] < LenMod
      /\ t = P + sent[c][p][g] /\ t \in Nat
  <2>1. IsUnit(c, p, w[1])
    BY <1>1, <1>4, <1>5 DEF Link
  <2>2. g \in 1 .. Len(sent[c][p])
    BY <1>6, <2>1 DEF IsUnit
  <2>3. sent[c][p] \in Seq(Sizes)
    BY <1>4 DEF Types
  <2> HIDE DEF g
  <2>4. sent[c][p][g] \in Sizes
    BY <2>2, <2>3
  <2> QED BY <1>4, <2>2, <2>4, Constants DEF Total, Careful
\* What the call has, by its part of the message.
<1>8. /\ act[e].op = "recv_prefix" =>
           /\ act[e].need = P /\ i = Len(b) /\ \A j \in 1 .. Len(b) : b[j] = <<g, j>>
      /\ act[e].op = "recv_payload" =>
           /\ act[e].need = sent[c][p][g] /\ i = P + Len(b)
           /\ \A j \in 1 .. Len(b) : b[j] = <<g, P + j>>
  BY <1>0, <1>5 DEF Call
<1> HIDE DEF w, b, g, P, t, all
<1>9. /\ i + n <= t /\ i + n \in Nat
      /\ act[e].op = "recv_prefix" => i + n = Len(all)
      /\ act[e].op = "recv_payload" => i + n = P + Len(all)
      /\ Len(all) < act[e].need => i + n < t
      /\ Len(all) = act[e].need /\ act[e].op = "recv_payload" => i + n = t
  <2> DEFINE s == sent[c][p][g]
  <2>1. /\ s \in Nat /\ t = P + s /\ P \in Nat /\ Len(b) \in Nat /\ n \in Nat
        /\ Len(all) = Len(b) + n /\ Len(all) <= act[e].need
    BY <1>1, <1>3, <1>4, <1>7
  <2> HIDE DEF s
  <2>2. CASE act[e].op = "recv_prefix"
    <3>1. act[e].need = P /\ i = Len(b)
      BY <1>8, <2>2
    <3> HIDE DEF i
    <3> QED BY <2>1, <2>2, <3>1
  <2>3. CASE act[e].op = "recv_payload"
    <3>1. act[e].need = s /\ i = P + Len(b)
      BY <1>8, <2>3 DEF s
    <3> HIDE DEF i
    <3> QED BY <2>1, <2>3, <3>1
  <2> QED BY <1>4, <2>2, <2>3
<1>10. \A j \in 1 .. n : w[j] = <<g, i + j>>
  <2>1. ASSUME NEW j \in 1 .. n PROVE Follows(t, <<g, i + 1>>, w[j], j - 1)
    <3>1. 1 \in 1 .. Len(w) /\ j \in 1 .. Len(w)
      BY <1>1, <1>4
    <3>2. Follows(Total(c, p, w[1][1]), w[1], w[j], j - 1)
      BY <1>4, <1>5, <3>1 DEF Link, w
    <3>3. w[1][1] = g
      BY <1>6
    <3> QED BY <1>6, <3>2, <3>3 DEF t
  <2> HIDE DEF i
  <2>2. g \in Nat /\ i \in Nat /\ t \in Nat /\ w[1] = <<g, i + 1>> /\ i + n <= t
    BY <1>6, <1>7, <1>9
  <2> SUFFICES ASSUME NEW j \in 1 .. n PROVE w[j] = <<g, i + j>>
    OBVIOUS
  <2>3. CASE j = 1
    BY <2>2, <2>3
  <2>4. CASE j > 1
    <3>1. j - 1 \in Nat /\ i + (j - 1) < t /\ i + (j - 1) + 1 = i + j
      BY <2>2, <2>4
    <3>2. w[j] = <<g, i + (j - 1) + 1>>
      BY <2>1, <2>2, <3>1, FollowsFirst
    <3> QED BY <3>1, <3>2
  <2> QED BY <2>3, <2>4
<1>11. /\ act[e].op = "recv_prefix" => \A j \in 1 .. Len(all) : all[j] = <<g, j>>
       /\ act[e].op = "recv_payload" => \A j \in 1 .. Len(all) : all[j] = <<g, P + j>>
  <2>1. ASSUME NEW j \in 1 .. Len(all)
        PROVE  /\ act[e].op = "recv_prefix" => all[j] = <<g, j>>
               /\ act[e].op = "recv_payload" => all[j] = <<g, P + j>>
    <3>1. CASE j \in 1 .. Len(b)
      BY <1>1, <1>8, <3>1
    <3>2. CASE j \notin 1 .. Len(b)
      <4> DEFINE m == j - Len(b)
      <4>1. m \in 1 .. n /\ j = Len(b) + m /\ m \in Nat
        BY <1>1, <1>4, <3>2
      <4> HIDE DEF m
      <4>2. all[j] = <<g, i + m>>
        BY <1>1, <1>10, <4>1
      <4>3. /\ act[e].op = "recv_prefix" => i + m = j
            /\ act[e].op = "recv_payload" => i + m = P + j
        BY <1>4, <1>8, <4>1
      <4> QED BY <4>2, <4>3
    <3> QED BY <3>1, <3>2
  <2> QED BY <2>1
\* Everything but the call of e and what it has returned.
<1>12. ASSUME threw' = threw, \A x \in Ends \ {e} : act'[x] = act[x],
              act'[e].op # "send",
              \A d \in Conns, x \in Ends : d # c \/ x # e => got'[d][x] = got[d][x],
              ReadPos(c, e)' = After(t, g, i + n)
       PROVE  Queue' /\ Links' /\ \A x \in Ends \ {e} : Call(x)'
  <2>1. Queue'
    <3>1. c <= attempts
      BY <1>0 DEF Messages, Queue
    <3>2. \A d \in Conns, x \in Ends : d > attempts =>
              wire'[d][x] = wire[d][x] /\ got'[d][x] = got[d][x]
      BY <1>2, <1>12, <3>1, Numbers
    <3> QED BY <1>3, <3>2 DEF Messages, Queue
  <2>2. ASSUME NEW x \in Ends \ {e} PROVE Call(x)'
    <3>1. Call(x) /\ act'[x] = act[x] /\ threw' = threw
      BY <1>12 DEF Messages
    <3>2. CASE act[x] = Idle
      BY <3>1, <3>2 DEF Call, Idle
    <3>3. CASE act[x] # Idle
      <4>1. fd[x] \in Conns
        BY <3>3 DEF Calls
      <4>2. got'[fd[x]][x] = got[fd[x]][x]
        BY <1>12, <4>1
      <4> QED BY <1>3, <3>1, <4>2 DEF Call, Total
    <3> QED BY <3>2, <3>3
  <2>3. ASSUME NEW d \in Conns, NEW x \in Ends
        PROVE  /\ Live(d, x)' <=> Live(d, x)
               /\ WritePos(d, x)' = WritePos(d, x)
               /\ d # c \/ x # e => ReadPos(d, x)' = ReadPos(d, x)
    <3>1. Live(d, x)' <=> Live(d, x)
      BY <1>3, <1>12 DEF Live, Waiting
    <3>2. CASE x = e
      <4>1. WritePos(d, x) = <<Len(sent[d][x]) + 1, 1>>
        BY <1>4, <3>2 DEF WritePos, In
      <4>2. WritePos(d, x)' = <<Len(sent[d][x]) + 1, 1>>
        BY <1>3, <1>12, <3>2 DEF WritePos, In
      <4>3. ASSUME d # c PROVE ReadPos(d, x)' = ReadPos(d, x)
        <5>1. ~In(d, x, "recv_prefix") /\ ~In(d, x, "recv_payload")
          BY <1>0, <3>2, <4>3 DEF In
        <5>2. ~In(d, x, "recv_prefix")' /\ ~In(d, x, "recv_payload")'
          BY <1>0, <1>3, <3>2, <4>3 DEF In
        <5> QED BY <1>12, <4>3, <5>1, <5>2 DEF ReadPos
      <4> QED BY <3>1, <3>2, <4>1, <4>2, <4>3
    <3>3. CASE x # e
      <4>1. act'[x] = act[x] /\ got'[d][x] = got[d][x]
        BY <1>12, <3>3
      <4> QED BY <1>3, <3>1, <4>1 DEF ReadPos, WritePos, In
    <3> QED BY <3>2, <3>3
  <2>4. Link(c, e)'
    <3>1. /\ Live(c, p)' <=> Live(c, p)
          /\ WritePos(c, p)' = WritePos(c, p)
      BY <1>4, <2>3
    <3>2. /\ n \in 1 .. Len(wire[c][e]) /\ ReadPos(c, e) = <<g, i + 1>>
          /\ i + n <= Total(c, p, g) /\ Total(c, p, g) \in Nat /\ sent' = sent
          /\ ReadPos(c, e)' = After(Total(c, p, g), g, i + n)
          /\ i \in Nat /\ g \in Nat
      BY <1>1, <1>3, <1>6, <1>7, <1>9, <1>12 DEF w, t
    <3>3. /\ Len(wire'[c][e]) = Len(wire[c][e]) - n
          /\ \A j \in 1 .. Len(wire[c][e]) - n : wire'[c][e][j] = wire[c][e][n + j]
      BY <1>2 DEF w
    <3> HIDE DEF i
    <3> QED BY <1>5, <3>1, <3>2, <3>3, LinkShrinks
  <2>5. ASSUME NEW d \in Conns, NEW x \in Ends, Live(d, x)', d # c \/ x # e
        PROVE  Link(d, x)'
    <3> DEFINE q == Other(x)
    <3>1. q \in Ends
      BY Others
    <3>2. /\ Link(d, x) /\ (Live(d, q)' => Live(d, q)) /\ wire'[d][x] = wire[d][x]
          /\ ReadPos(d, x)' = ReadPos(d, x) /\ WritePos(d, q)' = WritePos(d, q)
      BY <1>2, <2>3, <2>5, <3>1 DEF Messages, Links
    <3>3. /\ \A m : Total(d, q, m)' = Total(d, q, m)
          /\ \A u : IsUnit(d, q, u)' <=> IsUnit(d, q, u)
      BY <1>3 DEF Total, IsUnit
    <3> QED BY <3>2, <3>3 DEF Link
  <2> QED BY <2>1, <2>2, <2>4, <2>5 DEF Links
\* The part is not complete.
<1>13. CASE Incomplete(e, all)
  <2>1. /\ act'[e].op = act[e].op /\ act'[e].buffer = all /\ act'[e].need = act[e].need
        /\ act'[e] # Idle /\ \A x \in Ends \ {e} : act'[x] = act[x]
        /\ UNCHANGED <<got, threw>> /\ Len(all) < act[e].need
    BY <1>1, <1>4, <1>13 DEF Incomplete, Types, Receiving, Idle
  <2>2. ReadPos(c, e)' = After(t, g, i + n)
    <3>1. i + n < t /\ i + n \in Nat /\ t \in Nat
      BY <1>7, <1>9, <2>1
    <3>2. After(t, g, i + n) = <<g, i + n + 1>>
      BY <3>1 DEF After
    <3>3. CASE act[e].op = "recv_prefix"
      <4>1. ReadPos(c, e)' = <<g, Len(all) + 1>>
        BY <1>0, <1>3, <2>1, <3>3 DEF ReadPos, In, g
      <4> QED BY <1>9, <3>2, <3>3, <4>1
    <3>4. CASE act[e].op = "recv_payload"
      <4>1. ReadPos(c, e)' = <<g, P + Len(all) + 1>>
        BY <1>0, <1>3, <2>1, <3>4 DEF ReadPos, In, g, P
      <4> QED BY <1>9, <3>2, <3>4, <4>1
    <3> QED BY <1>4, <3>3, <3>4
  <2>3. Call(e)'
    <3>1. g <= Len(sent[c][p])
      BY <1>6, <1>7
    <3>2. e \notin threw
      BY <1>1, <1>5 DEF Call
    <3> QED BY <1>0, <1>3, <1>4, <1>8, <1>11, <2>1, <3>1, <3>2 DEF Call, g, P
  <2>4. Queue' /\ Links' /\ \A x \in Ends \ {e} : Call(x)'
    BY <1>4, <1>12, <2>1, <2>2
  <2>5. FramesIntact'
    BY <1>3, <2>1, FramesStay DEF Messages
  <2> QED BY <2>3, <2>4, <2>5 DEF Messages
\* A whole message is returned.
<1>14. ASSUME NEW m \in Seq(Units), Returned(e, m), m = Payload(c, p, g), i + n = t
       PROVE  Messages'
  <2>1. /\ act'[e] = Idle /\ \A x \in Ends \ {e} : act'[x] = act[x]
        /\ threw' = threw /\ got' = [got EXCEPT ![c][e] = Append(@, m)]
    BY <1>0, <1>14 DEF Returned, Types
  <2>2. /\ got[c][e] \in Seq(Seq(Units)) /\ got'[c][e] = Append(got[c][e], m)
        /\ \A d \in Conns, x \in Ends : d # c \/ x # e => got'[d][x] = got[d][x]
    BY <2>1 DEF Types
  <2>3. /\ Len(got'[c][e]) = g /\ got'[c][e][g] = m
        /\ \A j \in 1 .. Len(got[c][e]) : got'[c][e][j] = got[c][e][j]
    BY <2>2 DEF g
  <2>4. ReadPos(c, e)' = After(t, g, i + n)
    BY <1>14, <2>1, <2>3 DEF ReadPos, In, Idle, After
  <2>5. Call(e)' /\ act'[e].op # "send"
    BY <2>1 DEF Call, Idle
  <2>6. Queue' /\ Links' /\ \A x \in Ends \ {e} : Call(x)'
    BY <1>12, <2>1, <2>2, <2>4, <2>5
  <2>7. FramesIntact'
    <3>1. \A d, x, k : Payload(d, x, k)' = Payload(d, x, k)
      BY <1>3 DEF Payload
    <3>2. ASSUME NEW d \in Conns, NEW x \in Ends, d # c \/ x # e
          PROVE  /\ Len(got'[d][x]) <= Len(sent'[d][Other(x)])
                 /\ \A k \in 1 .. Len(got'[d][x]) : got'[d][x][k] = Payload(d, Other(x), k)'
      <4>1. got'[d][x] = got[d][x] /\ sent' = sent
        BY <1>3, <2>2, <3>2
      <4> QED BY <3>1, <4>1 DEF Messages, FramesIntact
    <3>3. Len(got'[c][e]) <= Len(sent'[c][p])
      BY <1>3, <1>6, <1>7, <2>3
    <3>4. ASSUME NEW k \in 1 .. Len(got'[c][e]) PROVE got'[c][e][k] = Payload(c, p, k)'
      <4>1. k \in 1 .. Len(got[c][e]) \/ k = g
        BY <2>2, <2>3, <3>4 DEF g
      <4>2. CASE k = g
        BY <1>14, <2>3, <3>1, <4>2
      <4>3. CASE k \in 1 .. Len(got[c][e])
        BY <2>3, <3>1, <4>3 DEF Messages, FramesIntact
      <4> QED BY <4>1, <4>2, <4>3
    <3> QED BY <3>2, <3>3, <3>4 DEF FramesIntact
  <2> QED BY <2>5, <2>6, <2>7 DEF Messages
<1>15. CASE Len(all) = act[e].need /\ act[e].op = "recv_payload" /\ Returned(e, all)
  <2>1. Len(all) = sent[c][p][g] /\ i + n = t /\ all \in Seq(Units)
    BY <1>1, <1>8, <1>9, <1>15
  <2>2. all = [j \in 1 .. Len(all) |-> all[j]]
    BY <2>1
  <2>3. all = Payload(c, p, g)
    BY <1>11, <1>15, <2>1, <2>2 DEF Payload, P
  <2> QED BY <1>14, <1>15, <2>1, <2>3
\* The prefix is complete, and tells the size.
<1>16. CASE Len(all) = act[e].need /\ act[e].op = "recv_prefix"
  <2>1. /\ Len(all) = P /\ i + n = P /\ \A j \in 1 .. Len(all) : all[j] = <<g, j>>
    BY <1>8, <1>9, <1>11, <1>16
  <2>2. SizesRead(e, all) = {sent[c][p][g]}
    <3>1. all[1][1] = g
      BY <1>4, <2>1
    <3>2. \A j \in 1 .. Len(all) : all[j] = <<g, j>> /\ j <= PrefixUnits[p]
      BY <1>4, <2>1 DEF P
    <3>3. sent[c][p][g] % LenMod = sent[c][p][g]
      BY <1>7, SmallModulo, TcpAssumption
    <3> QED BY <1>0, <3>1, <3>2, <3>3 DEF SizesRead
  <2>3. CASE Throw(e, connected[e]) /\ UNCHANGED got
    BY <1>0, <1>2, <1>3, <2>3, ThrowMessages, Numbers
  <2>4. CASE sent[c][p][g] = 0 /\ Returned(e, <<>>)
    <3>1. i + n = t
      BY <1>4, <1>7, <2>1, <2>4
    <3>2. <<>> = Payload(c, p, g)
      BY <2>4 DEF Payload
    <3> QED BY <1>14, <2>4, <3>1, <3>2, EmptySequences
  <2>5. CASE Expecting(e, sent[c][p][g])
    <3> DEFINE s == sent[c][p][g]
    <3>1. /\ act'[e].op = "recv_payload" /\ act'[e].buffer = <<>> /\ act'[e].need = s
          /\ \A x \in Ends \ {e} : act'[x] = act[x]
          /\ s > 0 /\ UNCHANGED <<got, threw>>
      BY <1>7, <2>5 DEF Expecting, Types
    <3>2. ReadPos(c, e)' = After(t, g, i + n)
      <4>1. i + n # t
        <5>1. s > 0
          BY <3>1
        <5>2. t = P + s /\ P \in Nat /\ s \in Nat
          BY <1>4, <1>7
        <5>3. i + n = P
          BY <2>1
        <5> HIDE DEF s, i
        <5> QED BY <5>1, <5>2, <5>3
      <4> QED BY <1>0, <1>3, <2>1, <3>1, <4>1, <1>4, EmptySequences
             DEF ReadPos, In, After, g, P
    <3>3. Call(e)'
      <4>1. g <= Len(sent[c][p]) /\ s > 0 /\ e \notin threw
        BY <1>1, <1>5, <1>6, <1>7, <3>1, <2>5 DEF Call, Expecting
      <4> QED BY <1>0, <1>3, <3>1, <4>1, EmptySequences DEF Call, g
    <3>4. Queue' /\ Links' /\ \A x \in Ends \ {e} : Call(x)'
      BY <1>12, <3>1, <3>2
    <3>5. FramesIntact'
      BY <1>3, <3>1, FramesStay DEF Messages
    <3> QED BY <3>3, <3>4, <3>5 DEF Messages
  <2> QED BY <1>3, <1>13, <1>16, <2>2, <2>3, <2>4, <2>5
<1> QED BY <1>3, <1>13, <1>15, <1>16

LEMMA MessagesNext ==
  ASSUME Careful, Types, Calls, Messages, [Next]_vars
  PROVE  Messages'
<1>1. CASE UNCHANGED vars
  <2>1. UNCHANGED <<fd, act, threw, sent, got, backlog, wire, attempts>>
    BY <1>1 DEF vars, objects, logs, kernel, server
  <2>2. Queue' /\ \A e \in Ends : Call(e)'
    BY <2>1 DEF Messages, Queue, Call, Total
  <2>3. \A c \in Conns, e \in Ends :
           /\ Live(c, e)' <=> Live(c, e)
           /\ ReadPos(c, e)' = ReadPos(c, e) /\ WritePos(c, e)' = WritePos(c, e)
    BY <2>1 DEF Live, Waiting, ReadPos, WritePos, In
  <2> QED BY <2>1, <2>2, <2>3, LinksStay, FramesStay DEF Messages
<1>2. CASE ConnectFails
  <2>1. /\ Client \in Ends
        /\ fd' = [fd EXCEPT ![Client] = NoFd] /\ Throw(Client, FALSE)
        /\ attempts' = attempts + 1
        /\ UNCHANGED <<sent, got, backlog, wire>>
    BY <1>2 DEF ConnectFails, BeginConnect, Ends, logs, server
  <2>2. attempts' \in Nat /\ attempts' >= attempts
    BY <2>1, Numbers
  <2> QED BY <2>1, <2>2, ThrowMessages
<1>3. ASSUME NEW e \in Ends,
             SendFails(e) \/ SendWouldBlock(e) \/ ReceiveFails(e) \/ ReceiveWouldBlock(e)
      PROVE  Messages'
  <2>1. /\ Throw(e, TRUE) \/ Throw(e, FALSE)
        /\ UNCHANGED <<fd, sent, got, backlog, wire, attempts>>
    BY <1>3 DEF SendFails, SendWouldBlock, ReceiveFails, ReceiveWouldBlock, logs, server, kernel
  <2>2. attempts' \in Nat /\ attempts' >= attempts
    BY <2>1, Numbers
  <2> QED BY <2>1, <2>2, ThrowMessages
<1>4. ASSUME NEW e \in Ends,
             \/ SendSome(e) \/ \E n \in 1 .. Capacity : ReceiveSome(e, n)
             \/ ReceiveDynamic(e) \/ \E size \in Sizes : SendDynamic(e, size)
             \/ Close(e)
      PROVE  Messages'
  BY <1>4, SendSomeMessages, ReceiveSomeMessages, ReceiveDynamicMessages,
     SendDynamicMessages, CloseMessages, Constants
<1>5. CASE Connect
  BY <1>5, ConnectMessages
<1> QED BY <1>1, <1>2, <1>3, <1>4, <1>5, ServerMessages DEF Next

LEMMA MessagesInit == ASSUME Init PROVE Messages
<1>1. Queue
  BY EmptySequences, Constants DEF Init, Queue, PerEnd, NoFd
<1>2. \A e \in Ends : Call(e)
  BY DEF Init, Call, Idle
<1>3. Links
  BY Constants, EmptySequences DEF Init, Links, Live, Waiting
<1>4. FramesIntact
  <2>1. \A c \in Conns, e \in Ends : got[c][e] = <<>> /\ sent[c][e] = <<>>
    BY DEF Init, PerEnd
  <2> QED BY <2>1, Others, EmptySequences DEF FramesIntact
<1> QED BY <1>1, <1>2, <1>3, <1>4 DEF Messages

(* send_dynamic and receive_dynamic: what is received is what was sent, whole *)
(* and in order, for messages of any size a prefix can tell (less than 2^32   *)
(* in the code) between ends that agree on the prefix and, after a call       *)
(* threw, send and receive no more before they close or reconnect.  Without   *)
(* the first assumption the run tcp_documented_prefix refutes it.             *)
THEOREM MessagesArriveWhole ==
  ASSUME CloseOnError, PrefixUnits[Client] = PrefixUnits[Server],
         \A size \in Sizes : size < LenMod
  PROVE  Spec => []FramesIntact
<1>1. Careful
  BY DEF Careful
<1>4. Types /\ Calls /\ Messages /\ [Next]_vars => Messages'
  BY <1>1, MessagesNext
<1>5. Messages => FramesIntact
  BY DEF Messages
<1> QED BY <1>4, <1>5, InitTypes, TypesNext, MessagesInit, PTL DEF Spec

-----------------------------------------------------------------------------
(* The two sockets as a message stream *)

\* The server has neither sent nor received on a connection that still waits
\* for accept(): with Queue, every connection an end joins is new to it.
Unheard == \A c \in Conns : Waiting(c) => sent[c][Server] = <<>> /\ got[c][Server] = <<>>

LEMMA EndsAre == Client \in Ends /\ Server \in Ends /\ Client # Server
BY TcpAssumption DEF Ends

LEMMA UnheardInit == ASSUME Init PROVE Unheard
BY EndsAre DEF Init, Unheard, PerEnd

\* send_dynamic logs a message on the connection of its end.
LEMMA Logged ==
  ASSUME Types, Calls, NEW e \in Ends, NEW size \in Sizes, SendDynamic(e, size)
  PROVE  /\ fd[e] \in Conns
         /\ \A c \in Conns, x \in Ends : c # fd[e] \/ x # e => sent'[c][x] = sent[c][x]
         /\ UNCHANGED <<fd, got, backlog>>
<1>1. /\ fd[e] \in Conns
      /\ sent' = [sent EXCEPT ![fd[e]][e] = Append(@, size)]
      /\ UNCHANGED <<fd, got, backlog>>
  BY DEF SendDynamic, MayCall, Calls, server
<1>2. Append(sent[fd[e]][e], size) \in Seq(Sizes)
  BY <1>1 DEF Types
<1> QED BY <1>1, <1>2, SetEntry DEF Types

\* receive_dynamic adds the message it returns on the connection of its end.
LEMMA Delivered ==
  ASSUME Types, Calls, NEW e \in Ends, NEW m \in Seq(Units), Returned(e, m), fd[e] \in Conns
  PROVE  LET g == got[fd[e]][e]
         IN  /\ got'[fd[e]][e] = Append(g, m)
             /\ \A c \in Conns, x \in Ends : c # fd[e] \/ x # e => got'[c][x] = got[c][x]
             /\ g \in Seq(Seq(Units)) /\ Append(g, m) \in Seq(Seq(Units))
             /\ Len(Append(g, m)) = Len(g) + 1 /\ Append(g, m)[Len(g) + 1] = m
             /\ \A k \in 1 .. Len(g) : Append(g, m)[k] = g[k]
<1>1. got[fd[e]][e] \in Seq(Seq(Units))
  BY DEF Types
<1> DEFINE g == got[fd[e]][e]
           M == Seq(Units)
<1>2. g \in Seq(M) /\ m \in M
  BY <1>1
<1> HIDE DEF M, g
<1>3. /\ Append(g, m) \in Seq(M) /\ Len(Append(g, m)) = Len(g) + 1
      /\ Append(g, m)[Len(g) + 1] = m
      /\ \A k \in 1 .. Len(g) : Append(g, m)[k] = g[k]
  BY <1>2
<1>4. /\ got'[fd[e]][e] = Append(g, m)
      /\ \A c \in Conns, x \in Ends : c # fd[e] \/ x # e => got'[c][x] = got[c][x]
  BY <1>2, <1>3, SetEntry DEF Returned, Types, g, M
<1> QED BY <1>2, <1>3, <1>4 DEF g, M

\* ReceiveSome(e, n) returns one message or adds none.
LEMMA OneMessage ==
  ASSUME Types, Calls, NEW e \in Ends, NEW n \in Nat, ReceiveSome(e, n)
  PROVE  /\ fd[e] \in Conns /\ UNCHANGED <<fd, sent, backlog>>
         /\ UNCHANGED got \/ \E m \in Seq(Units) : Returned(e, m)
<1> DEFINE all == act[e].buffer \o SubSeq(wire[fd[e]][e], 1, n)
<1>1. fd[e] \in Conns /\ all \in Seq(Units)
  BY Reads
<1> HIDE DEF all
<1>2. /\ UNCHANGED <<fd, sent, backlog>>
      /\ \/ Incomplete(e, all) \/ Returned(e, all) \/ Returned(e, <<>>)
         \/ UNCHANGED got \/ \E size : Expecting(e, size)
  BY ReceiveOutcomes DEF all
<1> QED BY <1>1, <1>2, EmptySequences DEF Incomplete, Expecting

\* The steps of which a program sees nothing.
Inside ==
    \/ Listen \/ StopListening
    \/ \E e \in Ends :
         \/ SendSome(e) \/ SendFails(e) \/ SendWouldBlock(e)
         \/ ReceiveDynamic(e) \/ ReceiveFails(e) \/ ReceiveWouldBlock(e)

LEMMA InsideStays ==
  ASSUME Inside \/ UNCHANGED vars
  PROVE  UNCHANGED <<fd, sent, got>> /\ (backlog' = backlog \/ backlog' = <<>>)
<1>1. CASE UNCHANGED vars
  BY <1>1 DEF vars, objects, logs, server
<1>2. CASE Listen \/ StopListening
  BY <1>2 DEF Listen, StopListening, objects, logs
<1>3. ASSUME NEW e \in Ends,
             SendSome(e) \/ SendFails(e) \/ SendWouldBlock(e)
      PROVE  UNCHANGED <<fd, sent, got, backlog>>
  BY <1>3 DEF SendSome, SendFails, SendWouldBlock, logs, server
<1>4. ASSUME NEW e \in Ends,
             ReceiveDynamic(e) \/ ReceiveFails(e) \/ ReceiveWouldBlock(e)
      PROVE  UNCHANGED <<fd, sent, got, backlog>>
  BY <1>4 DEF ReceiveDynamic, ReceiveFails, ReceiveWouldBlock, logs, server
<1> QED BY <1>1, <1>2, <1>3, <1>4 DEF Inside

LEMMA UnheardNext ==
  ASSUME Types, Calls, Queue, Unheard, [Next]_vars
  PROVE  Unheard'
<1>0. \A c \in Conns : Waiting(c) => fd[Server] # c
  BY WaitingIsNew
<1>1. CASE Inside \/ UNCHANGED vars
  <2>1. \A c \in Conns : Waiting(c)' => Waiting(c)
    BY <1>1, InsideStays, EmptySequences DEF Waiting
  <2> QED BY <1>1, <2>1, InsideStays DEF Unheard
<1>2. CASE Accept
  <2>1. /\ backlog # <<>> /\ backlog' = Tail(backlog) /\ UNCHANGED <<sent, got>>
        /\ backlog \in Seq(Conns)
    BY <1>2 DEF Accept, logs, Types
  <2>2. /\ Len(backlog') = Len(backlog) - 1 /\ Len(backlog) \in Nat
        /\ \A i \in 1 .. Len(backlog') : backlog'[i] = backlog[i + 1]
    BY <2>1
  <2>3. \A c \in Conns : Waiting(c)' => Waiting(c)
    BY <2>2 DEF Waiting
  <2> QED BY <2>1, <2>3 DEF Unheard
<1>3. CASE Connect
  <2>1. /\ backlog' = Append(backlog, attempts + 1) /\ UNCHANGED <<sent, got>>
        /\ backlog \in Seq(Conns)
    BY <1>3 DEF Connect, logs, Types
  <2>2. /\ Len(backlog') = Len(backlog) + 1 /\ Len(backlog) \in Nat
        /\ \A i \in 1 .. Len(backlog') :
               backlog'[i] = IF i = Len(backlog) + 1 THEN attempts + 1 ELSE backlog[i]
    BY <2>1
  <2>3. \A c \in Conns : Waiting(c)' => Waiting(c) \/ c = attempts + 1
    BY <2>2 DEF Waiting
  <2>4. \A c \in Conns : c = attempts + 1 => sent[c][Server] = <<>> /\ got[c][Server] = <<>>
    BY Numbers, EndsAre DEF Queue
  <2> QED BY <2>1, <2>3, <2>4 DEF Unheard
<1>4. CASE ConnectFails \/ \E e \in Ends : Close(e)
  <2>1. UNCHANGED <<sent, got, backlog>>
    BY <1>4 DEF ConnectFails, Close, logs, server
  <2> QED BY <2>1 DEF Unheard, Waiting
<1>5. ASSUME NEW e \in Ends, NEW size \in Sizes, SendDynamic(e, size) PROVE Unheard'
  BY <1>0, <1>5, Logged, EndsAre DEF Unheard, Waiting
<1>6. ASSUME NEW e \in Ends, NEW n \in 1 .. Capacity, ReceiveSome(e, n) PROVE Unheard'
  <2>1. /\ fd[e] \in Conns /\ UNCHANGED <<fd, sent, backlog>>
        /\ UNCHANGED got \/ \E m \in Seq(Units) : Returned(e, m)
    BY <1>6, OneMessage, Constants
  <2>2. \A c \in Conns : c # fd[e] \/ Server # e => got'[c][Server] = got[c][Server]
    BY <2>1, Delivered, EndsAre
  <2> QED BY <1>0, <2>1, <2>2 DEF Unheard, Waiting
<1> QED BY <1>1, <1>2, <1>3, <1>4, <1>5, <1>6 DEF Next, Inside

\* The lengths of a list that has one message more.
LEMMA OneMore ==
  ASSUME NEW g \in Seq(Seq(Units)), NEW h \in Seq(Seq(Units)), NEW s \in Nat,
         Len(h) = Len(g) + 1, Len(h[Len(h)]) = s,
         \A k \in 1 .. Len(g) : h[k] = g[k]
  PROVE  Lengths(h) = Append(Lengths(g), s)
<1>1. ASSUME NEW f \in Seq(Seq(Units))
      PROVE  /\ Len(f) \in Nat /\ Lengths(f) \in Seq(Nat) /\ Len(Lengths(f)) = Len(f)
             /\ \A k \in 1 .. Len(f) : Lengths(f)[k] = Len(f[k])
  <2>1. Len(f) \in Nat /\ \A k \in 1 .. Len(f) : f[k] \in Seq(Units)
    OBVIOUS
  <2>2. \A k \in 1 .. Len(f) : Len(f[k]) \in Nat
    BY <2>1
  <2> DEFINE l == [k \in 1 .. Len(f) |-> Len(f[k])]
  <2>3. l \in Seq(Nat) /\ Len(l) = Len(f) /\ \A k \in 1 .. Len(f) : l[k] = Len(f[k])
    BY <2>1, <2>2
  <2> QED BY <2>1, <2>3 DEF Lengths
<1> DEFINE a == Append(Lengths(g), s)
<1>2. /\ a \in Seq(Nat) /\ Len(a) = Len(g) + 1 /\ a[Len(g) + 1] = s
      /\ \A k \in 1 .. Len(g) : a[k] = Len(g[k])
  BY <1>1, AppendProperties
<1> HIDE DEF a
<1>3. /\ Lengths(h) \in Seq(Nat) /\ Len(Lengths(h)) = Len(a)
      /\ \A k \in 1 .. Len(h) : Lengths(h)[k] = a[k]
  <2>1. Len(g) \in Nat /\ Len(h) \in Nat /\ Lengths(h) \in Seq(Nat) /\ Len(Lengths(h)) = Len(h)
    BY <1>1
  <2>2. ASSUME NEW k \in 1 .. Len(g) PROVE Lengths(h)[k] = a[k]
    <3>1. k \in 1 .. Len(h) /\ h[k] = g[k]
      BY <2>1
    <3> QED BY <1>1, <1>2, <3>1
  <2>3. Lengths(h)[Len(h)] = a[Len(h)]
    <3>1. Len(h) \in 1 .. Len(h)
      BY <2>1
    <3> QED BY <1>1, <1>2, <3>1
  <2> QED BY <1>2, <2>1, <2>2, <2>3
<1>4. Lengths(h) = a
  BY <1>1, <1>2, <1>3, SeqEqual
<1> QED BY <1>4 DEF a

\* What a program sees of where its end is and of what it sent and received.
Seen == <<fd, sent, Received>>

LEMMA StreamInit == ASSUME Init PROVE Stream!Init
<1>1. Lengths(<<>>) = <<>>
  BY EmptySequences DEF Lengths
<1>2. \A c \in Conns, e \in Ends : got[c][e] = <<>>
  BY DEF Init, PerEnd
<1>3. Received = [c \in Conns |-> [e \in Ends |-> <<>>]]
  BY <1>1, <1>2 DEF Received
<1> QED BY <1>3 DEF Init, PerEnd, Stream!Init, Stream!Ends, Ends

LEMMA SeenStays == ASSUME UNCHANGED <<fd, sent, got>> PROVE UNCHANGED Seen
BY DEF Seen, Received, Lengths

\* A connection nobody has heard of yet has delivered nothing.
LEMMA NothingReceived ==
  ASSUME NEW c \in Conns, NEW e \in Ends, got[c][e] = <<>>
  PROVE  Received[c][e] = <<>>
BY EmptySequences DEF Received, Lengths

LEMMA Joins ==
  ASSUME Types, Calls, Queue, Unheard, Connect \/ Accept
  PROVE  \E e \in Ends, c \in Conns : Stream!Join(e, c)
<1>1. CASE Connect
  <2> DEFINE c == attempts + 1
  <2>1. /\ UNCHANGED <<sent, got>> /\ fd' = [fd EXCEPT ![Client] = c]
        /\ attempts < MaxConnections
    BY <1>1 DEF Connect, BeginConnect, logs
  <2>2. c \in Conns /\ c > attempts
    BY <2>1, Numbers, Constants DEF Conns
  <2>3. fd[Client] # c /\ sent[c][Client] = <<>> /\ got[c][Client] = <<>>
    BY <2>2, Numbers, EndsAre DEF Queue
  <2> HIDE DEF c
  <2>4. Received[c][Client] = <<>> /\ Received' = Received
    BY <2>1, <2>2, <2>3, NothingReceived, EndsAre DEF Received, Lengths
  <2> QED BY <2>1, <2>2, <2>3, <2>4, EndsAre DEF Stream!Join
<1>2. CASE Accept
  <2> DEFINE c == Head(backlog)
  <2>1. /\ UNCHANGED <<sent, got>> /\ fd' = [fd EXCEPT ![Server] = c]
        /\ backlog # <<>> /\ backlog \in Seq(Conns)
    BY <1>2 DEF Accept, logs, Types
  <2>2. c = backlog[1] /\ 1 \in 1 .. Len(backlog)
    BY <2>1
  <2> HIDE DEF c
  <2>3. Waiting(c)
    BY <2>2 DEF Waiting
  <2>4. /\ c \in Conns /\ fd[Server] # c
        /\ sent[c][Server] = <<>> /\ got[c][Server] = <<>>
    BY <2>3, WaitingIsNew DEF Unheard
  <2>5. Received[c][Server] = <<>> /\ Received' = Received
    BY <2>1, <2>4, NothingReceived, EndsAre DEF Received, Lengths
  <2> QED BY <2>1, <2>4, <2>5, EndsAre DEF Stream!Join
<1> QED BY <1>1, <1>2

LEMMA Leaves ==
  ASSUME ConnectFails \/ \E e \in Ends : Close(e)
  PROVE  \E e \in Ends : Stream!Leave(e)
<1>1. PICK e \in Ends : fd' = [fd EXCEPT ![e] = NoFd] /\ UNCHANGED <<sent, got>>
  BY EndsAre DEF ConnectFails, Close, logs
<1>2. Received' = Received
  BY <1>1 DEF Received, Lengths
<1> QED BY <1>1, <1>2 DEF Stream!Leave

LEMMA Sends ==
  ASSUME Types, Calls, NEW e \in Ends, NEW size \in Sizes, SendDynamic(e, size)
  PROVE  Stream!Send(e, size)
<1>1. /\ fd[e] \in Conns /\ UNCHANGED <<fd, got>>
      /\ sent' = [sent EXCEPT ![fd[e]][e] = Append(@, size)]
  BY Logged DEF SendDynamic
<1>2. Received' = Received
  BY <1>1 DEF Received, Lengths
<1> QED BY <1>1, <1>2 DEF Stream!Send

\* By FramesIntact in the state after, the message that receive_dynamic adds
\* is the next one of the peer.
LEMMA Receives ==
  ASSUME Types, Calls, Types', FramesIntact', NEW e \in Ends, NEW n \in Nat, ReceiveSome(e, n)
  PROVE  Stream!Receive(e) \/ UNCHANGED Seen
<1>1. /\ fd[e] \in Conns /\ UNCHANGED <<fd, sent>>
      /\ UNCHANGED got \/ \E m \in Seq(Units) : Returned(e, m)
  BY OneMessage
<1>2. SUFFICES ASSUME NEW m \in Seq(Units), Returned(e, m) PROVE Stream!Receive(e)
  BY <1>1, SeenStays
<1>3. PICK c \in Conns, p \in Ends : c = fd[e] /\ p = Other(e) /\ p = Stream!Peer(e)
  BY <1>1, Others DEF Other, Stream!Peer
<1> DEFINE g == got[c][e]
           h == got'[c][e]
<1>4. /\ h = Append(g, m)
      /\ \A d \in Conns, x \in Ends : d # c \/ x # e => got'[d][x] = got[d][x]
      /\ g \in Seq(Seq(Units)) /\ Append(g, m) \in Seq(Seq(Units))
      /\ Len(Append(g, m)) = Len(g) + 1 /\ Append(g, m)[Len(g) + 1] = m
      /\ \A i \in 1 .. Len(g) : Append(g, m)[i] = g[i]
  <2>1. g \in Seq(Seq(Units))
    BY <1>1, <1>3 DEF Types
  <2>2. /\ h = Append(g, m)
        /\ \A d \in Conns, x \in Ends : d # c \/ x # e => got'[d][x] = got[d][x]
    BY <1>1, <1>2, <1>3, Delivered
  <2> HIDE DEF g, h
  <2> QED BY <2>1, <2>2
<1>5. PICK k \in Nat : k = Len(g) + 1 /\ k >= 1
  BY <1>4
<1>6. /\ k <= Len(sent[c][p])
      /\ m = [i \in 1 .. sent[c][p][k] |-> <<k, PrefixUnits[p] + i>>]
  <2>1. \A d, x, i : Payload(d, x, i)' = Payload(d, x, i)
    BY <1>1 DEF Payload
  <2>2. /\ Len(h) <= Len(sent[c][p])
        /\ \A i \in 1 .. Len(h) : h[i] = Payload(c, p, i)
    BY <1>1, <1>3, <2>1 DEF FramesIntact
  <2>3. Len(h) = k /\ h[k] = m /\ k \in 1 .. Len(h)
    BY <1>4, <1>5
  <2> QED BY <2>2, <2>3 DEF Payload
<1>7. PICK s \in Nat : s = sent[c][p][k]
  <2>1. sent[c][p] \in Seq(Sizes)
    BY DEF Types
  <2>2. sent[c][p][k] \in Sizes
    BY <1>5, <1>6, <2>1
  <2> QED BY <2>2, Constants
<1>8. Len(m) = s
  BY <1>6, <1>7
<1> HIDE DEF g, h
<1>9. Lengths(h) = Append(Lengths(g), s)
  <2>1. h \in Seq(Seq(Units)) /\ Len(h) = Len(g) + 1 /\ Len(h[Len(h)]) = s
    BY <1>4, <1>8
  <2> QED BY <1>4, <2>1, OneMore
<1>10. Received[c][e] = Lengths(g)
  BY DEF Received, g
<1>11. Len(Lengths(g)) = Len(g)
  BY <1>4, <1>5 DEF Lengths
<1>12. Received' = [Received EXCEPT ![c][e] = Append(Received[c][e], s)]
  <2>1. \A d \in Conns, x \in Ends : d # c \/ x # e => Lengths(got'[d][x]) = Lengths(got[d][x])
    BY <1>4
  <2>2. Received' = [d \in Conns |-> [x \in Ends |-> Lengths(got'[d][x])]]
    BY DEF Received, Lengths
  <2>3. Lengths(got'[c][e]) = Append(Received[c][e], s)
    BY <1>9, <1>10 DEF h
  <2> QED BY <2>1, <2>2, <2>3 DEF Received
<1> QED BY <1>1, <1>3, <1>5, <1>6, <1>7, <1>10, <1>11, <1>12 DEF Stream!Receive

LEMMA StreamStep ==
  ASSUME Types, Calls, Types', Queue, Unheard, FramesIntact', [Next]_vars
  PROVE  Stream!Next \/ UNCHANGED Seen
<1>0. Stream!Ends = Ends
  BY DEF Stream!Ends, Ends
<1>1. CASE Inside \/ UNCHANGED vars
  BY <1>1, InsideStays, SeenStays
<1>2. CASE Connect \/ Accept
  BY <1>0, <1>2, Joins DEF Stream!Next
<1>3. CASE ConnectFails \/ \E e \in Ends : Close(e)
  BY <1>0, <1>3, Leaves DEF Stream!Next
<1>4. ASSUME NEW e \in Ends, NEW size \in Sizes, SendDynamic(e, size) PROVE Stream!Next
  BY <1>0, <1>4, Sends DEF Stream!Next
<1>5. ASSUME NEW e \in Ends, NEW n \in 1 .. Capacity, ReceiveSome(e, n)
      PROVE  Stream!Next \/ UNCHANGED Seen
  BY <1>0, <1>5, Receives, Constants DEF Stream!Next
<1> QED BY <1>1, <1>2, <1>3, <1>4, <1>5 DEF Next, Inside

(* Under the assumptions of MessagesArriveWhole, tcp_socket and tcp_server    *)
(* are a message stream: however ::send and ::recv split what is sent,        *)
(* whichever calls throw and however often the ends close and reconnect, a    *)
(* program sees ends that join fresh connections only and receive_dynamic     *)
(* calls that hand over the peer's next message of the same connection.       *)
THEOREM SocketsAreMessageStreams ==
  ASSUME CloseOnError, PrefixUnits[Client] = PrefixUnits[Server],
         \A size \in Sizes : size < LenMod
  PROVE  Spec => ImplementsMessageStream
<1>1. Careful
  BY DEF Careful
<1>2. Init => Types /\ Calls /\ Messages /\ Unheard
  BY InitTypes, MessagesInit, UnheardInit
<1>3. Types /\ Calls /\ Messages /\ Unheard /\ [Next]_vars
        => (Types /\ Calls /\ Messages /\ Unheard)'
  BY <1>1, TypesNext, MessagesNext, UnheardNext DEF Messages
<1>4. (Types /\ Calls /\ Messages /\ Unheard)
        /\ (Types /\ Messages)' /\ [Next]_vars => [Stream!Next]_Seen
  <2> SUFFICES ASSUME Types, Calls, Messages, Unheard, Types', Messages', [Next]_vars
               PROVE  [Stream!Next]_Seen
    OBVIOUS
  <2>1. Messages => Queue /\ FramesIntact
    BY DEF Messages
  <2>2. Messages' => FramesIntact'
    BY DEF Messages
  <2> QED BY <2>1, <2>2, StreamStep
<1>5. Init => Stream!Init
  BY StreamInit
<1> QED BY <1>2, <1>3, <1>4, <1>5, PTL DEF Spec, ImplementsMessageStream, Stream!Spec, Seen

=============================================================================
