-------------------------- MODULE RdmaConnectProofs --------------------------
(***************************************************************************)
(* Theorems about RdmaConnect, for descriptors of any length and sockets   *)
(* of any capacity: who owns a connection, and what its callbacks find.    *)
(***************************************************************************)
EXTENDS RdmaConnect, TLAPS

Signals == {"connection", "empty", "error"}
Before == {"idle", "send", "receive", "ready", "marked", "connected"}

Types ==
    /\ pc \in [Peers -> Before \cup {"started", "threw", "exited"}]
    /\ conn \in [Peers -> {"none", "exported", "connecting", "established",
                           "failed", "disconnected"}]
    /\ holder \in [Peers -> {"nobody", "call", "op", "user"}]
    /\ userData \in [Peers -> BOOLEAN]
    /\ event \in [Peers -> {"none", "established", "failure"}]
    /\ values \in [Peers -> Seq(Signals)]

\* Where a connection is, by how far its program got: the call, then the
\* operation, then the user, until somebody disconnects it.
OwnerByPhase(p) ==
    /\ pc[p] = "idle" => holder[p] = "nobody" /\ conn[p] = "none"
    /\ pc[p] \in {"send", "receive"} => holder[p] = "call" /\ conn[p] = "exported"
    /\ pc[p] \in {"ready", "marked"} => holder[p] = "op" /\ conn[p] = "exported"
    /\ pc[p] = "connected" =>
         holder[p] = "op" /\ conn[p] \in {"connecting", "established", "failed"}
    /\ pc[p] = "started" =>
         \/ holder[p] = "user" /\ conn[p] \in {"connecting", "established", "failed"}
         \/ holder[p] = "nobody" /\ conn[p] = "disconnected"
    /\ pc[p] \in {"threw", "exited"} => holder[p] = "nobody" /\ conn[p] = "disconnected"

\* Nothing is signalled before the end of start(), and DOCA makes no callback
\* before doca_rdma_connect, which follows the user data.
SignalByPhase(p) ==
    /\ pc[p] \in Before => values[p] = <<>>
    /\ pc[p] \in Before \ {"connected"} => event[p] = "none"
    /\ pc[p] \in {"marked", "connected", "started"} => userData[p]
    /\ event[p] # "none" => userData[p]

IInv == Types /\ \A p \in Peers : OwnerByPhase(p) /\ SignalByPhase(p)

\* A signal more, of a peer p, keeps values a function into sequences.
LEMMA OneMoreSignal ==
  ASSUME Types, NEW p \in Peers, NEW v \in Signals,
         values' = [values EXCEPT ![p] = Append(@, v)]
  PROVE  values' \in [Peers -> Seq(Signals)]
<1>1. values \in [Peers -> Seq(Signals)]
  BY DEF Types
<1>2. Append(values[p], v) \in Seq(Signals)
  BY <1>1
<1> QED BY <1>1, <1>2


\* The two predicates speak of one peer: a step that leaves a peer's variables
\* alone leaves them true.
LEMMA Frame ==
  ASSUME NEW p \in Peers, OwnerByPhase(p), SignalByPhase(p),
         pc'[p] = pc[p], conn'[p] = conn[p], holder'[p] = holder[p],
         userData'[p] = userData[p], event'[p] = event[p], values'[p] = values[p]
  PROVE  OwnerByPhase(p)' /\ SignalByPhase(p)'
BY DEF OwnerByPhase, SignalByPhase, Before

LEMMA InitInv == ASSUME Init PROVE IInv
<1>1. Types
  BY DEF Init, Types, Before
<1>2. ASSUME NEW p \in Peers PROVE OwnerByPhase(p) /\ SignalByPhase(p)
  BY DEF Init, OwnerByPhase, SignalByPhase, Before
<1> QED BY <1>1, <1>2 DEF IInv

\* What a step of one peer has to preserve.
LEMMA OneStep ==
  ASSUME IInv, NEW p \in Peers, Types', OwnerByPhase(p)', SignalByPhase(p)',
         \A q \in Peers \ {p} :
            /\ pc'[q] = pc[q] /\ conn'[q] = conn[q] /\ holder'[q] = holder[q]
            /\ userData'[q] = userData[q] /\ event'[q] = event[q]
            /\ values'[q] = values[q]
  PROVE  IInv'
<1>1. ASSUME NEW q \in Peers PROVE OwnerByPhase(q)' /\ SignalByPhase(q)'
  <2>1. CASE q = p
    BY <2>1
  <2>2. CASE q # p
    BY <2>2, Frame DEF IInv
  <2> QED BY <2>1, <2>2
<1> QED BY <1>1 DEF IInv

LEMMA ExportCtxInv == ASSUME IInv, NEW p \in Peers, ExportCtx(p) PROVE IInv'
<1>1. Types'
  BY DEF ExportCtx, op, IInv, Types, Before
<1>2. OwnerByPhase(p)'
  BY DEF ExportCtx, op, IInv, Types, OwnerByPhase
<1>3. SignalByPhase(p)'
  BY DEF ExportCtx, op, IInv, Types, SignalByPhase, Before
<1>4. \A q \in Peers \ {p} :
       /\ pc'[q] = pc[q] /\ conn'[q] = conn[q] /\ holder'[q] = holder[q]
       /\ userData'[q] = userData[q] /\ event'[q] = event[q] /\ values'[q] = values[q]
  BY DEF ExportCtx, op, IInv, Types
<1> QED BY <1>1, <1>2, <1>3, <1>4, OneStep

LEMMA SendSomeInv == ASSUME IInv, NEW p \in Peers, SendSome(p) PROVE IInv'
<1>1. Types'
  BY DEF SendSome, doca, op, IInv, Types, Before
<1>2. OwnerByPhase(p)'
  BY DEF SendSome, doca, op, IInv, Types, OwnerByPhase
<1>3. SignalByPhase(p)'
  BY DEF SendSome, doca, op, IInv, Types, SignalByPhase, Before
<1>4. \A q \in Peers \ {p} :
       /\ pc'[q] = pc[q] /\ conn'[q] = conn[q] /\ holder'[q] = holder[q]
       /\ userData'[q] = userData[q] /\ event'[q] = event[q] /\ values'[q] = values[q]
  BY DEF SendSome, doca, op, IInv, Types
<1> QED BY <1>1, <1>2, <1>3, <1>4, OneStep

LEMMA ReceiveSomeInv == ASSUME IInv, NEW p \in Peers, ReceiveSome(p) PROVE IInv'
<1>1. Types'
  BY DEF ReceiveSome, doca, IInv, Types, Before
<1>2. OwnerByPhase(p)'
  BY DEF ReceiveSome, doca, IInv, Types, OwnerByPhase
<1>3. SignalByPhase(p)'
  BY DEF ReceiveSome, doca, IInv, Types, SignalByPhase, Before
<1>4. \A q \in Peers \ {p} :
       /\ pc'[q] = pc[q] /\ conn'[q] = conn[q] /\ holder'[q] = holder[q]
       /\ userData'[q] = userData[q] /\ event'[q] = event[q] /\ values'[q] = values[q]
  BY DEF ReceiveSome, doca, IInv, Types
<1> QED BY <1>1, <1>2, <1>3, <1>4, OneStep

LEMMA ThrowInv == ASSUME IInv, NEW p \in Peers, Throw(p) PROVE IInv'
<1>1. Types'
  BY DEF Throw, Disconnect, op, IInv, Types, Before
<1>2. OwnerByPhase(p)'
  BY DEF Throw, Disconnect, op, IInv, Types, OwnerByPhase
<1>3. SignalByPhase(p)'
  BY DEF Throw, Disconnect, op, IInv, Types, SignalByPhase, Before
<1>4. \A q \in Peers \ {p} :
       /\ pc'[q] = pc[q] /\ conn'[q] = conn[q] /\ holder'[q] = holder[q]
       /\ userData'[q] = userData[q] /\ event'[q] = event[q] /\ values'[q] = values[q]
  BY DEF Throw, Disconnect, op, IInv, Types
<1> QED BY <1>1, <1>2, <1>3, <1>4, OneStep

LEMMA SetUserDataInv == ASSUME IInv, NEW p \in Peers, SetUserData(p) PROVE IInv'
<1>1. Types'
  BY DEF SetUserData, op, IInv, Types, Before
<1>2. OwnerByPhase(p)'
  BY DEF SetUserData, op, IInv, Types, OwnerByPhase
<1>3. SignalByPhase(p)'
  BY DEF SetUserData, op, IInv, Types, SignalByPhase, Before
<1>4. \A q \in Peers \ {p} :
       /\ pc'[q] = pc[q] /\ conn'[q] = conn[q] /\ holder'[q] = holder[q]
       /\ userData'[q] = userData[q] /\ event'[q] = event[q] /\ values'[q] = values[q]
  BY DEF SetUserData, op, IInv, Types
<1> QED BY <1>1, <1>2, <1>3, <1>4, OneStep

LEMMA ConnectInv == ASSUME IInv, NEW p \in Peers, Connect(p) PROVE IInv'
<1>1. Types'
  BY DEF Connect, op, IInv, Types, Before
<1>2. OwnerByPhase(p)'
  BY DEF Connect, op, IInv, Types, OwnerByPhase
<1>3. SignalByPhase(p)'
  BY DEF Connect, op, IInv, Types, SignalByPhase, Before
<1>4. \A q \in Peers \ {p} :
       /\ pc'[q] = pc[q] /\ conn'[q] = conn[q] /\ holder'[q] = holder[q]
       /\ userData'[q] = userData[q] /\ event'[q] = event[q] /\ values'[q] = values[q]
  BY DEF Connect, op, IInv, Types
<1> QED BY <1>1, <1>2, <1>3, <1>4, OneStep

LEMMA DeliverInv == ASSUME IInv, NEW p \in Peers, Deliver(p) PROVE IInv'
<1>1. Types'
  <2>1. values' \in [Peers -> Seq(Signals)]
    <3>1. "connection" \in Signals
      BY DEF Signals
    <3> QED BY <3>1, OneMoreSignal DEF Deliver, IInv
  <2> QED BY <2>1 DEF Deliver, doca, IInv, Types, Before
<1>2. OwnerByPhase(p)'
  BY DEF Deliver, doca, IInv, Types, OwnerByPhase
<1>3. SignalByPhase(p)'
  BY DEF Deliver, doca, IInv, Types, SignalByPhase, Before
<1>4. \A q \in Peers \ {p} :
       /\ pc'[q] = pc[q] /\ conn'[q] = conn[q] /\ holder'[q] = holder[q]
       /\ userData'[q] = userData[q] /\ event'[q] = event[q] /\ values'[q] = values[q]
  BY DEF Deliver, doca, IInv, Types
<1> QED BY <1>1, <1>2, <1>3, <1>4, OneStep

LEMMA OnEstablishedInv == ASSUME IInv, NEW p \in Peers, OnEstablished(p) PROVE IInv'
<1>1. /\ pc[p] = "started" /\ event' = [event EXCEPT ![p] = "none"]
      /\ UNCHANGED <<pc, userData>>
  BY DEF OnEstablished, call
<1>2. /\ \/ Disconnect(p) /\ holder[p] = "user"
         \/ UNCHANGED <<conn, holder>>
      /\ values' = [values EXCEPT ![p] = Append(@, "empty")] \/ values' = values
  BY DEF OnEstablished
<1>3. values' \in [Peers -> Seq(Signals)]
  <2>1. CASE values' = values
    BY <2>1 DEF IInv, Types
  <2>2. CASE values' = [values EXCEPT ![p] = Append(@, "empty")]
    <3>1. "empty" \in Signals
      BY DEF Signals
    <3> QED BY <2>2, <3>1, OneMoreSignal DEF IInv
  <2> QED BY <1>2, <2>1, <2>2
<1>4. Types'
  BY <1>1, <1>2, <1>3 DEF Disconnect, IInv, Types
<1>5. OwnerByPhase(p)'
  BY <1>1, <1>2 DEF Disconnect, IInv, Types, OwnerByPhase
<1>6. SignalByPhase(p)'
  BY <1>1 DEF IInv, Types, SignalByPhase, Before
<1>7. \A q \in Peers \ {p} :
       /\ pc'[q] = pc[q] /\ conn'[q] = conn[q] /\ holder'[q] = holder[q]
       /\ userData'[q] = userData[q] /\ event'[q] = event[q] /\ values'[q] = values[q]
  BY <1>1, <1>2 DEF Disconnect, IInv, Types
<1> QED BY <1>4, <1>5, <1>6, <1>7, OneStep

LEMMA OnFailureInv == ASSUME IInv, NEW p \in Peers, OnFailure(p) PROVE IInv'
<1>1. /\ pc[p] = "started" /\ event' = [event EXCEPT ![p] = "none"]
      /\ UNCHANGED <<pc, conn, userData, holder>>
      /\ values' = [values EXCEPT ![p] = Append(@, "error")] \/ values' = values
  BY DEF OnFailure, call
<1>2. values' \in [Peers -> Seq(Signals)]
  <2>1. CASE values' = values
    BY <2>1 DEF IInv, Types
  <2>2. CASE values' = [values EXCEPT ![p] = Append(@, "error")]
    <3>1. "error" \in Signals
      BY DEF Signals
    <3> QED BY <2>2, <3>1, OneMoreSignal DEF IInv
  <2> QED BY <1>1, <2>1, <2>2
<1>3. Types'
  BY <1>1, <1>2 DEF IInv, Types
<1>4. OwnerByPhase(p)'
  BY <1>1 DEF IInv, OwnerByPhase
<1>5. SignalByPhase(p)'
  BY <1>1 DEF IInv, Types, SignalByPhase, Before
<1>6. \A q \in Peers \ {p} :
       /\ pc'[q] = pc[q] /\ conn'[q] = conn[q] /\ holder'[q] = holder[q]
       /\ userData'[q] = userData[q] /\ event'[q] = event[q] /\ values'[q] = values[q]
  BY <1>1 DEF IInv, Types
<1> QED BY <1>3, <1>4, <1>5, <1>6, OneStep

LEMMA DestroyOpInv == ASSUME IInv, NEW p \in Peers, DestroyOp(p) PROVE IInv'
<1>1. UNCHANGED <<pc, conn, holder, userData, event, values>>
  BY DEF DestroyOp, call, doca
<1>2. Types'
  BY <1>1 DEF IInv, Types
<1>3. OwnerByPhase(p)' /\ SignalByPhase(p)'
  BY <1>1, Frame DEF IInv
<1> QED BY <1>1, <1>2, <1>3, OneStep

LEMMA DropConnectionInv == ASSUME IInv, NEW p \in Peers, DropConnection(p) PROVE IInv'
<1>1. Types'
  BY DEF DropConnection, Disconnect, call, op, IInv, Types
<1>2. OwnerByPhase(p)'
  BY DEF DropConnection, Disconnect, call, op, IInv, Types, OwnerByPhase
<1>3. SignalByPhase(p)'
  BY DEF DropConnection, Disconnect, call, op, IInv, Types, SignalByPhase, Before
<1>4. \A q \in Peers \ {p} :
       /\ pc'[q] = pc[q] /\ conn'[q] = conn[q] /\ holder'[q] = holder[q]
       /\ userData'[q] = userData[q] /\ event'[q] = event[q] /\ values'[q] = values[q]
  BY DEF DropConnection, Disconnect, call, op, IInv, Types
<1> QED BY <1>1, <1>2, <1>3, <1>4, OneStep

\* A connection DOCA establishes or fails is one start() has connected.
LEMMA DocaInv ==
  ASSUME IInv, NEW p \in Peers, Establish(p) \/ FailConnection(p)
  PROVE  IInv'
<1>1. /\ conn[p] = "connecting"
      /\ \E c \in {"established", "failed"} : conn' = [conn EXCEPT ![p] = c]
      /\ \E e \in {"established", "failure"} : event' = [event EXCEPT ![p] = e]
      /\ UNCHANGED <<pc, userData, values, holder>>
  BY DEF Establish, FailConnection, call, op
<1>2. /\ \/ pc[p] = "connected" /\ holder[p] = "op"
         \/ pc[p] = "started" /\ holder[p] = "user"
      /\ userData[p]
  BY <1>1 DEF IInv, Types, OwnerByPhase, SignalByPhase, Before
<1>3. Types'
  BY <1>1 DEF IInv, Types
<1>4. OwnerByPhase(p)'
  BY <1>1, <1>2 DEF IInv, Types, OwnerByPhase
<1>5. SignalByPhase(p)'
  BY <1>1, <1>2 DEF IInv, Types, SignalByPhase, Before
<1>6. \A q \in Peers \ {p} :
       /\ pc'[q] = pc[q] /\ conn'[q] = conn[q] /\ holder'[q] = holder[q]
       /\ userData'[q] = userData[q] /\ event'[q] = event[q] /\ values'[q] = values[q]
  BY <1>1 DEF IInv, Types
<1> QED BY <1>3, <1>4, <1>5, <1>6, OneStep

LEMMA ProgramEndsInv == ASSUME IInv, NEW p \in Peers, ProgramEnds(p) PROVE IInv'
<1>1. Types'
  BY DEF ProgramEnds, op, IInv, Types
<1>2. OwnerByPhase(p)'
  BY DEF ProgramEnds, op, IInv, Types, OwnerByPhase
<1>3. SignalByPhase(p)'
  BY DEF ProgramEnds, op, IInv, Types, SignalByPhase, Before
<1>4. \A q \in Peers \ {p} :
       /\ pc'[q] = pc[q] /\ conn'[q] = conn[q] /\ holder'[q] = holder[q]
       /\ userData'[q] = userData[q] /\ event'[q] = event[q] /\ values'[q] = values[q]
  BY DEF ProgramEnds, op, IInv, Types
<1> QED BY <1>1, <1>2, <1>3, <1>4, OneStep

LEMMA NextInv == IInv /\ [Next]_vars => IInv'
<1> SUFFICES ASSUME IInv, [Next]_vars PROVE IInv'
  OBVIOUS
<1>1. CASE UNCHANGED vars
  BY <1>1, Frame DEF vars, call, doca, op, IInv, Types
<1>2. ASSUME NEW p \in Peers, ExportCtx(p) \/ Handshake(p) \/ Throw(p) PROVE IInv'
  BY <1>2, ExportCtxInv, SendSomeInv, ReceiveSomeInv, ThrowInv, SetUserDataInv, ConnectInv,
     DeliverInv DEF Handshake, Start
<1>3. ASSUME NEW p \in Peers,
             OnEstablished(p) \/ OnFailure(p) \/ DestroyOp(p) \/ DropConnection(p)
      PROVE  IInv'
  BY <1>3, OnEstablishedInv, OnFailureInv, DestroyOpInv, DropConnectionInv
<1>4. ASSUME NEW p \in Peers, Establish(p) \/ FailConnection(p) \/ ProgramEnds(p)
      PROVE  IInv'
  BY <1>4, DocaInv, ProgramEndsInv
<1> QED BY <1>1, <1>2, <1>3, <1>4 DEF Next

-----------------------------------------------------------------------------
(* Rdma::connect, the operation and its callbacks: the phase of a program     *)
(* decides who owns its connection and what has been signalled.               *)
THEOREM InductiveInvariant == Spec => []IInv
<1> QED BY InitInv, NextInv, PTL DEF Spec

(* An exported connection has exactly one owner until it is disconnected, on  *)
(* every path through Rdma::connect, start() and the callbacks, exceptions    *)
(* and the second, empty value included.                                      *)
THEOREM ConnectionsAreOwned == Spec => []ConnectionOwned
<1>1. IInv => ConnectionOwned
  BY DEF IInv, Types, OwnerByPhase, SignalByPhase, Before, ConnectionOwned
<1> QED BY <1>1, InductiveInvariant, PTL

(* on_established and on_failure are only ever reached with user data set.    *)
THEOREM CallbacksFindTheirUserData == Spec => []CallbackFindsUserData
<1>1. IInv => CallbackFindsUserData
  BY DEF IInv, SignalByPhase, CallbackFindsUserData
<1> QED BY <1>1, InductiveInvariant, PTL

-----------------------------------------------------------------------------
(* Second invariant, relative to IInv: how far the descriptors have come and  *)
(* how often a receiver was signalled.                                        *)

\* p sends all of its descriptor before it reads, and never reads ahead.
UnitsByPhase(p) ==
    /\ sent[p] <= Length[p] /\ received[p] <= sent[Other(p)]
    /\ pc[p] = "send" => sent[p] < Length[p]
    /\ pc[p] \in {"idle", "send"} => received[p] = 0
    /\ pc[p] = "idle" => sent[p] = 0
    /\ pc[p] = "receive" => received[p] < Length[Other(p)]

\* One value of start(), and one of the callback DOCA may make after it.
SignalsByEvent(p) ==
    /\ Len(values[p]) <= 2
    /\ conn[p] = "connecting" => event[p] = "none"
    /\ conn[p] = "connecting" \/ event[p] # "none" => Len(values[p]) <= 1

Counts ==
    /\ sent \in [Peers -> Nat] /\ received \in [Peers -> Nat]
    /\ \A p \in Peers : UnitsByPhase(p) /\ SignalsByEvent(p)

LEMMA Others == \A p \in Peers : Other(p) \in Peers /\ Other(p) # p /\ Other(Other(p)) = p
BY ConnectAssumption DEF Peers, Other

LEMMA Lengths == \A p \in Peers : Length[p] \in Nat /\ Length[p] > 0
BY ConnectAssumption

\* A step of p that moves no unit, nor back into the call.
LEMMA UnitsStay ==
  ASSUME IInv, Counts, NEW p \in Peers, UNCHANGED <<sent, received>>,
         \A q \in Peers \ {p} : pc'[q] = pc[q],
         pc'[p] = pc[p] \/ pc'[p] \in {"ready", "marked", "connected", "started", "threw", "exited"}
  PROVE  \A q \in Peers : UnitsByPhase(q)'
BY DEF Counts, UnitsByPhase, IInv, Types

LEMMA UnitsStep ==
  ASSUME IInv, Counts, Next
  PROVE  /\ sent' \in [Peers -> Nat] /\ received' \in [Peers -> Nat]
         /\ \A q \in Peers : UnitsByPhase(q)'
<1>1. ASSUME NEW p \in Peers, ExportCtx(p)
      PROVE  /\ sent' \in [Peers -> Nat] /\ received' \in [Peers -> Nat]
             /\ \A q \in Peers : UnitsByPhase(q)'
  <2>1. /\ pc[p] = "idle" /\ pc' = [pc EXCEPT ![p] = "send"]
        /\ UNCHANGED <<sent, received>>
    BY <1>1 DEF ExportCtx
  <2> QED BY <2>1, Lengths DEF Counts, UnitsByPhase, IInv, Types
<1>2. ASSUME NEW p \in Peers, SendSome(p)
      PROVE  /\ sent' \in [Peers -> Nat] /\ received' \in [Peers -> Nat]
             /\ \A q \in Peers : UnitsByPhase(q)'
  <2>1. /\ pc[p] = "send" /\ received' = received
        /\ sent' \in [Peers -> Nat] /\ sent'[p] = sent[p] + 1
        /\ \A q \in Peers \ {p} : sent'[q] = sent[q] /\ pc'[q] = pc[q]
        /\ pc'[p] = IF sent'[p] = Length[p] THEN "receive" ELSE "send"
    BY <1>2 DEF SendSome, Counts, IInv, Types
  <2>2. UnitsByPhase(p)'
    BY <2>1, Lengths, Others DEF Counts, UnitsByPhase
  <2>3. ASSUME NEW q \in Peers \ {p} PROVE UnitsByPhase(q)'
    <3>1. UnitsByPhase(q) /\ Other(q) \in Peers /\ sent'[Other(q)] >= sent[Other(q)]
      BY <2>1, Others DEF Counts
    <3> QED BY <2>1, <3>1 DEF Counts, UnitsByPhase
  <2> QED BY <2>1, <2>2, <2>3 DEF Counts
<1>3. ASSUME NEW p \in Peers, ReceiveSome(p)
      PROVE  /\ sent' \in [Peers -> Nat] /\ received' \in [Peers -> Nat]
             /\ \A q \in Peers : UnitsByPhase(q)'
  <2>1. /\ pc[p] = "receive" /\ sent' = sent
        /\ sent[Other(p)] - received[p] > 0
        /\ received' \in [Peers -> Nat] /\ received'[p] = received[p] + 1
        /\ \A q \in Peers \ {p} : received'[q] = received[q] /\ pc'[q] = pc[q]
        /\ pc'[p] = IF received'[p] = Length[Other(p)] THEN "ready" ELSE "receive"
    BY <1>3 DEF ReceiveSome, Buffered, Counts, IInv, Types
  <2>2. UnitsByPhase(p)'
    <3>1. sent[Other(p)] <= Length[Other(p)]
      BY Others DEF Counts, UnitsByPhase
    <3> QED BY <2>1, <3>1, Lengths, Others DEF Counts, UnitsByPhase
  <2>3. ASSUME NEW q \in Peers \ {p} PROVE UnitsByPhase(q)'
    BY <2>1 DEF Counts, UnitsByPhase
  <2> QED BY <2>1, <2>2, <2>3 DEF Counts
<1>4. ASSUME NEW p \in Peers, Throw(p) \/ Start(p) \/ ProgramEnds(p)
      PROVE  /\ sent' \in [Peers -> Nat] /\ received' \in [Peers -> Nat]
             /\ \A q \in Peers : UnitsByPhase(q)'
  <2>1. /\ UNCHANGED <<sent, received>>
        /\ \E s \in {"threw", "marked", "connected", "started", "exited"} :
               pc' = [pc EXCEPT ![p] = s]
    BY <1>4 DEF Throw, Start, SetUserData, Connect, Deliver, ProgramEnds
  <2> QED BY <2>1, UnitsStay DEF Counts, IInv, Types
<1>5. ASSUME NEW p \in Peers,
             \/ OnEstablished(p) \/ OnFailure(p) \/ DestroyOp(p)
             \/ DropConnection(p) \/ Establish(p) \/ FailConnection(p)
      PROVE  /\ sent' \in [Peers -> Nat] /\ received' \in [Peers -> Nat]
             /\ \A q \in Peers : UnitsByPhase(q)'
  <2>1. UNCHANGED <<pc, sent, received>>
    BY <1>5 DEF OnEstablished, OnFailure, DestroyOp, DropConnection, Establish,
                FailConnection, call
  <2> QED BY <2>1, UnitsStay DEF Counts
<1> QED BY <1>1, <1>2, <1>3, <1>4, <1>5 DEF Next, Handshake

\* What a step does to the signals of a peer that takes none.
LEMMA SignalsStay ==
  ASSUME Counts, NEW p \in Peers, values'[p] = values[p],
         conn'[p] = conn[p] \/ conn'[p] # "connecting",
         event'[p] = event[p] \/ event'[p] = "none"
  PROVE  SignalsByEvent(p)'
BY DEF Counts, SignalsByEvent

LEMMA SignalsStep ==
  ASSUME IInv, Counts, Next, NEW q \in Peers
  PROVE  SignalsByEvent(q)'
<1>1. ASSUME NEW p \in Peers,
             \/ ExportCtx(p) \/ SendSome(p) \/ ReceiveSome(p) \/ Throw(p) \/ SetUserData(p)
             \/ DropConnection(p) \/ ProgramEnds(p) \/ DestroyOp(p)
      PROVE  SignalsByEvent(q)'
  <2>1. /\ values' = values
        /\ event'[q] = event[q] \/ event'[q] = "none"
        /\ conn'[q] = conn[q] \/ conn'[q] # "connecting"
    BY <1>1 DEF ExportCtx, SendSome, ReceiveSome, Throw, SetUserData, DropConnection,
                ProgramEnds, DestroyOp, Disconnect, op, doca, call, IInv, Types
  <2> QED BY <2>1, SignalsStay
<1>2. ASSUME NEW p \in Peers, Connect(p) PROVE SignalsByEvent(q)'
  <2>1. /\ pc[p] = "marked" /\ UNCHANGED <<event, values>>
        /\ conn' = [conn EXCEPT ![p] = "connecting"]
    BY <1>2 DEF Connect, op
  <2>2. CASE q = p
    <3>1. values[p] = <<>> /\ event[p] = "none"
      BY <2>1 DEF IInv, SignalByPhase, Before
    <3>2. Len(values'[p]) = 0
      BY <2>1, <3>1
    <3> QED BY <2>1, <2>2, <3>1, <3>2 DEF SignalsByEvent
  <2>3. CASE q # p
    BY <2>1, <2>3, SignalsStay DEF IInv, Types
  <2> QED BY <2>2, <2>3
<1>5. ASSUME NEW p \in Peers, Deliver(p) PROVE SignalsByEvent(q)'
  <2>1. /\ pc[p] = "connected" /\ UNCHANGED <<event, conn>>
        /\ values' = [values EXCEPT ![p] = Append(@, "connection")]
    BY <1>5 DEF Deliver, doca
  <2>2. CASE q = p
    <3>1. values[p] = <<>>
      BY <2>1 DEF IInv, SignalByPhase, Before
    <3>2. values'[p] = <<"connection">>
      BY <2>1, <3>1 DEF IInv, Types
    <3>3. Len(values'[p]) = 1
      BY <3>2
    <3> QED BY <2>1, <2>2, <3>3 DEF Counts, SignalsByEvent
  <2>3. CASE q # p
    BY <2>1, <2>3, SignalsStay DEF IInv, Types
  <2> QED BY <2>2, <2>3
<1>3. ASSUME NEW p \in Peers, OnEstablished(p) \/ OnFailure(p)
      PROVE  SignalsByEvent(q)'
  <2>1. /\ event[p] # "none" /\ event' = [event EXCEPT ![p] = "none"]
        /\ \/ values' = values
           \/ \E v \in Signals : values' = [values EXCEPT ![p] = Append(@, v)]
        /\ conn' = conn \/ conn' = [conn EXCEPT ![p] = "disconnected"]
    BY <1>3 DEF OnEstablished, OnFailure, Disconnect, Signals
  <2>2. CASE q = p
    <3>1. conn[p] # "connecting" /\ Len(values[p]) <= 1
      BY <2>1 DEF Counts, SignalsByEvent
    <3>2. values[p] \in Seq(Signals)
      BY DEF IInv, Types
    <3>3. Len(values'[p]) <= 2
      <4>1. CASE values' = values
        BY <3>1, <3>2, <4>1
      <4>2. ASSUME NEW v \in Signals, values' = [values EXCEPT ![p] = Append(@, v)]
            PROVE  Len(values'[p]) <= 2
        <5>1. values'[p] = Append(values[p], v)
          BY <4>2 DEF IInv, Types
        <5>2. Len(Append(values[p], v)) = Len(values[p]) + 1
          BY <3>2
        <5>3. Len(values[p]) \in Nat
          BY <3>2
        <5> QED BY <3>1, <5>1, <5>2, <5>3
      <4> QED BY <2>1, <4>1, <4>2
    <3>4. event'[p] = "none" /\ conn'[p] # "connecting"
      BY <2>1, <3>1 DEF IInv, Types
    <3> QED BY <2>2, <3>3, <3>4 DEF SignalsByEvent
  <2>3. CASE q # p
    BY <2>1, <2>3, SignalsStay DEF IInv, Types
  <2> QED BY <2>2, <2>3
<1>4. ASSUME NEW p \in Peers, Establish(p) \/ FailConnection(p)
      PROVE  SignalsByEvent(q)'
  <2>1. /\ conn[p] = "connecting" /\ values' = values
        /\ \E c \in {"established", "failed"} : conn' = [conn EXCEPT ![p] = c]
        /\ \E e \in {"established", "failure"} : event' = [event EXCEPT ![p] = e]
    BY <1>4 DEF Establish, FailConnection, op
  <2>2. CASE q = p
    BY <2>1, <2>2 DEF Counts, SignalsByEvent, IInv, Types
  <2>3. CASE q # p
    BY <2>1, <2>3, SignalsStay DEF IInv, Types
  <2> QED BY <2>2, <2>3
<1> QED BY <1>1, <1>2, <1>3, <1>4, <1>5 DEF Next, Handshake, Start

LEMMA CountsNext == IInv /\ Counts /\ [Next]_vars => Counts'
<1>1. ASSUME Counts, UNCHANGED vars PROVE Counts'
  BY <1>1 DEF vars, call, doca, op, Counts, UnitsByPhase, SignalsByEvent
<1> QED BY <1>1, UnitsStep, SignalsStep DEF Counts

LEMMA CountsInit == ASSUME Init PROVE Counts
<1>1. ASSUME NEW p \in Peers PROVE UnitsByPhase(p) /\ SignalsByEvent(p)
  BY Lengths, Others DEF Init, UnitsByPhase, SignalsByEvent
<1> QED BY <1>1 DEF Init, Counts

(* No unit of a descriptor is read before it was sent or sent twice, and a    *)
(* receiver is signalled at most twice, through any failure.                  *)
THEOREM TypeCorrect == Spec => []TypeOK
<1>1. IInv /\ Counts => TypeOK
  BY Others, Lengths DEF IInv, Types, Before, Counts, UnitsByPhase, SignalsByEvent, TypeOK
<1> QED BY <1>1, InitInv, NextInv, CountsInit, CountsNext, PTL DEF Spec

-----------------------------------------------------------------------------
(* The exchange: third invariant, relative to the other two.  Whoever reads   *)
(* has sent everything, and whoever is past reading has read everything.      *)

PastReading(p) == Starting(p) \/ pc[p] = "started"

Complete(p) ==
    /\ pc[p] = "receive" \/ PastReading(p) => sent[p] = Length[p]
    /\ PastReading(p) => received[p] = Length[Other(p)]

AllComplete == \A p \in Peers : Complete(p)

\* What the steps do to the units and the phase of the peers.
LEMMA Moves ==
  ASSUME IInv, Counts, [Next]_vars, NEW q \in Peers
  PROVE  \/ sent'[q] = sent[q] /\ received'[q] = received[q] /\ pc'[q] = pc[q]
         \/ /\ sent'[q] = sent[q] /\ received'[q] = received[q]
            /\ \/ pc[q] = "idle" /\ pc'[q] = "send"
               \/ pc[q] = "ready" /\ pc'[q] = "marked"
               \/ pc[q] = "marked" /\ pc'[q] = "connected"
               \/ pc[q] = "connected" /\ pc'[q] = "started"
               \/ pc'[q] \in {"threw", "exited"} /\ pc[q] \notin {"idle", "exited"}
         \/ /\ pc[q] = "send" /\ sent'[q] = sent[q] + 1 /\ received'[q] = received[q]
            /\ pc'[q] = IF sent'[q] = Length[q] THEN "receive" ELSE "send"
         \/ /\ pc[q] = "receive" /\ sent'[q] = sent[q] /\ received'[q] = received[q] + 1
            /\ pc'[q] = IF received'[q] = Length[Other(q)] THEN "ready" ELSE "receive"
<1>1. CASE UNCHANGED vars
  BY <1>1 DEF vars, call
<1>2. ASSUME NEW p \in Peers, ExportCtx(p) \/ Throw(p) \/ Start(p) \/ ProgramEnds(p)
      PROVE  /\ sent'[q] = sent[q] /\ received'[q] = received[q]
             /\ \/ pc'[q] = pc[q]
                \/ pc[q] = "idle" /\ pc'[q] = "send"
                \/ pc[q] = "ready" /\ pc'[q] = "marked"
                \/ pc[q] = "marked" /\ pc'[q] = "connected"
                \/ pc[q] = "connected" /\ pc'[q] = "started"
                \/ pc'[q] \in {"threw", "exited"} /\ pc[q] \notin {"idle", "exited"}
  BY <1>2 DEF ExportCtx, Throw, Start, SetUserData, Connect, Deliver, ProgramEnds, Gone,
              IInv, Types
<1>3. ASSUME NEW p \in Peers, SendSome(p)
      PROVE  \/ sent'[q] = sent[q] /\ received'[q] = received[q] /\ pc'[q] = pc[q]
             \/ /\ pc[q] = "send" /\ sent'[q] = sent[q] + 1 /\ received'[q] = received[q]
                /\ pc'[q] = IF sent'[q] = Length[q] THEN "receive" ELSE "send"
  <2>1. /\ pc[p] = "send" /\ received' = received
        /\ sent' = [sent EXCEPT ![p] = @ + 1]
        /\ pc' = IF sent'[p] = Length[p] THEN [pc EXCEPT ![p] = "receive"] ELSE pc
    BY <1>3 DEF SendSome
  <2>2. CASE q = p
    BY <2>1, <2>2 DEF Counts, IInv, Types
  <2>3. CASE q # p
    BY <2>1, <2>3 DEF Counts, IInv, Types
  <2> QED BY <2>2, <2>3
<1>4. ASSUME NEW p \in Peers, ReceiveSome(p)
      PROVE  \/ sent'[q] = sent[q] /\ received'[q] = received[q] /\ pc'[q] = pc[q]
             \/ /\ pc[q] = "receive" /\ sent'[q] = sent[q] /\ received'[q] = received[q] + 1
                /\ pc'[q] = IF received'[q] = Length[Other(q)] THEN "ready" ELSE "receive"
  <2>1. /\ pc[p] = "receive" /\ sent' = sent
        /\ received' = [received EXCEPT ![p] = @ + 1]
        /\ pc' = IF received'[p] = Length[Other(p)] THEN [pc EXCEPT ![p] = "ready"] ELSE pc
    BY <1>4 DEF ReceiveSome
  <2>2. CASE q = p
    BY <2>1, <2>2 DEF Counts, IInv, Types
  <2>3. CASE q # p
    BY <2>1, <2>3 DEF Counts, IInv, Types
  <2> QED BY <2>2, <2>3
<1>5. ASSUME NEW p \in Peers,
             \/ OnEstablished(p) \/ OnFailure(p) \/ DestroyOp(p)
             \/ DropConnection(p) \/ Establish(p) \/ FailConnection(p)
      PROVE  UNCHANGED <<pc, sent, received>>
  BY <1>5 DEF OnEstablished, OnFailure, DestroyOp, DropConnection, Establish,
              FailConnection, call
<1> QED BY <1>1, <1>2, <1>3, <1>4, <1>5 DEF Next, Handshake

LEMMA CompleteNext == IInv /\ Counts /\ AllComplete /\ [Next]_vars => AllComplete'
<1> SUFFICES ASSUME IInv, Counts, AllComplete, [Next]_vars, NEW q \in Peers
             PROVE  Complete(q)'
  BY DEF AllComplete
<1>1. Complete(q) /\ UnitsByPhase(q)
  BY DEF AllComplete, Counts
<1> QED BY <1>1, Moves DEF Complete, PastReading, Starting, UnitsByPhase

LEMMA CompleteInit == ASSUME Init PROVE AllComplete
BY DEF Init, AllComplete, Complete, PastReading, Starting

LEMMA ExchangeInvariant == Spec => [](IInv /\ Counts /\ AllComplete)
BY InitInv, NextInv, CountsInit, CountsNext, CompleteInit, CompleteNext, PTL DEF Spec

\* The socket can buffer all that one of the peers sends.
OneFits == \E p \in Peers : Length[p] <= Capacity

\* If both still send, the one whose descriptor fits has room for it.
LEMMA NeverStuck == ASSUME OneFits, IInv, Counts, AllComplete PROVE SetupNeverStuck
<1> SUFFICES ASSUME NEW p \in Peers, Calling(p), pc[Other(p)] \notin {"idle", "threw"}
             PROVE  MayGoOn(p) \/ MayGoOn(Other(p))
  BY DEF SetupNeverStuck
<1> DEFINE q == Other(p)
<1>1. q \in Peers /\ Other(q) = p /\ q # p /\ \A r \in Peers : r \in {p, q}
  BY Others DEF Peers, Other
<1> HIDE DEF q
<1>2. /\ sent[p] \in Nat /\ received[p] \in Nat /\ sent[q] \in Nat /\ received[q] \in Nat
      /\ Length[p] \in Nat /\ Length[q] \in Nat /\ Length[p] > 0 /\ Length[q] > 0
      /\ Capacity \in Nat /\ Capacity > 0
  BY <1>1, Lengths, ConnectAssumption DEF Counts
<1>3. UnitsByPhase(p) /\ UnitsByPhase(q) /\ Complete(p) /\ Complete(q)
  BY <1>1 DEF Counts, AllComplete
<1>4. /\ Buffered(p) = sent[q] - received[p]
      /\ Buffered(q) = sent[p] - received[q]
  BY <1>1 DEF Buffered, q
<1>5. pc[q] \in {"send", "receive", "started", "exited"} \/ Starting(q)
  BY <1>1 DEF IInv, Types, Before, Starting, q
<1>6. CASE Starting(p) \/ Starting(q)
  BY <1>6 DEF MayGoOn, q
<1>7. CASE pc[p] \in {"send", "receive"} /\ pc[q] = "exited"
  BY <1>7 DEF MayGoOn, Gone, q
<1>8. CASE pc[p] = "receive" /\ pc[q] \in {"receive", "started"}
  <2>1. Buffered(p) > 0
    BY <1>1, <1>2, <1>3, <1>4, <1>8 DEF UnitsByPhase, Complete, PastReading, q
  <2> QED BY <1>8, <2>1 DEF MayGoOn
<1>9. CASE pc[p] = "receive" /\ pc[q] = "send"
  <2>1. Buffered(p) > 0 \/ Buffered(p) < Capacity
    BY <1>1, <1>2, <1>4
  <2> QED BY <1>1, <1>9, <2>1 DEF MayGoOn, q
<1>10. CASE pc[p] = "send" /\ pc[q] = "receive"
  <2>1. Buffered(q) < Capacity \/ Buffered(q) > 0
    BY <1>1, <1>2, <1>4
  <2> QED BY <1>1, <1>10, <2>1 DEF MayGoOn, q
<1>11. CASE pc[p] = "send" /\ pc[q] = "started"
  BY <1>1, <1>2, <1>3, <1>11 DEF UnitsByPhase, Complete, PastReading, q
<1>12. CASE pc[p] = "send" /\ pc[q] = "send"
  <2>1. /\ sent[p] < Length[p] /\ received[p] = 0
        /\ sent[q] < Length[q] /\ received[q] = 0
    BY <1>3, <1>12 DEF UnitsByPhase
  <2>2. Length[p] <= Capacity \/ Length[q] <= Capacity
    BY <1>1 DEF OneFits
  <2>3. Buffered(q) < Capacity \/ Buffered(p) < Capacity
    BY <1>2, <1>4, <2>1, <2>2
  <2> QED BY <1>1, <1>12, <2>3 DEF MayGoOn, q
<1> QED BY <1>5, <1>6, <1>7, <1>8, <1>9, <1>10, <1>11, <1>12 DEF Calling, q

(* Rdma::connect, safety half of NoPeerHangs: two peers that have both called *)
(* it never wait for each other, for descriptors of any lengths of which the  *)
(* socket can buffer one, unless the call of one of them threw, which leaves  *)
(* its end of the socket open.                                                *)
THEOREM PeersNeverBlockEachOther == ASSUME OneFits PROVE Spec => []SetupNeverStuck
<1>1. IInv /\ Counts /\ AllComplete => SetupNeverStuck
  BY NeverStuck
<1> QED BY <1>1, ExchangeInvariant, PTL

LEMMA LeftIsNat == ASSUME Counts, NEW p \in Peers PROVE Left(p) \in Nat
<1>1. /\ Length[p] \in Nat /\ Length[Other(p)] \in Nat /\ Other(p) \in Peers
      /\ sent[p] \in Nat /\ received[p] \in Nat
  BY Others, Lengths DEF Counts
<1>2. sent[p] <= Length[p] /\ received[p] <= sent[Other(p)] /\ sent[Other(p)] <= Length[Other(p)]
  BY <1>1 DEF Counts, UnitsByPhase
<1>3. sent[Other(p)] \in Nat
  BY <1>1 DEF Counts
<1> QED BY <1>1, <1>2, <1>3 DEF Left

\* One step's effect on what is left of a call.
LEMMA LeftStep ==
  ASSUME IInv, Counts, [Next]_vars, NEW p \in Peers
  PROVE  /\ Left(p)' <= Left(p)
         /\ pc'[p] # pc[p] \/ sent'[p] # sent[p] \/ received'[p] # received[p] =>
              Left(p)' < Left(p) \/ ~Calling(p)
<1>1. /\ Length[p] \in Nat /\ Length[Other(p)] \in Nat /\ Other(p) \in Peers
      /\ sent[p] \in Nat /\ received[p] \in Nat
  BY Others, Lengths DEF Counts
<1>2. sent[p] <= Length[p] /\ received[p] <= Length[Other(p)]
  <2>1. /\ sent[Other(p)] \in Nat /\ received[p] <= sent[Other(p)]
        /\ sent[Other(p)] <= Length[Other(p)]
    BY <1>1 DEF Counts, UnitsByPhase
  <2> QED BY <1>1, <2>1 DEF Counts, UnitsByPhase
<1>3. UnitsByPhase(p)
  BY DEF Counts
<1> QED BY <1>1, <1>2, <1>3, Moves DEF Left, Calling, Starting, UnitsByPhase

\* A step of the call changes its phase or moves a unit.
LEMMA HandshakeMoves ==
  ASSUME IInv, Counts, NEW p \in Peers, Handshake(p) \/ Throw(p)
  PROVE  /\ Calling(p)
         /\ pc'[p] # pc[p] \/ sent'[p] # sent[p] \/ received'[p] # received[p]
<1>1. CASE SendSome(p)
  BY <1>1 DEF SendSome, Counts, Calling
<1>2. CASE ReceiveSome(p)
  BY <1>2 DEF ReceiveSome, Counts, Calling
<1>3. CASE Throw(p) \/ Start(p)
  BY <1>3 DEF Throw, Start, SetUserData, Connect, Deliver, Calling, Starting, IInv, Types
<1> QED BY <1>1, <1>2, <1>3 DEF Handshake

(* The rest of NoPeerHangs but its fairness: each step of a peer inside       *)
(* Rdma::connect or start() takes a finite measure down, and no step of the   *)
(* peer, of DOCA or of a callback takes it up.                                *)
THEOREM EachStepAdvancesTheSetup == Spec => SetupAdvances
<1>1. IInv /\ Counts /\ [Next]_vars =>
        [\A p \in Peers : /\ Left(p)' <= Left(p)
                          /\ Handshake(p) \/ Throw(p) => Left(p)' < Left(p)]_vars
  BY LeftStep, HandshakeMoves
<1> QED BY <1>1, ExchangeInvariant, PTL DEF Spec, SetupAdvances
=============================================================================
