--------------------------- MODULE OwnershipProofs ---------------------------
(***************************************************************************)
(* What DOCA still needs is not destroyed first, whatever order a program  *)
(* gives its objects up in, except in the windows the destructors open.    *)
(*                                                                         *)
(* The invariant: a context that runs, or has a connection, was connected  *)
(* to the engine, and the engine holds every connected context as long as  *)
(* it is up.  When it closes it lets go of them, but it is not destroyed   *)
(* before them.                                                            *)
(***************************************************************************)
EXTENDS Ownership, MMapProofs

RdmaTypes == [ctx : {"none", "idle", "running", "destroyed", "leaked"},
              device : Devices \cup {Null}, dev : Devices \cup {Null},
              user : BOOLEAN, engine : BOOLEAN, attached : BOOLEAN]

\* A context DOCA has: somebody holds its Rdma and with it the device, or it is
\* idle and its Rdma about to destroy it, or it runs and the engine is closing.
\* If it is connected to the engine the engine holds it while it is up.
ContextsHeld ==
    \A r \in Rdmas :
        /\ Exists(r) => rdma[r].dev = rdma[r].device
        /\ Exists(r) => \/ Held(r)
                        \/ rdma[r].ctx = "idle" /\ r \in doomed
                        \/ rdma[r].ctx = "running" /\ pe = "closing"
        /\ Exists(r) /\ rdma[r].attached =>
             (pe = "up" /\ rdma[r].engine) \/ pe = "closing"
        /\ rdma[r].ctx = "running" => rdma[r].attached

\* An Rdma that is being destroyed has no owner and a context.
DoomedAlone == \A r \in doomed : Exists(r) /\ ~Held(r)

\* A connection that lives holds the connected context it belongs to; the
\* engine, which is up, holds that of a connection that is being destroyed.
ConnectionsHold ==
    \A c \in Conns :
        /\ conn[c].state \in {"live", "closing"} =>
             /\ conn[c].of \in Rdmas
             /\ Exists(conn[c].of) /\ rdma[conn[c].of].attached
        /\ conn[c].state = "closing" => pe = "up"
        /\ conn[c].rdma = IF conn[c].state = "live" THEN conn[c].of ELSE Null

\* A write in flight has a buffer of its map, and its context runs.
FlightsUse ==
    \A f \in flights :
        /\ map[f[2]].bufs > 0
        /\ conn[f[1]].state # "none" /\ conn[f[1]].of \in Rdmas
        /\ rdma[conn[f[1]].of].ctx = "running"

RdmaInv ==
    ContextsHeld /\ DoomedAlone /\ ConnectionsHold /\ FlightsUse /\ NoLateDisconnect

IInv == MMapInv /\ TypeOK /\ RdmaInv

USE DEF RdmaTypes

LEMMA InitInv == Init => IInv
  <1> SUFFICES ASSUME Init PROVE IInv
    OBVIOUS
  <1>1. MMapInv
    BY MMapInitInv DEF Init
  <1>2. TypeOK
    BY <1>1 DEF Init, TypeOK, MMapInv, NoRdma, NoConn
  <1>3. RdmaInv
    BY DEF Init, RdmaInv, ContextsHeld, DoomedAlone, ConnectionsHold, FlightsUse, NoLateDisconnect,
           NoRdma, NoConn, Exists
  <1> QED BY <1>1, <1>2, <1>3 DEF IInv

\* The steps of the maps leave the contexts alone, and take no buffer back.
LEMMA MapsStep == IInv /\ MMapNext /\ UNCHANGED rdmaVars => IInv'
  <1> SUFFICES ASSUME IInv, MMapNext, UNCHANGED rdmaVars PROVE IInv'
    OBVIOUS
  <1>1. MMapInv'
    BY MMapStep DEF IInv
  <1>2. TypeOK'
    BY <1>1 DEF IInv, TypeOK, MMapInv, rdmaVars
  <1>3. ASSUME NEW k \in Maps, map[k].bufs > 0
        PROVE  map'[k].bufs > 0
    BY <1>3, BufsKept DEF IInv
  <1>4. RdmaInv'
    BY <1>3 DEF IInv, RdmaInv, ContextsHeld, DoomedAlone, ConnectionsHold, FlightsUse,
       NoLateDisconnect,
           Exists, Held, Holders, rdmaVars, TypeOK
  <1> QED BY <1>1, <1>2, <1>4 DEF IInv

\* The other steps leave the maps alone; this is about the contexts.
LEMMA RdmaStep ==
    ASSUME IInv, UNCHANGED mmapVars, TypeOK', RdmaInv'
    PROVE  IInv'
  <1>1. MMapInv'
    BY DEF IInv, MMapInv, MMapTypeOK, OwnedOnce, StartedAgrees, CookieAlive, mmapVars, fate,
           CallbackRunsAlive, Unmade, BufsStarted, DevicesHeld, Live, Owned
  <1> QED BY <1>1 DEF IInv

LEMMA ExitAllInv == IInv /\ alive /\ ExitAll => IInv'
  <1> SUFFICES ASSUME IInv, ExitAll PROVE IInv'
    OBVIOUS
  <1>1. MMapInv'
    BY ExitInv DEF IInv, ExitAll, Exit
  <1>2. TypeOK'
    BY <1>1 DEF IInv, TypeOK, MMapInv, ExitAll, Exit, rdmaVars
  <1>3. RdmaInv'
    BY DEF IInv, RdmaInv, ContextsHeld, DoomedAlone, ConnectionsHold, FlightsUse, NoLateDisconnect,
           Exists, Held, Holders, ExitAll, Exit, rdmaVars
  <1> QED BY <1>1, <1>2, <1>3 DEF IInv

-----------------------------------------------------------------------------
(* Rdma *)

LEMMA OpenRdmaInv ==
    ASSUME IInv, ~Busy, NEW r \in Rdmas, NEW d \in Devices, OpenRdma(r, d)
    PROVE  IInv'
  <1>1. CASE ExitAll
    BY <1>1, ExitAllInv DEF OpenRdma
  <1>2. CASE ~ExitAll
    <2>1. /\ rdma[r].ctx = "none" /\ rdma' = [rdma EXCEPT ![r] = Opened(d)]
          /\ UNCHANGED <<mmapVars, doomed, conn, late, flights, pe>>
      BY <1>2 DEF OpenRdma
    <2>2. /\ Opened(d) \in RdmaTypes /\ Opened(d).user /\ ~Opened(d).engine
          /\ ~Opened(d).attached /\ Opened(d).ctx = "idle" /\ Opened(d).dev = Opened(d).device
      BY DEF Opened, NoRdma
    <2>3. TypeOK'
      BY <2>1, <2>2 DEF IInv, TypeOK, MMapTypeOK, mmapVars, fate
    <2>4. RdmaInv'
      BY <2>1, <2>2 DEF IInv, TypeOK, RdmaInv, ContextsHeld, DoomedAlone, ConnectionsHold,
         FlightsUse, NoLateDisconnect, Exists, Held, Holders, mmapVars
    <2> QED BY <2>1, <2>3, <2>4, RdmaStep
  <1> QED BY <1>1, <1>2

LEMMA StartCtxInv ==
    ASSUME IInv, ~Busy, NEW r \in Rdmas, StartCtx(r)
    PROVE  IInv'
  <1>1. CASE ExitAll
    BY <1>1, ExitAllInv DEF StartCtx
  <1>2. CASE ~ExitAll
    <2>1. /\ rdma[r].ctx = "idle" /\ rdma[r].attached
          /\ rdma' = [rdma EXCEPT ![r].ctx = "running"]
          /\ UNCHANGED <<mmapVars, doomed, conn, late, flights, pe>>
      BY <1>2 DEF StartCtx
    <2>2. /\ rdma' \in [Rdmas -> RdmaTypes]
          /\ \A q \in Rdmas : /\ q # r => rdma'[q] = rdma[q]
                              /\ rdma'[q].user = rdma[q].user
                              /\ rdma'[q].engine = rdma[q].engine
                              /\ rdma'[q].attached = rdma[q].attached
                              /\ rdma'[q].dev = rdma[q].dev
                              /\ rdma'[q].device = rdma[q].device
          /\ rdma'[r].ctx = "running"
      BY <2>1 DEF IInv, TypeOK
    <2>3. TypeOK'
      BY <2>1, <2>2 DEF IInv, TypeOK, MMapTypeOK, mmapVars, fate
    <2>4. /\ \A q \in Rdmas : Held(q)' = Held(q) /\ Exists(q)' = Exists(q)
          /\ Exists(r) /\ Held(r)
      BY <2>1, <2>2 DEF Held, Holders, Exists, Busy, IInv, RdmaInv, ContextsHeld
    <2>5. ContextsHeld' /\ DoomedAlone'
      BY <2>1, <2>2, <2>4 DEF IInv, RdmaInv, ContextsHeld, DoomedAlone, TypeOK
    <2>6. ConnectionsHold' /\ FlightsUse' /\ NoLateDisconnect'
      BY <2>1, <2>2, <2>4 DEF IInv, RdmaInv, ConnectionsHold, FlightsUse, NoLateDisconnect,
         TypeOK, mmapVars
    <2> QED BY <2>1, <2>3, <2>5, <2>6, RdmaStep DEF RdmaInv
  <1> QED BY <1>1, <1>2

LEMMA StopCtxInv ==
    ASSUME IInv, ~Busy, NEW r \in Rdmas, StopCtx(r)
    PROVE  IInv'
  <1>1. CASE ExitAll
    BY <1>1, ExitAllInv DEF StopCtx
  <1>2. CASE ~ExitAll
    <2>1. /\ rdma[r].ctx = "running" /\ \A f \in flights : conn[f[1]].of # r
          /\ rdma' = [rdma EXCEPT ![r].ctx = "idle"]
          /\ UNCHANGED <<mmapVars, doomed, conn, late, flights, pe>>
      BY <1>2 DEF StopCtx
    <2>2. /\ rdma' \in [Rdmas -> RdmaTypes]
          /\ \A q \in Rdmas : /\ q # r => rdma'[q] = rdma[q]
                              /\ rdma'[q].user = rdma[q].user
                              /\ rdma'[q].engine = rdma[q].engine
                              /\ rdma'[q].attached = rdma[q].attached
                              /\ rdma'[q].dev = rdma[q].dev
                              /\ rdma'[q].device = rdma[q].device
          /\ rdma'[r].ctx = "idle"
      BY <2>1 DEF IInv, TypeOK
    <2>3. TypeOK'
      BY <2>1, <2>2 DEF IInv, TypeOK, MMapTypeOK, mmapVars, fate
    <2>4. /\ \A q \in Rdmas : Held(q)' = Held(q) /\ Exists(q)' = Exists(q)
          /\ Exists(r) /\ Held(r)
      BY <2>1, <2>2 DEF Held, Holders, Exists, Busy, IInv, RdmaInv, ContextsHeld
    <2>5. ContextsHeld' /\ DoomedAlone'
      BY <2>1, <2>2, <2>4 DEF IInv, RdmaInv, ContextsHeld, DoomedAlone, TypeOK
    <2>6. ConnectionsHold' /\ FlightsUse' /\ NoLateDisconnect'
      BY <2>1, <2>2, <2>4 DEF IInv, RdmaInv, ConnectionsHold, FlightsUse, NoLateDisconnect,
         TypeOK, mmapVars
    <2> QED BY <2>1, <2>3, <2>5, <2>6, RdmaStep DEF RdmaInv
  <1> QED BY <1>1, <1>2

LEMMA ConnectCtxInv ==
    ASSUME IInv, ~Busy, NEW r \in Rdmas, ConnectCtx(r)
    PROVE  IInv'
  <1>1. PICK b \in BOOLEAN :
          /\ pe = "up" /\ ~rdma[r].engine /\ rdma[r].user
          /\ rdma' = [rdma EXCEPT ![r].engine = TRUE, ![r].attached = b]
          /\ UNCHANGED <<mmapVars, doomed, conn, late, flights, pe>>
    BY DEF ConnectCtx, Kept
  <1>2. rdma[r].ctx # "running" /\ (Exists(r) => ~rdma[r].attached)
    BY <1>1 DEF IInv, RdmaInv, ContextsHeld, Exists
  <1>3. \A c \in Conns : conn[c].state = "live" => conn[c].of # r
    BY <1>2 DEF IInv, RdmaInv, ConnectionsHold
  <1>4. /\ rdma' \in [Rdmas -> RdmaTypes]
        /\ \A q \in Rdmas : /\ q # r => rdma'[q] = rdma[q]
                            /\ rdma'[q].user = rdma[q].user
                            /\ rdma'[q].ctx = rdma[q].ctx
                            /\ rdma'[q].dev = rdma[q].dev
                            /\ rdma'[q].device = rdma[q].device
        /\ rdma'[r].engine
    BY <1>1 DEF IInv, TypeOK
  <1>5. TypeOK'
    BY <1>1, <1>4 DEF IInv, TypeOK, MMapTypeOK, mmapVars, fate
  <1>6. RdmaInv'
    BY <1>1, <1>2, <1>3, <1>4 DEF IInv, TypeOK, RdmaInv, ContextsHeld, DoomedAlone, ConnectionsHold,
       FlightsUse, NoLateDisconnect, Exists, Held, Holders, mmapVars
  <1> QED BY <1>1, <1>5, <1>6, RdmaStep

LEMMA ExportCtxInv ==
    ASSUME IInv, ~Busy, NEW r \in Rdmas, NEW c \in Conns, ExportCtx(r, c)
    PROVE  IInv'
  <1>1. CASE ExitAll
    BY <1>1, ExitAllInv DEF ExportCtx
  <1>2. CASE ~ExitAll
    <2>1. /\ rdma[r].ctx = "running" /\ conn[c].state = "none"
          /\ conn' = [conn EXCEPT ![c] = [state |-> "live", rdma |-> r, of |-> r]]
          /\ UNCHANGED <<mmapVars, rdma, doomed, late, flights, pe>>
      BY <1>2 DEF ExportCtx
    <2>2. /\ conn'[c].state = "live" /\ conn'[c].rdma = r /\ conn'[c].of = r
          /\ \A e \in Conns : e # c => conn'[e] = conn[e]
      BY <2>1 DEF IInv, TypeOK
    <2>3. TypeOK'
      BY <2>1 DEF IInv, TypeOK, MMapTypeOK, mmapVars, fate
    <2>4. ContextsHeld' /\ DoomedAlone' /\ ConnectionsHold'
      <3>1. \A q \in Rdmas : Holders(q) # {} => Holders(q)' # {}
        BY <2>1, <2>2, OwnershipAssumption
        DEF Holders, IInv, RdmaInv, ConnectionsHold, ContextsHeld
      <3>2. Exists(r) /\ rdma[r].attached
        BY <2>1 DEF Exists, IInv, RdmaInv, ContextsHeld
      <3>3. ContextsHeld' /\ DoomedAlone'
        BY <2>1, <3>1 DEF ContextsHeld, DoomedAlone, IInv, RdmaInv, Exists, Held, Busy
      <3>4. ConnectionsHold'
        BY <2>1, <2>2, <3>2 DEF ConnectionsHold, IInv, RdmaInv, Exists
      <3> QED BY <3>3, <3>4
    <2>5. FlightsUse' /\ NoLateDisconnect'
      BY <2>1, <2>2 DEF IInv, TypeOK, RdmaInv, FlightsUse, NoLateDisconnect, mmapVars
    <2> QED BY <2>1, <2>3, <2>4, <2>5, RdmaStep DEF RdmaInv
  <1> QED BY <1>1, <1>2

\* The program's pointer was not the last one to a context the engine holds.
LEMMA DropRdmaInv ==
    ASSUME IInv, ~Busy, NEW r \in Rdmas, DropRdma(r)
    PROVE  IInv'
  <1>1. /\ rdma' = [rdma EXCEPT ![r].user = FALSE] /\ GiveUp
        /\ UNCHANGED <<mmapVars, conn, late, flights, pe>>
    BY DEF DropRdma
  <1>2. /\ rdma' \in [Rdmas -> RdmaTypes]
        /\ \A q \in Rdmas : /\ q # r => rdma'[q] = rdma[q]
                            /\ rdma'[q].ctx = rdma[q].ctx
                            /\ rdma'[q].engine = rdma[q].engine
                            /\ rdma'[q].attached = rdma[q].attached
                            /\ rdma'[q].dev = rdma[q].dev
                            /\ rdma'[q].device = rdma[q].device
    BY <1>1 DEF IInv, TypeOK
  <1>3. TypeOK'
    BY <1>1, <1>2 DEF IInv, TypeOK, MMapTypeOK, mmapVars, fate, GiveUp
  <1>4. \A q \in Rdmas : Exists(q)' = Exists(q)
    BY <1>2 DEF Exists
  <1>5. doomed = {} /\ pe # "closing"
    BY DEF Busy
  <1>6. ContextsHeld'
    <2> SUFFICES ASSUME NEW q \in Rdmas, Exists(q), ~Held(q)'
                 PROVE  rdma[q].ctx = "idle" /\ q \in doomed'
      BY <1>1, <1>2, <1>4 DEF IInv, RdmaInv, ContextsHeld
    <2>1. Held(q)
      BY <1>5 DEF IInv, RdmaInv, ContextsHeld
    <2>2. q \in doomed'
      BY <1>1, <1>4, <2>1 DEF GiveUp
    <2>3. ~rdma[q].engine
      BY <1>2 DEF Held
    <2> QED BY <1>5, <2>2, <2>3 DEF IInv, RdmaInv, ContextsHeld, Exists
  <1>7. DoomedAlone'
    BY <1>1 DEF DoomedAlone, GiveUp
  <1>8. ConnectionsHold' /\ FlightsUse' /\ NoLateDisconnect'
    BY <1>1, <1>2, <1>4 DEF IInv, RdmaInv, ConnectionsHold, FlightsUse, NoLateDisconnect,
       TypeOK, mmapVars
  <1> QED BY <1>1, <1>3, <1>6, <1>7, <1>8, RdmaStep DEF RdmaInv

\* An Rdma without an owner goes on to its context.  No connection is its.
LEMMA DestroyRdmaInv ==
    ASSUME IInv, NEW r \in doomed, DestroyRdma(r)
    PROVE  IInv'
  <1>1. PICK ctx \in {"running", "destroyed", "leaked"} :
          /\ ctx = "running" <=> rdma[r].ctx = "running"
          /\ rdma' = [rdma EXCEPT ![r].ctx = ctx] /\ doomed' = doomed \ {r}
          /\ UNCHANGED <<mmapVars, conn, late, flights, pe>>
    BY DEF DestroyRdma
  <1>2. r \in Rdmas /\ Exists(r) /\ ~Held(r)
    BY DEF IInv, TypeOK, RdmaInv, DoomedAlone
  <1>3. /\ rdma' \in [Rdmas -> RdmaTypes]
        /\ \A q \in Rdmas : /\ q # r => rdma'[q] = rdma[q]
                            /\ rdma'[q].user = rdma[q].user
                            /\ rdma'[q].engine = rdma[q].engine
                            /\ rdma'[q].attached = rdma[q].attached
                            /\ rdma'[q].dev = rdma[q].dev
                            /\ rdma'[q].device = rdma[q].device
        /\ rdma'[r].ctx = ctx
    BY <1>1, <1>2 DEF IInv, TypeOK
  <1>4. TypeOK'
    BY <1>1, <1>3 DEF IInv, TypeOK, MMapTypeOK, mmapVars, fate
  <1>5. /\ \A q \in Rdmas : Held(q)' = Held(q)
        /\ \A q \in Rdmas : q # r => Exists(q)' = Exists(q)
        /\ Exists(r)' => ctx = "running"
    BY <1>1, <1>3 DEF Held, Holders, Exists
  <1>6. ContextsHeld'
    <2> SUFFICES ASSUME NEW q \in Rdmas
                 PROVE  ContextsHeld!(q)'
      BY DEF ContextsHeld
    <2>1. ContextsHeld!(q)
      BY DEF IInv, RdmaInv, ContextsHeld
    <2>2. CASE q # r
      BY <1>1, <1>3, <1>5, <2>1, <2>2
    <2>3. CASE q = r
      BY <1>1, <1>2, <1>3, <1>5, <2>1, <2>3
    <2> QED BY <2>2, <2>3
  <1>7. DoomedAlone'
    BY <1>1, <1>4, <1>5 DEF IInv, TypeOK, RdmaInv, DoomedAlone
  <1>8. ASSUME NEW c \in Conns, conn[c].state \in {"live", "closing"}
        PROVE  conn[c].of # r
    <2>1. CASE conn[c].state = "live"
      BY <1>2, <2>1 DEF IInv, RdmaInv, ConnectionsHold, Held, Holders
    <2>2. CASE conn[c].state = "closing"
      BY <1>2, <2>2 DEF IInv, RdmaInv, ConnectionsHold, ContextsHeld, Held
    <2> QED BY <1>8, <2>1, <2>2
  <1>9. ConnectionsHold'
    BY <1>1, <1>3, <1>5, <1>8 DEF IInv, RdmaInv, ConnectionsHold
  <1>10. FlightsUse' /\ NoLateDisconnect'
    BY <1>1, <1>3 DEF IInv, RdmaInv, FlightsUse, NoLateDisconnect, TypeOK, mmapVars
  <1> QED BY <1>1, <1>4, <1>6, <1>7, <1>9, <1>10, RdmaStep DEF RdmaInv

-----------------------------------------------------------------------------
(* RdmaConnection *)

\* The engine still holds the context of a connection that gives up its
\* pointer, so that dooms nothing.
LEMMA PointerGoes ==
    ASSUME IInv, ~Busy, NEW c \in Conns, conn[c].state = "live",
           NEW state \in {"closing", "disconnected"},
           conn' = [conn EXCEPT ![c].state = state, ![c].rdma = Null],
           UNCHANGED <<mmapVars, rdma, flights, pe>>, GiveUp, late' = late
    PROVE  IInv'
  <1>1. /\ conn'[c].state = state /\ conn'[c].rdma = Null /\ conn'[c].of = conn[c].of
        /\ \A e \in Conns : e # c => conn'[e] = conn[e]
    BY DEF IInv, TypeOK
  <1>2. /\ conn[c].of \in Rdmas /\ Exists(conn[c].of) /\ rdma[conn[c].of].attached
        /\ conn[c].rdma = conn[c].of /\ pe = "up" /\ rdma[conn[c].of].engine
    BY DEF Busy, IInv, RdmaInv, ConnectionsHold, ContextsHeld
  <1>3. \A r \in Rdmas : Exists(r)' = Exists(r) /\ (Held(r) => Held(r)')
    <2>1. \A r \in Rdmas : r # conn[c].of => Holders(r)' = Holders(r)
      BY <1>1, <1>2, OwnershipAssumption DEF Holders
    <2> QED BY <1>2, <2>1 DEF Held, Exists
  <1>4. doomed' = {} /\ doomed = {}
    BY <1>3 DEF GiveUp, Busy
  <1>5. TypeOK'
    <2>1. conn' \in [Conns -> [state : {"none", "live", "closing", "disconnected"},
                               rdma : Rdmas \cup {Null}, of : Rdmas \cup {Null}]]
      BY DEF IInv, TypeOK
    <2> QED BY <1>4, <2>1 DEF IInv, TypeOK, MMapTypeOK, mmapVars, fate
  <1>6. ContextsHeld' /\ DoomedAlone'
    BY <1>3, <1>4 DEF IInv, RdmaInv, ContextsHeld, DoomedAlone
  <1>7. ConnectionsHold' /\ FlightsUse' /\ NoLateDisconnect'
    BY <1>1, <1>2, <1>3 DEF IInv, RdmaInv, ConnectionsHold, FlightsUse, NoLateDisconnect,
       TypeOK, mmapVars
  <1> QED BY <1>5, <1>6, <1>7, RdmaStep DEF RdmaInv

LEMMA DestroyConnectionInv ==
    ASSUME IInv, ~Busy, NEW c \in Conns, DestroyConnection(c)
    PROVE  IInv'
  BY PointerGoes DEF DestroyConnection

LEMMA ReplaceConnectionInv ==
    ASSUME IInv, ~Busy, NEW c \in Conns, ReplaceConnection(c)
    PROVE  IInv'
  <1>1. CASE ExitAll
    BY <1>1, ExitAllInv DEF ReplaceConnection
  <1>2. CASE ~ExitAll
    <2>1. Exists(conn[c].of)
      BY DEF ReplaceConnection, IInv, RdmaInv, ConnectionsHold
    <2>2. late' = late
      BY <1>2, <2>1 DEF ReplaceConnection, Disconnected, Exists
    <2> QED BY <1>2, <2>2, PointerGoes DEF ReplaceConnection
  <1> QED BY <1>1, <1>2

\* The disconnect of ~RdmaConnection: the context is still there.
LEMMA DisconnectInv ==
    ASSUME IInv, NEW c \in Conns, Disconnect(c)
    PROVE  IInv'
  <1>1. CASE ExitAll
    BY <1>1, ExitAllInv DEF Disconnect
  <1>2. CASE ~ExitAll
    <2>1. /\ conn[c].state = "closing" /\ Disconnected(c)
          /\ conn' = [conn EXCEPT ![c].state = "disconnected"]
          /\ UNCHANGED <<mmapVars, rdma, doomed, flights, pe>>
      BY <1>2 DEF Disconnect
    <2>2. late' = late
      BY <2>1 DEF IInv, RdmaInv, ConnectionsHold, Exists, Disconnected
    <2>3. /\ conn'[c].state = "disconnected" /\ conn'[c].of = conn[c].of
          /\ conn'[c].rdma = conn[c].rdma /\ conn[c].rdma = Null
          /\ \A e \in Conns : e # c => conn'[e] = conn[e]
      BY <2>1 DEF IInv, TypeOK, RdmaInv, ConnectionsHold
    <2>4. TypeOK'
      <3>1. conn' \in [Conns -> [state : {"none", "live", "closing", "disconnected"},
                                 rdma : Rdmas \cup {Null}, of : Rdmas \cup {Null}]]
        BY <2>1 DEF IInv, TypeOK
      <3> QED BY <2>1, <2>2, <3>1 DEF IInv, TypeOK, MMapTypeOK, mmapVars, fate
    <2>5. \A r \in Rdmas : Held(r)' = Held(r) /\ Exists(r)' = Exists(r)
      BY <2>1, <2>3 DEF Held, Holders, Exists
    <2>6. ContextsHeld' /\ DoomedAlone'
      BY <2>1, <2>4, <2>5 DEF IInv, RdmaInv, ContextsHeld, DoomedAlone, TypeOK
    <2>7. ConnectionsHold' /\ FlightsUse' /\ NoLateDisconnect'
      BY <2>1, <2>2, <2>3, <2>5 DEF IInv, RdmaInv, ConnectionsHold, FlightsUse,
         NoLateDisconnect, TypeOK, mmapVars
    <2> QED BY <2>1, <2>4, <2>6, <2>7, RdmaStep DEF RdmaInv
  <1> QED BY <1>1, <1>2

LEMMA WriteInv ==
    ASSUME IInv, NEW c \in Conns, NEW k \in Maps, Write(c, k)
    PROVE  IInv'
  <1>1. /\ conn[c].state = "live" /\ rdma[conn[c].of].ctx = "running" /\ map[k].bufs > 0
        /\ flights' = flights \cup {<<c, k>>}
        /\ UNCHANGED <<mmapVars, rdma, doomed, conn, late, pe>>
    BY DEF Write
  <1>2. TypeOK'
    BY <1>1 DEF IInv, TypeOK, MMapTypeOK, mmapVars, fate
  <1>3. RdmaInv'
    BY <1>1 DEF IInv, RdmaInv, ContextsHeld, DoomedAlone, ConnectionsHold, FlightsUse,
       NoLateDisconnect, Exists, Held, Holders, mmapVars
  <1> QED BY <1>1, <1>2, <1>3, RdmaStep

LEMMA CompleteInv ==
    ASSUME IInv, NEW f \in flights, Complete(f)
    PROVE  IInv'
  <1>1. flights' = flights \ {f} /\ UNCHANGED <<mmapVars, rdma, doomed, conn, late, pe>>
    BY DEF Complete
  <1>2. TypeOK'
    BY <1>1 DEF IInv, TypeOK, MMapTypeOK, mmapVars, fate
  <1>3. RdmaInv'
    BY <1>1 DEF IInv, RdmaInv, ContextsHeld, DoomedAlone, ConnectionsHold, FlightsUse,
       NoLateDisconnect, Exists, Held, Holders, mmapVars
  <1> QED BY <1>1, <1>2, <1>3, RdmaStep

LEMMA ReturnBufInv ==
    ASSUME IInv, NEW k \in Maps, ReturnBuf(k)
    PROVE  IInv'
  <1>1. MMapInv'
    BY PutBufInv DEF ReturnBuf, IInv
  <1>2. TypeOK'
    BY <1>1 DEF IInv, TypeOK, MMapInv, ReturnBuf, rdmaVars
  <1>3. \A f \in flights : map'[f[2]] = map[f[2]]
    BY DEF ReturnBuf, PutBuf, IInv, TypeOK, MMapTypeOK
  <1>4. RdmaInv'
    BY <1>3 DEF IInv, RdmaInv, ContextsHeld, DoomedAlone, ConnectionsHold, FlightsUse,
       NoLateDisconnect, Exists, Held, Holders, ReturnBuf, rdmaVars
  <1> QED BY <1>1, <1>2, <1>4 DEF IInv

-----------------------------------------------------------------------------
(* ~doca_pe_context *)

LEMMA JoinLoopInv ==
    ASSUME IInv, ~Busy, JoinLoop
    PROVE  IInv'
  <1>1. pe = "up" /\ pe' = "closing" /\ UNCHANGED <<mmapVars, rdma, doomed, conn, late, flights>>
    BY DEF JoinLoop
  <1>2. \A r \in Rdmas : Held(r)' = Held(r) /\ Exists(r)' = Exists(r)
    BY <1>1 DEF Held, Holders, Exists
  <1>3. TypeOK'
    BY <1>1 DEF IInv, TypeOK, MMapTypeOK, mmapVars, fate
  <1>4. ContextsHeld' /\ DoomedAlone'
    BY <1>1, <1>2 DEF IInv, RdmaInv, ContextsHeld, DoomedAlone, TypeOK
  <1>5. ConnectionsHold' /\ FlightsUse' /\ NoLateDisconnect'
    BY <1>1, <1>2 DEF IInv, RdmaInv, ConnectionsHold, FlightsUse, NoLateDisconnect,
       Busy, TypeOK, mmapVars
  <1> QED BY <1>1, <1>3, <1>4, <1>5, RdmaStep DEF RdmaInv

\* The context may lose its last owner, running even: the engine is closing.
LEMMA ReleaseContextInv ==
    ASSUME IInv, NEW r \in Rdmas, ReleaseContext(r)
    PROVE  IInv'
  <1>1. /\ rdma' = [rdma EXCEPT ![r].engine = FALSE] /\ GiveUp
        /\ pe = "closing" /\ doomed = {}
        /\ UNCHANGED <<mmapVars, conn, late, flights, pe>>
    BY DEF ReleaseContext
  <1>2. /\ rdma' \in [Rdmas -> RdmaTypes]
        /\ \A q \in Rdmas : /\ q # r => rdma'[q] = rdma[q]
                            /\ rdma'[q].ctx = rdma[q].ctx
                            /\ rdma'[q].user = rdma[q].user
                            /\ rdma'[q].attached = rdma[q].attached
                            /\ rdma'[q].dev = rdma[q].dev
                            /\ rdma'[q].device = rdma[q].device
    BY <1>1 DEF IInv, TypeOK
  <1>3. TypeOK'
    BY <1>1, <1>2 DEF IInv, TypeOK, MMapTypeOK, mmapVars, fate, GiveUp
  <1>4. \A q \in Rdmas : Exists(q)' = Exists(q)
    BY <1>2 DEF Exists
  <1>5. ContextsHeld'
    <2> SUFFICES ASSUME NEW q \in Rdmas, Exists(q), ~Held(q)', rdma[q].ctx # "running"
                 PROVE  rdma[q].ctx = "idle" /\ q \in doomed'
      BY <1>1, <1>2, <1>4 DEF IInv, RdmaInv, ContextsHeld
    <2>1. Held(q) /\ rdma[q].ctx = "idle"
      BY <1>1 DEF IInv, RdmaInv, ContextsHeld, Exists
    <2> QED BY <1>1, <1>4, <2>1 DEF GiveUp
  <1>6. DoomedAlone'
    BY <1>1 DEF DoomedAlone, GiveUp
  <1>7. ConnectionsHold' /\ FlightsUse' /\ NoLateDisconnect'
    BY <1>1, <1>2, <1>4 DEF IInv, RdmaInv, ConnectionsHold, FlightsUse, NoLateDisconnect,
       TypeOK, mmapVars
  <1> QED BY <1>1, <1>3, <1>5, <1>6, <1>7, RdmaStep DEF RdmaInv

\* If no connected context is left then none runs, nor has a connection.
LEMMA DestroyEngineInv ==
    ASSUME IInv, DestroyEngine
    PROVE  IInv'
  <1>1. CASE ExitAll
    BY <1>1, ExitAllInv DEF DestroyEngine
  <1>2. CASE ~ExitAll
    <2>1. /\ ~Connected /\ doomed = {} /\ pe = "closing" /\ pe' = "destroyed"
          /\ UNCHANGED <<mmapVars, rdma, doomed, conn, late, flights>>
      BY <1>2 DEF DestroyEngine
    <2>2. \A r \in Rdmas : ~(Exists(r) /\ rdma[r].attached)
      BY <2>1 DEF Connected, Exists
    <2>3. \A r \in Rdmas : rdma[r].ctx # "running"
      BY <2>2 DEF IInv, RdmaInv, ContextsHeld, Exists
    <2>4. \A r \in Rdmas : Held(r)' = Held(r) /\ Exists(r)' = Exists(r)
      BY <2>1 DEF Held, Holders, Exists
    <2>5. TypeOK'
      BY <2>1 DEF IInv, TypeOK, MMapTypeOK, mmapVars, fate
    <2>6. ContextsHeld' /\ DoomedAlone'
      BY <2>1, <2>2, <2>3, <2>4 DEF IInv, RdmaInv, ContextsHeld, DoomedAlone
    <2>7. ConnectionsHold' /\ FlightsUse' /\ NoLateDisconnect'
      BY <2>1, <2>2, <2>3 DEF IInv, RdmaInv, ConnectionsHold, FlightsUse, NoLateDisconnect,
         mmapVars
    <2> QED BY <2>1, <2>5, <2>6, <2>7, RdmaStep DEF RdmaInv
  <1> QED BY <1>1, <1>2

-----------------------------------------------------------------------------
(* The theorems *)

LEMMA ProgramInv == IInv /\ ~Busy /\ Program => IInv'
  <1> SUFFICES ASSUME IInv, ~Busy, Program PROVE IInv'
    OBVIOUS
  <1>1. CASE MMapNext /\ UNCHANGED rdmaVars
    BY <1>1, MapsStep
  <1>2. ASSUME NEW k \in Maps, ReturnBuf(k) PROVE IInv'
    BY <1>2, ReturnBufInv
  <1>3. ASSUME NEW r \in Rdmas,
               \/ StartCtx(r) \/ StopCtx(r) \/ DropRdma(r) \/ ConnectCtx(r)
               \/ \E d \in Devices : OpenRdma(r, d)
               \/ \E c \in Conns : ExportCtx(r, c)
        PROVE  IInv'
    BY <1>3, StartCtxInv, StopCtxInv, DropRdmaInv, ConnectCtxInv, OpenRdmaInv, ExportCtxInv
  <1>4. ASSUME NEW c \in Conns,
               \/ DestroyConnection(c) \/ ReplaceConnection(c)
               \/ \E k \in Maps : Write(c, k)
        PROVE  IInv'
    BY <1>4, DestroyConnectionInv, ReplaceConnectionInv, WriteInv
  <1>5. CASE JoinLoop
    BY <1>5, JoinLoopInv
  <1> QED BY <1>1, <1>2, <1>3, <1>4, <1>5 DEF Program

LEMMA DestructionInv == IInv /\ Destruction => IInv'
  BY DestroyRdmaInv, DisconnectInv, ReleaseContextInv, DestroyEngineInv DEF Destruction

LEMMA NextInv == IInv /\ [Next]_vars => IInv'
  <1> SUFFICES ASSUME IInv, [Next]_vars PROVE IInv'
    OBVIOUS
  <1>1. ASSUME NEW f \in flights, Complete(f) PROVE IInv'
    BY <1>1, CompleteInv
  <1>2. CASE UNCHANGED vars
    BY <1>2 DEF vars, rdmaVars, mmapVars, fate, IInv, MMapInv, MMapTypeOK, OwnedOnce,
       StartedAgrees, CookieAlive, CallbackRunsAlive, Unmade, BufsStarted, DevicesHeld,
       Live, Owned, TypeOK, RdmaInv, ContextsHeld, DoomedAlone, ConnectionsHold, FlightsUse,
       NoLateDisconnect, Exists, Held, Holders
  <1> QED BY <1>1, <1>2, ProgramInv, DestructionInv DEF Next

\* The inductive invariant: the devices of a map are its object's too; a context
\* DOCA has is held together with its device, or inside its destructor, or runs
\* in a closing engine; and an engine that is up holds what is connected to it.
THEOREM Invariance == Spec => []IInv
  BY InitInv, NextInv, PTL DEF Spec

\* Every variable of maps, contexts and connections keeps its type.
THEOREM TypeCorrect == Spec => []TypeOK
  BY Invariance, PTL DEF IInv

\* No map is lost, destroyed twice, or referred to by two objects.
THEOREM MapsOwnedOnce == Spec => []OwnedOnce
  <1>1. IInv => OwnedOnce
    BY DEF IInv, MMapInv
  <1> QED BY <1>1, Invariance, PTL

\* started_ is what DOCA's map is.
THEOREM StartedFlagAgrees == Spec => []StartedAgrees
  <1>1. IInv => StartedAgrees
    BY DEF IInv, MMapInv
  <1> QED BY <1>1, Invariance, PTL

\* The cookie of a map that has an owner is the callback its owner holds.
THEOREM CookiesAlive == Spec => []CookieAlive
  <1>1. IInv => CookieAlive
    BY DEF IInv, MMapInv
  <1> QED BY <1>1, Invariance, PTL

\* DOCA calls a free callback that was destroyed only for released maps.
THEOREM CallbacksRunAlive == Spec => []CallbackRunsAlive
  <1>1. IInv => CallbackRunsAlive
    BY DEF IInv, MMapInv
  <1> QED BY <1>1, Invariance, PTL

\* The devices of a map that has an owner are open.
THEOREM MapsOverOpenDevices == Spec => []MapDevicesOpen
  <1>1. IInv => MapDevicesOpen
    <2> SUFFICES ASSUME IInv, NEW k \in Maps, NEW o \in Objects, obj[o].mmap = k,
                        NEW d \in map[k].devs
                 PROVE  DeviceOpen(d)
      BY DEF MapDevicesOpen, Owned
    <2>1. d \in obj[o].devices
      BY MMapAssumption DEF IInv, MMapInv, DevicesHeld
    <2> QED BY <2>1 DEF DeviceOpen
  <1> QED BY <1>1, Invariance, PTL

LEMMA ContextsOpen == IInv => ContextsOverOpenDevices
  <1> SUFFICES ASSUME IInv PROVE ContextsOverOpenDevices
    OBVIOUS
  <1>1. ASSUME NEW r \in Rdmas, Exists(r)
        PROVE  \/ DeviceOpen(rdma[r].device)
               \/ rdma[r].ctx = "idle" /\ r \in doomed
               \/ rdma[r].ctx = "running" /\ pe = "closing" /\ rdma[r].attached
    <2>1. rdma[r].dev = rdma[r].device
      BY <1>1 DEF IInv, RdmaInv, ContextsHeld
    <2>2. CASE Held(r)
      BY <2>1, <2>2 DEF DeviceOpen
    <2>3. CASE ~Held(r)
      BY <1>1, <2>3 DEF IInv, RdmaInv, ContextsHeld
    <2> QED BY <2>2, <2>3
  <1>2. ASSUME NEW r \in Rdmas, rdma[r].ctx = "running" PROVE pe # "destroyed"
    BY <1>2 DEF IInv, RdmaInv, ContextsHeld, Exists
  <1> QED BY <1>1, <1>2 DEF ContextsOverOpenDevices

\* A context DOCA has is over an open device, but inside the destructor of its
\* Rdma, if it is idle, or, if it runs, inside a ~doca_pe_context that ends the
\* program; none runs after one that returned (rdma.hpp:40-41, the members of
\* ProgressEngine and ~doca_pe_context).
THEOREM ContextsOverDevices == Spec => []ContextsOverOpenDevices
  BY ContextsOpen, Invariance, PTL

\* ~RdmaConnection never disconnects from a context that was destroyed.
THEOREM DisconnectsInTime == Spec => []NoLateDisconnect
  <1>1. IInv => NoLateDisconnect
    BY DEF IInv, RdmaInv
  <1> QED BY <1>1, Invariance, PTL

\* A write in flight has its map and its running context until it completes,
\* and an open device unless the program ends in ~doca_pe_context.
THEOREM WritesOverLiveResources == Spec => []WriteResourcesAlive
  <1>1. IInv => WriteResourcesAlive
    <2> SUFFICES ASSUME IInv, NEW f \in flights
                 PROVE  LET r == conn[f[1]].of
                        IN  /\ map[f[2]].state = "started"
                            /\ rdma[r].ctx = "running" /\ pe # "destroyed"
                            /\ DeviceOpen(rdma[r].device) \/ (pe = "closing" /\ rdma[r].attached)
      BY DEF WriteResourcesAlive
    <2> DEFINE r == conn[f[1]].of
    <2>1. f[2] \in Maps
      BY DEF IInv, TypeOK
    <2>2. map[f[2]].bufs > 0 /\ r \in Rdmas /\ rdma[r].ctx = "running"
      BY DEF IInv, RdmaInv, FlightsUse
    <2>3. map[f[2]].state = "started"
      BY <2>1, <2>2 DEF IInv, MMapInv, BufsStarted
    <2>4. pe # "destroyed"
      BY <2>2, ContextsOpen DEF ContextsOverOpenDevices
    <2>5. DeviceOpen(rdma[r].device) \/ (pe = "closing" /\ rdma[r].attached)
      BY <2>2, ContextsOpen DEF ContextsOverOpenDevices, Exists
    <2> QED BY <2>2, <2>3, <2>4, <2>5
  <1> QED BY <1>1, Invariance, PTL

-----------------------------------------------------------------------------
(* What contexts and connections add to the maps *)

\* Every step of the program is a step of the maps, or leaves them alone.
LEMMA StepOfMaps == [Next]_vars => [MMapNext \/ Elsewhere]_mmapVars
  <1>1. ASSUME NEW k \in Maps, ReturnBuf(k) PROVE Elsewhere
    BY <1>1 DEF ReturnBuf, Elsewhere
  <1>2. ASSUME NEW r \in Rdmas,
               \/ StartCtx(r) \/ StopCtx(r) \/ DropRdma(r) \/ ConnectCtx(r)
               \/ \E d \in Devices : OpenRdma(r, d)
               \/ \E c \in Conns : ExportCtx(r, c)
        PROVE  Elsewhere \/ UNCHANGED mmapVars
    BY <1>2 DEF StartCtx, StopCtx, DropRdma, ConnectCtx, OpenRdma, ExportCtx, ExitAll, Elsewhere
  <1>3. ASSUME NEW c \in Conns,
               \/ DestroyConnection(c) \/ ReplaceConnection(c)
               \/ \E k \in Maps : Write(c, k)
        PROVE  Elsewhere \/ UNCHANGED mmapVars
    BY <1>3 DEF DestroyConnection, ReplaceConnection, Write, ExitAll, Elsewhere
  <1>4. CASE Program
    BY <1>1, <1>2, <1>3, <1>4 DEF Program, JoinLoop
  <1>5. CASE Destruction
    BY <1>5 DEF Destruction, DestroyRdma, Disconnect, ReleaseContext, DestroyEngine,
       ExitAll, Elsewhere
  <1>6. ASSUME NEW f \in flights, Complete(f) PROVE UNCHANGED mmapVars
    BY <1>6 DEF Complete
  <1>7. CASE UNCHANGED vars
    BY <1>7 DEF vars
  <1> QED BY <1>4, <1>5, <1>6, <1>7 DEF Next

\* A program's maps behave as MMap says whatever the contexts, connections and
\* the engine do.
THEOREM MapsOfAProgram == Spec => MMapSpec
  <1>1. Init => MMapInit
    BY DEF Init
  <1> QED BY <1>1, StepOfMaps, PTL DEF Spec, MMapSpec

\* Hence in any program the maps have the owners that UniqueOwner promises.
THEOREM MapsOfAProgramOwned == Spec => ImplementsUniqueOwner
  BY MapsOfAProgram, MMapsAreOwners
=============================================================================
