----------------------------- MODULE Ownership ------------------------------
(***************************************************************************)
(* Who keeps what alive in a program: rdma.hpp's Rdma and RdmaConnection,  *)
(* progress_engine.hpp's ProgressEngine inside a doca_pe_context, and the  *)
(* devices and memory maps of MMap.                                        *)
(*                                                                         *)
(* Device and Rdma objects are shared: an Rdma holds its device, a         *)
(* connection and the engine hold the Rdma, and the program may drop its   *)
(* own pointers in any order.  Members are destroyed in reverse order of   *)
(* their declaration, one step each where DOCA wants another order: an     *)
(* Rdma's device before its context, a connection's Rdma before the        *)
(* connection, and the contexts of the engine before the engine.           *)
(*                                                                         *)
(* One thread at a time uses these objects, as in the tests, which wait    *)
(* for what runs on the loop; only completions come in between.            *)
(*                                                                         *)
(* External: the DOCA library.  A context starts only if it is connected   *)
(* to a progress engine, and neither stops with operations in flight nor   *)
(* is destroyed while it runs; a progress engine is not destroyed while a  *)
(* context is connected to it.                                             *)
(***************************************************************************)
EXTENDS MMap

CONSTANTS
    Rdmas,   \* Rdma objects, each with its DOCA context
    Conns    \* RDMA connections

ASSUME OwnershipAssumption == Null \notin Rdmas

VARIABLES
    rdma,    \* rdma[r]: DOCA's context, the device it was opened on, dev, and
             \*   whether the program (user) and the engine's ctxs_ hold r
    doomed,  \* Rdma objects being destroyed: dev is given up, rdma still there
    conn,    \* conn[c]: its state and the member rdma of its RdmaConnection
    late,    \* history: connections disconnected when their context was gone
    flights, \* <<c, k>>: a write on c that uses a buffer of map k
    pe       \* the progress engine: up, closing (in ~doca_pe_context, the loop
             \*   joined) or destroyed

vars == <<mmapVars, rdma, doomed, conn, late, flights, pe>>
rdmaVars == <<rdma, doomed, conn, late, flights, pe>>

NoRdma == [ctx |-> "none", device |-> Null, dev |-> Null,
           user |-> FALSE, engine |-> FALSE, attached |-> FALSE]
NoConn == [state |-> "none", rdma |-> Null, of |-> Null]

Init ==
    /\ MMapInit
    /\ rdma = [r \in Rdmas |-> NoRdma]
    /\ conn = [c \in Conns |-> NoConn]
    /\ doomed = {} /\ late = {} /\ flights = {}
    /\ pe = "up"

\* The owners of r; with the last one the object is destroyed.
Holders(r) == {c \in Conns : conn[c].rdma = r}
Held(r) == rdma[r].user \/ rdma[r].engine \/ Holders(r) # {}
Exists(r) == rdma[r].ctx \in {"idle", "running"}

\* A device is open as long as one pointer to it is left.
DeviceOpen(d) ==
    \/ d \in held
    \/ \E o \in Objects : d \in obj[o].devices
    \/ \E r \in Rdmas : Held(r) /\ rdma[r].dev = d

ExitAll == Exit /\ UNCHANGED rdmaVars

\* The program's thread is inside a destructor.
Busy == doomed # {} \/ pe = "closing" \/ \E c \in Conns : conn[c].state = "closing"

-----------------------------------------------------------------------------
(* Faulty variants: the code with one slip each. *)

\* open_from_dev does not pass the device on to the Rdma.
OpenedWithoutDev(d) == [NoRdma EXCEPT !.ctx = "idle", !.device = d, !.user = TRUE]

\* connect_ctx does not keep the context.
EngineKeepsNothing(r, connected) == [rdma EXCEPT ![r].attached = connected]

-----------------------------------------------------------------------------
(* Rdma *)

Opened(d) == [NoRdma EXCEPT !.ctx = "idle", !.device = d, !.dev = d, !.user = TRUE]

\* A pointer to an Rdma is given up.  If it was the last, ~Rdma gives up dev.
GiveUp == doomed' = {r \in Rdmas : Held(r) /\ Exists(r)' /\ ~Held(r)'}

\* ~Rdma goes on with rdma, the DOCA context: a running one DOCA refuses to
\* destroy, and perhaps another one, which is leaked.  Nobody acts on it.
DestroyRdma(r) ==
    /\ alive
    /\ doomed' = doomed \ {r}
    /\ \E ctx \in IF rdma[r].ctx = "running" THEN {"running"} ELSE {"destroyed", "leaked"} :
         rdma' = [rdma EXCEPT ![r].ctx = ctx]
    /\ UNCHANGED <<mmapVars, conn, late, flights, pe>>

\* Rdma::open_from_dev: the context, its callbacks and the task pools.
OpenRdma(r, d) ==
    /\ alive /\ d \in held /\ rdma[r].ctx = "none"
    /\ \/ /\ rdma' = [rdma EXCEPT ![r] = Opened(d)]
          /\ UNCHANGED <<mmapVars, doomed, conn, late, flights, pe>>
       \/ ExitAll

\* Context::start()
StartCtx(r) ==
    /\ alive /\ rdma[r].user
    /\ \/ /\ rdma[r].ctx = "idle" /\ rdma[r].attached
          /\ rdma' = [rdma EXCEPT ![r].ctx = "running"]
          /\ UNCHANGED <<mmapVars, doomed, conn, late, flights, pe>>
       \/ ExitAll

\* Context::stop().  With connections DOCA may need more progress, which is
\* an error status, and ends the program.
StopCtx(r) ==
    /\ alive /\ rdma[r].user
    /\ \/ /\ rdma[r].ctx = "running"
          /\ \A f \in flights : conn[f[1]].of # r
          /\ rdma' = [rdma EXCEPT ![r].ctx = "idle"]
          /\ UNCHANGED <<mmapVars, doomed, conn, late, flights, pe>>
       \/ ExitAll

\* Rdma::export_ctx(): an RdmaConnection that shares the Rdma.
ExportCtx(r, c) ==
    /\ alive /\ rdma[r].user /\ conn[c].state = "none"
    /\ \/ /\ rdma[r].ctx = "running"
          /\ conn' = [conn EXCEPT ![c] = [state |-> "live", rdma |-> r, of |-> r]]
          /\ UNCHANGED <<mmapVars, rdma, doomed, late, flights, pe>>
       \/ ExitAll

\* The program gives up its pointer to the Rdma.
DropRdma(r) ==
    /\ alive /\ rdma[r].user
    /\ rdma' = [rdma EXCEPT ![r].user = FALSE]
    /\ UNCHANGED <<mmapVars, conn, late, flights, pe>>
    /\ GiveUp

-----------------------------------------------------------------------------
(* RdmaConnection *)

Disconnected(c) ==
    late' = IF rdma[conn[c].of].ctx = "destroyed" THEN late \cup {c} ELSE late

\* ~RdmaConnection: its pointer to the Rdma goes first.
DestroyConnection(c) ==
    /\ alive /\ conn[c].state = "live"
    /\ conn' = [conn EXCEPT ![c].state = "closing", ![c].rdma = Null]
    /\ UNCHANGED <<mmapVars, rdma, late, flights, pe>>
    /\ GiveUp

\* Then it disconnects, rdma_connection_deleter: an error, perhaps, if the
\* connection's context does not run.
Disconnect(c) ==
    /\ alive /\ conn[c].state = "closing" /\ doomed = {}
    /\ \/ /\ Disconnected(c)
          /\ conn' = [conn EXCEPT ![c].state = "disconnected"]
          /\ UNCHANGED <<mmapVars, rdma, doomed, flights, pe>>
       \/ rdma[conn[c].of].ctx # "running" /\ ExitAll

\* operator=(RdmaConnection&&) over c, member by member: disconnects first.
ReplaceConnection(c) ==
    /\ alive /\ conn[c].state = "live"
    /\ \/ /\ Disconnected(c)
          /\ conn' = [conn EXCEPT ![c].state = "disconnected", ![c].rdma = Null]
          /\ UNCHANGED <<mmapVars, rdma, flights, pe>>
          /\ GiveUp
       \/ rdma[conn[c].of].ctx # "running" /\ ExitAll

\* write(): the connection's device must be one of the map's.  The operation
\* keeps neither the Bufs nor the connection.
Write(c, k) ==
    /\ alive /\ conn[c].state = "live" /\ <<c, k>> \notin flights
    /\ rdma[conn[c].of].ctx = "running"
    /\ map[k].bufs > 0 /\ rdma[conn[c].of].device \in map[k].devs
    /\ flights' = flights \cup {<<c, k>>}
    /\ UNCHANGED <<mmapVars, rdma, doomed, conn, late, pe>>

\* The completion, on the loop, of a write whose connection is gone an error.
Complete(f) ==
    /\ alive /\ f \in flights /\ pe = "up"
    /\ flights' = flights \ {f}
    /\ UNCHANGED <<mmapVars, rdma, doomed, conn, late, pe>>

-----------------------------------------------------------------------------
(* ProgressEngine and doca_pe_context *)

Kept(r, connected) == [rdma EXCEPT ![r].engine = TRUE, ![r].attached = connected]

\* connect_ctx: the engine keeps the context; the loop drops DOCA's status.
ConnectCtx(r) ==
    /\ alive /\ pe = "up" /\ rdma[r].user /\ ~rdma[r].engine
    /\ \E connected \in BOOLEAN : rdma' = Kept(r, connected)
    /\ UNCHANGED <<mmapVars, doomed, conn, late, flights, pe>>

\* ~doca_pe_context: finish() and join(); the engine is destroyed as a member
\* of the loop.
JoinLoop ==
    /\ alive /\ pe = "up"
    /\ pe' = "closing"
    /\ UNCHANGED <<mmapVars, rdma, doomed, conn, late, flights>>

\* ~ProgressEngine: ctxs_ goes first, one context after the other ...
ReleaseContext(r) ==
    /\ alive /\ pe = "closing" /\ doomed = {} /\ rdma[r].engine
    /\ rdma' = [rdma EXCEPT ![r].engine = FALSE]
    /\ UNCHANGED <<mmapVars, conn, late, flights, pe>>
    /\ GiveUp

\* DOCA has a context that is connected to the engine.
Connected == \E r \in Rdmas : rdma[r].ctx \in {"idle", "running", "leaked"} /\ rdma[r].attached

\* ... and then pe_, whose deleter ends the program if DOCA refuses.
DestroyEngine ==
    /\ alive /\ pe = "closing" /\ doomed = {} /\ \A r \in Rdmas : ~rdma[r].engine
    /\ \/ /\ ~Connected
          /\ pe' = "destroyed"
          /\ UNCHANGED <<mmapVars, rdma, doomed, conn, late, flights>>
       \/ Connected /\ ExitAll

-----------------------------------------------------------------------------
\* The program keeps the Bufs of a write until it has completed.
ReturnBuf(k) ==
    /\ \A f \in flights : f[2] # k
    /\ PutBuf(k)
    /\ UNCHANGED rdmaVars

\* What the program's thread begins next.
Program ==
    \/ MMapNext /\ UNCHANGED rdmaVars
    \/ \E k \in Maps : ReturnBuf(k)
    \/ \E r \in Rdmas :
         \/ StartCtx(r) \/ StopCtx(r) \/ DropRdma(r) \/ ConnectCtx(r)
         \/ \E d \in Devices : OpenRdma(r, d)
         \/ \E c \in Conns : ExportCtx(r, c)
    \/ \E c \in Conns :
         \/ DestroyConnection(c) \/ ReplaceConnection(c)
         \/ \E k \in Maps : Write(c, k)
    \/ JoinLoop

\* The steps of a destructor that has begun.
Destruction ==
    \/ \E r \in doomed : DestroyRdma(r)
    \/ \E c \in Conns : Disconnect(c)
    \/ \E r \in Rdmas : ReleaseContext(r)
    \/ DestroyEngine

Next ==
    \/ ~Busy /\ Program
    \/ Destruction
    \/ \E f \in flights : Complete(f)

Spec == Init /\ [][Next]_vars

-----------------------------------------------------------------------------
(* Properties *)

TypeOK ==
    /\ MMapTypeOK
    /\ rdma \in [Rdmas -> [ctx : {"none", "idle", "running", "destroyed", "leaked"},
                           device : Devices \cup {Null}, dev : Devices \cup {Null},
                           user : BOOLEAN, engine : BOOLEAN, attached : BOOLEAN]]
    /\ conn \in [Conns -> [state : {"none", "live", "closing", "disconnected"},
                           rdma : Rdmas \cup {Null}, of : Rdmas \cup {Null}]]
    /\ doomed \subseteq Rdmas
    /\ late \subseteq Conns
    /\ flights \subseteq Conns \X Maps
    /\ pe \in {"up", "closing", "destroyed"}

\* Whichever of its pointers the program gives up first, the devices of a map
\* that has an owner are open: no map is used or destroyed over a closed device.
MapDevicesOpen ==
    \A k \in Maps : Live(k) /\ Owned(k) => \A d \in map[k].devs : DeviceOpen(d)

\* The device of a context DOCA has is open, although ~Rdma gives it up first,
\* but for two windows.  An idle context may be over a closed device inside
\* ~Rdma, which destroys it next.  A running one may be inside ~doca_pe_context,
\* once ctxs_ let go of it: it is connected, so that the destructor can only end
\* the program.  No context runs after a ~doca_pe_context that returned.
ContextsOverOpenDevices ==
    /\ \A r \in Rdmas : Exists(r) =>
         \/ DeviceOpen(rdma[r].device)
         \/ rdma[r].ctx = "idle" /\ r \in doomed
         \/ rdma[r].ctx = "running" /\ pe = "closing" /\ rdma[r].attached
    /\ pe = "destroyed" => \A r \in Rdmas : rdma[r].ctx # "running"

\* No connection is disconnected after its context was destroyed, though
\* ~RdmaConnection gives up its Rdma first: with a connection left the engine
\* is either still there to hold the Rdma, or ended the program.
NoLateDisconnect == late = {}

\* A write in flight uses a map DOCA still has and a context that runs, even if
\* the program has dropped the connection, the Rdma, the device and the MMap (it
\* has to keep the Bufs); and the context's device is open, unless the program
\* is in a ~doca_pe_context that, with the context connected, cannot return.
WriteResourcesAlive ==
    \A f \in flights :
        LET r == conn[f[1]].of
        IN  /\ map[f[2]].state = "started"
            /\ rdma[r].ctx = "running" /\ pe # "destroyed"
            /\ DeviceOpen(rdma[r].device) \/ (pe = "closing" /\ rdma[r].attached)
=============================================================================
