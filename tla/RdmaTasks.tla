----------------------------- MODULE RdmaTasks -----------------------------
(***************************************************************************)
(* rdma/task.hpp, with the task types of rdma/oneside.hpp and twoside.hpp: *)
(* the operations of rdma_sender, the DOCA tasks they submit, and the      *)
(* callbacks that complete them.  One instance is one task type and its    *)
(* pool (set_write_conf, set_read_conf, set_send_conf).                    *)
(*                                                                         *)
(* Everything runs on the loop's thread.  User code, which makes, starts   *)
(* and destroys operations, also runs inside receiver.set_value().         *)
(*                                                                         *)
(* External: the pool.  owner[s] is the operation whose allocation holds   *)
(* task s; doca_task_free() gives s back to the pool whoever calls it, and *)
(* frees nothing when s is free already.  A task is freed more often than  *)
(* it is allocated: a surplus free takes it from an operation that was     *)
(* given it in the meantime.  What DOCA does from then on is undefined,    *)
(* and the model ends there.                                               *)
(***************************************************************************)
EXTENDS Naturals

CONSTANTS
    Ops,        \* rdma_operation objects
    Slots,      \* the pool's tasks
    NoOp, NoSlot,
    Copied      \* the Task type is copied, not moved (RdmaReadTask)

ASSUME TaskAssumption ==
    /\ NoOp \notin Ops /\ NoSlot \notin Slots
    /\ Copied \in BOOLEAN

VARIABLES
    phase,      \* phase[o]: none, connected, started, done, failed
    task,       \* task[o]: the task of member rdma_operation::task
    signals,    \* signals[o]: calls of o's receiver
    owner,      \* owner[s]: see above; NoOp while s is in the pool
    userData,   \* userData[s]: the operation in the task's user data
    inFlight,   \* tasks that are submitted and not completed
    callback,   \* the task whose completion callback is running, or NoSlot
    failing,    \* it is the error callback, which ends in check_error()
    alive,      \* check_error() has not ended the program
    robbed,     \* the operation a surplus free took the task from, or NoOp
    exposed     \* history: operations that were given a task while a surplus
                \*   free of it was still to come, until they complete

opVars == <<phase, task, signals>>
callVars == <<callback, failing>>
vars == <<opVars, owner, userData, inFlight, callVars, alive, robbed, exposed>>

Init ==
    /\ phase = [o \in Ops |-> "none"]
    /\ task = [o \in Ops |-> NoSlot]
    /\ signals = [o \in Ops |-> 0]
    /\ owner = [s \in Slots |-> NoOp]
    /\ userData = [s \in Slots |-> NoOp]
    /\ inFlight = {}
    /\ callback = NoSlot
    /\ failing = FALSE
    /\ alive = TRUE
    /\ robbed = NoOp
    /\ exposed = {}

Running == alive /\ robbed = NoOp

Exit ==
    /\ alive' = FALSE
    /\ UNCHANGED <<opVars, owner, userData, inFlight, callVars, robbed, exposed>>

\* A free of s is still to come that frees nothing of its caller's: by the local
\* of the completion callback, or by the member of an operation that is done.
Owed(s) ==
    \/ callback = s /\ ~failing
    \/ \E o \in Ops : phase[o] = "done" /\ task[o] = s

\* doca_task_free(s) on behalf of o (NoOp: of the callback's local).
Free(s, o) ==
    /\ owner' = [owner EXCEPT ![s] = NoOp]
    /\ robbed' = IF owner[s] = o THEN NoOp ELSE owner[s]

-----------------------------------------------------------------------------
(* Faulty variants: the code with one slip each. *)

\* The write task's move constructor is lost: moving it copies the pointer.
ConnectCopies(o) ==
    /\ Running /\ phase[o] = "none"
    /\ \E s \in Slots :
         /\ owner[s] = NoOp
         /\ task' = [task EXCEPT ![o] = s]
         /\ exposed' = IF Owed(s) THEN exposed \cup {o} ELSE exposed
    /\ phase' = [phase EXCEPT ![o] = "connected"]
    /\ UNCHANGED <<signals, owner, userData, inFlight, callVars, alive, robbed>>

\* start() submits without setting the task's user data.
StartWithoutUserData(o) ==
    /\ Running /\ phase[o] = "connected"
    /\ phase' = [phase EXCEPT ![o] = "started"]
    /\ inFlight' = inFlight \cup {task[o]}
    /\ UNCHANGED <<task, signals, owner, userData, callVars, alive, robbed, exposed>>

\* start() moves the task into a local that frees it when start() returns.
StartFrees(o) ==
    /\ Running /\ phase[o] = "connected"
    /\ phase' = [phase EXCEPT ![o] = "started"]
    /\ userData' = [userData EXCEPT ![task[o]] = o]
    /\ inFlight' = inFlight \cup {task[o]}
    /\ Free(task[o], o)
    /\ UNCHANGED <<task, signals, callVars, alive, exposed>>

\* set_value is called by the callback and once more by the operation.
CompleteTwice(s) ==
    LET op == userData[s] IN
    /\ Running /\ callback = NoSlot /\ s \in inFlight
    /\ inFlight' = inFlight \ {s}
    /\ owner' = [owner EXCEPT ![s] = NoOp]
    /\ phase' = [phase EXCEPT ![op] = "done"]
    /\ signals' = [signals EXCEPT ![op] = @ + 2]
    /\ callback' = s
    /\ exposed' = exposed \ {op}
    /\ UNCHANGED <<task, userData, failing, alive, robbed>>

\* The operation holds a plain pointer and no destructor frees it.
DestroyKeepsTask(o) ==
    /\ Running /\ phase[o] \in {"connected", "done", "failed"}
    /\ phase' = [phase EXCEPT ![o] = "none"]
    /\ task' = [task EXCEPT ![o] = NoSlot]
    /\ signals' = [signals EXCEPT ![o] = 0]
    /\ exposed' = exposed \ {o}
    /\ UNCHANGED <<owner, userData, inFlight, callVars, alive, robbed>>

-----------------------------------------------------------------------------
(* rdma_sender::connect, at any time, also inside a receiver's set_value().   *)
(* A Task type with a destructor and no move constructor is copied twice on   *)
(* its way into the operation, and the two copies free the task.  An empty    *)
(* pool makes allocate() throw: no operation.                                 *)
Connect(o) ==
    /\ Running
    /\ phase[o] = "none"
    /\ \E s \in Slots :
         /\ owner[s] = NoOp
         /\ owner' = [owner EXCEPT ![s] = IF Copied THEN NoOp ELSE o]
         /\ task' = [task EXCEPT ![o] = s]
         /\ exposed' = IF Owed(s) THEN exposed \cup {o} ELSE exposed
    /\ phase' = [phase EXCEPT ![o] = "connected"]
    /\ UNCHANGED <<signals, userData, inFlight, callVars, alive, robbed>>

\* RdmaWriteTask::allocate looks at the buffers first, which DOCA may refuse.
AllocateFails(o) ==
    /\ Running
    /\ phase[o] = "none"
    /\ Exit

\* rdma_operation::start(): the user data, then the submission.
Start(o) ==
    /\ Running
    /\ phase[o] = "connected"
    /\ phase' = [phase EXCEPT ![o] = "started"]
    /\ userData' = [userData EXCEPT ![task[o]] = o]
    /\ inFlight' = inFlight \cup {task[o]}
    /\ UNCHANGED <<task, signals, owner, callVars, alive, robbed, exposed>>

\* DOCA refuses the task, for instance before the connection is established.
SubmitFails(o) ==
    /\ Running
    /\ phase[o] = "connected"
    /\ Exit

\* rdma_operation_set_value until it is inside receiver.set_value(): the first
\* destructor call of the local TaskType frees the task.
Complete(s) ==
    LET op == userData[s] IN
    /\ Running
    /\ callback = NoSlot
    /\ s \in inFlight
    /\ inFlight' = inFlight \ {s}
    /\ owner' = [owner EXCEPT ![s] = NoOp]
    /\ phase' = [phase EXCEPT ![op] = "done"]
    /\ signals' = [signals EXCEPT ![op] = @ + 1]
    /\ callback' = s
    /\ exposed' = exposed \ {op}
    /\ UNCHANGED <<task, userData, failing, alive, robbed>>

\* The end of rdma_operation_set_value destroys the local TaskType again.  A
\* copied pointer is freed again; whether a unique_ptr that was destroyed
\* already is, depends on the build (its lifetime has ended).
CallbackReturns(again) ==
    /\ Running
    /\ callback # NoSlot /\ ~failing
    /\ Copied => again
    /\ IF again THEN Free(callback, NoOp) ELSE UNCHANGED <<owner, robbed>>
    /\ callback' = NoSlot
    /\ UNCHANGED <<opVars, userData, inFlight, failing, alive, exposed>>

\* rdma_operation_set_error until it is inside receiver.set_error(): nothing
\* frees the task ...
CompleteWithError(s) ==
    LET op == userData[s] IN
    /\ Running
    /\ callback = NoSlot
    /\ s \in inFlight
    /\ inFlight' = inFlight \ {s}
    /\ phase' = [phase EXCEPT ![op] = "failed"]
    /\ signals' = [signals EXCEPT ![op] = @ + 1]
    /\ callback' = s
    /\ failing' = TRUE
    /\ UNCHANGED <<task, owner, userData, alive, robbed, exposed>>

\* ... and when the receiver returns, check_error() ends the program.
ErrorExits ==
    /\ Running
    /\ failing
    /\ Exit

\* ~rdma_operation, of an operation that was never started or is complete:
\* the member task frees its task, whoever has it by then.
Destroy(o) ==
    /\ Running
    /\ phase[o] \in {"connected", "done", "failed"}
    /\ phase' = [phase EXCEPT ![o] = "none"]
    /\ task' = [task EXCEPT ![o] = NoSlot]
    /\ signals' = [signals EXCEPT ![o] = 0]
    /\ Free(task[o], o)
    /\ exposed' = exposed \ {o}
    /\ UNCHANGED <<userData, inFlight, callVars, alive>>

-----------------------------------------------------------------------------
Next ==
    \/ \E o \in Ops : \/ Connect(o) \/ AllocateFails(o)
                      \/ Start(o) \/ SubmitFails(o) \/ Destroy(o)
    \/ \E s \in Slots : Complete(s) \/ CompleteWithError(s)
    \/ \E again \in BOOLEAN : CallbackReturns(again)
    \/ ErrorExits

Spec == Init /\ [][Next]_vars

-----------------------------------------------------------------------------
(* Properties *)

TypeOK ==
    /\ phase \in [Ops -> {"none", "connected", "started", "done", "failed"}]
    /\ task \in [Ops -> Slots \cup {NoSlot}]
    /\ signals \in [Ops -> 0 .. 1]
    /\ owner \in [Slots -> Ops \cup {NoOp}]
    /\ userData \in [Slots -> Ops \cup {NoOp}]
    /\ inFlight \subseteq Slots
    /\ callback \in Slots \cup {NoSlot}
    /\ failing \in BOOLEAN
    /\ alive \in BOOLEAN
    /\ robbed \in Ops \cup {NoOp}
    /\ exposed \subseteq Ops

\* A task the hardware works on is freed under it only if it was allocated in
\* the window of a surplus free: after the completion callback of its previous
\* operation began, and before that callback returned and that operation was
\* destroyed.  Nothing in the code keeps callers from allocating there; a task
\* allocated at any other time stays its operation's until it completes,
\* whichever destructors run in between.
InFlightOwned ==
    \A s \in inFlight :
        /\ userData[s] # NoOp
        /\ userData[s] \notin exposed => owner[s] = userData[s]

\* Every started operation has a task of its own in flight that leads back to
\* it: no completion is lost, shared or delivered to a stranger or to an
\* operation that is gone, and a receiver is signalled once, by its own task;
\* also for operations that were allocated in the window.
CompletionsMatch ==
    /\ \A o \in Ops : phase[o] = "started" =>
         task[o] \in inFlight /\ userData[task[o]] = o
    /\ \A s \in inFlight : \E o \in Ops :
         userData[s] = o /\ phase[o] = "started" /\ task[o] = s
    /\ \A o \in Ops : signals[o] = 1 <=> phase[o] \in {"done", "failed"}

\* A task outside the pool belongs to an operation that has yet to complete
\* or to be destroyed, and will come back.
NoTaskLeak ==
    \A s \in Slots : owner[s] # NoOp =>
        \E o \in Ops : /\ owner[s] = o /\ task[o] = s
                       /\ phase[o] \in {"connected", "started", "failed"}

Pool == INSTANCE TaskPool WITH
    Users <- Ops, Tasks <- Slots, Nobody <- NoOp, NoTask <- NoSlot,
    user <- owner, busy <- inFlight,
    answered <- [o \in Ops |-> IF phase[o] = "done" THEN task[o] ELSE NoSlot],
    delivering <- IF failing THEN NoSlot ELSE callback

\* Seen from outside, the three destructors that free a task and the callback
\* that finds its operation through the user data are the pool TaskPool
\* describes: a task is taken from an operation only by the end of an earlier
\* one that had the same task and was still there when it was allocated, and
\* every answer reaches the operation that allocated the task.
ImplementsTaskPool == Pool!Spec

\* The comment "destroy the task" in the completion callback: what is destroyed
\* there is the completed task, which was alive until then.
CallbackDestroysTheTask == InFlightOwned
=============================================================================
