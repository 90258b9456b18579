----------------------------- MODULE TaskQueue -----------------------------
(***************************************************************************)
(* What the run loop of doca_stdexec promises to the operations scheduled  *)
(* on it: they wait in one first-in first-out queue, one of them runs at a *)
(* time, each start is answered by at most one completion, and nothing     *)
(* that was destroyed is ever run.  How the queue is represented and which *)
(* locks protect it is left to the implementation (module RunLoop).        *)
(***************************************************************************)
EXTENDS Sequences

CONSTANTS Ops,   \* the operation states that senders connect
          Null   \* "no operation is running"

VARIABLES phase,    \* phase[o]: where operation o is in its life
          queue,    \* the operations waiting, oldest first
          running,  \* the operation taken but not completed yet, or Null
          busy,     \* a continuation is running: nothing else is taken
          closing,  \* the owner has asked the loop to finish
          open      \* the loop may still take operations

vars == <<phase, queue, running, busy, closing, open>>

Phases == {"idle", "ready", "queued", "running", "done"}

Init ==
    /\ phase = [o \in Ops |-> "idle"]
    /\ queue = <<>>
    /\ running = Null
    /\ busy = FALSE
    /\ closing = FALSE
    /\ open = TRUE

Connect(o) ==
    /\ phase[o] = "idle"
    /\ phase' = [phase EXCEPT ![o] = "ready"]
    /\ UNCHANGED <<queue, running, busy, closing, open>>

Enqueue(o) ==
    /\ phase[o] = "ready"
    /\ phase' = [phase EXCEPT ![o] = "queued"]
    /\ queue' = Append(queue, o)
    /\ UNCHANGED <<running, busy, closing, open>>

\* The operation could not be queued: it completes without ever waiting.
Refuse(o) ==
    /\ phase[o] = "ready"
    /\ phase' = [phase EXCEPT ![o] = "done"]
    /\ UNCHANGED <<queue, running, busy, closing, open>>

Take ==
    /\ open
    /\ ~busy
    /\ queue # <<>>
    /\ busy' = TRUE
    /\ running' = Head(queue)
    /\ queue' = Tail(queue)
    /\ phase' = [phase EXCEPT ![Head(queue)] = "running"]
    /\ UNCHANGED <<closing, open>>

Complete ==
    /\ running # Null
    /\ phase' = [phase EXCEPT ![running] = "done"]
    /\ running' = Null
    /\ UNCHANGED <<queue, busy, closing, open>>

\* The continuation of the completed operation returns.
Release ==
    /\ busy
    /\ running = Null
    /\ busy' = FALSE
    /\ UNCHANGED <<phase, queue, running, closing, open>>

Destroy(o) ==
    /\ phase[o] \in {"ready", "done"}
    /\ phase' = [phase EXCEPT ![o] = "idle"]
    /\ UNCHANGED <<queue, running, busy, closing, open>>

Finish ==
    /\ closing' = TRUE
    /\ UNCHANGED <<phase, queue, running, busy, open>>

\* The loop only stops taking operations between two of them, and only when
\* it was asked to.
Close ==
    /\ closing
    /\ ~busy
    /\ open' = FALSE
    /\ UNCHANGED <<phase, queue, running, busy, closing>>

Next ==
    \/ \E o \in Ops : Connect(o) \/ Enqueue(o) \/ Refuse(o) \/ Destroy(o)
    \/ Take
    \/ Complete
    \/ Release
    \/ Finish
    \/ Close

Spec == Init /\ [][Next]_vars
=============================================================================
