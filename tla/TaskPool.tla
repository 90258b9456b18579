------------------------------ MODULE TaskPool ------------------------------
(***************************************************************************)
(* What a pool of RDMA tasks promises the operations that use it: a task is *)
(* one operation's from its allocation until it is answered, or discarded   *)
(* unsubmitted; the hardware works on nobody's task but the one who         *)
(* submitted it, and answers him once.                                     *)
(*                                                                         *)
(* There is one way to lose a task, and it is part of the description: an   *)
(* answered task comes back to the pool at once and may come back again     *)
(* when its answer has been delivered, and when the operation it answered   *)
(* is destroyed.  Whoever was given the task in the meantime is robbed.     *)
(***************************************************************************)

CONSTANTS Users,      \* the operations
          Tasks,
          Nobody,     \* the task is in the pool
          NoTask

VARIABLES user,       \* user[t]: the operation that has task t, or Nobody
          busy,       \* the tasks the hardware works on
          answered,   \* answered[u]: the task whose answer u got, or NoTask
          delivering, \* the task whose answer is being delivered, or NoTask
          robbed      \* the operation that lost its task, or Nobody

vars == <<user, busy, answered, delivering, robbed>>

Init ==
    /\ user = [t \in Tasks |-> Nobody]
    /\ busy = {}
    /\ answered = [u \in Users |-> NoTask]
    /\ delivering = NoTask
    /\ robbed = Nobody

Has(u) == \E t \in Tasks : user[t] = u

Allocate(u, t) ==
    /\ user[t] = Nobody /\ ~Has(u) /\ answered[u] = NoTask
    /\ user' = [user EXCEPT ![t] = u]
    /\ UNCHANGED <<busy, answered, delivering, robbed>>

Submit(t) ==
    /\ user[t] # Nobody /\ t \notin busy
    /\ busy' = busy \cup {t}
    /\ UNCHANGED <<user, answered, delivering, robbed>>

\* The answer goes to the operation that has the task, which loses it.
Answer(t) ==
    /\ t \in busy /\ delivering = NoTask
    /\ busy' = busy \ {t}
    /\ answered' = [answered EXCEPT ![user[t]] = t]
    /\ user' = [user EXCEPT ![t] = Nobody]
    /\ delivering' = t
    /\ UNCHANGED robbed

\* The hardware reports an error: the operation keeps its task.
Fail(t) ==
    /\ t \in busy
    /\ busy' = busy \ {t}
    /\ UNCHANGED <<user, answered, delivering, robbed>>

Discard(t) ==
    /\ user[t] # Nobody /\ t \notin busy
    /\ user' = [user EXCEPT ![t] = Nobody]
    /\ UNCHANGED <<busy, answered, delivering, robbed>>

\* t comes back to the pool a second time.
ComesBack(t) ==
    /\ user' = [user EXCEPT ![t] = Nobody]
    /\ robbed' = user[t]

Delivered ==
    /\ delivering # NoTask
    /\ delivering' = NoTask
    /\ ComesBack(delivering) \/ UNCHANGED <<user, robbed>>
    /\ UNCHANGED <<busy, answered>>

\* An operation that was answered is destroyed; it may be made again.
Forget(u) ==
    /\ answered[u] # NoTask
    /\ answered' = [answered EXCEPT ![u] = NoTask]
    /\ ComesBack(answered[u])
    /\ UNCHANGED <<busy, delivering>>

Next ==
    /\ robbed = Nobody
    /\ \/ \E t \in Tasks :
            \/ Submit(t) \/ Answer(t) \/ Fail(t) \/ Discard(t)
            \/ \E u \in Users : Allocate(u, t)
       \/ Delivered
       \/ \E u \in Users : Forget(u)

Spec == Init /\ [][Next]_vars
=============================================================================
