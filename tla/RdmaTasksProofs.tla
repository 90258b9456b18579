--------------------------- MODULE RdmaTasksProofs ---------------------------
(***************************************************************************)
(* Theorems about RdmaTasks, for any number of operations and tasks of a   *)
(* type that is moved (write, send), whatever is allocated when.           *)
(***************************************************************************)
EXTENDS RdmaTasks, TLAPS

\* An operation holds its task from its allocation to its completion, and
\* nobody else holds one.
Holding == {"connected", "started", "failed"}

OwnersAgree ==
    /\ \A o \in Ops : phase[o] \in Holding =>
         task[o] \in Slots /\ (owner[task[o]] = o \/ o = robbed)
    /\ \A s \in Slots : owner[s] # NoOp =>
         phase[owner[s]] \in Holding /\ task[owner[s]] = s

\* Where a surplus free is still to come, the task is in the pool or belongs
\* to an operation that was allocated in the window.
StaleExposed ==
    /\ \A o \in Ops : phase[o] = "done" =>
         task[o] \in Slots /\ owner[task[o]] \in exposed \cup {NoOp}
    /\ callback # NoSlot /\ ~failing => owner[callback] \in exposed \cup {NoOp}
    /\ robbed # NoOp => robbed \in exposed
    /\ failing => callback # NoSlot

FlightsAgree ==
    /\ \A o \in Ops : phase[o] = "started" =>
         task[o] \in inFlight /\ userData[task[o]] = o
    /\ \A s \in inFlight :
         /\ userData[s] \in Ops
         /\ phase[userData[s]] = "started"
         /\ task[userData[s]] = s

SignalsAgree ==
    \A o \in Ops : signals[o] = IF phase[o] \in {"done", "failed"} THEN 1 ELSE 0

IInv == TypeOK /\ OwnersAgree /\ StaleExposed /\ FlightsAgree /\ SignalsAgree

LEMMA InitInv == ASSUME Init PROVE IInv
<1>1. TypeOK
  <2>1. /\ phase \in [Ops -> {"none", "connected", "started", "done", "failed"}]
        /\ task \in [Ops -> Slots \cup {NoSlot}] /\ signals \in [Ops -> 0 .. 1]
        /\ owner \in [Slots -> Ops \cup {NoOp}]
        /\ userData \in [Slots -> Ops \cup {NoOp}]
    BY DEF Init
  <2> QED BY <2>1 DEF Init, TypeOK
<1>2. OwnersAgree /\ StaleExposed
  BY DEF Init, OwnersAgree, StaleExposed, Holding
<1>3. FlightsAgree /\ SignalsAgree
  BY DEF Init, FlightsAgree, SignalsAgree
<1> QED BY <1>1, <1>2, <1>3 DEF IInv

LEMMA SameInv ==
  ASSUME IInv, alive' \in BOOLEAN,
         UNCHANGED <<phase, task, signals, owner, userData, inFlight, callback,
                     failing, robbed, exposed>>
  PROVE  IInv'
<1>1. UNCHANGED <<phase, task, signals, owner, userData, inFlight, callback,
                  failing, robbed, exposed>>
  OBVIOUS
<1>2. TypeOK'
  BY <1>1 DEF IInv, TypeOK
<1>3. OwnersAgree'
  BY <1>1 DEF IInv, OwnersAgree
<1>4. StaleExposed'
  BY <1>1 DEF IInv, StaleExposed
<1>5. FlightsAgree'
  BY <1>1 DEF IInv, FlightsAgree
<1>6. SignalsAgree'
  BY <1>1 DEF IInv, SignalsAgree
<1> QED BY <1>2, <1>3, <1>4, <1>5, <1>6 DEF IInv

LEMMA ExitInv == ASSUME IInv, Exit PROVE IInv'
BY SameInv DEF Exit, opVars, callVars

\* The history variable says what it should: a task that is allocated while a
\* free of it is still owed makes its operation an exposed one.
LEMMA ConnectInv ==
  ASSUME ~Copied, IInv, NEW o \in Ops, Connect(o)
  PROVE  IInv'
<1>1. PICK s \in Slots :
        /\ owner[s] = NoOp
        /\ owner' = [owner EXCEPT ![s] = o]
        /\ task' = [task EXCEPT ![o] = s]
        /\ exposed' = IF Owed(s) THEN exposed \cup {o} ELSE exposed
  BY DEF Connect
<1>2. /\ phase[o] = "none" /\ phase' = [phase EXCEPT ![o] = "connected"]
      /\ robbed = NoOp
      /\ UNCHANGED <<signals, userData, inFlight, callback, failing, alive, robbed>>
  BY DEF Connect, Running, callVars
<1>3. TypeOK'
  BY <1>1, <1>2 DEF IInv, TypeOK
<1>4. OwnersAgree'
  BY <1>1, <1>2, TaskAssumption DEF IInv, TypeOK, OwnersAgree, Holding
<1>5. StaleExposed'
  <2>1. ASSUME NEW p \in Ops, phase'[p] = "done"
        PROVE  task'[p] \in Slots /\ owner'[task'[p]] \in exposed' \cup {NoOp}
    <3>1. p # o /\ phase[p] = "done" /\ task'[p] = task[p]
      BY <1>1, <1>2, <2>1 DEF IInv, TypeOK
    <3>2. task[p] \in Slots /\ owner[task[p]] \in exposed \cup {NoOp}
      BY <3>1 DEF IInv, StaleExposed
    <3>3. CASE task[p] = s
      BY <1>1, <3>1, <3>2, <3>3 DEF Owed, IInv, TypeOK
    <3>4. CASE task[p] # s
      BY <1>1, <3>1, <3>2, <3>4 DEF IInv, TypeOK
    <3> QED BY <3>3, <3>4
  <2>2. ASSUME callback' # NoSlot, ~failing'
        PROVE  owner'[callback'] \in exposed' \cup {NoOp}
    <3>1. callback \in Slots /\ owner[callback] \in exposed \cup {NoOp}
      BY <1>2, <2>2 DEF IInv, TypeOK, StaleExposed
    <3>2. CASE callback = s
      BY <1>1, <1>2, <2>2, <3>1, <3>2 DEF Owed, IInv, TypeOK
    <3>3. CASE callback # s
      BY <1>1, <1>2, <3>1, <3>3 DEF IInv, TypeOK
    <3> QED BY <3>2, <3>3
  <2> QED BY <1>2, <2>1, <2>2 DEF IInv, StaleExposed
<1>6. FlightsAgree'
  BY <1>1, <1>2 DEF IInv, TypeOK, FlightsAgree
<1>7. SignalsAgree'
  BY <1>1, <1>2 DEF IInv, TypeOK, SignalsAgree
<1> QED BY <1>3, <1>4, <1>5, <1>6, <1>7 DEF IInv

LEMMA StartInv == ASSUME IInv, NEW o \in Ops, Start(o) PROVE IInv'
<1>1. /\ phase[o] = "connected" /\ phase' = [phase EXCEPT ![o] = "started"]
      /\ userData' = [userData EXCEPT ![task[o]] = o]
      /\ inFlight' = inFlight \cup {task[o]}
      /\ robbed = NoOp
      /\ UNCHANGED <<task, signals, owner, callback, failing, alive, robbed, exposed>>
  BY DEF Start, Running, callVars
<1>2. task[o] \in Slots /\ owner[task[o]] = o
  BY <1>1, TaskAssumption DEF IInv, OwnersAgree, Holding
<1>3. TypeOK'
  BY <1>1, <1>2 DEF IInv, TypeOK
<1>4. OwnersAgree'
  BY <1>1, <1>2 DEF IInv, TypeOK, OwnersAgree, Holding
<1>5. StaleExposed'
  BY <1>1 DEF IInv, TypeOK, StaleExposed
<1>6. FlightsAgree'
  <2>1. \A p \in Ops : phase[p] = "started" => p # o /\ task[p] # task[o]
    BY <1>1, <1>2, TaskAssumption DEF IInv, OwnersAgree, Holding
  <2>2. \A p \in Ops : phase'[p] = "started" =>
          task'[p] \in inFlight' /\ userData'[task'[p]] = p
    BY <1>1, <1>2, <2>1 DEF IInv, TypeOK, FlightsAgree
  <2>4. ASSUME NEW s \in inFlight'
        PROVE  /\ userData'[s] \in Ops
               /\ phase'[userData'[s]] = "started"
               /\ task'[userData'[s]] = s
    <3>1. CASE s = task[o]
      BY <1>1, <1>2, <3>1 DEF IInv, TypeOK
    <3>2. CASE s # task[o]
      <4>1. s \in inFlight /\ userData'[s] = userData[s]
        BY <1>1, <3>2 DEF IInv, TypeOK
      <4>2. /\ userData[s] \in Ops /\ phase[userData[s]] = "started"
            /\ task[userData[s]] = s
        BY <4>1 DEF IInv, FlightsAgree
      <4> QED BY <1>1, <4>1, <4>2 DEF IInv, TypeOK
    <3> QED BY <3>1, <3>2
  <2> QED BY <2>2, <2>4 DEF FlightsAgree
<1>7. SignalsAgree'
  BY <1>1 DEF IInv, TypeOK, SignalsAgree
<1> QED BY <1>3, <1>4, <1>5, <1>6, <1>7 DEF IInv

LEMMA CompleteInv == ASSUME IInv, NEW s \in Slots, Complete(s) PROVE IInv'
<1> DEFINE op == userData[s]
<1>1. /\ s \in inFlight /\ inFlight' = inFlight \ {s}
      /\ owner' = [owner EXCEPT ![s] = NoOp]
      /\ phase' = [phase EXCEPT ![op] = "done"]
      /\ signals' = [signals EXCEPT ![op] = @ + 1]
      /\ callback' = s
      /\ exposed' = exposed \ {op}
      /\ robbed = NoOp
      /\ UNCHANGED <<task, userData, failing, alive, robbed>>
  BY DEF Complete, Running
<1>2. op \in Ops /\ phase[op] = "started" /\ task[op] = s
  BY <1>1 DEF IInv, FlightsAgree
<1> HIDE DEF op
<1>3. signals[op] = 0
  BY <1>2 DEF IInv, SignalsAgree
<1>4. TypeOK'
  BY <1>1, <1>2, <1>3 DEF IInv, TypeOK
<1>5. OwnersAgree'
  BY <1>1, <1>2, TaskAssumption DEF IInv, TypeOK, OwnersAgree, Holding
<1>6. StaleExposed'
  <2>1. ASSUME NEW p \in Ops, phase'[p] = "done"
        PROVE  task'[p] \in Slots /\ owner'[task'[p]] \in exposed' \cup {NoOp}
    <3>1. CASE task[p] = s
      BY <1>1, <3>1 DEF IInv, TypeOK
    <3>2. CASE task[p] # s
      <4>1. p # op /\ phase[p] = "done"
        BY <1>1, <1>2, <2>1, <3>2 DEF IInv, TypeOK
      <4>2. task[p] \in Slots /\ owner[task[p]] \in exposed \cup {NoOp}
        BY <4>1 DEF IInv, StaleExposed
      <4>3. owner[task[p]] # op
        BY <1>2, <3>2, <4>2, TaskAssumption DEF IInv, OwnersAgree
      <4> QED BY <1>1, <3>2, <4>2, <4>3 DEF IInv, TypeOK
    <3> QED BY <3>1, <3>2
  <2>2. owner'[callback'] = NoOp
    BY <1>1 DEF IInv, TypeOK
  <2> QED BY <1>1, <2>1, <2>2, TaskAssumption DEF IInv, TypeOK, StaleExposed
<1>7. FlightsAgree'
  BY <1>1, <1>2 DEF IInv, TypeOK, FlightsAgree
<1>8. SignalsAgree'
  BY <1>1, <1>2, <1>3 DEF IInv, TypeOK, SignalsAgree
<1> QED BY <1>4, <1>5, <1>6, <1>7, <1>8 DEF IInv

LEMMA CompleteWithErrorInv ==
  ASSUME IInv, NEW s \in Slots, CompleteWithError(s)
  PROVE  IInv'
<1> DEFINE op == userData[s]
<1>1. /\ s \in inFlight /\ inFlight' = inFlight \ {s}
      /\ phase' = [phase EXCEPT ![op] = "failed"]
      /\ signals' = [signals EXCEPT ![op] = @ + 1]
      /\ callback' = s /\ failing' = TRUE
      /\ UNCHANGED <<task, owner, userData, alive, robbed, exposed>>
  BY DEF CompleteWithError
<1>2. op \in Ops /\ phase[op] = "started" /\ task[op] = s
  BY <1>1 DEF IInv, FlightsAgree
<1> HIDE DEF op
<1>3. signals[op] = 0
  BY <1>2 DEF IInv, SignalsAgree
<1>4. TypeOK'
  BY <1>1, <1>2, <1>3 DEF IInv, TypeOK
<1>5. OwnersAgree'
  BY <1>1, <1>2 DEF IInv, TypeOK, OwnersAgree, Holding
<1>6. StaleExposed'
  BY <1>1, <1>2, TaskAssumption DEF IInv, TypeOK, StaleExposed
<1>7. FlightsAgree'
  BY <1>1, <1>2 DEF IInv, TypeOK, FlightsAgree
<1>8. SignalsAgree'
  BY <1>1, <1>2, <1>3 DEF IInv, TypeOK, SignalsAgree
<1> QED BY <1>4, <1>5, <1>6, <1>7, <1>8 DEF IInv

\* A surplus free takes a task only from an operation that was exposed, which
\* is then the robbed one.
LEMMA CallbackReturnsInv ==
  ASSUME IInv, NEW again \in BOOLEAN, CallbackReturns(again)
  PROVE  IInv'
<1>1. /\ callback \in Slots /\ ~failing /\ callback' = NoSlot /\ robbed = NoOp
      /\ UNCHANGED <<phase, task, signals, userData, inFlight, failing, alive, exposed>>
  BY DEF CallbackReturns, Running, opVars, IInv, TypeOK
<1>2. \/ UNCHANGED <<owner, robbed>>
      \/ /\ owner' = [owner EXCEPT ![callback] = NoOp]
         /\ robbed' = owner[callback]
  BY <1>1 DEF CallbackReturns, Free
<1>3. owner[callback] \in exposed \cup {NoOp}
  BY <1>1, TaskAssumption DEF IInv, StaleExposed
<1>4. TypeOK'
  BY <1>1, <1>2 DEF IInv, TypeOK
<1>5. OwnersAgree'
  BY <1>1, <1>2, TaskAssumption DEF IInv, TypeOK, OwnersAgree
<1>6. StaleExposed'
  BY <1>1, <1>2, <1>3 DEF IInv, TypeOK, StaleExposed
<1>7. FlightsAgree'
  BY <1>1 DEF IInv, FlightsAgree
<1>8. SignalsAgree'
  BY <1>1 DEF IInv, SignalsAgree
<1> QED BY <1>4, <1>5, <1>6, <1>7, <1>8 DEF IInv

LEMMA DestroyInv == ASSUME IInv, NEW o \in Ops, Destroy(o) PROVE IInv'
<1>1. /\ phase[o] \in {"connected", "done", "failed"}
      /\ phase' = [phase EXCEPT ![o] = "none"]
      /\ task' = [task EXCEPT ![o] = NoSlot]
      /\ signals' = [signals EXCEPT ![o] = 0]
      /\ owner' = [owner EXCEPT ![task[o]] = NoOp]
      /\ robbed' = IF owner[task[o]] = o THEN NoOp ELSE owner[task[o]]
      /\ exposed' = exposed \ {o}
      /\ robbed = NoOp
      /\ UNCHANGED <<userData, inFlight, callback, failing, alive>>
  BY DEF Destroy, Free, Running, callVars
<1>2. task[o] \in Slots /\ owner[task[o]] \in exposed \cup {o, NoOp}
  BY <1>1, TaskAssumption DEF IInv, OwnersAgree, StaleExposed, Holding
<1>3. robbed' \in (exposed \ {o}) \cup {NoOp}
  BY <1>1, <1>2, TaskAssumption
<1>4. TypeOK'
  <2>1. /\ signals' \in [Ops -> 0 .. 1] /\ task' \in [Ops -> Slots \cup {NoSlot}]
        /\ phase' \in [Ops -> {"none", "connected", "started", "done", "failed"}]
    BY <1>1 DEF IInv, TypeOK
  <2>2. owner' \in [Slots -> Ops \cup {NoOp}]
    BY <1>1, <1>2 DEF IInv, TypeOK
  <2> QED BY <1>1, <1>3, <2>1, <2>2 DEF IInv, TypeOK
<1>5. OwnersAgree'
  <2>1. ASSUME NEW p \in Ops, phase'[p] \in Holding
        PROVE  task'[p] \in Slots /\ (owner'[task'[p]] = p \/ p = robbed')
    <3>1. p # o /\ phase[p] \in Holding /\ task'[p] = task[p]
      BY <1>1, <2>1 DEF IInv, TypeOK, Holding
    <3>2. task[p] \in Slots /\ owner[task[p]] = p
      BY <1>1, <3>1, TaskAssumption DEF IInv, OwnersAgree
    <3>3. CASE task[p] = task[o]
      BY <1>1, <3>1, <3>2, <3>3
    <3>4. CASE task[p] # task[o]
      BY <1>1, <1>2, <3>1, <3>2, <3>4 DEF IInv, TypeOK
    <3> QED BY <3>3, <3>4
  <2>2. ASSUME NEW s \in Slots, owner'[s] # NoOp
        PROVE  phase'[owner'[s]] \in Holding /\ task'[owner'[s]] = s
    <3>1. s # task[o] /\ owner'[s] = owner[s] /\ owner[s] \in Ops
      BY <1>1, <2>2 DEF IInv, TypeOK
    <3>2. phase[owner[s]] \in Holding /\ task[owner[s]] = s
      BY <2>2, <3>1 DEF IInv, OwnersAgree
    <3>3. owner[s] # o
      BY <3>1, <3>2
    <3> QED BY <1>1, <3>1, <3>2, <3>3 DEF IInv, TypeOK
  <2> QED BY <2>1, <2>2 DEF OwnersAgree
<1>6. StaleExposed'
  <2>1. ASSUME NEW s \in Slots, owner[s] \in exposed \cup {NoOp}
        PROVE  owner'[s] \in exposed' \cup {NoOp}
    <3>1. CASE s = task[o]
      BY <1>1, <3>1 DEF IInv, TypeOK
    <3>2. CASE s # task[o]
      <4>1. owner[s] # o
        BY <3>2, TaskAssumption DEF IInv, OwnersAgree
      <4> QED BY <1>1, <2>1, <3>2, <4>1 DEF IInv, TypeOK
    <3> QED BY <3>1, <3>2
  <2>2. ASSUME NEW p \in Ops, phase'[p] = "done"
        PROVE  task'[p] \in Slots /\ owner'[task'[p]] \in exposed' \cup {NoOp}
    <3>1. p # o /\ phase[p] = "done" /\ task'[p] = task[p]
      BY <1>1, <2>2 DEF IInv, TypeOK
    <3> QED BY <2>1, <3>1 DEF IInv, StaleExposed
  <2>3. callback' # NoSlot /\ ~failing' => owner'[callback'] \in exposed' \cup {NoOp}
    BY <1>1, <2>1 DEF IInv, TypeOK, StaleExposed
  <2> QED BY <1>1, <1>3, <2>2, <2>3 DEF IInv, StaleExposed
<1>7. FlightsAgree'
  BY <1>1 DEF IInv, TypeOK, FlightsAgree
<1>8. SignalsAgree'
  BY <1>1 DEF IInv, TypeOK, SignalsAgree
<1> QED BY <1>4, <1>5, <1>6, <1>7, <1>8 DEF IInv

LEMMA NextInv == ASSUME ~Copied PROVE IInv /\ [Next]_vars => IInv'
<1> SUFFICES ASSUME IInv, [Next]_vars PROVE IInv'
  OBVIOUS
<1>1. CASE UNCHANGED vars
  <2>1. alive' \in BOOLEAN
    BY <1>1 DEF vars, IInv, TypeOK
  <2> QED BY <1>1, <2>1, SameInv DEF vars, opVars, callVars
<1>2. ASSUME NEW o \in Ops,
             Connect(o) \/ AllocateFails(o) \/ Start(o) \/ SubmitFails(o) \/ Destroy(o)
      PROVE  IInv'
  BY <1>2, ConnectInv, StartInv, DestroyInv, ExitInv DEF AllocateFails, SubmitFails
<1>3. ASSUME NEW s \in Slots, Complete(s) \/ CompleteWithError(s)
      PROVE  IInv'
  BY <1>3, CompleteInv, CompleteWithErrorInv
<1>4. CASE ErrorExits
  BY <1>4, ExitInv DEF ErrorExits
<1> QED BY <1>1, <1>2, <1>3, <1>4, CallbackReturnsInv DEF Next

-----------------------------------------------------------------------------
(* The invariant the theorems rest on: the pool, the operations and the      *)
(* tasks in flight agree on who holds what, and wherever a free is still     *)
(* owed, only an exposed operation can lose by it (rdma/task.hpp's start,    *)
(* completion callback and destructors).                                     *)
THEOREM InductiveInvariant == ASSUME ~Copied PROVE Spec => []IInv
<1>1. IInv /\ [Next]_vars => IInv'
  BY NextInv
<1> QED BY <1>1, InitInv, PTL DEF Spec

(* The variables keep their types; a receiver is signalled at most once.     *)
THEOREM TypeCorrect == ASSUME ~Copied PROVE Spec => []TypeOK
<1>1. IInv => TypeOK
  BY DEF IInv
<1> QED BY <1>1, InductiveInvariant, PTL

(* The extra frees of a write or send task, by its callback and again by its *)
(* operation's destructor, hit a task the hardware is working on only if its *)
(* operation was allocated between them (rdma/task.hpp:60-64, 95-106).       *)
THEOREM TasksInFlightAreOwned == ASSUME ~Copied PROVE Spec => []InFlightOwned
<1>1. IInv => InFlightOwned
  BY TaskAssumption DEF IInv, TypeOK, OwnersAgree, StaleExposed, FlightsAgree,
     InFlightOwned, Holding
<1> QED BY <1>1, InductiveInvariant, PTL

(* Completions and operations correspond one to one, and each completion     *)
(* signals its own operation's receiver once.                                *)
THEOREM EveryCompletionFindsItsOperation ==
  ASSUME ~Copied PROVE Spec => []CompletionsMatch
<1>1. IInv => CompletionsMatch
  BY DEF IInv, TypeOK, FlightsAgree, SignalsAgree, CompletionsMatch
<1> QED BY <1>1, InductiveInvariant, PTL

(* A task that is not in the pool is held by an operation that will free it. *)
THEOREM NoTaskIsLost == ASSUME ~Copied PROVE Spec => []NoTaskLeak
<1>1. IInv => NoTaskLeak
  BY DEF IInv, TypeOK, OwnersAgree, NoTaskLeak, Holding
<1> QED BY <1>1, InductiveInvariant, PTL

-----------------------------------------------------------------------------
(* The pool as its operations see it *)

\* The tasks of the finished operations, as the mapping has them.
Finished == [o \in Ops |-> IF phase[o] = "done" THEN task[o] ELSE NoSlot]

LEMMA PoolInit == Init => Pool!Init
BY DEF Init, Pool!Init

LEMMA ConnectAllocates ==
  ASSUME ~Copied, IInv, NEW o \in Ops, Connect(o)
  PROVE  Pool!Next
<1>1. PICK s \in Slots :
        /\ owner[s] = NoOp
        /\ owner' = [owner EXCEPT ![s] = o]
        /\ task' = [task EXCEPT ![o] = s]
  BY DEF Connect
<1>2. /\ phase[o] = "none" /\ phase' = [phase EXCEPT ![o] = "connected"]
      /\ robbed = NoOp
      /\ UNCHANGED <<inFlight, callback, failing, robbed>>
  BY DEF Connect, Running, callVars
<1>3. ~Pool!Has(o)
  BY <1>2, TaskAssumption DEF Pool!Has, IInv, OwnersAgree, Holding
<1>4. Finished' = Finished /\ Finished[o] = NoSlot
  BY <1>1, <1>2 DEF Finished, IInv, TypeOK
<1> QED BY <1>1, <1>2, <1>3, <1>4 DEF Pool!Allocate, Pool!Next, Finished

\* A task that is connected and not started is not in flight.
LEMMA ConnectedIdle ==
  ASSUME IInv, robbed = NoOp, NEW o \in Ops, phase[o] \in {"connected", "failed"}
  PROVE  task[o] \in Slots /\ owner[task[o]] = o /\ task[o] \notin inFlight
<1>1. task[o] \in Slots /\ owner[task[o]] = o
  BY TaskAssumption DEF IInv, OwnersAgree, Holding
<1>2. SUFFICES ASSUME task[o] \in inFlight PROVE FALSE
  BY <1>1
<1>3. /\ userData[task[o]] \in Ops /\ phase[userData[task[o]]] = "started"
      /\ task[userData[task[o]]] = task[o]
  BY <1>2 DEF IInv, FlightsAgree
<1>4. owner[task[o]] = userData[task[o]]
  BY <1>3, TaskAssumption DEF IInv, OwnersAgree, Holding
<1> QED BY <1>1, <1>3, <1>4

LEMMA StartSubmits ==
  ASSUME IInv, NEW o \in Ops, Start(o)
  PROVE  Pool!Next
<1>1. /\ phase[o] = "connected" /\ phase' = [phase EXCEPT ![o] = "started"]
      /\ inFlight' = inFlight \cup {task[o]} /\ robbed = NoOp
      /\ UNCHANGED <<owner, task, callback, failing, robbed>>
  BY DEF Start, Running, callVars
<1>2. task[o] \in Slots /\ owner[task[o]] = o /\ task[o] \notin inFlight
  BY <1>1, ConnectedIdle
<1>3. Finished' = Finished
  BY <1>1 DEF Finished, IInv, TypeOK
<1> QED BY <1>1, <1>2, <1>3, TaskAssumption DEF Pool!Submit, Pool!Next, Finished

LEMMA CompleteAnswers ==
  ASSUME IInv, NEW s \in Slots, Complete(s)
  PROVE  Pool!Next
<1>1. PICK op \in Ops : op = userData[s] /\ phase[op] = "started" /\ task[op] = s
  BY DEF Complete, IInv, FlightsAgree
<1>2. /\ s \in inFlight /\ inFlight' = inFlight \ {s}
      /\ owner' = [owner EXCEPT ![s] = NoOp]
      /\ phase' = [phase EXCEPT ![op] = "done"]
      /\ callback = NoSlot /\ callback' = s /\ robbed = NoOp
      /\ ~failing /\ UNCHANGED <<task, failing, robbed>>
  BY <1>1 DEF Complete, Running, IInv, StaleExposed
<1>3. owner[s] = op
  BY <1>1, <1>2, TaskAssumption DEF IInv, OwnersAgree, Holding
<1>4. Finished' = [Finished EXCEPT ![op] = s]
  BY <1>1, <1>2 DEF Finished, IInv, TypeOK
<1> QED BY <1>2, <1>3, <1>4 DEF Pool!Answer, Pool!Next, Finished

LEMMA ErrorFails ==
  ASSUME IInv, NEW s \in Slots, CompleteWithError(s)
  PROVE  Pool!Next
<1>1. PICK op \in Ops : op = userData[s] /\ phase[op] = "started" /\ task[op] = s
  BY DEF CompleteWithError, IInv, FlightsAgree
<1>2. /\ s \in inFlight /\ inFlight' = inFlight \ {s}
      /\ phase' = [phase EXCEPT ![op] = "failed"]
      /\ callback = NoSlot /\ failing' = TRUE /\ robbed = NoOp
      /\ UNCHANGED <<owner, task, robbed>>
  BY <1>1 DEF CompleteWithError, Running
<1>3. Finished' = Finished
  BY <1>1, <1>2 DEF Finished, IInv, TypeOK
<1>4. (IF failing THEN NoSlot ELSE callback) = NoSlot
  BY <1>2
<1> QED BY <1>2, <1>3, <1>4 DEF Pool!Fail, Pool!Next, Finished

\* The callback's second free gives back a free task or robs.
LEMMA ReturnDelivers ==
  ASSUME IInv, NEW again \in BOOLEAN, CallbackReturns(again)
  PROVE  Pool!Next
<1>1. /\ callback \in Slots /\ ~failing /\ callback' = NoSlot /\ robbed = NoOp
      /\ callback # NoSlot
      /\ UNCHANGED <<phase, task, inFlight, failing>>
  BY DEF CallbackReturns, Running, opVars, IInv, TypeOK
<1>2. \/ UNCHANGED <<owner, robbed>>
      \/ /\ owner' = [owner EXCEPT ![callback] = NoOp]
         /\ robbed' = owner[callback]
  BY <1>1 DEF CallbackReturns, Free
<1>3. Finished' = Finished
  BY <1>1 DEF Finished
<1> QED BY <1>1, <1>2, <1>3 DEF Pool!Delivered, Pool!ComesBack, Pool!Next, Finished

LEMMA DestroyGivesBack ==
  ASSUME IInv, NEW o \in Ops, Destroy(o)
  PROVE  Pool!Next
<1>1. /\ phase[o] \in {"connected", "done", "failed"}
      /\ phase' = [phase EXCEPT ![o] = "none"]
      /\ task' = [task EXCEPT ![o] = NoSlot]
      /\ owner' = [owner EXCEPT ![task[o]] = NoOp]
      /\ robbed' = IF owner[task[o]] = o THEN NoOp ELSE owner[task[o]]
      /\ robbed = NoOp
      /\ UNCHANGED <<inFlight, callback, failing>>
  BY DEF Destroy, Free, Running, callVars
<1>2. CASE phase[o] \in {"connected", "failed"}
  <2>1. task[o] \in Slots /\ owner[task[o]] = o /\ task[o] \notin inFlight
    BY <1>1, <1>2, ConnectedIdle
  <2>2. Finished' = Finished
    BY <1>1, <1>2 DEF Finished, IInv, TypeOK
  <2>3. Pool!Discard(task[o])
    BY <1>1, <2>1, <2>2, TaskAssumption DEF Pool!Discard, Finished
  <2> QED BY <1>1, <2>1, <2>3 DEF Pool!Next
<1>3. CASE phase[o] = "done"
  <2>1. task[o] \in Slots /\ owner[task[o]] # o /\ Finished[o] = task[o]
    BY <1>3, TaskAssumption DEF IInv, StaleExposed, OwnersAgree, Holding, Finished
  <2>2. Finished' = [Finished EXCEPT ![o] = NoSlot]
    BY <1>1, <1>3 DEF Finished, IInv, TypeOK
  <2>3. Pool!Forget(o)
    BY <1>1, <2>1, <2>2, TaskAssumption
       DEF Pool!Forget, Pool!ComesBack, Finished
  <2> QED BY <1>1, <2>3 DEF Pool!Next
<1> QED BY <1>1, <1>2, <1>3

LEMMA PoolStep ==
  ASSUME ~Copied, IInv, [Next]_vars
  PROVE  [Pool!Next]_Pool!vars
<1>1. ASSUME NEW o \in Ops, Connect(o) \/ Start(o) \/ Destroy(o) PROVE Pool!Next
  BY <1>1, ConnectAllocates, StartSubmits, DestroyGivesBack
<1>2. ASSUME NEW s \in Slots, Complete(s) \/ CompleteWithError(s) PROVE Pool!Next
  BY <1>2, CompleteAnswers, ErrorFails DEF Complete
<1>3. ASSUME NEW again \in BOOLEAN, CallbackReturns(again) PROVE Pool!Next
  BY <1>3, ReturnDelivers
<1>4. CASE Exit \/ UNCHANGED vars
  BY <1>4 DEF Exit, vars, opVars, callVars, Pool!vars
<1> QED BY <1>1, <1>2, <1>3, <1>4 DEF Next, AllocateFails, SubmitFails, ErrorExits

(* The pool as TaskPool describes it: the callback and the destructors free   *)
(* what somebody else may have allocated since, and that is the only way to   *)
(* lose a task (rdma/task.hpp's callback and destructors).                    *)
THEOREM TasksArePooled == ASSUME ~Copied PROVE Spec => ImplementsTaskPool
<1>1. IInv /\ [Next]_vars => [Pool!Next]_Pool!vars
  BY PoolStep
<1> QED BY <1>1, PoolInit, InductiveInvariant, PTL
     DEF Spec, ImplementsTaskPool, Pool!Spec
=============================================================================
