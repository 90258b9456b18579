------------------------------ MODULE RunLoop ------------------------------
(***************************************************************************)
(* The run loop of progress_engine.hpp (loop::doca_pe_run_loop) and its    *)
(* owner doca_pe_context: an intrusive singly linked list of operation     *)
(* states that any thread may append to under a mutex, and one thread that *)
(* pops them, executes them and polls the DOCA progress engine until the   *)
(* destructor asks it to stop.                                             *)
(*                                                                         *)
(* An operation state is a list node: its address is a member of Ops, its  *)
(* memory is next[o], and the memory of an operation that does not exist   *)
(* holds Dangling.  The list code is modelled one memory access at a time, *)
(* so that what the mutex protects is visible.                             *)
(***************************************************************************)
EXTENDS Naturals, Sequences

CONSTANTS
    Ops,            \* addresses at which schedule operations are connected
    Clients,        \* threads, other than the loop's, that start operations
    Loop,           \* the thread doca_pe_context creates
    HeadNode,       \* &head, the sentinel node inside the loop
    Null,           \* no operation
    Dangling,       \* what a read of freed memory yields
    NoOwner,        \* the mutex is free
    Waits,          \* <<o, p>>: the continuation of o blocks until p completed
    MaxCompletions  \* bound on the completions that wait at one time

Threads == Clients \cup {Loop}
Nodes == Ops \cup {HeadNode}

ASSUME ConstantsAssumption ==
    /\ Loop \notin Clients
    /\ HeadNode \notin Ops
    /\ Null \notin Nodes
    /\ Dangling \notin Nodes \cup {Null}
    /\ NoOwner \notin Threads
    /\ Waits \subseteq Ops \X Ops
    /\ MaxCompletions \in Nat

VARIABLES
    next,       \* next[n]: task::next of the node at n
    tail,       \* head.tail
    mutex,      \* the thread that holds mutex_, or NoOwner
    pc,         \* pc[th]: the statement thread th is about to execute
    arg,        \* arg[th]: the task th is pushing, or Null
    cur,        \* the local `task` of run_some, Null outside execute();
                \* once its signal is sent the address may be reused
    phase,      \* phase[o]: where the operation state at o is in its life
    signal,     \* signal[o]: the completion signal sent for o's last start
    stopAsked,  \* operations whose receiver's stop token was triggered
    stop_,      \* the loop's stop flag
    owner,      \* the thread that owns the doca_pe_context
    cqes,       \* completions waiting in the progress engine
    queue       \* auxiliary: the operations pushed and not popped, in order

listVars == <<next, tail, mutex, queue>>
threadVars == <<pc, arg, cur>>
opVars == <<phase, signal, stopAsked>>
ownerVars == <<stop_, owner>>
vars == <<next, tail, mutex, queue, pc, arg, cur, phase, signal, stopAsked,
          stop_, owner, cqes>>

Phases == {"idle", "ready", "starting", "queued", "running", "done"}
Signals == {"none", "value", "stopped", "error"}
PushPCs == {"push_lock", "push_link", "push_tail"}
LoopPCs == {"check", "pop_lock", "pop_tail", "pop_head", "dispatch", "run",
            "progress", "callback", "exited"}
OwnerPCs == {"alive", "join_called", "joined", "destroying", "destroyed"}

Init ==
    /\ next = [n \in Nodes |-> IF n = HeadNode THEN HeadNode ELSE Dangling]
    /\ tail = HeadNode
    /\ mutex = NoOwner
    /\ pc = [th \in Threads |-> IF th = Loop THEN "check" ELSE "user"]
    /\ arg = [th \in Threads |-> Null]
    /\ cur = Null
    /\ phase = [o \in Ops |-> "idle"]
    /\ signal = [o \in Ops |-> "none"]
    /\ stopAsked = {}
    /\ stop_ = FALSE
    /\ owner = "alive"
    /\ cqes = 0
    /\ queue = <<>>

-----------------------------------------------------------------------------
(* Faulty variants of the actions below: each is the code with one slip,    *)
(* and each breaks a property the correct action keeps.                     *)

\* th is about to execute the statement, and the loop's members still exist.
At(th, statement) == owner # "destroyed" /\ pc[th] = statement

LoopStep(from, to) ==
    /\ pc[Loop] = from
    /\ pc' = [pc EXCEPT ![Loop] = to]

\* push_back_ without the lock.
PushLockUnlocked(th) ==
    /\ At(th, "push_lock")
    /\ pc' = [pc EXCEPT ![th] = "push_link"]
    /\ UNCHANGED <<listVars, arg, cur, opVars, ownerVars, cqes>>

\* push_back_ links the task at the front.
PushLinkAtFront(th) ==
    /\ At(th, "push_link")
    /\ next' = [next EXCEPT ![arg[th]] = next[HeadNode], ![HeadNode] = arg[th]]
    /\ pc' = [pc EXCEPT ![th] = "push_tail"]
    /\ UNCHANGED <<tail, mutex, queue, arg, cur, opVars, ownerVars, cqes>>

\* pop_front_ does not reset head.tail when it takes the last task.
PopTailForgotten ==
    /\ LoopStep("pop_tail", "pop_head")
    /\ UNCHANGED <<listVars, arg, cur, opVars, ownerVars, cqes>>

\* run_some executes whatever pop_front_ returns, &head included.
PopHeadUntested ==
    /\ LoopStep("pop_head", "dispatch")
    /\ next' = [next EXCEPT ![HeadNode] = next[next[HeadNode]]]
    /\ mutex' = NoOwner
    /\ cur' = next[HeadNode]
    /\ UNCHANGED <<tail, queue, arg, opVars, ownerVars, cqes>>

\* run() only polls the progress engine after it executed something.
PopHeadSkipsProgress ==
    LET task == next[HeadNode] IN
    /\ next' = [next EXCEPT ![HeadNode] = next[task]]
    /\ mutex' = NoOwner
    /\ \/ /\ task = HeadNode
          /\ LoopStep("pop_head", "check")
          /\ UNCHANGED <<cur, phase, queue>>
       \/ /\ task # HeadNode
          /\ LoopStep("pop_head", "dispatch")
          /\ cur' = task
          /\ phase' = [phase EXCEPT ![task] = "running"]
          /\ queue' = Tail(queue)
    /\ UNCHANGED <<tail, arg, signal, stopAsked, ownerVars, cqes>>

\* execute_impl does not ask the stop token.
DispatchIgnoresStop ==
    /\ LoopStep("dispatch", "run")
    /\ phase' = [phase EXCEPT ![cur] = "done"]
    /\ signal' = [signal EXCEPT ![cur] = "value"]
    /\ UNCHANGED <<listVars, arg, cur, stopAsked, ownerVars, cqes>>

\* run() waits in the progress engine until a completion arrives.
ProgressNoneBlocks ==
    /\ cqes > 0
    /\ LoopStep("progress", "check")
    /\ UNCHANGED <<listVars, arg, cur, opVars, ownerVars, cqes>>

\* run() leaves its loop without being asked to.
CheckStopsUnasked ==
    /\ LoopStep("check", "exited")
    /\ UNCHANGED <<listVars, arg, cur, opVars, ownerVars, cqes>>

\* The destructor joins the thread without calling finish().
DestructorWithoutFinish ==
    /\ owner = "alive"
    /\ owner' = "destroying"
    /\ UNCHANGED <<listVars, threadVars, opVars, stop_, cqes>>

-----------------------------------------------------------------------------
(* The life of an operation state, driven by the code that connects it.    *)

\* schedule_task::connect constructs the operation with next = &loop_->head:
\* as long as there is a loop, also one that was asked to stop.
Connect(o) ==
    /\ owner # "destroyed"
    /\ phase[o] = "idle"
    /\ phase' = [phase EXCEPT ![o] = "ready"]
    /\ next' = [next EXCEPT ![o] = HeadNode]
    /\ signal' = [signal EXCEPT ![o] = "none"]
    /\ stopAsked' = stopAsked \ {o}
    /\ UNCHANGED <<tail, mutex, queue, pc, arg, cur, ownerVars, cqes>>

\* An operation may be destroyed before it is started or once its signal was
\* sent, even while its continuation runs on; its address is then free for
\* another operation.
Destroy(o) ==
    /\ phase[o] \in {"ready", "done"}
    /\ phase' = [phase EXCEPT ![o] = "idle"]
    /\ next' = [next EXCEPT ![o] = Dangling]
    /\ UNCHANGED <<tail, mutex, queue, threadVars, signal, stopAsked,
                   ownerVars, cqes>>

\* The receiver's stop source is triggered by some other part of the program.
RequestStop(o) ==
    /\ phase[o] \notin {"idle", "done"}
    /\ stopAsked' = stopAsked \cup {o}
    /\ UNCHANGED <<listVars, threadVars, phase, signal, ownerVars, cqes>>

-----------------------------------------------------------------------------
(* operation::start and push_back_, on a client thread or, from inside a   *)
(* continuation or a DOCA callback, on the loop's own thread.  Neither      *)
(* looks at stop_: the list takes tasks until the loop is destroyed.  From  *)
(* then on they access freed memory, and the model has nothing to say.      *)

MayStart(th) ==
    IF th = Loop THEN At(th, "run") \/ At(th, "callback") ELSE At(th, "user")

\* Where the pushing thread goes on once start() returns.
ReturnPC(th) ==
    IF th # Loop THEN "user" ELSE IF cur # Null THEN "run" ELSE "callback"

Start(th, o) ==
    /\ MayStart(th)
    /\ phase[o] = "ready"
    /\ phase' = [phase EXCEPT ![o] = "starting"]
    /\ pc' = [pc EXCEPT ![th] = "push_lock"]
    /\ arg' = [arg EXCEPT ![th] = o]
    /\ UNCHANGED <<listVars, cur, signal, stopAsked, ownerVars, cqes>>

PushLock(th) ==
    /\ At(th, "push_lock")
    /\ mutex = NoOwner
    /\ mutex' = th
    /\ pc' = [pc EXCEPT ![th] = "push_link"]
    /\ UNCHANGED <<next, tail, queue, arg, cur, opVars, ownerVars, cqes>>

\* task->next = &head; head.tail->next = task;
PushLink(th) ==
    /\ At(th, "push_link")
    /\ next' = [next EXCEPT ![arg[th]] = HeadNode, ![tail] = arg[th]]
    /\ pc' = [pc EXCEPT ![th] = "push_tail"]
    /\ UNCHANGED <<tail, mutex, queue, arg, cur, opVars, ownerVars, cqes>>

\* head.tail = task; and the lock is released.
PushTail(th) ==
    /\ At(th, "push_tail")
    /\ tail' = arg[th]
    /\ mutex' = NoOwner
    /\ queue' = Append(queue, arg[th])
    /\ phase' = [phase EXCEPT ![arg[th]] = "queued"]
    /\ pc' = [pc EXCEPT ![th] = ReturnPC(th)]
    /\ arg' = [arg EXCEPT ![th] = Null]
    /\ UNCHANGED <<next, cur, signal, stopAsked, ownerVars, cqes>>

\* Locking the mutex throws: start() catches it and sends set_error.
PushThrows(th) ==
    /\ At(th, "push_lock")
    /\ phase' = [phase EXCEPT ![arg[th]] = "done"]
    /\ signal' = [signal EXCEPT ![arg[th]] = "error"]
    /\ pc' = [pc EXCEPT ![th] = ReturnPC(th)]
    /\ arg' = [arg EXCEPT ![th] = Null]
    /\ UNCHANGED <<listVars, cur, stopAsked, ownerVars, cqes>>

-----------------------------------------------------------------------------
(* run(): while (!stop_) { run_some(); while (pe.progress()) {} }          *)

\* stop_ is a plain bool that another thread writes without synchronisation:
\* after the write a read may still yield FALSE.
CheckContinues ==
    /\ LoopStep("check", "pop_lock")
    /\ UNCHANGED <<listVars, arg, cur, opVars, ownerVars, cqes>>

CheckStops ==
    /\ stop_
    /\ LoopStep("check", "exited")
    /\ UNCHANGED <<listVars, arg, cur, opVars, ownerVars, cqes>>

PopLock ==
    /\ mutex = NoOwner
    /\ mutex' = Loop
    /\ LoopStep("pop_lock", "pop_tail")
    /\ UNCHANGED <<next, tail, queue, arg, cur, opVars, ownerVars, cqes>>

\* if (head.tail == head.next) head.tail = &head;
PopTail ==
    /\ LoopStep("pop_tail", "pop_head")
    /\ tail' = IF tail = next[HeadNode] THEN HeadNode ELSE tail
    /\ UNCHANGED <<next, mutex, queue, arg, cur, opVars, ownerVars, cqes>>

\* return std::exchange(head.next, head.next->next); releases the lock.
\* The sentinel means that the list was empty and run_some returns.
PopHead ==
    LET task == next[HeadNode] IN
    /\ next' = [next EXCEPT ![HeadNode] = next[task]]
    /\ mutex' = NoOwner
    /\ \/ /\ task = HeadNode
          /\ LoopStep("pop_head", "progress")
          /\ UNCHANGED <<cur, phase, queue>>
       \/ /\ task # HeadNode
          /\ LoopStep("pop_head", "dispatch")
          /\ cur' = task
          /\ phase' = [phase EXCEPT ![task] = "running"]
          /\ queue' = Tail(queue)
    /\ UNCHANGED <<tail, arg, signal, stopAsked, ownerVars, cqes>>

\* execute_impl reads the receiver's stop token once and sends its signal,
\* the last access to the operation; the continuation runs inside that call.
Dispatch ==
    /\ LoopStep("dispatch", "run")
    /\ phase' = [phase EXCEPT ![cur] = "done"]
    /\ signal' = [signal EXCEPT ![cur] =
                     IF cur \in stopAsked THEN "stopped" ELSE "value"]
    /\ UNCHANGED <<listVars, arg, cur, stopAsked, ownerVars, cqes>>

\* The continuation returns, and with it execute().
Return ==
    /\ \A w \in Waits : w[1] = cur => signal[w[2]] # "none"
    /\ LoopStep("run", "pop_lock")
    /\ cur' = Null
    /\ UNCHANGED <<listVars, arg, opVars, ownerVars, cqes>>

\* doca_pe_progress: one completion is handed to its callback, or none waits.
ProgressOne ==
    /\ cqes > 0
    /\ cqes' = cqes - 1
    /\ LoopStep("progress", "callback")
    /\ UNCHANGED <<listVars, arg, cur, opVars, ownerVars>>

ProgressNone ==
    /\ cqes = 0
    /\ LoopStep("progress", "check")
    /\ UNCHANGED <<listVars, arg, cur, opVars, ownerVars, cqes>>

CallbackReturns ==
    /\ LoopStep("callback", "progress")
    /\ UNCHANGED <<listVars, arg, cur, opVars, ownerVars, cqes>>

\* The hardware finishes a task that some context of the engine submitted.
\* There is no last one: completions may keep arriving for ever.
Arrive ==
    /\ cqes < MaxCompletions
    /\ cqes' = cqes + 1
    /\ UNCHANGED <<listVars, threadVars, opVars, ownerVars>>

-----------------------------------------------------------------------------
(* doca_pe_context: join() and the destructor, on the owning thread, whatever *)
(* waits in the list and whoever is inside push_back_ at that moment.         *)

Destructor ==
    /\ owner = "alive"
    /\ stop_' = TRUE
    /\ owner' = "destroying"
    /\ UNCHANGED <<listVars, threadVars, opVars, cqes>>

Join ==
    /\ owner = "alive"
    /\ owner' = "join_called"
    /\ UNCHANGED <<listVars, threadVars, opVars, stop_, cqes>>

\* thread_.join() returns, in join() or in the destructor.
ThreadJoined ==
    /\ pc[Loop] = "exited"
    /\ \/ owner = "join_called" /\ owner' = "joined"
       \/ owner = "destroying" /\ owner' = "destroyed"
    /\ UNCHANGED <<listVars, threadVars, opVars, stop_, cqes>>

Terminated ==
    /\ owner = "destroyed"
    /\ UNCHANGED vars

-----------------------------------------------------------------------------
Push(th) == PushLock(th) \/ PushLink(th) \/ PushTail(th) \/ PushThrows(th)

RunSome == PopLock \/ PopTail \/ PopHead \/ Dispatch \/ Return

Run == \/ CheckContinues \/ CheckStops \/ RunSome
       \/ ProgressOne \/ ProgressNone \/ CallbackReturns

Next ==
    \/ \E o \in Ops : Connect(o) \/ Destroy(o) \/ RequestStop(o)
    \/ \E th \in Threads, o \in Ops : Start(th, o)
    \/ \E th \in Threads : Push(th)
    \/ Run
    \/ Arrive
    \/ Destructor \/ Join \/ ThreadJoined
    \/ Terminated

Spec == Init /\ [][Next]_vars

(***************************************************************************)
(* Every thread keeps running and no thread is passed over for ever when   *)
(* the mutex is released; a continuation starts finitely many operations   *)
(* before it returns; the store to stop_ becomes visible eventually.       *)
(* Nothing forces a client to start or the hardware to complete anything.  *)
(***************************************************************************)
Fairness ==
    /\ \A th \in Threads : /\ SF_vars(PushLock(th))
                           /\ WF_vars(PushLink(th))
                           /\ WF_vars(PushTail(th))
    /\ SF_vars(PopLock)
    /\ WF_vars(PopTail) /\ WF_vars(PopHead) /\ WF_vars(Dispatch)
    /\ SF_vars(Return) /\ SF_vars(CallbackReturns)
    /\ WF_vars(CheckContinues) /\ SF_vars(CheckStops)
    /\ WF_vars(ProgressOne) /\ WF_vars(ProgressNone)
    /\ WF_vars(ThreadJoined)

FairSpec == Spec /\ Fairness

-----------------------------------------------------------------------------
(* Properties.                                                             *)

TypeOK ==
    /\ next \in [Nodes -> Nodes \cup {Dangling}]
    /\ tail \in Nodes
    /\ mutex \in Threads \cup {NoOwner}
    /\ pc \in [Threads -> {"user"} \cup PushPCs \cup LoopPCs]
    /\ arg \in [Threads -> Ops \cup {Null}]
    /\ cur \in Ops \cup {Null}
    /\ phase \in [Ops -> Phases]
    /\ signal \in [Ops -> Signals]
    /\ stopAsked \subseteq Ops
    /\ stop_ \in BOOLEAN
    /\ owner \in OwnerPCs
    /\ cqes \in 0 .. MaxCompletions
    /\ queue \in Seq(Ops)

\* The operations the list links at this moment: between the two stores of
\* push_back_ the new task is linked although head.tail does not know it yet.
Linked ==
    IF mutex \in Threads /\ pc[mutex] = "push_tail"
    THEN Append(queue, arg[mutex])
    ELSE queue

\* From head.next the list leads through exactly the pushed and not yet
\* popped operations, oldest first, and back to &head, whatever steps the
\* pushing threads and the popping thread have interleaved.
ChainOK ==
    /\ next[HeadNode] = IF Linked = <<>> THEN HeadNode ELSE Linked[1]
    /\ \A i \in 1 .. Len(Linked) :
           next[Linked[i]] = IF i = Len(Linked) THEN HeadNode ELSE Linked[i+1]

\* head.tail is the last node, except that pop_front_ resets it to &head one
\* step before it unlinks the last operation.
TailOK ==
    tail = IF queue = <<>> \/ (pc[Loop] = "pop_head" /\ Len(queue) = 1)
           THEN HeadNode ELSE queue[Len(queue)]

ListShape == ChainOK /\ TailOK

\* No pointer that push_back_ or pop_front_ is going to follow leads to an
\* operation that completed or was destroyed: the list never holds on to the
\* memory of an operation longer than the operation waits in it.
Live(n) == n = HeadNode \/ phase[n] \in {"starting", "queued"}

PointersLive ==
    /\ Live(tail)
    /\ Live(next[HeadNode])
    /\ \A o \in Ops : phase[o] = "queued" => Live(next[o])

\* The pointer manipulations under the mutex implement a first-in first-out
\* queue that runs every started operation at most once, one at a time.
Abstract == INSTANCE TaskQueue WITH
    phase   <- [o \in Ops |-> IF phase[o] = "starting" THEN "ready"
                                                        ELSE phase[o]],
    running <- IF pc[Loop] = "dispatch" THEN cur ELSE Null,
    busy    <- cur # Null,
    closing <- stop_,
    open    <- pc[Loop] # "exited"

ImplementsTaskQueue == Abstract!Spec

\* What a step may do to the receiver of o: complete it, leave it alone, or be
\* the connection of another operation at its address.
Completes(o) ==
    /\ signal[o] = "none" /\ signal'[o] # "none" /\ phase'[o] = "done"
    /\ IF signal'[o] = "error" THEN phase[o] = "starting"
       ELSE phase[o] = "running" /\ (signal'[o] = "stopped" <=> o \in stopAsked)

Untold(o) == signal'[o] = signal[o] /\ (phase'[o] = "done" => phase[o] = "done")
Reused(o) == phase[o] = "idle" /\ phase'[o] = "ready" /\ signal'[o] = "none"

\* A receiver gets at most one signal for each start, at the moment its
\* operation completes: no operation is signalled twice, before it was started
\* or after its address was connected again; set_stopped is sent exactly if the
\* stop request came before execute_impl asked, and set_error only by start()
\* itself, for an operation the loop never sees.  This says nothing of an
\* operation that is still in the list when run() sees stop_: it is dropped and
\* gets no signal at all (see StartedCompletes).
AtMostOneSignal == [][\A o \in Ops : Completes(o) \/ Untold(o) \/ Reused(o)]_vars

\* doca_pe_context::join() waits for a loop that only the destructor can
\* stop: no caller ever gets past it.
JoinNeverReturns == owner # "joined"

\* Premises.  From some moment on nobody starts operations (not even a
\* continuation or a callback), or the hardware completes nothing more.
NoStart == \A th \in Threads, o \in Ops : ~Start(th, o)
StartsEnd == <>[][NoStart]_vars
CompletionsEnd == <>[][~Arrive]_vars

\* The loop has left run(); what is still in the list is dropped.
LoopLeft == pc[Loop] = "exited"

\* An operation that a continuation starts completes, in the same run_some,
\* even after finish() was called.  One that a client or a DOCA callback starts
\* has two things against it: it is dropped if run() sees stop_ before it comes
\* back to run_some, and it waits for as long as doca_pe_progress finds
\* completions.  Nothing else keeps it from completing.
StartedCompletes ==
    /\ \A o \in Ops : arg[Loop] = o /\ cur # Null ~> phase[o] = "done"
    /\ CompletionsEnd =>
           \A o \in Ops : phase[o] = "starting" ~> phase[o] = "done" \/ LoopLeft

\* An operation whose stop token is triggered while it waits in the queue is
\* completed with set_stopped, with the same two exceptions.
StopHonoured ==
    CompletionsEnd =>
        \A o \in Ops : phase[o] = "queued" /\ o \in stopAsked ~>
                            signal[o] = "stopped" \/ LoopLeft

\* Once it has begun the destructor returns if both the starts and the
\* completions end: run_some does not look at stop_ as long as it finds
\* operations, nor does the inner loop while it finds completions, so that
\* either, going on for ever, keeps the destructor waiting for ever.
DestructorReturns ==
    StartsEnd /\ CompletionsEnd => (owner = "destroying" ~> owner = "destroyed")

\* If the starts end, the loop keeps coming back to the progress engine: no
\* completion waits for ever behind scheduled work, unless the loop is left.
CompletionsHandled ==
    StartsEnd => (cqes > 0 ~> pc[Loop] = "callback" \/ LoopLeft)

\* The scheduler reports forward_progress_guarantee::concurrent: whatever the
\* operation that runs now is waiting for, a queued one eventually runs.
ConcurrentForwardProgress ==
    \A o \in Ops : phase[o] = "queued" ~> phase[o] # "queued"

-----------------------------------------------------------------------------
(* What makes ListShape inductive: who holds the lock, and that the pushed, *)
(* the queued and the popped operations are told apart by their phase.      *)

Critical == {"push_link", "push_tail", "pop_tail", "pop_head"}

LockInv ==
    /\ \A th \in Threads : pc[th] \in Critical <=> mutex = th
    /\ \A th \in Clients : pc[th] \in {"user"} \cup PushPCs
    /\ pc[Loop] \in LoopPCs \cup PushPCs

ArgInv ==
    \A th \in Threads :
        IF pc[th] \in PushPCs
        THEN /\ arg[th] \in Ops
             /\ phase[arg[th]] = "starting"
             /\ \A other \in Threads \ {th} : arg[other] # arg[th]
        ELSE arg[th] = Null

QueueInv ==
    /\ \A i, j \in 1 .. Len(queue) : queue[i] = queue[j] => i = j
    /\ \A i \in 1 .. Len(queue) : phase[queue[i]] = "queued"
    /\ \A o \in Ops : phase[o] = "queued" =>
           \E i \in 1 .. Len(queue) : queue[i] = o

CurInv ==
    /\ pc[Loop] = "dispatch" => cur \in Ops /\ phase[cur] = "running"
    /\ pc[Loop] = "run" => cur \in Ops
    /\ pc[Loop] \notin {"dispatch", "run"} \cup PushPCs => cur = Null

IInv == TypeOK /\ LockInv /\ ArgInv /\ QueueInv /\ CurInv /\ ListShape
=============================================================================
