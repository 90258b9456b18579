---------------------------- MODULE RunLoopProofs ----------------------------
(* Theorems about RunLoop, for any number of operations and threads. *)
EXTENDS RunLoop, SequenceTheorems, TLAPS

USE DEF Threads, Nodes

(* A sequence that is not empty has a first element and, if it is longer,  *)
(* a second one.                                                           *)
LEMMA NonEmptySeq ==
  ASSUME NEW S, NEW s \in Seq(S), s # <<>>
  PROVE  /\ Len(s) \in Nat /\ Len(s) >= 1
         /\ \A i \in 1 .. Len(s) : s[i] \in S
<1>1. Len(s) \in Nat \ {0}
  BY EmptySeq
<1>2. \A i \in 1 .. Len(s) : s[i] \in S
  BY ElementOfSeq
<1> QED BY <1>1, <1>2

(* Where the list leads from its head while the loop holds the lock. *)
LEMMA AtPopHead ==
  ASSUME IInv, pc[Loop] \in {"pop_tail", "pop_head"}
  PROVE  /\ Linked = queue
         /\ queue = <<>> => next[HeadNode] = HeadNode
         /\ queue # <<>> =>
              /\ next[HeadNode] = queue[1]
              /\ queue[1] \in Ops
              /\ Len(queue) = 1 => next[queue[1]] = HeadNode
              /\ Len(queue) # 1 => next[queue[1]] = queue[2] /\ queue[2] \in Ops
<1>1. Linked = queue
  BY ConstantsAssumption DEF IInv, LockInv, Critical, Linked
<1>2. queue \in Seq(Ops)
  BY DEF IInv, TypeOK
<1>3. CASE queue = <<>>
  BY <1>1, <1>3 DEF IInv, ListShape, ChainOK
<1>4. CASE queue # <<>>
  <2>1. /\ Len(queue) \in Nat /\ 1 \in 1 .. Len(queue) /\ queue[1] \in Ops
        /\ Len(queue) # 1 => queue[2] \in Ops
    <3>1. /\ Len(queue) \in Nat /\ Len(queue) >= 1
          /\ \A i \in 1 .. Len(queue) : queue[i] \in Ops
      BY <1>2, <1>4, NonEmptySeq
    <3> QED BY <3>1
  <2>2. /\ next[HeadNode] = queue[1]
        /\ next[queue[1]] = IF 1 = Len(queue) THEN HeadNode ELSE queue[1 + 1]
    <3>1. \A i \in 1 .. Len(queue) :
             next[queue[i]] = IF i = Len(queue) THEN HeadNode ELSE queue[i + 1]
      BY <1>1 DEF IInv, ListShape, ChainOK
    <3>2. next[HeadNode] = queue[1]
      BY <1>1, <1>4 DEF IInv, ListShape, ChainOK
    <3> QED BY <2>1, <3>1, <3>2
  <2> QED BY <1>1, <1>4, <2>1, <2>2
<1> QED BY <1>1, <1>3, <1>4

(* Every variable keeps its type. *)
LEMMA TypeStep == IInv /\ [Next]_vars => TypeOK'
<1> SUFFICES ASSUME IInv, [Next]_vars PROVE TypeOK'
  OBVIOUS
<1>0. TypeOK /\ ArgInv
  BY DEF IInv
<1> USE ConstantsAssumption DEF TypeOK
<1>1. ASSUME NEW o \in Ops, Connect(o) PROVE TypeOK'
  BY <1>0, <1>1 DEF Connect, ownerVars, Phases, Signals
<1>2. ASSUME NEW o \in Ops, Destroy(o) PROVE TypeOK'
  BY <1>0, <1>2 DEF Destroy, threadVars, ownerVars, Phases
<1>3. ASSUME NEW o \in Ops, RequestStop(o) PROVE TypeOK'
  BY <1>0, <1>3 DEF RequestStop, listVars, threadVars, ownerVars
<1>4. ASSUME NEW th \in Threads, NEW o \in Ops, Start(th, o) PROVE TypeOK'
  BY <1>0, <1>4 DEF Start, listVars, ownerVars, Phases, PushPCs
<1>5. ASSUME NEW th \in Threads, Push(th) PROVE TypeOK'
  <2>1. CASE PushLock(th)
    BY <1>0, <2>1 DEF PushLock, At, opVars, ownerVars, PushPCs
  <2>2. CASE PushLink(th)
    BY <1>0, <2>2 DEF PushLink, At, ArgInv, opVars, ownerVars, PushPCs
  <2>3. CASE PushTail(th)
    BY <1>0, <2>3 DEF PushTail, At, ArgInv, ReturnPC, ownerVars, Phases, PushPCs,
                LoopPCs
  <2>4. CASE PushThrows(th)
    BY <1>0, <2>4 DEF PushThrows, At, ReturnPC, listVars, ownerVars, Phases,
                Signals, LoopPCs
  <2> QED BY <1>5, <2>1, <2>2, <2>3, <2>4 DEF Push
<1>6. CASE Run
  <2> USE DEF LoopStep, LoopPCs
  <2>1. CASE CheckContinues \/ CheckStops \/ ProgressNone \/ CallbackReturns
    BY <1>0, <2>1 DEF CheckContinues, CheckStops, ProgressNone, CallbackReturns,
                listVars, opVars, ownerVars
  <2>2. CASE PopLock
    BY <1>0, <2>2 DEF PopLock, opVars, ownerVars
  <2>3. CASE PopTail
    BY <1>0, <2>3 DEF PopTail, opVars, ownerVars
  <2>4. CASE PopHead
    <3>0. pc[Loop] = "pop_head"
      BY <2>4 DEF PopHead
    <3>1. next[HeadNode] \in Nodes /\ next[next[HeadNode]] \in Nodes
      BY <3>0, AtPopHead
    <3>2. next[HeadNode] # HeadNode => queue # <<>>
      BY <3>0, AtPopHead
    <3>3. queue # <<>> => Tail(queue) \in Seq(Ops)
      BY <1>0
    <3> QED BY <1>0, <2>4, <3>1, <3>2, <3>3 DEF PopHead, ownerVars, Phases
  <2>5. CASE Dispatch \/ Return
    BY <1>0, <2>5 DEF Dispatch, Return, listVars, opVars, ownerVars, Phases,
                Signals
  <2>6. CASE ProgressOne
    BY <1>0, <2>6 DEF ProgressOne, listVars, opVars, ownerVars
  <2> QED BY <1>6, <2>1, <2>2, <2>3, <2>4, <2>5, <2>6 DEF Run, RunSome
<1>7. CASE Arrive
  BY <1>0, <1>7 DEF Arrive, listVars, threadVars, opVars, ownerVars
<1>8. CASE Destructor \/ Join \/ ThreadJoined
  BY <1>0, <1>8 DEF Destructor, Join, ThreadJoined, listVars, threadVars, opVars, OwnerPCs
<1>9. CASE UNCHANGED vars
  BY <1>0, <1>9 DEF vars
<1> QED
  BY <1>1, <1>2, <1>3, <1>4, <1>5, <1>6, <1>7, <1>8, <1>9
     DEF Next, Terminated
(* A thread is between the locking and the unlocking statements exactly    *)
(* when it holds the mutex, so that no two threads are there at once.      *)
LEMMA LockStep == IInv /\ [Next]_vars => LockInv'
<1> SUFFICES ASSUME IInv, [Next]_vars PROVE LockInv'
  OBVIOUS
<1>0. TypeOK /\ LockInv
  BY DEF IInv
<1> USE <1>0, ConstantsAssumption DEF TypeOK, LockInv, Critical, PushPCs, LoopPCs
<1>1. ASSUME NEW o \in Ops, Connect(o) \/ Destroy(o) \/ RequestStop(o)
      PROVE  LockInv'
  BY <1>1 DEF Connect, Destroy, RequestStop, listVars, threadVars
<1>2. ASSUME NEW th \in Threads, NEW o \in Ops, Start(th, o)
      PROVE  LockInv'
  BY <1>2 DEF Start, MayStart, At, listVars
<1>3. ASSUME NEW th \in Threads, Push(th) PROVE LockInv'
  <2>1. CASE PushLock(th)
    BY <2>1 DEF PushLock, At
  <2>2. CASE PushLink(th)
    BY <2>2 DEF PushLink, At
  <2>3. CASE PushTail(th)
    BY <2>3 DEF PushTail, At, ReturnPC
  <2>4. CASE PushThrows(th)
    BY <2>4 DEF PushThrows, At, ReturnPC, listVars
  <2> QED BY <1>3, <2>1, <2>2, <2>3, <2>4 DEF Push
<1>4. CASE Run
  <2> USE DEF LoopStep
  <2>1. CASE PopLock
    BY <2>1 DEF PopLock
  <2>2. CASE PopTail
    BY <2>2 DEF PopTail
  <2>3. CASE PopHead
    BY <2>3 DEF PopHead
  <2>4. CASE Dispatch \/ Return
    BY <2>4 DEF Dispatch, Return, listVars
  <2>5. CASE CheckContinues \/ CheckStops
    BY <2>5 DEF CheckContinues, CheckStops, listVars
  <2>6. CASE ProgressOne \/ ProgressNone \/ CallbackReturns
    BY <2>6 DEF ProgressOne, ProgressNone, CallbackReturns, listVars
  <2> QED BY <1>4, <2>1, <2>2, <2>3, <2>4, <2>5, <2>6 DEF Run, RunSome
<1>5. CASE Arrive \/ Destructor \/ Join \/ ThreadJoined \/ UNCHANGED vars
  BY <1>5 DEF Arrive, Destructor, Join, ThreadJoined, listVars, threadVars, vars
<1> QED
  BY <1>1, <1>2, <1>3, <1>4, <1>5 DEF Next, Terminated

(* Two threads never push the same operation, and an operation that is     *)
(* being pushed is in no other stage of its life.                          *)
LEMMA ArgStep == IInv /\ [Next]_vars => ArgInv'
<1> SUFFICES ASSUME IInv, [Next]_vars PROVE ArgInv'
  OBVIOUS
<1>0. TypeOK /\ LockInv /\ ArgInv /\ CurInv
  BY DEF IInv
<1> USE <1>0, ConstantsAssumption DEF TypeOK, ArgInv, PushPCs
<1>1. ASSUME NEW o \in Ops, Connect(o) \/ Destroy(o) \/ RequestStop(o)
      PROVE  ArgInv'
  BY <1>1 DEF Connect, Destroy, RequestStop, threadVars
<1>2. ASSUME NEW th \in Threads, NEW o \in Ops, Start(th, o)
      PROVE  ArgInv'
  BY <1>2 DEF Start, MayStart, At
<1>3. ASSUME NEW th \in Threads, Push(th) PROVE ArgInv'
  <2>1. CASE PushLock(th) \/ PushLink(th)
    BY <2>1 DEF PushLock, At, PushLink, opVars
  <2>2. CASE PushTail(th)
    BY <2>2 DEF PushTail, At, ReturnPC
  <2>3. CASE PushThrows(th)
    BY <2>3 DEF PushThrows, At, ReturnPC
  <2> QED BY <1>3, <2>1, <2>2, <2>3 DEF Push
<1>4. CASE Run
  <2> USE DEF LoopStep
  <2>1. CASE PopLock \/ PopTail
    BY <2>1 DEF PopLock, PopTail, opVars
  <2>2. CASE PopHead
    <3>0. pc[Loop] = "pop_head"
      BY <2>2 DEF PopHead
    <3>1. next[HeadNode] = HeadNode \/ phase[next[HeadNode]] = "queued"
      <4>1. CASE queue = <<>>
        BY <3>0, <4>1, AtPopHead
      <4>2. CASE queue # <<>>
        <5>1. next[HeadNode] = queue[1] /\ 1 \in 1 .. Len(queue)
          BY <3>0, <4>2, AtPopHead, NonEmptySeq
        <5> QED BY <5>1 DEF IInv, QueueInv
      <4> QED BY <4>1, <4>2
    <3> QED BY <2>2, <3>1 DEF PopHead
  <2>3. CASE Dispatch
    BY <2>3 DEF Dispatch, CurInv
  <2>4. CASE Return \/ CheckContinues \/ CheckStops
    BY <2>4 DEF Return, CheckContinues, CheckStops, opVars
  <2>5. CASE ProgressOne \/ ProgressNone \/ CallbackReturns
    BY <2>5 DEF ProgressOne, ProgressNone, CallbackReturns, opVars
  <2> QED BY <1>4, <2>1, <2>2, <2>3, <2>4, <2>5 DEF Run, RunSome
<1>5. CASE Arrive \/ Destructor \/ Join \/ ThreadJoined \/ UNCHANGED vars
  BY <1>5 DEF Arrive, Destructor, Join, ThreadJoined, threadVars, opVars, vars
<1> QED
  BY <1>1, <1>2, <1>3, <1>4, <1>5 DEF Next, Terminated

(* The operation that was popped last is running until its signal is sent. *)
LEMMA CurStep == IInv /\ [Next]_vars => CurInv'
<1> SUFFICES ASSUME IInv, [Next]_vars PROVE CurInv'
  OBVIOUS
<1>0. TypeOK /\ LockInv /\ ArgInv /\ CurInv
  BY DEF IInv
<1> USE <1>0, ConstantsAssumption DEF TypeOK, LockInv, LoopPCs, CurInv, PushPCs
<1>1. ASSUME NEW o \in Ops, Connect(o) \/ Destroy(o) \/ RequestStop(o)
      PROVE  CurInv'
  BY <1>1 DEF Connect, Destroy, RequestStop, threadVars
<1>2. ASSUME NEW th \in Threads, NEW o \in Ops, Start(th, o)
      PROVE  CurInv'
  BY <1>2 DEF Start, MayStart, At
<1>3. ASSUME NEW th \in Threads, Push(th) PROVE CurInv'
  <2>1. CASE PushLock(th) \/ PushLink(th)
    BY <2>1 DEF PushLock, At, PushLink, opVars
  <2>2. CASE PushTail(th) \/ PushThrows(th)
    BY <2>2 DEF PushTail, At, PushThrows, ReturnPC, ArgInv, PushPCs
  <2> QED BY <1>3, <2>1, <2>2 DEF Push
<1>4. CASE Run
  <2> USE DEF LoopStep
  <2>1. CASE PopHead
    <3>1. next[HeadNode] \in Nodes
      <4>1. pc[Loop] = "pop_head"
        BY <2>1 DEF PopHead
      <4> QED BY <4>1, AtPopHead
    <3> QED BY <2>1, <3>1 DEF PopHead
  <2>2. CASE PopLock \/ PopTail \/ Dispatch \/ Return
    BY <2>2 DEF PopLock, PopTail, Dispatch, Return, opVars
  <2>3. CASE CheckContinues \/ CheckStops
    BY <2>3 DEF CheckContinues, CheckStops
  <2>4. CASE ProgressOne \/ ProgressNone \/ CallbackReturns
    BY <2>4 DEF ProgressOne, ProgressNone, CallbackReturns
  <2> QED BY <1>4, <2>1, <2>2, <2>3, <2>4 DEF Run, RunSome
<1>5. CASE Arrive \/ Destructor \/ Join \/ ThreadJoined \/ UNCHANGED vars
  BY <1>5 DEF Arrive, Destructor, Join, ThreadJoined, threadVars, opVars, vars
<1> QED
  BY <1>1, <1>2, <1>3, <1>4, <1>5 DEF Next, Terminated
(* What appending an element and removing the first do to a sequence. *)
LEMMA AppendFacts ==
  ASSUME NEW S, NEW s \in Seq(S), NEW e \in S
  PROVE  /\ Len(Append(s, e)) = Len(s) + 1
         /\ Len(s) \in Nat
         /\ \A i \in 1 .. Len(s) : Append(s, e)[i] = s[i]
         /\ Append(s, e)[Len(s) + 1] = e
         /\ Append(s, e) \in Seq(S)
BY AppendProperties, LenProperties

LEMMA TailFacts ==
  ASSUME NEW S, NEW s \in Seq(S), s # <<>>
  PROVE  /\ Len(s) \in Nat /\ Len(s) >= 1
         /\ Len(Tail(s)) = Len(s) - 1
         /\ \A i \in 1 .. Len(s) - 1 : Tail(s)[i] = s[i + 1]
         /\ Tail(s) \in Seq(S)
<1>1. Len(s) \in Nat \ {0}
  BY EmptySeq
<1>2. /\ Len(Tail(s)) = Len(s) - 1
      /\ \A i \in 1 .. Len(Tail(s)) : Tail(s)[i] = s[i + 1]
      /\ Tail(s) \in Seq(S)
  BY HeadTailProperties
<1> QED BY <1>1, <1>2

(* The queue holds every operation that waits, once. *)
LEMMA QueueStep == IInv /\ [Next]_vars => QueueInv'
<1> SUFFICES ASSUME IInv, [Next]_vars PROVE QueueInv'
  OBVIOUS
<1>0. TypeOK /\ LockInv /\ ArgInv /\ CurInv /\ QueueInv /\ queue \in Seq(Ops)
  BY DEF IInv, TypeOK
<1>a. Len(queue) \in Nat /\ \A i \in 1 .. Len(queue) : queue[i] \in Ops
  BY <1>0, ElementOfSeq, LenProperties
<1> USE <1>a, ConstantsAssumption DEF QueueInv
<1>1. ASSUME NEW o \in Ops, Connect(o) \/ Destroy(o) \/ RequestStop(o)
      PROVE  QueueInv'
  BY <1>0, <1>1 DEF TypeOK, Connect, Destroy, RequestStop, listVars
<1>2. ASSUME NEW th \in Threads, NEW o \in Ops, Start(th, o)
      PROVE  QueueInv'
  BY <1>0, <1>2 DEF TypeOK, Start, listVars
<1>3. ASSUME NEW th \in Threads, Push(th) PROVE QueueInv'
  <2>1. CASE PushLock(th) \/ PushLink(th)
    BY <1>0, <2>1 DEF PushLock, At, PushLink, opVars
  <2>2. CASE PushTail(th)
    <3> DEFINE a == arg[th]
    <3>1. a \in Ops /\ phase[a] = "starting"
      BY <1>0, <2>2 DEF ArgInv, PushPCs, PushTail, At
    <3>2. /\ queue' = Append(queue, a)
          /\ phase' = [phase EXCEPT ![a] = "queued"]
      BY <2>2 DEF PushTail, At
    <3>3. /\ Len(queue') = Len(queue) + 1
          /\ \A i \in 1 .. Len(queue) : queue'[i] = queue[i]
          /\ queue'[Len(queue) + 1] = a
      BY <1>0, <3>1, <3>2, AppendFacts
    <3>4. \A i \in 1 .. Len(queue) : queue[i] # a
      BY <1>0, <3>1
    <3> HIDE DEF a
    <3>5. \A i, j \in 1 .. Len(queue') : queue'[i] = queue'[j] => i = j
      BY <1>0, <3>3, <3>4
    <3>6. \A i \in 1 .. Len(queue') : phase'[queue'[i]] = "queued"
      BY <1>0, <3>1, <3>2, <3>3, <3>4 DEF TypeOK
    <3>7. \A o \in Ops : phase'[o] = "queued" =>
              \E i \in 1 .. Len(queue') : queue'[i] = o
      <4> SUFFICES ASSUME NEW o \in Ops, phase'[o] = "queued"
                   PROVE  \E i \in 1 .. Len(queue') : queue'[i] = o
        OBVIOUS
      <4>1. CASE o = a
        BY <3>3, <4>1
      <4>2. CASE o # a
        <5>1. phase[o] = "queued"
          BY <1>0, <3>1, <3>2, <4>2 DEF TypeOK
        <5>2. PICK i \in 1 .. Len(queue) : queue[i] = o
          BY <1>0, <5>1
        <5> QED BY <3>3, <5>2
      <4> QED BY <4>1, <4>2
    <3> QED BY <3>5, <3>6, <3>7
  <2>3. CASE PushThrows(th)
    BY <1>0, <2>3 DEF PushThrows, At, ArgInv, PushPCs, TypeOK, listVars
  <2> QED BY <1>3, <2>1, <2>2, <2>3 DEF Push
<1>4. CASE Run
  <2> USE DEF LoopStep
  <2>1. CASE PopHead
    <3>0. pc[Loop] = "pop_head"
      BY <2>1 DEF PopHead
    <3>1. CASE queue = <<>>
      <4>1. next[HeadNode] = HeadNode
        BY <3>0, <3>1, AtPopHead
      <4>2. phase' = phase /\ queue' = queue
        BY <2>1, <4>1 DEF PopHead
      <4> QED BY <1>0, <4>2
    <3>2. CASE queue # <<>>
      <4>1. next[HeadNode] = queue[1] /\ queue[1] \in Ops
        BY <3>0, <3>2, AtPopHead
      <4>2. /\ queue' = Tail(queue)
            /\ phase' = [phase EXCEPT ![queue[1]] = "running"]
        BY <2>1, <4>1 DEF PopHead
      <4>3. /\ Len(queue) >= 1
            /\ Len(queue') = Len(queue) - 1
            /\ \A i \in 1 .. Len(queue) - 1 : queue'[i] = queue[i + 1]
        BY <1>0, <3>2, <4>2, TailFacts
      <4>4. \A i, j \in 1 .. Len(queue') : queue'[i] = queue'[j] => i = j
        BY <1>0, <4>3
      <4>5. \A i \in 1 .. Len(queue') : phase'[queue'[i]] = "queued"
        <5> TAKE i \in 1 .. Len(queue')
        <5>1. i + 1 \in 1 .. Len(queue) /\ queue'[i] = queue[i + 1]
          BY <4>3
        <5>2. queue[i + 1] # queue[1] /\ phase[queue[i + 1]] = "queued"
          BY <1>0, <4>3, <5>1
        <5> QED BY <1>0, <4>2, <5>1, <5>2 DEF TypeOK
      <4>6. \A o \in Ops : phase'[o] = "queued" =>
                \E i \in 1 .. Len(queue') : queue'[i] = o
        <5> SUFFICES ASSUME NEW o \in Ops, phase'[o] = "queued"
                     PROVE  \E i \in 1 .. Len(queue') : queue'[i] = o
          OBVIOUS
        <5>1. o # queue[1] /\ phase[o] = "queued"
          BY <1>0, <4>1, <4>2 DEF TypeOK
        <5>2. PICK i \in 1 .. Len(queue) : queue[i] = o
          BY <1>0, <5>1
        <5>3. i - 1 \in 1 .. Len(queue') /\ queue'[i - 1] = o
          BY <4>3, <5>1, <5>2
        <5> QED BY <5>3
      <4> QED BY <4>4, <4>5, <4>6
    <3> QED BY <3>1, <3>2
  <2>2. CASE Dispatch
    BY <1>0, <2>2 DEF Dispatch, CurInv, TypeOK, listVars
  <2>3. CASE PopLock \/ PopTail \/ Return
    BY <1>0, <2>3 DEF PopLock, PopTail, Return, opVars, listVars
  <2>4. CASE CheckContinues \/ CheckStops
    BY <1>0, <2>4 DEF CheckContinues, CheckStops, opVars, listVars
  <2>5. CASE ProgressOne \/ ProgressNone \/ CallbackReturns
    BY <1>0, <2>5 DEF ProgressOne, ProgressNone, CallbackReturns, opVars, listVars
  <2> QED BY <1>4, <2>1, <2>2, <2>3, <2>4, <2>5 DEF Run, RunSome
<1>5. CASE Arrive \/ Destructor \/ Join \/ ThreadJoined \/ UNCHANGED vars
  BY <1>0, <1>5 DEF Arrive, Destructor, Join, ThreadJoined, listVars, opVars, vars
<1> QED
  BY <1>1, <1>2, <1>3, <1>4, <1>5 DEF Next, Terminated
(* Where head.tail points while a client holds the lock. *)
LEMMA AtPush ==
  ASSUME IInv, NEW th \in Threads, pc[th] \in {"push_link", "push_tail"}
  PROVE  /\ arg[th] \in Ops
         /\ \A i \in 1 .. Len(queue) : queue[i] # arg[th]
         /\ Linked = IF pc[th] = "push_tail" THEN Append(queue, arg[th])
                                             ELSE queue
         /\ tail = IF queue = <<>> THEN HeadNode ELSE queue[Len(queue)]
<1>1. arg[th] \in Ops /\ phase[arg[th]] = "starting"
  BY DEF IInv, ArgInv, PushPCs
<1>2. \A i \in 1 .. Len(queue) : queue[i] # arg[th]
  BY <1>1 DEF IInv, QueueInv
<1>3. mutex = th /\ pc[Loop] # "pop_head"
  BY ConstantsAssumption DEF IInv, LockInv, Critical
<1>4. Linked = IF pc[th] = "push_tail" THEN Append(queue, arg[th]) ELSE queue
  BY <1>3 DEF Linked
<1>5. tail = IF queue = <<>> THEN HeadNode ELSE queue[Len(queue)]
  BY <1>3 DEF IInv, ListShape, TailOK
<1> QED BY <1>1, <1>2, <1>4, <1>5

(* A step that neither touches the list nor a linked operation keeps its   *)
(* shape.                                                                  *)
LEMMA ListUntouched ==
  ASSUME IInv, next' = next, tail' = tail, queue' = queue, Linked' = Linked,
         pc[Loop] = "pop_head" <=> pc'[Loop] = "pop_head"
  PROVE  ListShape'
BY DEF IInv, ListShape, ChainOK, TailOK

(* The list stays well formed. *)
LEMMA ListStep == IInv /\ [Next]_vars => ListShape'
<1> SUFFICES ASSUME IInv, [Next]_vars PROVE ListShape'
  OBVIOUS
<1>0. TypeOK /\ LockInv /\ ArgInv /\ QueueInv /\ ListShape /\ queue \in Seq(Ops)
  BY DEF IInv, TypeOK
<1>a. Len(queue) \in Nat /\ \A i \in 1 .. Len(queue) : queue[i] \in Ops
  BY <1>0, ElementOfSeq, LenProperties
<1> USE ConstantsAssumption
<1>1. ASSUME NEW o \in Ops, Connect(o) \/ Destroy(o) PROVE ListShape'
  <2>1. /\ \E x \in Nodes \cup {Dangling} : next' = [next EXCEPT ![o] = x]
        /\ phase[o] \notin {"starting", "queued"}
        /\ UNCHANGED <<tail, mutex, queue, pc, arg>>
    BY <1>1 DEF Connect, Destroy, threadVars
  <2>2. Linked' = Linked
    BY <2>1 DEF Linked
  <2>3. \A i \in 1 .. Len(Linked) : Linked[i] # o
    <3>1. CASE mutex \in Threads /\ pc[mutex] = "push_tail"
      <4> DEFINE a == arg[mutex]
      <4>1. /\ a \in Ops /\ phase[a] = "starting"
            /\ Linked = Append(queue, a)
        BY <1>0, <3>1 DEF ArgInv, PushPCs, Linked
      <4> HIDE DEF a
      <4>2. /\ Len(Linked) = Len(queue) + 1
            /\ \A i \in 1 .. Len(queue) : Linked[i] = queue[i]
            /\ Linked[Len(queue) + 1] = a
        BY <1>0, <4>1, AppendFacts
      <4> QED BY <1>0, <1>a, <2>1, <4>1, <4>2 DEF QueueInv
    <3>2. CASE ~(mutex \in Threads /\ pc[mutex] = "push_tail")
      BY <1>0, <2>1, <3>2 DEF Linked, QueueInv
    <3> QED BY <3>1, <3>2
  <2>4. next'[HeadNode] = next[HeadNode]
    BY <1>0, <2>1 DEF TypeOK
  <2>5. \A n \in Ops \ {o} : next'[n] = next[n]
    BY <1>0, <2>1 DEF TypeOK
  <2>6. \A i \in 1 .. Len(Linked) : Linked[i] \in Ops
    <3>1. CASE mutex \in Threads /\ pc[mutex] = "push_tail"
      <4> DEFINE a == arg[mutex]
      <4>1. a \in Ops /\ Linked = Append(queue, a)
        BY <1>0, <3>1 DEF ArgInv, PushPCs, Linked
      <4> HIDE DEF a
      <4>2. Linked \in Seq(Ops)
        BY <1>0, <4>1, AppendFacts
      <4> QED BY <4>2, ElementOfSeq
    <3>2. CASE ~(mutex \in Threads /\ pc[mutex] = "push_tail")
      BY <1>a, <3>2 DEF Linked
    <3> QED BY <3>1, <3>2
  <2>7. ChainOK'
    BY <1>0, <2>2, <2>3, <2>4, <2>5, <2>6 DEF ListShape, ChainOK
  <2>8. TailOK'
    BY <1>0, <2>1 DEF ListShape, TailOK
  <2> QED BY <2>7, <2>8 DEF ListShape
<1>2. ASSUME NEW th \in Threads, NEW o \in Ops, Start(th, o) PROVE ListShape'
  <2>1. Linked' = Linked
    BY <1>0, <1>2 DEF Start, MayStart, At, Linked, LockInv, Critical, TypeOK, listVars
  <2> QED BY <1>0, <1>2, <2>1, ListUntouched DEF Start, MayStart, At, TypeOK, listVars
<1>3. ASSUME NEW th \in Threads, PushLock(th) PROVE ListShape'
  <2>1. Linked' = Linked
    BY <1>0, <1>3 DEF PushLock, At, Linked, TypeOK
  <2> QED BY <1>0, <1>3, <2>1, ListUntouched DEF PushLock, At, TypeOK
<1>4. ASSUME NEW th \in Threads, PushThrows(th) PROVE ListShape'
  <2>1. Linked' = Linked
    BY <1>0, <1>4 DEF PushThrows, At, ReturnPC, Linked, LockInv, Critical, TypeOK,
                      listVars
  <2> QED BY <1>0, <1>4, <2>1, ListUntouched
          DEF PushThrows, At, ReturnPC, TypeOK, listVars
<1>5. CASE Arrive \/ Destructor \/ Join \/ ThreadJoined \/ UNCHANGED vars
           \/ \E o \in Ops : RequestStop(o)
  <2>1. UNCHANGED <<next, tail, mutex, queue, pc, arg>>
    BY <1>5 DEF Arrive, Destructor, Join, ThreadJoined, RequestStop, listVars,
                threadVars, vars
  <2>2. Linked' = Linked
    BY <2>1 DEF Linked
  <2> QED BY <2>1, <2>2, ListUntouched
<1>6. CASE PopLock \/ Dispatch \/ Return \/ CheckContinues \/ CheckStops
           \/ ProgressOne \/ ProgressNone \/ CallbackReturns
  <2>1. /\ UNCHANGED <<next, tail, queue, arg>>
        /\ mutex' = mutex \/ (mutex = NoOwner /\ mutex' = Loop)
        /\ \E s \in LoopPCs \ {"pop_head"} : pc' = [pc EXCEPT ![Loop] = s]
        /\ pc[Loop] \notin {"pop_head", "push_tail"}
    BY <1>6 DEF PopLock, Dispatch, Return, CheckContinues, CheckStops,
                ProgressOne, ProgressNone, CallbackReturns, LoopStep, LoopPCs,
                listVars
  <2>2. Linked' = Linked
    BY <1>0, <2>1 DEF Linked, TypeOK, LoopPCs
  <2> QED BY <1>0, <2>1, <2>2, ListUntouched DEF TypeOK
<1>7. ASSUME NEW th \in Threads, PushLink(th) PROVE ListShape'
  <2> DEFINE a == arg[th]
             q == Append(queue, a)
  <2>1. /\ a \in Ops
        /\ \A i \in 1 .. Len(queue) : queue[i] # a
        /\ Linked = queue
        /\ tail = IF queue = <<>> THEN HeadNode ELSE queue[Len(queue)]
    BY <1>7, AtPush DEF PushLink, At
  <2>2. /\ next' = [next EXCEPT ![a] = HeadNode, ![tail] = a]
        /\ UNCHANGED <<tail, queue, mutex, arg>>
        /\ pc' = [pc EXCEPT ![th] = "push_tail"]
        /\ mutex = th
    BY <1>0, <1>7 DEF PushLink, At, LockInv, Critical
  <2>3. Linked' = q
    BY <1>0, <2>2 DEF Linked, TypeOK
  <2>4. /\ Len(q) = Len(queue) + 1
        /\ \A i \in 1 .. Len(queue) : q[i] = queue[i]
        /\ q[Len(queue) + 1] = a
        /\ q # <<>>
    BY <1>0, <2>1, AppendFacts, AppendProperties
  <2> HIDE DEF q, a
  <2>5. next'[HeadNode] = q[1]
    <3>1. CASE queue = <<>>
      BY <1>0, <2>1, <2>2, <2>4, <3>1 DEF TypeOK
    <3>2. CASE queue # <<>>
      <4>1. Len(queue) >= 1 /\ queue[Len(queue)] \in Ops
        BY <1>0, <1>a, <3>2, NonEmptySeq
      <4>2. next[HeadNode] = queue[1]
        BY <1>0, <2>1, <3>2 DEF ListShape, ChainOK
      <4> QED BY <1>0, <2>1, <2>2, <2>4, <3>2, <4>1, <4>2 DEF TypeOK
    <3> QED BY <3>1, <3>2
  <2>6. \A i \in 1 .. Len(q) :
            next'[q[i]] = IF i = Len(q) THEN HeadNode ELSE q[i + 1]
    <3> TAKE i \in 1 .. Len(q)
    <3>1. CASE i = Len(queue) + 1
      <4>1. tail # a
        BY <1>a, <2>1, <1>0, NonEmptySeq
      <4> QED BY <1>0, <2>1, <2>2, <2>4, <3>1, <4>1 DEF TypeOK
    <3>2. CASE i \in 1 .. Len(queue) /\ i = Len(queue)
      <4>1. queue # <<>>
        BY <1>0, <3>2, EmptySeq
      <4> QED BY <1>0, <1>a, <2>1, <2>2, <2>4, <3>2, <4>1 DEF TypeOK
    <3>3. CASE i \in 1 .. Len(queue) /\ i # Len(queue)
      <4>1. next[queue[i]] = queue[i + 1]
        BY <1>0, <2>1, <3>3 DEF ListShape, ChainOK
      <4>2. tail # queue[i] /\ i + 1 \in 1 .. Len(queue)
        BY <1>0, <1>a, <2>1, <3>3 DEF QueueInv
      <4> QED BY <1>0, <1>a, <2>1, <2>2, <2>4, <3>3, <4>1, <4>2 DEF TypeOK
    <3> QED BY <1>a, <2>4, <3>1, <3>2, <3>3
  <2>7. ChainOK'
    BY <2>3, <2>4, <2>5, <2>6 DEF ChainOK
  <2>8. TailOK'
    BY <1>0, <1>7, <2>1, <2>2 DEF TailOK, LockInv, Critical, TypeOK
  <2> QED BY <2>7, <2>8 DEF ListShape
<1>8. ASSUME NEW th \in Threads, PushTail(th) PROVE ListShape'
  <2> DEFINE a == arg[th]
             q == Append(queue, a)
  <2>1. a \in Ops /\ Linked = q
    BY <1>8, AtPush DEF PushTail, At
  <2>2. /\ tail' = a /\ queue' = q /\ mutex' = NoOwner /\ next' = next
        /\ pc'[Loop] # "pop_head"
    BY <1>0, <1>8 DEF PushTail, At, ReturnPC, LockInv, Critical, TypeOK
  <2>3. Linked' = q
    BY <2>2 DEF Linked
  <2>4. Len(q) = Len(queue) + 1 /\ q[Len(queue) + 1] = a /\ q # <<>>
    BY <1>0, <2>1, AppendFacts, AppendProperties
  <2> HIDE DEF q, a
  <2>5. ChainOK'
    BY <1>0, <2>1, <2>2, <2>3 DEF ListShape, ChainOK
  <2>6. TailOK'
    BY <2>2, <2>4 DEF TailOK
  <2> QED BY <2>5, <2>6 DEF ListShape
<1>9. CASE PopTail
  <2>1. /\ pc[Loop] = "pop_tail" /\ pc'[Loop] = "pop_head"
        /\ tail' = IF tail = next[HeadNode] THEN HeadNode ELSE tail
        /\ UNCHANGED <<next, queue, mutex>>
        /\ mutex = Loop
    BY <1>0, <1>9 DEF PopTail, LoopStep, LockInv, Critical, TypeOK
  <2>2. Linked = queue /\ Linked' = queue
    BY <2>1, AtPopHead DEF Linked
  <2>3. ChainOK'
    BY <1>0, <2>1, <2>2 DEF ListShape, ChainOK
  <2>4. tail = IF queue = <<>> THEN HeadNode ELSE queue[Len(queue)]
    BY <1>0, <2>1 DEF ListShape, TailOK
  <2>5. TailOK'
    <3>1. CASE queue = <<>>
      BY <2>1, <2>4, <3>1, AtPopHead DEF TailOK
    <3>2. CASE queue # <<>>
      <4>1. Len(queue) >= 1 /\ next[HeadNode] = queue[1]
        BY <1>0, <2>1, <3>2, AtPopHead, NonEmptySeq
      <4>2. queue[Len(queue)] = queue[1] <=> Len(queue) = 1
        <5>1. 1 \in 1 .. Len(queue) /\ Len(queue) \in 1 .. Len(queue)
          BY <1>a, <4>1
        <5> QED BY <1>0, <5>1 DEF QueueInv
      <4> QED BY <2>1, <2>4, <3>2, <4>1, <4>2 DEF TailOK
    <3> QED BY <3>1, <3>2
  <2> QED BY <2>3, <2>5 DEF ListShape
<1>10. CASE PopHead
  <2>1. /\ pc[Loop] = "pop_head" /\ pc'[Loop] # "pop_head"
        /\ next' = [next EXCEPT ![HeadNode] = next[next[HeadNode]]]
        /\ tail' = tail /\ mutex' = NoOwner
        /\ next[HeadNode] = HeadNode => queue' = queue
        /\ next[HeadNode] # HeadNode => queue' = Tail(queue)
    BY <1>0, <1>10 DEF PopHead, LoopStep, TypeOK
  <2>2. Linked = queue /\ Linked' = queue'
    BY <1>0, <2>1, AtPopHead DEF Linked
  <2>3. CASE queue = <<>>
    <3>1. next[HeadNode] = HeadNode
      BY <2>1, <2>3, AtPopHead
    <3>2. next' = next /\ queue' = queue
      BY <1>0, <2>1, <3>1 DEF TypeOK
    <3>3. ChainOK'
      BY <1>0, <2>2, <3>2 DEF ListShape, ChainOK
    <3>4. TailOK'
      BY <1>0, <2>1, <2>3, <3>2 DEF ListShape, TailOK
    <3> QED BY <3>3, <3>4 DEF ListShape
  <2>4. CASE queue # <<>>
    <3>1. /\ next[HeadNode] = queue[1]
          /\ queue[1] \in Ops
          /\ Len(queue) = 1 => next[queue[1]] = HeadNode
          /\ Len(queue) # 1 => next[queue[1]] = queue[2]
      BY <2>1, <2>4, AtPopHead
    <3>2. queue' = Tail(queue)
      BY <2>1, <3>1
    <3>3. /\ Len(queue) >= 1
          /\ Len(queue') = Len(queue) - 1
          /\ \A i \in 1 .. Len(queue) - 1 : queue'[i] = queue[i + 1]
          /\ queue' \in Seq(Ops)
      BY <1>0, <2>4, <3>2, TailFacts
    <3>4. queue' = <<>> <=> Len(queue) = 1
      BY <1>a, <3>3, EmptySeq
    <3>5. next'[HeadNode] = IF queue' = <<>> THEN HeadNode ELSE queue'[1]
      BY <1>0, <1>a, <2>1, <3>1, <3>3, <3>4 DEF TypeOK
    <3>6. \A i \in 1 .. Len(queue') : next'[queue'[i]] =
              IF i = Len(queue') THEN HeadNode ELSE queue'[i + 1]
      <4> TAKE i \in 1 .. Len(queue')
      <4>1. i + 1 \in 1 .. Len(queue) /\ queue'[i] = queue[i + 1]
        BY <1>a, <3>3
      <4>2. next'[queue'[i]] = next[queue[i + 1]]
        BY <1>0, <1>a, <2>1, <4>1 DEF TypeOK
      <4>3. next[queue[i + 1]] =
              IF i + 1 = Len(queue) THEN HeadNode ELSE queue[i + 1 + 1]
        BY <1>0, <2>2, <4>1 DEF ListShape, ChainOK
      <4> QED BY <1>a, <3>3, <4>1, <4>2, <4>3
    <3>7. ChainOK'
      BY <2>2, <3>5, <3>6 DEF ChainOK
    <3>8. TailOK'
      <4>1. tail = IF Len(queue) = 1 THEN HeadNode ELSE queue[Len(queue)]
        BY <1>0, <2>1, <2>4 DEF ListShape, TailOK
      <4> QED BY <1>a, <2>1, <3>3, <3>4, <4>1 DEF TailOK
    <3> QED BY <3>7, <3>8 DEF ListShape
  <2> QED BY <2>3, <2>4
<1> QED
  BY <1>1, <1>2, <1>3, <1>4, <1>5, <1>6, <1>7, <1>8, <1>9, <1>10
     DEF Next, Push, Run, RunSome, Terminated

(* Initially the list is empty and nothing runs. *)
LEMMA InitInv == Init => IInv
<1> SUFFICES ASSUME Init PROVE IInv
  OBVIOUS
<1> USE ConstantsAssumption DEF Init
<1>1. TypeOK
  <2>1. queue \in Seq(Ops)
    BY EmptySeq
  <2>2. cqes \in 0 .. MaxCompletions
    OBVIOUS
  <2>3. pc \in [Threads -> {"user"} \cup PushPCs \cup LoopPCs]
    BY DEF LoopPCs
  <2> QED BY <2>1, <2>2, <2>3 DEF TypeOK, Phases, Signals, OwnerPCs
<1>2. LockInv
  BY DEF LockInv, Critical, LoopPCs
<1>3. ArgInv /\ CurInv
  BY DEF ArgInv, CurInv, PushPCs
<1>4. Len(queue) = 0
  BY EmptySeq
<1>5. QueueInv
  BY <1>4 DEF QueueInv
<1>6. ListShape
  BY <1>4 DEF ListShape, ChainOK, TailOK, Linked
<1> QED BY <1>1, <1>2, <1>3, <1>5, <1>6 DEF IInv

(* IInv is inductive and so holds throughout every execution. *)
THEOREM InductiveInvariant == Spec => []IInv
<1>1. IInv /\ [Next]_vars => IInv'
  BY TypeStep, LockStep, ArgStep, QueueStep, CurStep, ListStep DEF IInv
<1> QED BY InitInv, <1>1, PTL DEF Spec

(* Every variable keeps its type, whatever the threads interleave. *)
THEOREM TypeCorrect == Spec => []TypeOK
<1>1. IInv => TypeOK
  BY DEF IInv
<1> QED BY InductiveInvariant, <1>1, PTL

(* The intrusive list is well formed at every step of push_back_ and       *)
(* pop_front_, for any number of threads: it links exactly the operations  *)
(* that wait, in the order in which they were pushed.                      *)
THEOREM ListStaysWellFormed == Spec => []ListShape
<1>1. IInv => ListShape
  BY DEF IInv
<1> QED BY InductiveInvariant, <1>1, PTL

(* push_back_ and pop_front_ never follow a pointer to an operation that   *)
(* completed or was destroyed: no use after free by the loop.              *)
THEOREM NoDanglingPointer == Spec => []PointersLive
<1>1. ASSUME IInv PROVE PointersLive
  <2>1. /\ queue \in Seq(Ops)
        /\ \A i \in 1 .. Len(queue) : queue[i] \in Ops /\ Live(queue[i])
    <3>1. queue \in Seq(Ops)
      BY <1>1 DEF IInv, TypeOK
    <3> QED BY <1>1, <3>1, ElementOfSeq DEF IInv, QueueInv, Live
  <2>2. /\ Linked \in Seq(Ops)
        /\ \A i \in 1 .. Len(Linked) : Live(Linked[i])
    <3>1. CASE mutex \in Threads /\ pc[mutex] = "push_tail"
      <4> DEFINE a == arg[mutex]
      <4>1. a \in Ops /\ Live(a) /\ Linked = Append(queue, a)
        BY <1>1, <3>1 DEF IInv, ArgInv, PushPCs, Linked, Live
      <4> HIDE DEF a
      <4> QED BY <2>1, <4>1, AppendFacts
    <3>2. CASE ~(mutex \in Threads /\ pc[mutex] = "push_tail")
      BY <2>1, <3>2 DEF Linked
    <3> QED BY <3>1, <3>2
  <2>3. Live(HeadNode)
    BY DEF Live
  <2>4. Live(tail)
    <3>1. CASE queue = <<>>
      BY <1>1, <2>3, <3>1 DEF IInv, ListShape, TailOK
    <3>2. CASE queue # <<>>
      <4>1. Len(queue) \in 1 .. Len(queue)
        BY <2>1, <3>2, NonEmptySeq
      <4> QED BY <1>1, <2>1, <2>3, <4>1 DEF IInv, ListShape, TailOK
    <3> QED BY <3>1, <3>2
  <2>5. Live(next[HeadNode])
    <3>1. CASE Linked = <<>>
      BY <1>1, <2>3, <3>1 DEF IInv, ListShape, ChainOK
    <3>2. CASE Linked # <<>>
      <4>1. 1 \in 1 .. Len(Linked)
        BY <2>2, <3>2, NonEmptySeq
      <4> QED BY <1>1, <2>2, <3>2, <4>1 DEF IInv, ListShape, ChainOK
    <3> QED BY <3>1, <3>2
  <2>6. ASSUME NEW o \in Ops, phase[o] = "queued" PROVE Live(next[o])
    <3>1. PICK i \in 1 .. Len(queue) : queue[i] = o
      BY <1>1, <2>6 DEF IInv, QueueInv
    <3>2. i \in 1 .. Len(Linked) /\ Linked[i] = o
      <4>1. CASE mutex \in Threads /\ pc[mutex] = "push_tail"
        <5> DEFINE a == arg[mutex]
        <5>1. a \in Ops /\ Linked = Append(queue, a)
          BY <1>1, <4>1 DEF IInv, ArgInv, PushPCs, Linked
        <5> HIDE DEF a
        <5> QED BY <2>1, <3>1, <5>1, AppendFacts
      <4>2. CASE ~(mutex \in Threads /\ pc[mutex] = "push_tail")
        BY <3>1, <4>2 DEF Linked
      <4> QED BY <4>1, <4>2
    <3>3. next[o] = IF i = Len(Linked) THEN HeadNode ELSE Linked[i + 1]
      BY <1>1, <3>2 DEF IInv, ListShape, ChainOK
    <3>4. CASE i = Len(Linked)
      BY <2>3, <3>3, <3>4
    <3>5. CASE i # Len(Linked)
      <4>1. i + 1 \in 1 .. Len(Linked)
        BY <2>2, <3>2, <3>5, LenProperties
      <4> QED BY <2>2, <3>3, <3>5, <4>1
    <3> QED BY <3>4, <3>5
  <2> QED BY <2>4, <2>5, <2>6 DEF PointersLive
<1> QED BY InductiveInvariant, <1>1, PTL

(* Only the destructor stops the loop, so that join(), called before it,   *)
(* waits for ever.                                                         *)
OwnerInv ==
    /\ stop_ => owner \in {"destroying", "destroyed"}
    /\ pc[Loop] = "exited" => stop_
    /\ owner # "joined"

THEOREM JoinWaitsForEver == Spec => []JoinNeverReturns
<1>1. Init => OwnerInv
  BY ConstantsAssumption DEF Init, OwnerInv
<1>2. TypeOK /\ OwnerInv /\ [Next]_vars => OwnerInv'
  <2> SUFFICES ASSUME TypeOK, OwnerInv, [Next]_vars PROVE OwnerInv'
    OBVIOUS
  <2> USE ConstantsAssumption DEF TypeOK, OwnerInv
  <2>1. ASSUME NEW o \in Ops, Connect(o) \/ Destroy(o) \/ RequestStop(o)
        PROVE  OwnerInv'
    BY <2>1 DEF Connect, Destroy, RequestStop, threadVars, ownerVars
  <2>2. ASSUME NEW th \in Threads, NEW o \in Ops, Start(th, o)
        PROVE  OwnerInv'
    BY <2>2 DEF Start, ownerVars
  <2>3. ASSUME NEW th \in Threads, Push(th) PROVE OwnerInv'
    BY <2>3 DEF Push, PushLock, At, PushLink, PushTail, PushThrows, ReturnPC,
                ownerVars
  <2>4. CASE Run
    BY <2>4 DEF Run, RunSome, PopLock, PopTail, PopHead, Dispatch, Return,
                CheckContinues, CheckStops, ProgressOne, ProgressNone,
                CallbackReturns, LoopStep, ownerVars
  <2>5. CASE Arrive \/ Destructor \/ Join \/ ThreadJoined \/ UNCHANGED vars
    BY <2>5 DEF Arrive, Destructor, Join, ThreadJoined, threadVars, ownerVars,
                vars
  <2> QED BY <2>1, <2>2, <2>3, <2>4, <2>5 DEF Next, Terminated
<1>3. OwnerInv => JoinNeverReturns
  BY DEF OwnerInv, JoinNeverReturns
<1> QED BY TypeCorrect, <1>1, <1>2, <1>3, PTL DEF Spec

-----------------------------------------------------------------------------
(* The refinement: every step of the run loop is a step of the abstract     *)
(* queue, or leaves its variables alone.                                    *)

AbsPhase == [o \in Ops |-> IF phase[o] = "starting" THEN "ready" ELSE phase[o]]

LEMMA InitRefines == Init => Abstract!Init
BY ConstantsAssumption DEF Init, Abstract!Init

LEMMA StepRefines ==
  IInv /\ [Next]_vars => [Abstract!Next]_Abstract!vars
<1> SUFFICES ASSUME IInv, [Next]_vars
             PROVE  Abstract!Next \/ UNCHANGED Abstract!vars
  BY DEF Abstract!vars
<1>0. TypeOK /\ LockInv /\ ArgInv /\ QueueInv /\ CurInv /\ queue \in Seq(Ops)
  BY DEF IInv, TypeOK
<1> USE ConstantsAssumption
<1>1. ASSUME NEW o \in Ops, Connect(o) PROVE Abstract!Connect(o)
  BY <1>0, <1>1 DEF Connect, Abstract!Connect, TypeOK, ownerVars
<1>2. ASSUME NEW o \in Ops, Destroy(o) PROVE Abstract!Destroy(o)
  BY <1>0, <1>2 DEF Destroy, Abstract!Destroy, TypeOK, ownerVars, threadVars
<1>3. ASSUME NEW th \in Threads, NEW o \in Ops, o = arg[th], PushTail(th)
      PROVE  Abstract!Enqueue(o)
  BY <1>0, <1>3 DEF PushTail, At, ReturnPC, Abstract!Enqueue, TypeOK, ArgInv,
                    PushPCs, ownerVars
<1>4. ASSUME NEW th \in Threads, NEW o \in Ops, o = arg[th], PushThrows(th)
      PROVE  Abstract!Refuse(o)
  BY <1>0, <1>4 DEF PushThrows, At, ReturnPC, Abstract!Refuse, TypeOK, ArgInv,
                    PushPCs, ownerVars, listVars
<1>5. CASE PopHead
  <2>1. /\ pc[Loop] = "pop_head" /\ cur = Null
        /\ UNCHANGED <<signal, stop_>>
    BY <1>0, <1>5 DEF PopHead, LoopStep, CurInv, PushPCs, ownerVars
  <2>2. CASE queue = <<>>
    <3>1. next[HeadNode] = HeadNode
      BY <2>1, <2>2, AtPopHead
    <3>2. UNCHANGED <<cur, phase, queue>> /\ pc'[Loop] = "progress"
      BY <1>0, <1>5, <3>1 DEF PopHead, LoopStep, TypeOK
    <3>3. UNCHANGED Abstract!vars
      BY <2>1, <3>2 DEF Abstract!vars
    <3> QED BY <3>3
  <2>3. CASE queue # <<>>
    <3>1. next[HeadNode] = queue[1] /\ queue[1] \in Ops
      BY <2>1, <2>3, AtPopHead
    <3>2. /\ pc'[Loop] = "dispatch" /\ cur' = queue[1] /\ queue' = Tail(queue)
          /\ phase' = [phase EXCEPT ![queue[1]] = "running"]
      BY <1>0, <1>5, <3>1 DEF PopHead, LoopStep, TypeOK
    <3>3. queue[1] = Head(queue)
      BY <1>0, <2>3
    <3>4. Abstract!Take
      BY <1>0, <2>1, <2>3, <3>1, <3>2, <3>3 DEF Abstract!Take, TypeOK
    <3> QED BY <3>4 DEF Abstract!Next
  <2> QED BY <2>2, <2>3
<1>6. CASE Dispatch
  <2>1. Abstract!Complete
    BY <1>0, <1>6 DEF Dispatch, LoopStep, CurInv, Abstract!Complete, TypeOK,
                      ownerVars, listVars
  <2> QED BY <2>1 DEF Abstract!Next
<1>7. CASE Return
  <2>1. Abstract!Release
    BY <1>0, <1>7 DEF Return, LoopStep, CurInv, Abstract!Release, TypeOK,
                      ownerVars, listVars, opVars
  <2> QED BY <2>1 DEF Abstract!Next
<1>8. CASE CheckStops
  <2>1. Abstract!Close
    BY <1>0, <1>8 DEF CheckStops, LoopStep, CurInv, PushPCs, Abstract!Close,
                      TypeOK, ownerVars, listVars, opVars
  <2> QED BY <2>1 DEF Abstract!Next
<1>9. CASE Destructor
  <2>1. Abstract!Finish
    BY <1>9 DEF Destructor, Abstract!Finish, threadVars, listVars, opVars
  <2> QED BY <2>1 DEF Abstract!Next
<1>10. ASSUME NEW th \in Threads, NEW o \in Ops, Start(th, o)
       PROVE  UNCHANGED Abstract!vars
  <2>1. /\ AbsPhase' = AbsPhase
        /\ UNCHANGED <<queue, cur, stop_>>
        /\ pc[Loop] \notin {"dispatch", "exited"} <=>
             pc'[Loop] \notin {"dispatch", "exited"}
        /\ pc[Loop] = "exited" <=> pc'[Loop] = "exited"
    BY <1>0, <1>10 DEF Start, MayStart, At, AbsPhase, TypeOK, listVars, ownerVars
  <2> QED BY <2>1 DEF Abstract!vars, AbsPhase
<1>11. ASSUME NEW th \in Threads, PushLock(th) \/ PushLink(th)
       PROVE  UNCHANGED Abstract!vars
  BY <1>0, <1>11 DEF PushLock, At, PushLink, TypeOK, opVars, ownerVars, Abstract!vars
<1>12. CASE CheckContinues \/ PopLock \/ PopTail \/ ProgressOne
            \/ ProgressNone \/ CallbackReturns
  <2>1. /\ UNCHANGED <<phase, queue, cur, stop_>>
        /\ pc[Loop] \notin {"dispatch", "exited"}
        /\ pc'[Loop] \notin {"dispatch", "exited"}
    BY <1>0, <1>12 DEF CheckContinues, PopLock, PopTail, ProgressOne,
         ProgressNone, CallbackReturns, LoopStep, TypeOK, listVars, opVars, ownerVars
  <2> QED BY <2>1 DEF Abstract!vars
<1>13. CASE Arrive \/ Join \/ ThreadJoined \/ UNCHANGED vars
            \/ \E o \in Ops : RequestStop(o)
  BY <1>13 DEF Arrive, Join, ThreadJoined, RequestStop, vars, listVars,
               threadVars, opVars, ownerVars, Abstract!vars
<1> QED
  <2>1. ASSUME NEW th \in Threads, Push(th)
        PROVE  Abstract!Next \/ UNCHANGED Abstract!vars
    <3>1. CASE PushTail(th)
      <4>1. PICK o \in Ops : o = arg[th]
        BY <1>0, <3>1 DEF PushTail, At, ArgInv, PushPCs
      <4> QED BY <1>3, <3>1, <4>1 DEF Abstract!Next
    <3>2. CASE PushThrows(th)
      <4>1. PICK o \in Ops : o = arg[th]
        BY <1>0, <3>2 DEF PushThrows, At, ArgInv, PushPCs
      <4> QED BY <1>4, <3>2, <4>1 DEF Abstract!Next
    <3> QED BY <2>1, <1>11, <3>1, <3>2 DEF Push
  <2> QED
    BY <2>1, <1>1, <1>2, <1>5, <1>6, <1>7, <1>8, <1>9, <1>10, <1>12, <1>13
       DEF Next, Run, RunSome, Terminated, Abstract!Next

(* The intrusive list under its mutex implements the first-in first-out     *)
(* queue that runs each started operation at most once, one at a time.      *)
THEOREM RunLoopImplementsTaskQueue == Spec => ImplementsTaskQueue
<1>1. Spec => Abstract!Init
  BY InitRefines, PTL DEF Spec
<1>2. Spec => [][Abstract!Next]_Abstract!vars
  BY InductiveInvariant, StepRefines, PTL DEF Spec
<1> QED BY <1>1, <1>2, PTL DEF ImplementsTaskQueue, Abstract!Spec

-----------------------------------------------------------------------------
(* The receivers.  An operation that is connected and not complete was not   *)
(* signalled yet, which with IInv is all the loop has to keep.               *)
Unsignalled ==
    \A o \in Ops : phase[o] \in {"ready", "starting", "queued", "running"}
                    => signal[o] = "none"

Told == \A o \in Ops : Completes(o) \/ Untold(o) \/ Reused(o)

LEMMA NobodyTold ==
  ASSUME Unsignalled, UNCHANGED <<phase, signal>>
  PROVE  Unsignalled' /\ Told
BY DEF Unsignalled, Told, Untold

LEMMA LifeTells ==
  ASSUME IInv, Unsignalled, NEW o \in Ops, Connect(o) \/ Destroy(o) \/ RequestStop(o)
  PROVE  Unsignalled' /\ Told
<1>1. phase \in [Ops -> Phases] /\ signal \in [Ops -> Signals]
  BY DEF IInv, TypeOK
<1>2. CASE Connect(o)
  BY <1>1, <1>2 DEF Connect, Unsignalled, Told, Untold, Reused
<1>3. CASE Destroy(o)
  BY <1>1, <1>3 DEF Destroy, Unsignalled, Told, Untold
<1>4. CASE RequestStop(o)
  BY <1>4, NobodyTold DEF RequestStop
<1> QED BY <1>2, <1>3, <1>4

LEMMA PushTells ==
  ASSUME IInv, Unsignalled, NEW th \in Threads, Push(th) \/ \E o \in Ops : Start(th, o)
  PROVE  Unsignalled' /\ Told
<1>1. phase \in [Ops -> Phases] /\ signal \in [Ops -> Signals]
  BY DEF IInv, TypeOK
<1>2. pc[th] \in PushPCs => arg[th] \in Ops /\ phase[arg[th]] = "starting"
  BY DEF IInv, ArgInv
<1>3. ASSUME NEW o \in Ops, Start(th, o) PROVE Unsignalled' /\ Told
  BY <1>1, <1>3 DEF Start, Unsignalled, Told, Untold
<1>4. CASE PushLock(th) \/ PushLink(th)
  BY <1>4, NobodyTold DEF PushLock, At, PushLink, opVars
<1>5. CASE PushTail(th)
  BY <1>1, <1>2, <1>5 DEF PushTail, At, PushPCs, Unsignalled, Told, Untold
<1>6. CASE PushThrows(th)
  BY <1>1, <1>2, <1>6 DEF PushThrows, At, PushPCs, Unsignalled, Told, Untold, Completes
<1> QED BY <1>3, <1>4, <1>5, <1>6 DEF Push

LEMMA RunTells ==
  ASSUME IInv, Unsignalled, Run
  PROVE  Unsignalled' /\ Told
<1>1. phase \in [Ops -> Phases] /\ signal \in [Ops -> Signals]
  BY DEF IInv, TypeOK
<1>2. CASE PopHead
  <2>1. CASE next[HeadNode] = HeadNode
    BY <1>2, <2>1, NobodyTold DEF PopHead
  <2>2. CASE next[HeadNode] # HeadNode
    <3>1. pc[Loop] = "pop_head" /\ queue # <<>>
      BY <1>2, <2>2, AtPopHead DEF PopHead, LoopStep
    <3>2. next[HeadNode] = queue[1] /\ queue[1] \in Ops
      BY <3>1, AtPopHead
    <3>3. phase[next[HeadNode]] = "queued"
      BY <3>1, <3>2, NonEmptySeq DEF IInv, QueueInv
    <3> QED BY <1>1, <1>2, <2>2, <3>2, <3>3 DEF PopHead, Unsignalled, Told, Untold
  <2> QED BY <2>1, <2>2
<1>3. CASE Dispatch
  <2>1. cur \in Ops /\ phase[cur] = "running"
    BY <1>3 DEF Dispatch, LoopStep, IInv, CurInv
  <2>2. /\ phase' = [phase EXCEPT ![cur] = "done"]
        /\ signal' = [signal EXCEPT ![cur] = IF cur \in stopAsked THEN "stopped" ELSE "value"]
    BY <1>3 DEF Dispatch
  <2> QED BY <1>1, <2>1, <2>2 DEF Unsignalled, Told, Untold, Completes
<1>4. CASE UNCHANGED <<phase, signal>>
  BY <1>4, NobodyTold
<1> QED
  BY <1>2, <1>3, <1>4 DEF Run, RunSome, CheckContinues, CheckStops, PopLock, PopTail, Return,
     ProgressOne, ProgressNone, CallbackReturns, opVars

LEMMA StepTells == IInv /\ Unsignalled /\ [Next]_vars => Unsignalled' /\ Told
<1> SUFFICES ASSUME IInv, Unsignalled, [Next]_vars PROVE Unsignalled' /\ Told
  OBVIOUS
<1>1. CASE Arrive \/ Destructor \/ Join \/ ThreadJoined \/ UNCHANGED vars
  BY <1>1, NobodyTold DEF Arrive, Destructor, Join, ThreadJoined, opVars, vars
<1> QED BY <1>1, LifeTells, PushTells, RunTells DEF Next, Terminated

(* Each start of an operation is answered by at most one signal, and exactly  *)
(* when it completes: set_stopped if and only if the stop was requested       *)
(* before execute_impl asked, set_error only from start().  An operation that *)
(* run() leaves in the list is not answered and does not complete.            *)
THEOREM SignalledAtMostOnce == Spec => AtMostOneSignal
<1>1. Init => Unsignalled
  BY DEF Init, Unsignalled
<1>2. Spec => []Unsignalled
  BY <1>1, InductiveInvariant, StepTells, PTL DEF Spec
<1>3. IInv /\ Unsignalled /\ [Next]_vars
        => [\A o \in Ops : Completes(o) \/ Untold(o) \/ Reused(o)]_vars
  BY StepTells DEF Told
<1> QED BY <1>2, <1>3, InductiveInvariant, PTL DEF Spec, AtMostOneSignal
=============================================================================
