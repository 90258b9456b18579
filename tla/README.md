# A verification project for doca-stdexec

doca-stdexec is a header-only C++ library that puts NVIDIA's DOCA SDK behind
C++ senders and receivers: a scheduler whose one thread runs scheduled work and
polls a DOCA progress engine, RDMA connections and tasks as senders, and RAII
wrappers for DOCA's buffers, memory maps, devices and contexts. The library has
no documentation of its own; the comments in the headers, the examples and
`test/rdma_loopback.cpp` say what is expected of it.

This directory models its stateful parts in TLA+, checks the models with TLC and
proves theorems about them with TLAPS. Paths below are relative to
`src/include/doca_stdexec/` unless they start with `test/` or `examples/`.

## 1. Inventory

| Component | State | Operations | Hard because |
|---|---|---|---|
| run loop, scheduler and `doca_pe_context` (`progress_engine.hpp`) | intrusive list of operation states (`head.next`, `head.tail`, `task::next`), `mutex_`, `stop_`, the thread, the progress engine | `start`/`push_back_`, `pop_front_`, `run`, `run_some`, `execute`, `finish`, `join`, the destructor | any thread pushes while the loop pops and runs user code; operation states are freed or reused the moment they complete; `stop_` is a plain `bool` written by another thread; one thread for work and for completions |
| RDMA operations (`rdma/task.hpp`, `oneside.hpp`, `twoside.hpp`) | operation state, the DOCA task it owns, the task's user data, DOCA's pool of tasks | allocate (in `connect`), `start`, completion and error callback, destruction | the callback and the operation both destroy the task; user code runs inside the callback |
| RDMA connection (`rdma.hpp`) | exported connection, its owner, its user data, the peer's descriptor | `Rdma::connect`, `export_ctx`, the operation's `start`, `on_established`, `on_failure`, disconnecting | two programs and a blocking exchange; the value is delivered before the callback that reports success; either side may fail in between |
| TCP sockets (`common/tcp.hpp`) | `fd_`, `connected_`, `listening_`; the byte stream | connect, accept, close, move, framed send and receive | short sends and receives, errors in the middle of a frame, reconnecting |
| buffers and their inventory (`buf.hpp`, `buf_inventory.hpp`) | `buf_` of every `Buf`; DOCA's reference counts and lists | get, copy, move, assign, release, reference counting, list walking, chaining; start, stop, destroy of the inventory | who owns a reference is decided by which constructor was used; destroying an inventory may be refused |
| memory maps (`mmap.hpp`) | `mmap_`, `started_`, `free_callback_`, `devices_` | set-up, start, stop, export, import, release, move, cleanup | DOCA keeps a raw pointer to the callback; stopping and destroying may be refused, which `cleanup` ignores |
| contexts, devices, the engine that holds contexts (`context.hpp`, `device.hpp`, `ProgressEngine`, `Rdma`, `RdmaConnection`) | `shared_ptr`s: `Rdma::dev`, `RdmaConnection::rdma`, `ProgressEngine::ctxs_`, `MMap::devices_` | start, stop; open, close; connect, destroy | the order in which shared owners go away |
| `check_error`, `immovable` (`common.hpp`, `operation.hpp`) | | exit | |
| loopback test, examples | two threads that use everything above | | the only user of the library in the repository |

How they interact. A `doca_pe_context` owns a run loop, its thread and the
progress engine. `schedule()` makes operations that enter the loop's list;
everything else (RDMA set-up, `Rdma::connect`, the starts of RDMA tasks and all
DOCA callbacks) runs as a continuation on the loop's thread. `Rdma::connect`
uses a `tcp_socket` to swap descriptors with the peer and hands an
`RdmaConnection` on; `write`, `read` and `send` of the connection allocate DOCA
tasks from raw `doca_buf` pointers of `Buf` objects, which come from a
`BufInventory` and point into an `MMap`. Any DOCA error ends the program through
`check_error`. The TCP errors are exceptions.

What makes each part correct: the list is well formed and never points to dead
memory, each start is answered at most once, and exactly once unless the loop is
left before, and the loop makes progress and stops; a task in flight is not freed
and completes its own operation; a connection has one owner until it is
disconnected and nobody hangs in setting it up; frames arrive whole and in order
and no descriptor leaks; reference counts equal the number of owners, and an
inventory is destroyed or accounted for; a map has one owner and DOCA no pointer
to a dead callback; nothing that is in use loses the context, device or map it is
used through. Where the code keeps such a promise under a condition only, the
property names the condition, and the model has the steps that break it: the
operations a stopped loop drops, the second free of a task, the descriptor
`connect()` overwrites, the refused destruction, the engine's context list that
goes before the engine. `PROJECT.json` lists the hazards of the code line by line
with the properties that cover them.

## 2. Modules

| Module | What it is |
|---|---|
| `TaskQueue` | abstract specification: a first-in first-out queue whose operations run one at a time, at most once per start |
| `TaskPool` | abstract specification: a pool whose tasks are one operation's from allocation to answer |
| `MessageStream` | abstract specification: two ends join fresh connections and receive each other's messages whole and in order |
| `UniqueOwner` | abstract specification: resources with one owner at a time, which moves hand on, and which never come back |
| `RunLoop` | `progress_engine.hpp`, one memory access of the list code per step; refines `TaskQueue` |
| `RdmaTasks` | one kind of RDMA operation and its pool of tasks; refines `TaskPool` |
| `RdmaConnect` | two programs that connect, with DOCA and the network as environment |
| `TcpSocket` | `tcp_socket`, `tcp_server`, and the kernel between them; refines `MessageStream` |
| `BufHandles` | `Buf` objects, the elements of an inventory, the `BufInventory` objects and the inventory's life; its `BufInventory` objects refine `UniqueOwner` |
| `MMap` | `MMap` objects, DOCA's maps, and the devices; refines `UniqueOwner` |
| `Ownership` | extends `MMap` by contexts, connections, writes and the engine: who keeps what alive in a whole program |
| `RunLoopProofs`, `RdmaTasksProofs`, `RdmaConnectProofs`, `BufProofs`, `TcpProofs`, `MMapProofs`, `OwnershipProofs`, `UniqueOwnerProofs` | theorems |
| `MC...` | the instances TLC checks: sets, symmetry, and the configurations' functions |

Every component's module has a section of *faulty variants*: the code with one
slip each (a dropped lock, a lost user data, a wrong order). They are not part of the
specification. Each property is known to fail when the variant named in
`PROJECT.json` under `mutants` takes the place of the real definition.

### RunLoop

An operation state is a list node: `next[o]` is its memory. `PushLock`,
`PushLink`, `PushTail` are `push_back_`; `PopLock`, `PopTail`, `PopHead` are
`pop_front_`; `Dispatch` is the virtual `execute` with its look at the stop
token; `CheckContinues`, `CheckStops`, `ProgressOne`, `ProgressNone` are `run`'s
two loops; `Return` and `CallbackReturns` end user code that may itself connect,
start and destroy operations. `Destructor`, `Join`, `ThreadJoined` are the owner.
Memory of an operation that is destroyed or not yet constructed reads as
`Dangling`, and an address may be connected again as soon as its operation has
completed, even inside the same `run_some`. The read of `stop_` by the loop is a
race with `finish()`: `CheckContinues` may still read the old value.

Neither `push_back_` nor `connect` looks at `stop_`. Clients, continuations and
callbacks therefore connect and start operations before, during and after
`finish()` and `join()`, until the destructor has returned (`At`); what they do
later is a use of freed memory, and outside the model. Completions keep
`Arrive`-ing, without a last one.

### RdmaTasks

`owner[s]` is the operation a DOCA task was allocated for. `doca_task_free` gives
a task back whoever calls it. The completion callback destroys the task, calls
the receiver, and its local goes out of scope afterwards; the operation's own
member is destroyed later still. So a task is freed up to three times, and who is
given it in between has it taken away: `Free` records the operation that lost its
task in `robbed`, and the model ends there, since what that operation
submits or has submitted is then a task of the pool. Nothing in the code keeps callers from allocating in that
window, least of all the receiver that runs inside the callback, and `Connect` is
not restricted. `exposed` remembers who allocated there, so that the properties
can say that nobody else is affected. Whether the second destruction of a
`unique_ptr` frees again is up to the build and is a nondeterministic choice
(`CallbackReturns(again)`). `Copied` tells the read task, which has a destructor
and no move constructor, from write and send tasks.

DOCA errors end the program: `AllocateFails` in `allocate`, `SubmitFails` in
`start`, and, after the receiver has had its `set_error` and run user code,
`CompleteWithError` then `ErrorExits`.

### RdmaConnect

`ExportCtx`, `SendSome`, `ReceiveSome` and `Throw` are `Rdma::connect` on the
loop's thread; `SetUserData`, `Connect` and `Deliver` are the operation's
`start()`, call by call, so that DOCA's callbacks are scheduled between any two of
them; `OnEstablished`, `OnFailure` and `DestroyOp` are the rest of the operation;
`DropConnection` is the user. A socket call throws on any error, at any time, the
peer being there or not. The connection is then dropped, while the socket, which
is the caller's, stays open until the program ends: a peer that waits for data is
not told. `start()` hands the connection on at once; when DOCA later reports the
connection, the callback completes the receiver a second time with an empty
connection, which the test's user code assigns over the live one. A program may
end at any point. `Establish`, `FailConnection` and `ProgramEnds` are external.

### TcpSocket

The stream is counted in units of four bytes, so that the eight-byte prefix of
the code (`htonl` of a `size_t`: the size modulo 2^32, then zero) and the
four-byte prefix of the comments are different. `::send` and `::recv` move any
number of units that fits; they may fail at any time, with a live peer as well as
a closed one, and on an end that was made non-blocking (through
`native_handle()`) they may report that they would block, which throws in the
middle of a frame with the socket still connected. `CloseOnError = TRUE` is a
caller that sends and receives no more messages on a connection where a call
threw. It may connect again without closing: `connect()` then overwrites the
descriptor of the failed connection, which `overwritten` records.

### BufHandles

`handle[h]` is the `buf_` of a `Buf` object; `rc`, `next` are DOCA's. `raw` counts
the references that users hold by hand (`release`, `inc_refcount`). `borrowed`
is a history variable: how often the list operations gave out an element without
counting the new handle (`get_next_in_list`, `get_last_in_list`, `collect_list`
adopt the pointer DOCA returns, whose destructor will decrement). A DOCA call on
an empty handle or a free element is an error and ends the program. `inv` is
DOCA's inventory and the members of the `BufInventory` objects, of which one at
most owns it; destroying the owner, or assigning to it, stops the inventory, which
ends the program if DOCA refuses, and then destroys it, which DOCA refuses while
elements are in use. Nobody acts on that refusal: the inventory is leaked
(`Discarded`), and `inv.stranded` keeps the elements that were in use then. They
are still usable through their `Buf`s.

### MMap and Ownership

`obj[o]` are the four members of an `MMap`, `map[k]` is DOCA's side: state,
devices, cookie of the free callback, buffers in use. `Cleanup` stops and
destroys, and ignores both statuses: DOCA refuses while buffers are in use and may
fail otherwise, and the map is leaked, stopped or not. `release()` hands
the map to its caller, who may destroy it (`DestroyReleased`); the callback and
the pointers to the devices are gone by then. A device is open as long as somebody
has a pointer to it (`DeviceOpen`).

`Ownership` adds the other owners. `rdma[r]` has DOCA's context and the pointers
of the program (`user`) and of the engine (`engine`); `conn[c].rdma` is the
pointer of a connection. `MMapSpec` is `MMap` with what the rest of a program may do
to it (`Elsewhere`: take and give back buffers, open and close devices, end); the
theorem `MapsOfAProgram` says that `Ownership` is one such program.

Destructors are taken apart where the order of the members matters. When the last
pointer to an `Rdma` is given up (`DropRdma`, `DestroyConnection`,
`ReplaceConnection`, `ReleaseContext`), `dev` goes first and the object is
`doomed`: the device may close with the context still there. `DestroyRdma` then
destroys the context, which DOCA refuses if it runs, and nobody notices.
`~RdmaConnection` gives up its `Rdma` (`DestroyConnection`) before it disconnects
(`Disconnect`), an assignment disconnects first. `~doca_pe_context` ends the
thread (`JoinLoop`), then `~ProgressEngine` gives up `ctxs_`, one context after
the other (`ReleaseContext`), each with its `~Rdma`, and only then destroys the
engine (`DestroyEngine`), which ends the program if a context is still connected.
The program is one thread as far as these objects go: it begins nothing else
while it is in a destructor (`Busy`), and only completions come in between.
`ConnectCtx` keeps a context whether or not DOCA connected it. `Write` keeps
neither the `Buf`s nor the connection.

What is assumed of DOCA, from how the code uses it: a map is configured only while
it is stopped, and not stopped or destroyed while buffers of it are in use; its
destruction runs the free callback; a context starts only if connected to an
engine, and neither stops with operations in flight nor is destroyed while it
runs; an engine is not destroyed while a context is connected. A refusal ends the
program where the code checks the status; `Exit` leaves the rest of the state
alone, as the process is gone. Besides being one thread the program is only
assumed to keep the `Buf`s of a write until the write completes (`ReturnBuf`).

## 3. What the runs check

| Run | Instance | Result |
|---|---|---|
| `runloop_safety` | 3 operations, 2 clients and the loop, destruction at any time | types, `ListShape`, `PointersLive`, `JoinNeverReturns`, `AtMostOneSignal`, refinement of `TaskQueue` hold |
| `runloop_liveness` | 2 operations, 1 client, fair; destruction, starts and completions at any time and for ever | `StartedCompletes`, `StopHonoured`, `DestructorReturns`, `CompletionsHandled` hold |
| `runloop_forward_progress` | as before; one continuation blocks for the other operation | **violated**: the scheduler reports `concurrent` forward progress, which a single thread does not give |
| `tcp_socket` | messages of 0, 2 and 3 units (the last too large) through a buffer of 2, two connections | `FramesIntact`, `FdLeakOnlyOnReconnect`, refinement of `MessageStream` hold |
| `tcp_documented_prefix` | one end reads a four-byte prefix | **violated**: the code sends eight bytes where its comments say four |
| `buf_handles` | 3 elements, 4 `Buf` objects, 2 `BufInventory` objects | `Accounting`, `SharedSafely`, `NoElementLeak`, `InventoryAccounted` hold |
| `buf_automatic_counting` | the same | **violated**: `get_last_in_list` and the like return uncounted handles |
| `rdma_tasks` | 4 operations, 3 tasks, moved tasks, allocated at any time | `InFlightOwned`, `CompletionsMatch`, `NoTaskLeak`, refinement of `TaskPool` hold |
| `rdma_read_task` | 1 operation, 1 task, copied task | **violated**: a read task is freed before it is submitted |
| `rdma_connect` | descriptors of 3 and 2 units, buffer of 2 | `CallbackFindsUserData`, `ConnectionOwned`, `SetupNeverStuck`, `SetupAdvances`, `NoPeerHangs` hold |
| `rdma_early_value` | the same | **violated**: the value arrives before the connection is established |
| `ownership` | 1 device, 2 `MMap` objects, 2 maps, 2 callbacks, 2 contexts, 1 connection | `OwnedOnce`, `StartedAgrees`, `CookieAlive`, `CallbackRunsAlive`, `MapDevicesOpen`, `ContextsOverOpenDevices`, `NoLateDisconnect`, `WriteResourcesAlive`, refinement of `UniqueOwner` hold |

Bounds and why they are enough:

* Run loop: three operations give every list operation an empty list, a list of
  one and a longer one; two clients and the loop's own continuations are three
  pushers, so a push meets a push and a pop. `MaxCompletions` is 1 completion that
  waits at a time, with no bound on how many arrive: the next one may be there
  whenever the loop polls again, so that polling need not end. Liveness is checked
  with two operations and one client, without symmetry.
* Sockets: the buffer is smaller than a frame, so every prefix and payload can be
  split; two connections suffice for a stale descriptor or stale bytes to meet a
  new connection. One direction of messages is enough, as the directions share
  only the call in progress.
* Buffers: three elements make a list with an inner element; with the caller's own
  handle, `collect_list` needs four. `MaxRaw = 1` reference by hand per element.
* RDMA tasks: four operations for three tasks empty the pool and reuse its tasks.
* Connection: lengths that differ, a buffer that holds the shorter one only, so
  that one peer blocks in `send` until the other has read.
  Nothing else is bounded.
* Ownership: two objects and two maps make every move, assignment and release
  meet a live and an empty partner; two callbacks are an old and a new one. The
  one device is shared by both maps, both contexts and the program, so each of them
  gives it up while others keep it; a second device would share nothing with it
  but the engine's contexts. Two contexts are held by the engine at once, and
  leave it one after the other. `MaxBufs = 1` buffer of a map at a time is enough
  for DOCA to refuse. 1 800 000 states; the theorems are for any number of
  everything.

Deadlock is checked in the runs of the run loop (which stutters explicitly once
it has ended) and of the sockets; the other systems really stop, by `exit(1)` or
because both programs are done.

Fairness. `RunLoop`: every thread keeps running (weak fairness of its steps), a
`std::mutex` does not pass a waiting thread over for ever (strong fairness of the
two lock steps, which are enabled only while the lock is free), user code returns
after finitely many starts (strong fairness of `Return` and `CallbackReturns`), and
the store to `stop_` becomes visible eventually (strong fairness of `CheckStops`).
Nothing makes a client start anything or the hardware complete anything. What the
fair loop promises then depends on premises that the code does not enforce, and
each property states its own:

* `StartedCompletes`, `StopHonoured`: what a continuation starts completes in the
  same `run_some`, whatever else happens. What a client or a callback starts is
  dropped if `run()` sees `stop_` before it gets there (`LoopLeft`), and waits for
  ever if completions keep coming, as the inner loop polls until there is none
  (premise `CompletionsEnd`).
* `DestructorReturns`: `run_some` does not look at `stop_` while it finds
  operations, so a continuation that keeps scheduling itself keeps the destructor
  waiting; so do endless completions (premises `StartsEnd`, `CompletionsEnd`).
* `CompletionsHandled`: `run_some` takes precedence over the progress engine
  (premise `StartsEnd`, alternative `LoopLeft`).

Without any one of these premises and alternatives TLC shows the starved or
dropped operation. `RdmaConnect`: the loop's thread goes on with the step it is
in, unless the socket blocks it (weak fairness of `Handshake`); a call notices
that its peer's end is closed, but other errors need not happen, nor need
establishment, failure and the end of a program. `NoPeerHangs` has the premises
that both programs call `Rdma::connect` and that one whose call threw ends
(`EndsAfterThrow`: the socket stays open until then, and the peer waits on it),
and holds for a socket that buffers one of the two descriptors: with less both
peers block in `send`.

## 4. What is proved

`tlapm` checks the proofs for every value of the constants that satisfies the
modules' `ASSUME`s. Every invariant, action property and refinement the runs check
is stated by a theorem. The refinement of `UniqueOwner` by the inventories of
`BufHandles` is proved and in no run, as the run's `InventoryAccounted` is the invariant
it rests on.

* **`RunLoopProofs`**: `TypeCorrect`, `ListStaysWellFormed` (`ListShape`),
  `NoDanglingPointer` (`PointersLive`), `JoinWaitsForEver`
  (`JoinNeverReturns`), and `RunLoopImplementsTaskQueue`: initial states map to
  initial states and each step to a step of `TaskQueue` or a stutter. `ListShape`
  is not inductive: that a push appends at the right place needs to know who holds
  the lock (`LockInv`), that no two threads push the same operation (`ArgInv`),
  that the queue has no operation twice and contains exactly the queued ones
  (`QueueInv`), and what the loop is running (`CurInv`). `IInv`, at the end of
  `RunLoop`, is their conjunction. `SignalledAtMostOnce` (the action property
  `AtMostOneSignal`): an operation completes exactly when its receiver is
  signalled, at most once for each start, `set_stopped` if and only if the stop was
  requested before `execute_impl` asked, `set_error` from `start()` only. It needs
  that an operation that has not completed was not signalled (`Unsignalled`), which
  holds since a completed one is reused only by a new `connect`. That a signal is
  sent at all is a matter of liveness, and of the loop not being left.
* **`RdmaTasksProofs`**: `TasksInFlightAreOwned`,
  `EveryCompletionFindsItsOperation`, `NoTaskIsLost`, `TypeCorrect`, for tasks that
  are moved (`~Copied`; see the run `rdma_read_task` for the others) and for any
  callers. The invariant says that ownership agrees in both directions, that
  whatever will be freed once more is in the pool or belongs to an operation that
  was allocated in the window (`StaleExposed`), and that tasks in flight and
  started operations correspond. `TasksArePooled` follows from it: `TaskPool` says
  when a task may come back a second time (`Delivered`, `Forget`), and that this is
  the only way to lose one.
* **`RdmaConnectProofs`**: `ConnectionsAreOwned` (`ConnectionOwned`) and
  `CallbacksFindTheirUserData`. The invariant gives, for each phase of a program,
  who owns the connection, what DOCA's state of it is and what has been signalled.
  `TypeCorrect` needs a second invariant: how many units were sent and received in
  each phase (`Counts`). From it follow the two halves of `NoPeerHangs` that are
  not about fairness, for descriptors of any lengths: `PeersNeverBlockEachOther`
  (`SetupNeverStuck`: of two peers that both called, one can go on; it assumes
  that the socket buffers one of the two descriptors, without which both block in
  `send`), and `EachStepAdvancesTheSetup` (`SetupAdvances`: what a peer has left
  to do, a natural number, goes down with each of its steps and up with nobody's).
* **`BufProofs`**: `ReferencesBalance` (`Accounting`), `SharingIsSafe`,
  `NothingLeaks`, `TypeCorrect`, `InventoryIsAccounted`,
  `InventoriesAreOwners`. The balance is inductive together with the types; the work is in
  counting: setting one `Buf` object moves one unit from its old to its new
  element (`CountAfterSet`). `InventoryAccounted` is inductive with the types; its one
  surprise is that no operation of a `Buf` makes an element used that no inventory
  hands out (`UnusedStaysUnused`), so what is used of an inventory without an owner
  are the elements that were stranded in it, and of a destroyed one none.
* **`TcpProofs`**: `TypeCorrect`; `OnlyReconnectionLeaks`
  (`FdLeakOnlyOnReconnect`), which assumes nothing of callers: what is open and
  not referred to is what `connect()` overwrote. `MessagesArriveWhole`
  (`FramesIntact`) is for callers that send and receive no more on a connection
  where a call threw, ends with the same prefix and sizes below `LenMod` (2^32 in
  the code). All three assumptions are needed. What was received is a prefix of what was
  sent, but that says nothing of the units between; the invariant describes them
  (`Links`): each unit on a wire follows the one before it (`Follows`), the first
  follows what the receiver has read of its frame, and the last is what the sender
  has written of its own. So a step at one end is local, and no induction over the
  stream is needed. `Call` says what each call in progress has done;
  `Descriptors` who refers to which descriptor. `SocketsAreMessageStreams` is the
  refinement of `MessageStream`, under the same assumptions: a `receive_dynamic`
  that returns is a step of the stream because `FramesIntact` holds after it; that
  an end joins fresh connections only needs, besides the order of the backlog
  (`Queue`), that the server has not heard of a connection that still waits
  (`Unheard`).
* **`OwnershipProofs`** (with `MMapProofs` for the steps of maps): all nine
  properties of the run `ownership`, from one invariant (`Invariance`). A context
  DOCA has is in one of three places (`ContextsHeld`): held, and its `dev` with it;
  doomed, if idle, and destroyed in the next step of `~Rdma`; or, if running, let go
  of by an engine that is closing and to which it is connected, so that
  `DestroyEngine` can only end the program. Hence no context runs after a
  `~doca_pe_context` that returned. Why no connection is disconnected too late: a
  connection is exported by a running context, and a context starts only when
  connected to the engine (`ConnectionsHold`); the engine, while it is up, holds
  what is connected to it (`ContextsHeld`), so the context has an owner besides the
  connection; and once the engine lets go of it no connection is destroyed any
  more, as the program ends in `~doca_pe_context`. The writes in flight follow their connection's context
  (`FlightsUse`). For maps: an object's devices are those of its map
  (`DevicesHeld`), and a map that buffers were taken from is started.
  `MapsOfAProgram` composes: every behaviour of `Ownership` is one of `MMapSpec`,
  so that what is proved of the maps alone, `MMapsAreOwners`, holds of every
  program (`MapsOfAProgramOwned`).
* **`UniqueOwnerProofs`**: what the abstract specification gives whoever implements
  it: `AlwaysOneOwner` and `GoneForGood`. `MMap` objects (`MMapsAreOwners`) and
  `BufInventory` objects (`InventoriesAreOwners`) do. It only assumes that the
  resources do not contain the value for owning none.

Only model-checked: everything under fairness (the run loop's four liveness
properties and `NoPeerHangs`), as liveness and `ENABLED` are outside what this prover
does. What a recursive function computes for every
input (the list walk `From` of `BufHandles`) cannot be proved by induction here
either; `BufProofs` needs only that its result is a set of elements.

## 5. What is not modelled

* Receiving (`RdmaRecvTask`, `Rdma::recv`): its constructor and destructor are
  declared and never defined, and `recv` returns `just(1)`. `set_stopped` of RDMA
  operations: never sent by the code.
* The loopback test as a composition. Its client never starts its `BufInventory`
  (`test/rdma_loopback.cpp:38`), so DOCA refuses its first buffer (`:84`) and the
  process, which is the server's too, ends: a composed model would stop there. Its
  write also uses a buffer freed before the operation runs (`:143`), which
  `Ownership` excludes as a premise (`ReturnBuf`).
* What the data accessors of `Buf` and the queries of `MMap` return, the memory
  range, permissions and user data of a map, the span `export_rdma` returns (which
  refers to memory of the map, although a comment says it is copied), socket
  options, capabilities, logging; the text of errors; the lock of `check_error`,
  which only orders the last output before `exit`; which device fits the criteria.
* The examples, which print what the API returns, and `immovable`.
* DOCA, the kernel and stdexec themselves. They appear as far as the code relies
  on them, and their definitions are marked external in `PROJECT.json`.
* When the callbacks of a connection find the operation destroyed they read freed
  memory; the model shows the outcome in which nothing comes of it. `TcpSocket`
  leaves out the size wrap at 2^32 in its run, and `RdmaConnect` the framing, which
  `TcpSocket` has. `RunLoop` ends with its context and `RdmaTasks` with the first
  task that is taken from an operation: what a thread does to a destroyed loop, or
  the hardware with a freed task, is undefined.
* Several threads that use the objects of `Ownership` at once. The tests never do,
  and `Rdma`, `MMap` and `ProgressEngine` have no locks.
* The loop's thread waiting for a peer that never calls `Rdma::connect`: nothing
  in the code ends the wait, so there is no property to state beyond
  `NoPeerHangs`, whose premise is that both call. The same goes for a peer whose
  call threw and whose program keeps the socket open.

## 6. Plan

Done: the run loop and its abstract queue; sockets, buffers, RDMA tasks,
connecting; maps, devices, contexts and their ownership; the proof of every
invariant and action property the runs check; and what the components promise each
other, as abstract specifications they are proved to implement. The composition of
`BufHandles` with `RdmaTasks` that was once planned is `Ownership`'s `Write`, `Complete` and `ReturnBuf`, at the
level of maps: what a task needs of an element is that it is not given back.

Left to prove: that a `MessageStream` delivers a prefix of what was sent, as a
theorem of the abstract specification; and for the run loop the safety half of its
liveness, in the way `SetupNeverStuck` and `SetupAdvances` have it for
`Rdma::connect`: a loop with waiting operations always has a next step.

What else would be next needs a change of the code first: the loopback test once it
starts its inventories and keeps its buffers; receiving once it is defined; and,
for a connection delivered when it is established, `ConnectedMeansEstablished` of
`RdmaConnect` as a property that holds.
