-------------------------------- MODULE MMap --------------------------------
(***************************************************************************)
(* mmap.hpp and device.hpp: MMap objects, each the owner of one DOCA memory *)
(* map, and the devices they share with the rest of the program.           *)
(*                                                                         *)
(* An MMap holds what its DOCA map needs for as long as it exists: the     *)
(* callback DOCA has the address of (its cookie) and a pointer to every    *)
(* device of the map.  Devices are shared: one is closed with its last     *)
(* pointer.  The rest of a program that holds devices is in Ownership.     *)
(*                                                                         *)
(* External: the DOCA library.  It refuses to configure a started map, and *)
(* to stop or destroy one that buffers were taken from; it runs the free   *)
(* callback when it destroys a map.  Any call may fail for other reasons.  *)
(***************************************************************************)
EXTENDS Naturals, FiniteSets

CONSTANTS
    Devices,   \* Device objects a program may open
    Objects,   \* MMap objects
    Maps,      \* DOCA's memory maps
    Callbacks, \* FreeCallback objects
    Null,      \* mmap_ == nullptr; no callback; also: the object does not exist
    MaxBufs    \* bound on the buffers taken from one map at a time

ASSUME MMapAssumption ==
    /\ Null \notin Maps \cup Callbacks \cup Devices
    /\ MaxBufs \in Nat

VARIABLES
    obj,      \* obj[o]: the members of MMap o: mmap_, started_,
              \*   free_callback_ and devices_
    map,      \* map[k]: DOCA's map k: its state, devices, their maximum, the
              \*   cookie of its free callback and the buffers in use
    released, \* history: maps that left their object through release()
    leaked,   \* history: maps that their object cleaned up and DOCA kept
    stray,    \* history: maps whose destruction ran a callback that was gone
    opened,   \* the devices that were opened
    held,     \* the devices the program itself holds a pointer to
    alive     \* the program has not called exit(1)

fate == <<released, leaked, stray>>
mmapVars == <<obj, map, fate, opened, held, alive>>

Empty == [mmap |-> Null, started |-> FALSE, callback |-> Null, devices |-> {}]
NoMap == [state |-> "none", devs |-> {}, max |-> 1, cookie |-> Null, bufs |-> 0]
Gone == [NoMap EXCEPT !.state = "destroyed"]

MMapInit ==
    /\ obj = [o \in Objects |-> Empty]
    /\ map = [k \in Maps |-> NoMap]
    /\ released = {} /\ leaked = {} /\ stray = {}
    /\ opened = {} /\ held = {}
    /\ alive = TRUE

\* check_error(): the error is printed and the program ends.
Exit == alive' = FALSE /\ UNCHANGED <<obj, map, fate, opened, held>>

Live(k) == map[k].state \in {"idle", "started"}
Owned(k) == \E o \in Objects : obj[o].mmap = k

\* A setter finds a map, and one that is not started.
Configurable(o) == obj[o].mmap # Null /\ map[obj[o].mmap].state = "idle"

\* The cookie is the address of a callback that was destroyed.
CallbackLost(k) ==
    map[k].cookie # Null /\ \A o \in Objects : obj[o].callback # map[k].cookie

\* A callback no object holds and no map has the address of.
Fresh(cb) == /\ \A o \in Objects : obj[o].callback # cb
             /\ \A k \in Maps : Live(k) => map[k].cookie # cb

-----------------------------------------------------------------------------
(* Faulty variants: the code with one slip each. *)

\* cleanup() resets the callback before it destroys the map.
CleanupResetsFirst(o) ==
    LET k == obj[o].mmap
    IN  /\ map' = IF k = Null THEN map ELSE [map EXCEPT ![k] = Gone]
        /\ stray' = IF k # Null /\ map[k].cookie # Null THEN stray \cup {k} ELSE stray
        /\ UNCHANGED <<released, leaked>>

\* The moved-from object keeps its map.
MovedKeepsSource(o, g) == [obj EXCEPT ![o] = obj[g], ![g].callback = Null]

\* release() forgets devices_.
ReleasedKeepsDevices(o) == [Empty EXCEPT !.devices = obj[o].devices]

\* add_device calls DOCA and forgets the pointer.
PushedNothing(o, d) == obj

\* set_free_callback registers the callback it is about to replace.
NewCookie(o, cb) == obj[o].callback

\* stop() leaves started_ set.
StoppedFlag(o) == obj

-----------------------------------------------------------------------------
(* Helpers: what the member functions do to the objects and to DOCA's map *)

\* cleanup(): stop and destroy, whose statuses are ignored, and then the
\* callback and the devices.  DOCA keeps a map that has buffers in use, or that
\* it fails to destroy for another reason, stopped or not.
Cleanup(o) ==
    LET k == obj[o].mmap
    IN  \/ k = Null /\ UNCHANGED <<map, fate>>
        \/ /\ k # Null /\ map[k].bufs = 0
           /\ map' = [map EXCEPT ![k] = Gone]
           /\ stray' = IF CallbackLost(k) THEN stray \cup {k} ELSE stray
           /\ UNCHANGED <<released, leaked>>
        \/ /\ k # Null
           /\ \/ map' = map
              \/ map[k].bufs = 0 /\ map' = [map EXCEPT ![k].state = "idle"]
           /\ leaked' = leaked \cup {k}
           /\ UNCHANGED <<released, stray>>

Moved(o, g) == [obj EXCEPT ![o] = obj[g], ![g] = Empty]
ReleasedMembers(o) == Empty
Pushed(o, d) == [obj EXCEPT ![o].devices = @ \cup {d}]
Erased(o, d) == [obj EXCEPT ![o].devices = @ \ {d}]
Cookie(o, cb) == cb
Stopped(o) == [obj EXCEPT ![o].started = FALSE]

-----------------------------------------------------------------------------
(* Construction, moves, release and destruction *)

\* MMap() and MMap(span): a new map, for one device.
Construct(o) ==
    /\ alive /\ obj[o] = Empty
    /\ \/ \E k \in Maps :
            /\ map[k].state = "none"
            /\ map' = [map EXCEPT ![k].state = "idle"]
            /\ obj' = [obj EXCEPT ![o].mmap = k]
            /\ UNCHANGED <<fate, opened, held, alive>>
       \/ Exit

\* MMap(user_data, export_desc, ...), create_from_export: started already.
CreateFromExport(o, d) ==
    /\ alive /\ obj[o] = Empty /\ d \in held
    /\ \/ \E k \in Maps :
            /\ map[k].state = "none"
            /\ map' = [map EXCEPT ![k].state = "started", ![k].devs = {d}]
            /\ obj' = [obj EXCEPT ![o] = [mmap |-> k, started |-> TRUE,
                                          callback |-> Null, devices |-> {d}]]
            /\ UNCHANGED <<fate, opened, held, alive>>
       \/ Exit

\* operator=(MMap&&), and the move constructor when o has no map.
MoveAssign(o, g) ==
    /\ alive /\ o # g
    /\ Cleanup(o)
    /\ obj' = Moved(o, g)
    /\ UNCHANGED <<opened, held, alive>>

\* ~MMap
Destroy(o) ==
    /\ alive /\ obj[o].mmap # Null
    /\ Cleanup(o)
    /\ obj' = [obj EXCEPT ![o] = Empty]
    /\ UNCHANGED <<opened, held, alive>>

\* release(): the map is its caller's now; the callback and the pointers to
\* the devices are not.
Release(o) ==
    /\ alive /\ obj[o].mmap # Null
    /\ released' = released \cup {obj[o].mmap}
    /\ obj' = [obj EXCEPT ![o] = ReleasedMembers(o)]
    /\ UNCHANGED <<map, leaked, stray, opened, held, alive>>

\* The caller of release() destroys the map.
DestroyReleased(k) ==
    /\ alive /\ k \in released /\ Live(k) /\ map[k].bufs = 0
    /\ map' = [map EXCEPT ![k] = Gone]
    /\ stray' = IF CallbackLost(k) THEN stray \cup {k} ELSE stray
    /\ UNCHANGED <<obj, released, leaked, opened, held, alive>>

-----------------------------------------------------------------------------
(* Configuration.  On an empty object every one of these ends the program. *)

SetMaxDevices(o, n) ==
    /\ alive
    /\ \/ /\ Configurable(o)
          /\ Cardinality(map[obj[o].mmap].devs) <= n
          /\ map' = [map EXCEPT ![obj[o].mmap].max = n]
          /\ UNCHANGED <<obj, fate, opened, held, alive>>
       \/ Exit

AddDevice(o, d) ==
    LET k == obj[o].mmap
    IN  /\ alive /\ d \in held
        /\ \/ /\ Configurable(o)
              /\ d \notin map[k].devs /\ Cardinality(map[k].devs) < map[k].max
              /\ map' = [map EXCEPT ![k].devs = @ \cup {d}]
              /\ obj' = Pushed(o, d)
              /\ UNCHANGED <<fate, opened, held, alive>>
           \/ Exit

RemoveDevice(o, d) ==
    LET k == obj[o].mmap
    IN  /\ alive /\ d \in held
        /\ \/ /\ Configurable(o)
              /\ d \in map[k].devs
              /\ map' = [map EXCEPT ![k].devs = @ \ {d}]
              /\ obj' = Erased(o, d)
              /\ UNCHANGED <<fate, opened, held, alive>>
           \/ Exit

\* set_free_callback: the old callback is gone before DOCA has the new
\* cookie, but if DOCA refuses it the program ends.
SetFreeCallback(o, cb) ==
    /\ alive /\ Fresh(cb)
    /\ \/ /\ Configurable(o)
          /\ obj' = [obj EXCEPT ![o].callback = cb]
          /\ map' = [map EXCEPT ![obj[o].mmap].cookie = Cookie(o, cb)]
          /\ UNCHANGED <<fate, opened, held, alive>>
       \/ Exit

\* set_memrange, set_dmabuf_memrange, set_dpa_memrange, set_permissions,
\* set_user_data: data of the map, which no property here is about.
SetData(o) == alive /\ ~Configurable(o) /\ Exit

\* start(): nothing to do if started_.
Start(o) ==
    /\ alive /\ ~obj[o].started
    /\ \/ /\ Configurable(o)
          /\ map' = [map EXCEPT ![obj[o].mmap].state = "started"]
          /\ obj' = [obj EXCEPT ![o].started = TRUE]
          /\ UNCHANGED <<fate, opened, held, alive>>
       \/ Exit

\* stop(): nothing to do if not started_, except on an empty object.
Stop(o) ==
    LET k == obj[o].mmap
    IN  /\ alive
        /\ \/ /\ k # Null /\ obj[o].started
              /\ map[k].bufs = 0
              /\ map' = [map EXCEPT ![k].state = "idle"]
              /\ obj' = Stopped(o)
              /\ UNCHANGED <<fate, opened, held, alive>>
           \/ (k # Null => obj[o].started) /\ Exit

\* export_pci, export_rdma, get_dpa_handle and the getters: on an empty object,
\* or if DOCA has no answer, the program ends.
Query(o) == alive /\ Exit

-----------------------------------------------------------------------------
(* Devices, and the buffers of a map *)

\* Device::open_from_pci, open_from_ib_name.
OpenDevice(d) ==
    /\ alive /\ d \notin opened
    /\ \/ /\ opened' = opened \cup {d}
          /\ held' = held \cup {d}
          /\ UNCHANGED <<obj, map, fate, alive>>
       \/ Exit

\* The program gives up its pointer.
DropDevice(d) ==
    /\ alive /\ d \in held
    /\ held' = held \ {d}
    /\ UNCHANGED <<obj, map, fate, opened, alive>>

\* BufInventory::get_buffer_*: DOCA counts the buffers of a started map.
TakeBuf(o) ==
    LET k == obj[o].mmap
    IN  /\ alive /\ k # Null /\ map[k].state = "started"
        /\ map[k].bufs < MaxBufs
        /\ map' = [map EXCEPT ![k].bufs = @ + 1]
        /\ UNCHANGED <<obj, fate, opened, held, alive>>

\* The last Buf of an element of map k is gone.
PutBuf(k) ==
    /\ alive /\ map[k].bufs > 0
    /\ map' = [map EXCEPT ![k].bufs = @ - 1]
    /\ UNCHANGED <<obj, fate, opened, held, alive>>

-----------------------------------------------------------------------------
MMapNext ==
    \/ \E o \in Objects :
         \/ Construct(o) \/ Destroy(o) \/ Release(o)
         \/ SetData(o) \/ Start(o) \/ Stop(o) \/ Query(o) \/ TakeBuf(o)
         \/ \E n \in 1 .. Cardinality(Devices) : SetMaxDevices(o, n)
         \/ \E cb \in Callbacks : SetFreeCallback(o, cb)
         \/ \E g \in Objects : MoveAssign(o, g)
         \/ \E d \in Devices :
              CreateFromExport(o, d) \/ AddDevice(o, d) \/ RemoveDevice(o, d)
    \/ \E k \in Maps : DestroyReleased(k)
    \/ \E d \in Devices : OpenDevice(d) \/ DropDevice(d)

\* What the rest of a program may do here: give a buffer back, and fail.
Elsewhere == (\E k \in Maps : PutBuf(k)) \/ (alive /\ Exit)

MMapSpec == MMapInit /\ [][MMapNext \/ Elsewhere]_mmapVars

-----------------------------------------------------------------------------
(* Properties *)

ObjectTypes == [mmap : Maps \cup {Null}, started : BOOLEAN,
                callback : Callbacks \cup {Null}, devices : SUBSET Devices]
MapTypes == [state : {"none", "idle", "started", "destroyed"}, devs : SUBSET Devices,
             max : Nat, cookie : Callbacks \cup {Null}, bufs : Nat]

MMapTypeOK ==
    /\ obj \in [Objects -> ObjectTypes]
    /\ map \in [Maps -> MapTypes]
    /\ released \subseteq Maps /\ leaked \subseteq Maps /\ stray \subseteq Maps
    /\ opened \subseteq Devices /\ held \subseteq opened
    /\ alive \in BOOLEAN
    /\ \A o \in Objects : obj[o].mmap = Null => obj[o] = Empty

\* Through any moves, assignments, releases and destructions every map DOCA
\* has is one object's, or its caller's since release(), or was left behind by
\* an object that cleaned up, when DOCA refused to destroy it; and no object
\* refers to a map that is gone or somebody else's: a map that is let go of is
\* not forgotten before DOCA was asked to destroy it, nor destroyed twice.
OwnedOnce ==
    /\ \A o, g \in Objects : o # g /\ obj[o].mmap = obj[g].mmap => obj[o].mmap = Null
    /\ \A o \in Objects : obj[o].mmap # Null =>
           Live(obj[o].mmap) /\ obj[o].mmap \notin released \cup leaked
    /\ \A k \in Maps : Live(k) => Owned(k) \/ k \in released \cup leaked
    /\ released \cap leaked = {}

\* started_ agrees with DOCA whatever became of the object: start() and
\* stop(), which trust it, never skip a call that is needed.
StartedAgrees ==
    \A o \in Objects : obj[o].mmap # Null =>
        (obj[o].started <=> map[obj[o].mmap].state = "started")

\* The address DOCA has as the cookie of an owned map is that of the callback
\* its owner holds, also after the callback was replaced or the owner moved.
CookieAlive ==
    \A o \in Objects : obj[o].mmap # Null =>
        map[obj[o].mmap].cookie = obj[o].callback

\* No memory map is destroyed with a callback that is gone already, on any path
\* but release(), which destroys the callback.  (The callback of a leaked map
\* is gone too, but nobody destroys that map any more.)
CallbackRunsAlive == stray \subseteq released

\* What became of map k, in the terms of UniqueOwner.
Standing(k) == CASE map[k].state = "none" -> "unmade"
                 [] map[k].state = "destroyed" -> "gone"
                 [] Live(k) /\ k \in released -> "caller"
                 [] Live(k) /\ k \in leaked -> "lost"
                 [] OTHER -> "owned"

Owners == INSTANCE UniqueOwner WITH
    Resources <- Maps, None <- Null,
    pointer <- [o \in Objects |-> obj[o].mmap],
    state <- [k \in Maps |-> Standing(k)]

\* Whatever a program does with them, MMap objects own their maps as UniqueOwner
\* promises: a map changes hands only by a move or release(), is destroyed once,
\* by whom it belongs to then, and no step does two of these at once.
ImplementsUniqueOwner == Owners!Spec
=============================================================================
