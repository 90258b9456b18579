------------------------------ MODULE MMapProofs ------------------------------
(***************************************************************************)
(* The invariant of the memory maps: every step of MMap keeps the typing,  *)
(* who owns which map, and that an owner's members agree with DOCA.        *)
(***************************************************************************)
EXTENDS MMap, TLAPS

\* A map that was never made is as DOCA will make it, and nobody's.
Unmade ==
    \A k \in Maps : map[k].state = "none" =>
        map[k] = NoMap /\ k \notin released \cup leaked

\* Buffers are taken from started maps only.
BufsStarted == \A k \in Maps : map[k].bufs > 0 => map[k].state = "started"

\* An object has a pointer to every device of its map.
DevicesHeld ==
    \A o \in Objects : obj[o].mmap # Null =>
        map[obj[o].mmap].devs \subseteq obj[o].devices

MMapInv ==
    /\ MMapTypeOK /\ OwnedOnce /\ StartedAgrees /\ CookieAlive /\ CallbackRunsAlive
    /\ Unmade /\ BufsStarted /\ DevicesHeld

LEMMA Records ==
    /\ Empty \in ObjectTypes /\ NoMap \in MapTypes /\ Gone \in MapTypes
    /\ Empty.mmap = Null /\ Gone.state = "destroyed" /\ Gone.bufs = 0
  BY DEF Empty, NoMap, Gone, ObjectTypes, MapTypes

LEMMA MMapInitInv == MMapInit => MMapInv
  BY MMapAssumption, Records
  DEF MMapInit, MMapInv, MMapTypeOK, OwnedOnce, StartedAgrees, CookieAlive,
      CallbackRunsAlive, Unmade, BufsStarted, DevicesHeld, Empty, NoMap, Live, Owned

\* The end of the program changes nothing the invariant is about.
LEMMA ExitInv ==
    ASSUME MMapInv, alive' \in BOOLEAN, UNCHANGED <<obj, map, fate, opened, held>>
    PROVE  MMapInv'
  BY DEF MMapInv, MMapTypeOK, OwnedOnce, StartedAgrees, CookieAlive, fate,
      CallbackRunsAlive, Unmade, BufsStarted, DevicesHeld, Live, Owned

-----------------------------------------------------------------------------
(* Steps of an object and its own map *)

\* It is enough that the two still agree afterwards.
LEMMA OwnerStep ==
    ASSUME MMapInv, NEW o \in Objects, NEW k \in Maps, obj[o].mmap = k,
           obj' \in [Objects -> ObjectTypes], map' \in [Maps -> MapTypes],
           \A p \in Objects : p # o => obj'[p] = obj[p],
           \A q \in Maps : q # k => map'[q] = map[q],
           obj'[o].mmap = k, map'[k].state \in {"idle", "started"},
           obj'[o].started <=> map'[k].state = "started",
           map'[k].cookie = obj'[o].callback,
           map'[k].devs \subseteq obj'[o].devices,
           map'[k].bufs > 0 => map'[k].state = "started",
           UNCHANGED <<fate, opened, held, alive>>
    PROVE  MMapInv'
  <1> USE DEF MMapInv, fate, Live, Owned
  <1>1. k # Null
    BY MMapAssumption
  <1>2. MMapTypeOK'
    BY <1>1 DEF MMapTypeOK, Empty
  <1>3. OwnedOnce'
    BY <1>1 DEF OwnedOnce, MMapTypeOK, ObjectTypes
  <1>4. StartedAgrees' /\ CookieAlive' /\ DevicesHeld'
    BY <1>1 DEF OwnedOnce, StartedAgrees, CookieAlive, DevicesHeld, MMapTypeOK, ObjectTypes
  <1>5. CallbackRunsAlive' /\ BufsStarted'
    BY DEF CallbackRunsAlive, BufsStarted
  <1>6. Unmade'
    BY DEF Unmade
  <1> QED BY <1>2, <1>3, <1>4, <1>5, <1>6

\* The same for an object that takes a new map.
LEMMA NewOwner ==
    ASSUME MMapInv, NEW o \in Objects, NEW k \in Maps,
           obj[o] = Empty, map[k].state = "none",
           obj' \in [Objects -> ObjectTypes], map' \in [Maps -> MapTypes],
           \A p \in Objects : p # o => obj'[p] = obj[p],
           \A q \in Maps : q # k => map'[q] = map[q],
           obj'[o].mmap = k, map'[k].state \in {"idle", "started"},
           obj'[o].started <=> map'[k].state = "started",
           map'[k].cookie = obj'[o].callback,
           map'[k].devs \subseteq obj'[o].devices,
           map'[k].bufs = 0,
           UNCHANGED <<fate, opened, held, alive>>
    PROVE  MMapInv'
  <1> USE DEF MMapInv, fate, Live, Owned
  <1>1. k # Null /\ \A p \in Objects : obj[p].mmap # k
    BY MMapAssumption DEF OwnedOnce
  <1>2. MMapTypeOK'
    BY <1>1 DEF MMapTypeOK, Empty
  <1>3. OwnedOnce'
    <2>1. \A q \in Maps : Live(q)' => Owned(q)' \/ q \in released' \cup leaked'
      <3> SUFFICES ASSUME NEW q \in Maps, Live(q)'
                   PROVE  Owned(q)' \/ q \in released \cup leaked
        OBVIOUS
      <3>1. CASE q = k
        BY <3>1
      <3>2. CASE q # k
        <4>1. Live(q) /\ q # Null
          BY <3>2, MMapAssumption
        <4>2. ASSUME NEW p \in Objects, obj[p].mmap = q
              PROVE  obj'[p].mmap = q
          BY <4>1, <4>2, Records
        <4> QED BY <4>1, <4>2 DEF OwnedOnce
      <3> QED BY <3>1, <3>2
    <2>2. \A p, g \in Objects : p # g /\ obj'[p].mmap = obj'[g].mmap => obj'[p].mmap = Null
      BY <1>1, Records DEF OwnedOnce
    <2>3. \A p \in Objects : obj'[p].mmap # Null =>
             Live(obj[p].mmap)' /\ obj'[p].mmap \notin released' \cup leaked'
      BY <1>1 DEF OwnedOnce, Unmade, MMapTypeOK, ObjectTypes
    <2> QED BY <2>1, <2>2, <2>3 DEF OwnedOnce
  <1>4. StartedAgrees' /\ CookieAlive' /\ DevicesHeld'
    BY <1>1 DEF OwnedOnce, StartedAgrees, CookieAlive, DevicesHeld, MMapTypeOK, ObjectTypes
  <1>5. CallbackRunsAlive' /\ BufsStarted' /\ Unmade'
    BY DEF CallbackRunsAlive, BufsStarted, Unmade, MMapTypeOK, MapTypes
  <1> QED BY <1>2, <1>3, <1>4, <1>5

LEMMA ConstructInv ==
    ASSUME MMapInv, NEW o \in Objects, Construct(o)
    PROVE  MMapInv'
  <1>1. CASE Exit
    BY <1>1, ExitInv DEF Exit
  <1>2. CASE ~Exit
    <2>1. PICK k \in Maps :
            /\ obj[o] = Empty /\ map[k].state = "none"
            /\ map' = [map EXCEPT ![k].state = "idle"]
            /\ obj' = [obj EXCEPT ![o].mmap = k]
            /\ UNCHANGED <<fate, opened, held, alive>>
      BY <1>2 DEF Construct
    <2>2. map[k] = NoMap
      BY <2>1 DEF MMapInv, Unmade
    <2>3. /\ map'[k] = [NoMap EXCEPT !.state = "idle"] /\ map'[k] \in MapTypes
          /\ map' \in [Maps -> MapTypes]
      <3>1. map'[k] = [NoMap EXCEPT !.state = "idle"]
        BY <2>1, <2>2 DEF MMapInv, MMapTypeOK
      <3>2. [NoMap EXCEPT !.state = "idle"] \in MapTypes
        BY DEF NoMap, MapTypes
      <3>3. map' \in [Maps -> MapTypes]
        BY <2>1, <2>2, <3>2 DEF MMapInv, MMapTypeOK
      <3> QED BY <3>1, <3>2, <3>3
    <2>4. /\ obj'[o] = [Empty EXCEPT !.mmap = k] /\ obj'[o] \in ObjectTypes
          /\ obj' \in [Objects -> ObjectTypes]
      BY <2>1, Records DEF MMapInv, MMapTypeOK, Empty, ObjectTypes
    <2>5. /\ map'[k].state = "idle" /\ map'[k].cookie = Null
          /\ map'[k].devs = {} /\ map'[k].bufs = 0
          /\ obj'[o].mmap = k /\ ~obj'[o].started
          /\ obj'[o].callback = Null /\ obj'[o].devices = {}
      BY <2>3, <2>4 DEF NoMap, Empty
    <2>6. /\ \A p \in Objects : p # o => obj'[p] = obj[p]
          /\ \A q \in Maps : q # k => map'[q] = map[q]
      BY <2>1 DEF MMapInv, MMapTypeOK
    <2> QED BY <2>1, <2>3, <2>4, <2>5, <2>6, NewOwner
  <1> QED BY <1>1, <1>2

LEMMA CreateFromExportInv ==
    ASSUME MMapInv, NEW o \in Objects, NEW d \in Devices, CreateFromExport(o, d)
    PROVE  MMapInv'
  <1>1. CASE Exit
    BY <1>1, ExitInv DEF Exit
  <1>2. CASE ~Exit
    <2>1. PICK k \in Maps :
            /\ obj[o] = Empty /\ map[k].state = "none"
            /\ map' = [map EXCEPT ![k].state = "started", ![k].devs = {d}]
            /\ obj' = [obj EXCEPT ![o] = [mmap |-> k, started |-> TRUE,
                                          callback |-> Null, devices |-> {d}]]
            /\ UNCHANGED <<fate, opened, held, alive>>
      BY <1>2 DEF CreateFromExport
    <2>2. map[k] = NoMap
      BY <2>1 DEF MMapInv, Unmade
    <2>3. /\ map'[k] = [NoMap EXCEPT !.state = "started", !.devs = {d}]
          /\ map'[k] \in MapTypes /\ map' \in [Maps -> MapTypes]
      <3>1. map'[k] = [NoMap EXCEPT !.state = "started", !.devs = {d}]
        BY <2>1, <2>2 DEF MMapInv, MMapTypeOK
      <3>2. [NoMap EXCEPT !.state = "started", !.devs = {d}] \in MapTypes
        BY DEF NoMap, MapTypes
      <3>3. map' \in [Maps -> MapTypes]
        BY <2>1, <2>2, <3>2 DEF MMapInv, MMapTypeOK
      <3> QED BY <3>1, <3>2, <3>3
    <2>4. /\ obj'[o] \in ObjectTypes /\ obj' \in [Objects -> ObjectTypes]
      BY <2>1 DEF MMapInv, MMapTypeOK, ObjectTypes
    <2>5. /\ map'[k].state = "started" /\ map'[k].cookie = Null
          /\ map'[k].devs = {d} /\ map'[k].bufs = 0
          /\ obj'[o].mmap = k /\ obj'[o].started
          /\ obj'[o].callback = Null /\ obj'[o].devices = {d}
      BY <2>1, <2>3 DEF NoMap, MMapInv, MMapTypeOK
    <2>6. /\ \A p \in Objects : p # o => obj'[p] = obj[p]
          /\ \A q \in Maps : q # k => map'[q] = map[q]
      BY <2>1 DEF MMapInv, MMapTypeOK
    <2> QED BY <2>1, <2>3, <2>4, <2>5, <2>6, NewOwner
  <1> QED BY <1>1, <1>2

-----------------------------------------------------------------------------
(* cleanup() *)

\* DOCA kept map k; it may have stopped it.
LeftBehind(k) ==
    /\ map'[k].state \in {map[k].state, "idle"} /\ map'[k].bufs = map[k].bufs
    /\ map[k].bufs > 0 => map'[k].state = map[k].state

LEMMA CleanupEffect ==
    ASSUME MMapInv, NEW o \in Objects, NEW k, k = obj[o].mmap, Cleanup(o)
    PROVE  /\ map' \in [Maps -> MapTypes] /\ released' = released
           /\ leaked' \subseteq Maps /\ stray' \subseteq released
           /\ k = Null => map' = map /\ leaked' = leaked
           /\ k # Null =>
                /\ k \in Maps
                /\ \A q \in Maps : q # k => map'[q] = map[q]
                /\ \/ map'[k] = Gone /\ leaked' = leaked /\ map[k].bufs = 0
                   \/ LeftBehind(k) /\ leaked' = leaked \cup {k}
  <1> USE DEF MMapInv, MMapTypeOK, CallbackRunsAlive, fate
  <1>1. CASE k = Null
    BY <1>1 DEF Cleanup
  <1>2. CASE k # Null
    <2>1. k \in Maps /\ map[k].bufs \in Nat /\ ~CallbackLost(k)
      BY <1>2 DEF ObjectTypes, MapTypes, CallbackLost, CookieAlive
    <2>2. map' \in [Maps -> MapTypes]
      <3>1. [map[k] EXCEPT !.state = "idle"] \in MapTypes
        BY <2>1 DEF MapTypes
      <3> QED BY <1>2, <2>1, <3>1, Records DEF Cleanup
    <2>3. \/ map'[k] = Gone /\ leaked' = leaked /\ map[k].bufs = 0
          \/ LeftBehind(k) /\ leaked' = leaked \cup {k}
      <3>1. [map[k] EXCEPT !.state = "idle"].bufs = map[k].bufs
        BY <2>1 DEF MapTypes
      <3> QED BY <1>2, <2>1, <3>1 DEF Cleanup, LeftBehind, MapTypes
    <2> QED BY <1>2, <2>1, <2>2, <2>3 DEF Cleanup
  <1> QED BY <1>1, <1>2

LEMMA DestroyInv ==
    ASSUME MMapInv, NEW o \in Objects, Destroy(o)
    PROVE  MMapInv'
  <1> DEFINE k == obj[o].mmap
  <1>1. /\ k # Null /\ k \in Maps
        /\ obj' \in [Objects -> ObjectTypes] /\ obj'[o] = Empty
        /\ \A p \in Objects : p # o => obj'[p] = obj[p] /\ obj[p].mmap # k
        /\ UNCHANGED <<opened, held, alive>>
    BY Records DEF Destroy, MMapInv, MMapTypeOK, OwnedOnce, ObjectTypes
  <1>2. /\ map' \in [Maps -> MapTypes] /\ released' = released
        /\ leaked' \subseteq Maps /\ stray' \subseteq released
        /\ \A q \in Maps : q # k => map'[q] = map[q]
        /\ \/ map'[k] = Gone /\ leaked' = leaked /\ map[k].bufs = 0
           \/ LeftBehind(k) /\ leaked' = leaked \cup {k}
    BY <1>1, CleanupEffect DEF Destroy
  <1> USE <1>1, <1>2, Records DEF MMapInv, Live, Owned, LeftBehind
  <1>3. MMapTypeOK'
    BY DEF MMapTypeOK
  <1>4. OwnedOnce'
    <2>1. \A q \in Maps : Live(q)' => Owned(q)' \/ q \in released' \cup leaked'
      <3> SUFFICES ASSUME NEW q \in Maps, Live(q)', q \notin released \cup leaked'
                   PROVE  Owned(q)'
        OBVIOUS
      <3>1. q # k /\ Live(q)
        OBVIOUS
      <3> QED BY <3>1 DEF OwnedOnce
    <2>2. \A p, g \in Objects : p # g /\ obj'[p].mmap = obj'[g].mmap => obj'[p].mmap = Null
      BY DEF OwnedOnce
    <2>3. \A p \in Objects : obj'[p].mmap # Null =>
             Live(obj[p].mmap)' /\ obj'[p].mmap \notin released' \cup leaked'
      BY DEF OwnedOnce, MMapTypeOK, ObjectTypes
    <2>4. released' \cap leaked' = {}
      BY DEF OwnedOnce
    <2> QED BY <2>1, <2>2, <2>3, <2>4 DEF OwnedOnce
  <1>5. StartedAgrees' /\ CookieAlive' /\ DevicesHeld'
    <2> SUFFICES ASSUME NEW p \in Objects, obj'[p].mmap # Null
                 PROVE  /\ obj'[p].started <=> map'[obj'[p].mmap].state = "started"
                        /\ map'[obj'[p].mmap].cookie = obj'[p].callback
                        /\ map'[obj'[p].mmap].devs \subseteq obj'[p].devices
      BY DEF StartedAgrees, CookieAlive, DevicesHeld
    <2>1. obj'[p] = obj[p] /\ map'[obj[p].mmap] = map[obj[p].mmap]
      BY DEF MMapTypeOK, ObjectTypes
    <2> QED BY <2>1 DEF StartedAgrees, CookieAlive, DevicesHeld
  <1>6. CallbackRunsAlive' /\ BufsStarted' /\ Unmade'
    BY DEF CallbackRunsAlive, BufsStarted, Unmade, OwnedOnce
  <1> QED BY <1>3, <1>4, <1>5, <1>6

LEMMA MoveAssignInv ==
    ASSUME MMapInv, NEW o \in Objects, NEW g \in Objects, MoveAssign(o, g)
    PROVE  MMapInv'
  <1> DEFINE k == obj[o].mmap
  <1>1. /\ o # g /\ obj' \in [Objects -> ObjectTypes]
        /\ obj'[o] = obj[g] /\ obj'[g] = Empty
        /\ \A p \in Objects : p # o /\ p # g => obj'[p] = obj[p]
        /\ UNCHANGED <<opened, held, alive>>
    BY Records DEF MoveAssign, Moved, MMapInv, MMapTypeOK
  <1>2. \A p \in Objects : k # Null /\ p # o => obj[p].mmap # k
    BY DEF MMapInv, OwnedOnce
  <1>3. /\ map' \in [Maps -> MapTypes] /\ released' = released
        /\ leaked' \subseteq Maps /\ stray' \subseteq released
        /\ k = Null => map' = map /\ leaked' = leaked
        /\ k # Null =>
             /\ k \in Maps
             /\ \A q \in Maps : q # k => map'[q] = map[q]
             /\ \/ map'[k] = Gone /\ leaked' = leaked /\ map[k].bufs = 0
                \/ LeftBehind(k) /\ leaked' = leaked \cup {k}
    BY CleanupEffect DEF MoveAssign
  <1> USE <1>1, <1>2, <1>3, Records DEF MMapInv, Live, Owned, LeftBehind
  <1>4. MMapTypeOK'
    BY DEF MMapTypeOK
  <1>5. OwnedOnce'
    <2>1. \A q \in Maps : Live(q)' => Owned(q)' \/ q \in released' \cup leaked'
      <3> SUFFICES ASSUME NEW q \in Maps, Live(q)', q \notin released \cup leaked'
                   PROVE  Owned(q)'
        OBVIOUS
      <3>1. q # k /\ q # Null /\ Live(q)
        BY MMapAssumption
      <3>2. PICK p \in Objects : obj[p].mmap = q
        BY <3>1 DEF OwnedOnce
      <3>3. CASE p = g
        BY <3>2, <3>3
      <3>4. CASE p # g
        BY <3>1, <3>2, <3>4
      <3> QED BY <3>3, <3>4
    <2>2. \A p, q \in Objects : p # q /\ obj'[p].mmap = obj'[q].mmap => obj'[p].mmap = Null
      BY DEF OwnedOnce
    <2>3. \A p \in Objects : obj'[p].mmap # Null =>
             Live(obj[p].mmap)' /\ obj'[p].mmap \notin released' \cup leaked'
      BY DEF OwnedOnce, MMapTypeOK, ObjectTypes
    <2>4. released' \cap leaked' = {}
      BY DEF OwnedOnce
    <2> QED BY <2>1, <2>2, <2>3, <2>4 DEF OwnedOnce
  <1>6. StartedAgrees' /\ CookieAlive' /\ DevicesHeld'
    <2> SUFFICES ASSUME NEW p \in Objects, obj'[p].mmap # Null
                 PROVE  /\ obj'[p].started <=> map'[obj'[p].mmap].state = "started"
                        /\ map'[obj'[p].mmap].cookie = obj'[p].callback
                        /\ map'[obj'[p].mmap].devs \subseteq obj'[p].devices
      BY DEF StartedAgrees, CookieAlive, DevicesHeld
    <2>1. PICK q \in Objects : obj'[p] = obj[q] /\ map'[obj[q].mmap] = map[obj[q].mmap]
      BY DEF MMapTypeOK, ObjectTypes
    <2> QED BY <2>1 DEF StartedAgrees, CookieAlive, DevicesHeld
  <1>7. CallbackRunsAlive' /\ BufsStarted' /\ Unmade'
    BY DEF CallbackRunsAlive, BufsStarted, Unmade, OwnedOnce
  <1> QED BY <1>4, <1>5, <1>6, <1>7

-----------------------------------------------------------------------------
(* Configuration, starting and stopping *)

LEMMA SetMaxDevicesInv ==
    ASSUME MMapInv, NEW o \in Objects, NEW n \in Nat, SetMaxDevices(o, n)
    PROVE  MMapInv'
  <1> DEFINE k == obj[o].mmap
  <1>1. CASE Exit
    BY <1>1, ExitInv DEF Exit
  <1>2. CASE ~Exit
    <2>1. /\ k # Null /\ k \in Maps /\ Live(k)
          /\ map[k] \in MapTypes /\ obj[o] \in ObjectTypes
          /\ UNCHANGED <<fate, opened, held, alive>>
      BY <1>2 DEF SetMaxDevices, Configurable, MMapInv, MMapTypeOK, ObjectTypes, Live
    <2>2. /\ map'[k] = [map[k] EXCEPT !.max = n]
          /\ map'[k] \in MapTypes /\ map' \in [Maps -> MapTypes]
          /\ \A q \in Maps : q # k => map'[q] = map[q]
      BY <1>2, <2>1 DEF SetMaxDevices, MMapInv, MMapTypeOK, MapTypes
    <2>3. /\ obj'[o] = obj[o]
          /\ obj'[o] \in ObjectTypes /\ obj' \in [Objects -> ObjectTypes]
          /\ \A p \in Objects : p # o => obj'[p] = obj[p]
      BY <1>2, <2>1 DEF SetMaxDevices, MMapInv, MMapTypeOK, ObjectTypes
    <2>4. /\ obj[o].started <=> map[k].state = "started"
          /\ map[k].cookie = obj[o].callback
          /\ map[k].devs \subseteq obj[o].devices
          /\ map[k].bufs > 0 => map[k].state = "started"
      BY <2>1 DEF MMapInv, StartedAgrees, CookieAlive, DevicesHeld, BufsStarted
    <2>5. /\ obj'[o].mmap = k /\ map'[k].state \in {"idle", "started"}
          /\ obj'[o].started <=> map'[k].state = "started"
          /\ map'[k].cookie = obj'[o].callback
          /\ map'[k].devs \subseteq obj'[o].devices
          /\ map'[k].bufs > 0 => map'[k].state = "started"
      BY <2>1, <2>2, <2>3, <2>4 DEF Live, MapTypes, ObjectTypes
    <2> QED BY <2>1, <2>2, <2>3, <2>5, OwnerStep
  <1> QED BY <1>1, <1>2

LEMMA AddDeviceInv ==
    ASSUME MMapInv, NEW o \in Objects, NEW d \in Devices, AddDevice(o, d)
    PROVE  MMapInv'
  <1> DEFINE k == obj[o].mmap
  <1>1. CASE Exit
    BY <1>1, ExitInv DEF Exit
  <1>2. CASE ~Exit
    <2>1. /\ k # Null /\ k \in Maps /\ Live(k)
          /\ map[k] \in MapTypes /\ obj[o] \in ObjectTypes
          /\ UNCHANGED <<fate, opened, held, alive>>
      BY <1>2 DEF AddDevice, Configurable, MMapInv, MMapTypeOK, ObjectTypes, Live, Pushed
    <2>2. /\ map'[k] = [map[k] EXCEPT !.devs = @ \cup {d}]
          /\ map'[k] \in MapTypes /\ map' \in [Maps -> MapTypes]
          /\ \A q \in Maps : q # k => map'[q] = map[q]
      BY <1>2, <2>1 DEF AddDevice, MMapInv, MMapTypeOK, MapTypes, Pushed
    <2>3. [obj[o] EXCEPT !.devices = @ \cup {d}] \in ObjectTypes
      BY <2>1 DEF ObjectTypes
    <2>4. /\ obj'[o] = [obj[o] EXCEPT !.devices = @ \cup {d}]
          /\ obj' \in [Objects -> ObjectTypes]
          /\ \A p \in Objects : p # o => obj'[p] = obj[p]
      BY <1>2, <2>1, <2>3 DEF AddDevice, MMapInv, MMapTypeOK, Pushed
    <2>5. /\ obj[o].started <=> map[k].state = "started"
          /\ map[k].cookie = obj[o].callback
          /\ map[k].devs \subseteq obj[o].devices
          /\ map[k].bufs > 0 => map[k].state = "started"
      BY <2>1 DEF MMapInv, StartedAgrees, CookieAlive, DevicesHeld, BufsStarted
    <2>6. /\ obj'[o].mmap = k /\ map'[k].state \in {"idle", "started"}
          /\ obj'[o].started <=> map'[k].state = "started"
          /\ map'[k].cookie = obj'[o].callback
          /\ map'[k].devs \subseteq obj'[o].devices
          /\ map'[k].bufs > 0 => map'[k].state = "started"
      BY <2>1, <2>2, <2>3, <2>4, <2>5 DEF Live, MapTypes, ObjectTypes
    <2> QED BY <2>1, <2>2, <2>3, <2>4, <2>6, OwnerStep
  <1> QED BY <1>1, <1>2

LEMMA RemoveDeviceInv ==
    ASSUME MMapInv, NEW o \in Objects, NEW d \in Devices, RemoveDevice(o, d)
    PROVE  MMapInv'
  <1> DEFINE k == obj[o].mmap
  <1>1. CASE Exit
    BY <1>1, ExitInv DEF Exit
  <1>2. CASE ~Exit
    <2>1. /\ k # Null /\ k \in Maps /\ Live(k)
          /\ map[k] \in MapTypes /\ obj[o] \in ObjectTypes
          /\ UNCHANGED <<fate, opened, held, alive>>
      BY <1>2 DEF RemoveDevice, Configurable, MMapInv, MMapTypeOK, ObjectTypes, Live, Erased
    <2>2. /\ map'[k] = [map[k] EXCEPT !.devs = @ \ {d}]
          /\ map'[k] \in MapTypes /\ map' \in [Maps -> MapTypes]
          /\ \A q \in Maps : q # k => map'[q] = map[q]
      BY <1>2, <2>1 DEF RemoveDevice, MMapInv, MMapTypeOK, MapTypes, Erased
    <2>3. [obj[o] EXCEPT !.devices = @ \ {d}] \in ObjectTypes
      BY <2>1 DEF ObjectTypes
    <2>4. /\ obj'[o] = [obj[o] EXCEPT !.devices = @ \ {d}]
          /\ obj' \in [Objects -> ObjectTypes]
          /\ \A p \in Objects : p # o => obj'[p] = obj[p]
      BY <1>2, <2>1, <2>3 DEF RemoveDevice, MMapInv, MMapTypeOK, Erased
    <2>5. /\ obj[o].started <=> map[k].state = "started"
          /\ map[k].cookie = obj[o].callback
          /\ map[k].devs \subseteq obj[o].devices
          /\ map[k].bufs > 0 => map[k].state = "started"
      BY <2>1 DEF MMapInv, StartedAgrees, CookieAlive, DevicesHeld, BufsStarted
    <2>6. /\ obj'[o].mmap = k /\ map'[k].state \in {"idle", "started"}
          /\ obj'[o].started <=> map'[k].state = "started"
          /\ map'[k].cookie = obj'[o].callback
          /\ map'[k].devs \subseteq obj'[o].devices
          /\ map'[k].bufs > 0 => map'[k].state = "started"
      BY <2>1, <2>2, <2>3, <2>4, <2>5 DEF Live, MapTypes, ObjectTypes
    <2> QED BY <2>1, <2>2, <2>3, <2>4, <2>6, OwnerStep
  <1> QED BY <1>1, <1>2

LEMMA SetFreeCallbackInv ==
    ASSUME MMapInv, NEW o \in Objects, NEW cb \in Callbacks, SetFreeCallback(o, cb)
    PROVE  MMapInv'
  <1> DEFINE k == obj[o].mmap
  <1>1. CASE Exit
    BY <1>1, ExitInv DEF Exit
  <1>2. CASE ~Exit
    <2>1. /\ k # Null /\ k \in Maps /\ Live(k)
          /\ map[k] \in MapTypes /\ obj[o] \in ObjectTypes
          /\ UNCHANGED <<fate, opened, held, alive>>
      BY <1>2 DEF SetFreeCallback, Configurable, MMapInv, MMapTypeOK, ObjectTypes, Live, Cookie
    <2>2. /\ map'[k] = [map[k] EXCEPT !.cookie = cb]
          /\ map'[k] \in MapTypes /\ map' \in [Maps -> MapTypes]
          /\ \A q \in Maps : q # k => map'[q] = map[q]
      BY <1>2, <2>1 DEF SetFreeCallback, MMapInv, MMapTypeOK, MapTypes, Cookie
    <2>3. [obj[o] EXCEPT !.callback = cb] \in ObjectTypes
      BY <2>1 DEF ObjectTypes
    <2>4. /\ obj'[o] = [obj[o] EXCEPT !.callback = cb]
          /\ obj' \in [Objects -> ObjectTypes]
          /\ \A p \in Objects : p # o => obj'[p] = obj[p]
      BY <1>2, <2>1, <2>3 DEF SetFreeCallback, MMapInv, MMapTypeOK, Cookie
    <2>5. /\ obj[o].started <=> map[k].state = "started"
          /\ map[k].cookie = obj[o].callback
          /\ map[k].devs \subseteq obj[o].devices
          /\ map[k].bufs > 0 => map[k].state = "started"
      BY <2>1 DEF MMapInv, StartedAgrees, CookieAlive, DevicesHeld, BufsStarted
    <2>6. /\ obj'[o].mmap = k /\ map'[k].state \in {"idle", "started"}
          /\ obj'[o].started <=> map'[k].state = "started"
          /\ map'[k].cookie = obj'[o].callback
          /\ map'[k].devs \subseteq obj'[o].devices
          /\ map'[k].bufs > 0 => map'[k].state = "started"
      BY <2>1, <2>2, <2>3, <2>4, <2>5 DEF Live, MapTypes, ObjectTypes
    <2> QED BY <2>1, <2>2, <2>3, <2>4, <2>6, OwnerStep
  <1> QED BY <1>1, <1>2

LEMMA StartInv ==
    ASSUME MMapInv, NEW o \in Objects, Start(o)
    PROVE  MMapInv'
  <1> DEFINE k == obj[o].mmap
  <1>1. CASE Exit
    BY <1>1, ExitInv DEF Exit
  <1>2. CASE ~Exit
    <2>1. /\ k # Null /\ k \in Maps /\ Live(k)
          /\ map[k] \in MapTypes /\ obj[o] \in ObjectTypes
          /\ UNCHANGED <<fate, opened, held, alive>>
      BY <1>2 DEF Start, Configurable, MMapInv, MMapTypeOK, ObjectTypes, Live
    <2>2. /\ map'[k] = [map[k] EXCEPT !.state = "started"]
          /\ map'[k] \in MapTypes /\ map' \in [Maps -> MapTypes]
          /\ \A q \in Maps : q # k => map'[q] = map[q]
      BY <1>2, <2>1 DEF Start, MMapInv, MMapTypeOK, MapTypes
    <2>3. [obj[o] EXCEPT !.started = TRUE] \in ObjectTypes
      BY <2>1 DEF ObjectTypes
    <2>4. /\ obj'[o] = [obj[o] EXCEPT !.started = TRUE]
          /\ obj' \in [Objects -> ObjectTypes]
          /\ \A p \in Objects : p # o => obj'[p] = obj[p]
      BY <1>2, <2>1, <2>3 DEF Start, MMapInv, MMapTypeOK
    <2>5. /\ obj[o].started <=> map[k].state = "started"
          /\ map[k].cookie = obj[o].callback
          /\ map[k].devs \subseteq obj[o].devices
          /\ map[k].bufs > 0 => map[k].state = "started"
      BY <2>1 DEF MMapInv, StartedAgrees, CookieAlive, DevicesHeld, BufsStarted
    <2>6. /\ obj'[o].mmap = k /\ map'[k].state \in {"idle", "started"}
          /\ obj'[o].started <=> map'[k].state = "started"
          /\ map'[k].cookie = obj'[o].callback
          /\ map'[k].devs \subseteq obj'[o].devices
          /\ map'[k].bufs > 0 => map'[k].state = "started"
      BY <2>1, <2>2, <2>3, <2>4, <2>5 DEF Live, MapTypes, ObjectTypes
    <2> QED BY <2>1, <2>2, <2>3, <2>4, <2>6, OwnerStep
  <1> QED BY <1>1, <1>2

LEMMA StopInv ==
    ASSUME MMapInv, NEW o \in Objects, Stop(o)
    PROVE  MMapInv'
  <1> DEFINE k == obj[o].mmap
  <1>1. CASE Exit
    BY <1>1, ExitInv DEF Exit
  <1>2. CASE ~Exit
    <2>1. /\ k # Null /\ k \in Maps /\ Live(k)
          /\ map[k] \in MapTypes /\ obj[o] \in ObjectTypes
          /\ map[k].bufs = 0
          /\ UNCHANGED <<fate, opened, held, alive>>
      BY <1>2 DEF Stop, Configurable, MMapInv, MMapTypeOK, ObjectTypes, Live, Stopped, OwnedOnce
    <2>2. /\ map'[k] = [map[k] EXCEPT !.state = "idle"]
          /\ map'[k] \in MapTypes /\ map' \in [Maps -> MapTypes]
          /\ \A q \in Maps : q # k => map'[q] = map[q]
      BY <1>2, <2>1 DEF Stop, MMapInv, MMapTypeOK, MapTypes, Stopped, OwnedOnce
    <2>3. [obj[o] EXCEPT !.started = FALSE] \in ObjectTypes
      BY <2>1 DEF ObjectTypes
    <2>4. /\ obj'[o] = [obj[o] EXCEPT !.started = FALSE]
          /\ obj' \in [Objects -> ObjectTypes]
          /\ \A p \in Objects : p # o => obj'[p] = obj[p]
      BY <1>2, <2>1, <2>3 DEF Stop, Stopped, MMapInv, MMapTypeOK
    <2>5. /\ obj[o].started <=> map[k].state = "started"
          /\ map[k].cookie = obj[o].callback
          /\ map[k].devs \subseteq obj[o].devices
          /\ map[k].bufs > 0 => map[k].state = "started"
      BY <2>1 DEF MMapInv, StartedAgrees, CookieAlive, DevicesHeld, BufsStarted
    <2>6. /\ obj'[o].mmap = k /\ map'[k].state \in {"idle", "started"}
          /\ obj'[o].started <=> map'[k].state = "started"
          /\ map'[k].cookie = obj'[o].callback
          /\ map'[k].devs \subseteq obj'[o].devices
          /\ map'[k].bufs > 0 => map'[k].state = "started"
      BY <2>1, <2>2, <2>3, <2>4, <2>5 DEF Live, MapTypes, ObjectTypes
    <2> QED BY <2>1, <2>2, <2>3, <2>4, <2>6, OwnerStep
  <1> QED BY <1>1, <1>2

LEMMA TakeBufInv ==
    ASSUME MMapInv, NEW o \in Objects, TakeBuf(o)
    PROVE  MMapInv'
  <1> DEFINE k == obj[o].mmap
  <1>1. CASE Exit
    BY <1>1, ExitInv DEF Exit
  <1>2. CASE ~Exit
    <2>1. /\ k # Null /\ k \in Maps /\ Live(k)
          /\ map[k] \in MapTypes /\ obj[o] \in ObjectTypes
          /\ map[k].state = "started"
          /\ UNCHANGED <<fate, opened, held, alive>>
      BY <1>2 DEF TakeBuf, Configurable, MMapInv, MMapTypeOK, ObjectTypes, Live, OwnedOnce
    <2>2. /\ map'[k] = [map[k] EXCEPT !.bufs = @ + 1]
          /\ map'[k] \in MapTypes /\ map' \in [Maps -> MapTypes]
          /\ \A q \in Maps : q # k => map'[q] = map[q]
      BY <1>2, <2>1 DEF TakeBuf, MMapInv, MMapTypeOK, MapTypes, OwnedOnce
    <2>3. /\ obj'[o] = obj[o]
          /\ obj'[o] \in ObjectTypes /\ obj' \in [Objects -> ObjectTypes]
          /\ \A p \in Objects : p # o => obj'[p] = obj[p]
      BY <1>2, <2>1 DEF TakeBuf, MMapInv, MMapTypeOK, ObjectTypes, OwnedOnce
    <2>4. /\ obj[o].started <=> map[k].state = "started"
          /\ map[k].cookie = obj[o].callback
          /\ map[k].devs \subseteq obj[o].devices
          /\ map[k].bufs > 0 => map[k].state = "started"
      BY <2>1 DEF MMapInv, StartedAgrees, CookieAlive, DevicesHeld, BufsStarted
    <2>5. /\ obj'[o].mmap = k /\ map'[k].state \in {"idle", "started"}
          /\ obj'[o].started <=> map'[k].state = "started"
          /\ map'[k].cookie = obj'[o].callback
          /\ map'[k].devs \subseteq obj'[o].devices
          /\ map'[k].bufs > 0 => map'[k].state = "started"
      BY <2>1, <2>2, <2>3, <2>4 DEF Live, MapTypes, ObjectTypes
    <2> QED BY <2>1, <2>2, <2>3, <2>5, OwnerStep
  <1> QED BY <1>1, <1>2

-----------------------------------------------------------------------------
(* Release, buffers, devices *)

LEMMA ReleaseInv ==
    ASSUME MMapInv, NEW o \in Objects, Release(o)
    PROVE  MMapInv'
  <1> DEFINE k == obj[o].mmap
  <1>1. /\ k # Null /\ k \in Maps /\ Live(k) /\ k \notin leaked
        /\ obj' \in [Objects -> ObjectTypes] /\ obj'[o] = Empty
        /\ \A p \in Objects : p # o => obj'[p] = obj[p] /\ obj[p].mmap # k
        /\ released' = released \cup {k} /\ map' = map
        /\ UNCHANGED <<leaked, stray, opened, held, alive>>
    BY Records DEF Release, ReleasedMembers, MMapInv, MMapTypeOK, OwnedOnce, ObjectTypes
  <1> USE <1>1, Records DEF MMapInv
  <1>2. MMapTypeOK'
    BY DEF MMapTypeOK
  <1>3. OwnedOnce'
    <2>1. \A q \in Maps : Live(q)' => Owned(q)' \/ q \in released' \cup leaked'
      <3> SUFFICES ASSUME NEW q \in Maps, Live(q), q \notin released \cup leaked, q # k
                   PROVE  Owned(q)'
        BY DEF Live
      <3>1. PICK p \in Objects : obj[p].mmap = q
        BY DEF OwnedOnce, Owned
      <3> QED BY <3>1 DEF Owned
    <2>2. \A p, q \in Objects : p # q /\ obj'[p].mmap = obj'[q].mmap => obj'[p].mmap = Null
      BY DEF OwnedOnce
    <2>3. \A p \in Objects : obj'[p].mmap # Null =>
             Live(obj[p].mmap)' /\ obj'[p].mmap \notin released' \cup leaked'
      BY DEF OwnedOnce, MMapTypeOK, ObjectTypes, Live
    <2>4. released' \cap leaked' = {}
      BY DEF OwnedOnce
    <2> QED BY <2>1, <2>2, <2>3, <2>4 DEF OwnedOnce
  <1>4. StartedAgrees' /\ CookieAlive' /\ DevicesHeld'
    BY DEF StartedAgrees, CookieAlive, DevicesHeld
  <1>5. CallbackRunsAlive' /\ BufsStarted' /\ Unmade'
    BY DEF CallbackRunsAlive, BufsStarted, Unmade, Live
  <1> QED BY <1>2, <1>3, <1>4, <1>5

LEMMA DestroyReleasedInv ==
    ASSUME MMapInv, NEW k \in Maps, DestroyReleased(k)
    PROVE  MMapInv'
  <1>1. /\ map' \in [Maps -> MapTypes] /\ map'[k] = Gone
        /\ \A q \in Maps : q # k => map'[q] = map[q]
        /\ \A p \in Objects : obj[p].mmap # k
        /\ k \in released /\ stray' \subseteq released
        /\ UNCHANGED <<obj, released, leaked, opened, held, alive>>
    BY Records, MMapAssumption
    DEF DestroyReleased, MMapInv, MMapTypeOK, OwnedOnce, CallbackRunsAlive
  <1> USE <1>1, Records DEF MMapInv
  <1>2. MMapTypeOK'
    BY DEF MMapTypeOK
  <1>3. OwnedOnce'
    BY DEF OwnedOnce, Live, Owned, MMapTypeOK, ObjectTypes
  <1>4. StartedAgrees' /\ CookieAlive' /\ DevicesHeld'
    BY DEF StartedAgrees, CookieAlive, DevicesHeld, MMapTypeOK, ObjectTypes
  <1>5. CallbackRunsAlive' /\ BufsStarted' /\ Unmade'
    BY DEF CallbackRunsAlive, BufsStarted, Unmade
  <1> QED BY <1>2, <1>3, <1>4, <1>5

LEMMA PutBufInv ==
    ASSUME MMapInv, NEW k \in Maps, PutBuf(k)
    PROVE  MMapInv'
  <1>1. /\ [map[k] EXCEPT !.bufs = @ - 1] \in MapTypes
        /\ map[k].state = "started"
    BY DEF PutBuf, MMapInv, MMapTypeOK, MapTypes, BufsStarted
  <1>2. /\ map'[k] = [map[k] EXCEPT !.bufs = @ - 1]
        /\ map' \in [Maps -> MapTypes]
        /\ \A q \in Maps : q # k => map'[q] = map[q]
        /\ UNCHANGED <<obj, released, leaked, stray, opened, held, alive>>
    BY <1>1 DEF PutBuf, MMapInv, MMapTypeOK, fate
  <1>3. /\ map'[k].state = "started" /\ map'[k].cookie = map[k].cookie
        /\ map'[k].devs = map[k].devs
    BY <1>1, <1>2 DEF MMapInv, MMapTypeOK, MapTypes
  <1>4. \A q \in Maps : /\ map'[q].state = map[q].state
                        /\ map'[q].cookie = map[q].cookie
                        /\ map'[q].devs = map[q].devs
    BY <1>1, <1>2, <1>3
  <1> USE <1>2 DEF MMapInv
  <1>5. MMapTypeOK'
    BY DEF MMapTypeOK
  <1>6. OwnedOnce'
    BY <1>4 DEF OwnedOnce, Live, Owned, MMapTypeOK, ObjectTypes
  <1>7. StartedAgrees' /\ CookieAlive' /\ DevicesHeld'
    BY <1>4 DEF StartedAgrees, CookieAlive, DevicesHeld, MMapTypeOK, ObjectTypes
  <1>8. CallbackRunsAlive' /\ BufsStarted' /\ Unmade'
    BY <1>1, <1>3 DEF CallbackRunsAlive, BufsStarted, Unmade
  <1> QED BY <1>5, <1>6, <1>7, <1>8

LEMMA DeviceInv ==
    ASSUME MMapInv, NEW d \in Devices, OpenDevice(d) \/ DropDevice(d)
    PROVE  MMapInv'
  <1>1. CASE Exit
    BY <1>1, ExitInv DEF Exit
  <1>2. CASE ~Exit
    <2>1. UNCHANGED <<obj, map, released, leaked, stray, alive>>
      BY <1>2 DEF OpenDevice, DropDevice, fate
    <2>2. opened' \subseteq Devices /\ held' \subseteq opened'
      BY <1>2 DEF OpenDevice, DropDevice, MMapInv, MMapTypeOK
    <2> QED BY <2>1, <2>2
        DEF MMapInv, MMapTypeOK, OwnedOnce, StartedAgrees, CookieAlive, CallbackRunsAlive,
            Unmade, BufsStarted, DevicesHeld, Live, Owned
  <1> QED BY <1>1, <1>2

\* Every step of the maps and the devices keeps the invariant.
LEMMA MMapStep == MMapInv /\ MMapNext => MMapInv'
  <1> SUFFICES ASSUME MMapInv, MMapNext PROVE MMapInv'
    OBVIOUS
  <1>1. ASSUME NEW o \in Objects,
               \/ Construct(o) \/ Destroy(o) \/ Release(o)
               \/ Start(o) \/ Stop(o) \/ TakeBuf(o)
        PROVE  MMapInv'
    BY <1>1, ConstructInv, DestroyInv, ReleaseInv, StartInv, StopInv, TakeBufInv
  <1>2. ASSUME NEW o \in Objects, SetData(o) \/ Query(o)
        PROVE  MMapInv'
    BY <1>2, ExitInv DEF SetData, Query, Exit
  <1>3. ASSUME NEW o \in Objects, NEW n \in 1 .. Cardinality(Devices), SetMaxDevices(o, n)
        PROVE  MMapInv'
    <2>1. n \in Nat
      OBVIOUS
    <2> QED BY <1>3, <2>1, SetMaxDevicesInv
  <1>4. ASSUME NEW o \in Objects, NEW cb \in Callbacks, SetFreeCallback(o, cb)
        PROVE  MMapInv'
    BY <1>4, SetFreeCallbackInv
  <1>5. ASSUME NEW o \in Objects, NEW g \in Objects, MoveAssign(o, g)
        PROVE  MMapInv'
    BY <1>5, MoveAssignInv
  <1>6. ASSUME NEW o \in Objects, NEW d \in Devices,
               CreateFromExport(o, d) \/ AddDevice(o, d) \/ RemoveDevice(o, d)
        PROVE  MMapInv'
    BY <1>6, CreateFromExportInv, AddDeviceInv, RemoveDeviceInv
  <1>7. ASSUME NEW k \in Maps, DestroyReleased(k)
        PROVE  MMapInv'
    BY <1>7, DestroyReleasedInv
  <1>8. ASSUME NEW d \in Devices, OpenDevice(d) \/ DropDevice(d)
        PROVE  MMapInv'
    BY <1>8, DeviceInv
  <1> QED BY <1>1, <1>2, <1>3, <1>4, <1>5, <1>6, <1>7, <1>8 DEF MMapNext

\* They give no buffer back: a map with buffers in use stays.
LEMMA BufsKept ==
    ASSUME MMapInv, MMapNext, NEW k \in Maps, map[k].bufs > 0
    PROVE  map'[k].bufs > 0
  <1> USE DEF MMapInv, MMapTypeOK, fate
  <1>1. map \in [Maps -> MapTypes] /\ map[k].bufs \in Nat
    BY DEF MapTypes
  <1>2. ASSUME NEW o \in Objects, Cleanup(o)
        PROVE  map'[k].bufs > 0
    BY <1>1, <1>2, CleanupEffect DEF LeftBehind
  <1>3. ASSUME NEW o \in Objects, Destroy(o) \/ \E g \in Objects : MoveAssign(o, g)
        PROVE  map'[k].bufs > 0
    BY <1>2, <1>3 DEF Destroy, MoveAssign
  <1>4. ASSUME NEW o \in Objects, Construct(o) \/ Start(o) \/ Stop(o)
        PROVE  map'[k].bufs > 0
    BY <1>1, <1>4 DEF Construct, Start, Stop, Exit, MapTypes
  <1>5. ASSUME NEW o \in Objects, Release(o) \/ SetData(o) \/ Query(o)
        PROVE  map'[k].bufs > 0
    BY <1>5 DEF Release, SetData, Query, Exit
  <1>6. ASSUME NEW o \in Objects, TakeBuf(o)
        PROVE  map'[k].bufs > 0
    BY <1>1, <1>6 DEF TakeBuf, MapTypes
  <1>7. ASSUME NEW o \in Objects, NEW n \in 1 .. Cardinality(Devices), SetMaxDevices(o, n)
        PROVE  map'[k].bufs > 0
    <2>1. map' = [map EXCEPT ![obj[o].mmap].max = n] \/ map' = map
      BY <1>7 DEF SetMaxDevices, Exit
    <2> QED BY <1>1, <2>1 DEF MapTypes
  <1>8. ASSUME NEW o \in Objects, NEW cb \in Callbacks, SetFreeCallback(o, cb)
        PROVE  map'[k].bufs > 0
    <2>1. map' = [map EXCEPT ![obj[o].mmap].cookie = Cookie(o, cb)] \/ map' = map
      BY <1>8 DEF SetFreeCallback, Exit
    <2> QED BY <1>1, <2>1 DEF MapTypes
  <1>9. ASSUME NEW o \in Objects, NEW d \in Devices,
               CreateFromExport(o, d) \/ AddDevice(o, d) \/ RemoveDevice(o, d)
        PROVE  map'[k].bufs > 0
    <2>1. CASE CreateFromExport(o, d)
      <3>1. \/ map' = map
            \/ \E q \in Maps : map' = [map EXCEPT ![q].state = "started", ![q].devs = {d}]
        BY <2>1 DEF CreateFromExport, Exit
      <3>2. ASSUME NEW q \in Maps, map' = [map EXCEPT ![q].state = "started", ![q].devs = {d}]
            PROVE  map'[k].bufs = map[k].bufs
        BY <1>1, <3>2 DEF MapTypes
      <3> QED BY <3>1, <3>2
    <2>2. CASE AddDevice(o, d) \/ RemoveDevice(o, d)
      <3>1. \E ds : map' = [map EXCEPT ![obj[o].mmap].devs = ds] \/ map' = map
        BY <2>2 DEF AddDevice, RemoveDevice, Exit
      <3> QED BY <1>1, <3>1 DEF MapTypes
    <2> QED BY <1>9, <2>1, <2>2
  <1>10. ASSUME NEW q \in Maps, DestroyReleased(q)
         PROVE  map'[k].bufs > 0
    BY <1>1, <1>10 DEF DestroyReleased
  <1>11. ASSUME NEW d \in Devices, OpenDevice(d) \/ DropDevice(d)
         PROVE  map'[k].bufs > 0
    BY <1>11 DEF OpenDevice, DropDevice, Exit
  <1> QED BY <1>3, <1>4, <1>5, <1>6, <1>7, <1>8, <1>9, <1>10, <1>11 DEF MMapNext

-----------------------------------------------------------------------------
(* MMap objects own their maps as UniqueOwner promises. *)

LEMMA StandingIs ==
    ASSUME MMapInv, NEW k \in Maps
    PROVE  /\ map[k].state = "none" => Standing(k) = "unmade"
           /\ map[k].state = "destroyed" => Standing(k) = "gone"
           /\ Live(k) /\ k \in released => Standing(k) = "caller"
           /\ Live(k) /\ k \in leaked => Standing(k) = "lost"
           /\ Live(k) /\ k \notin released \cup leaked => Standing(k) = "owned"
           /\ Standing(k) = "caller" => Live(k) /\ k \in released
  <1>1. /\ map[k].state \in {"none", "idle", "started", "destroyed"}
        /\ released \cap leaked = {}
    BY DEF MMapInv, MMapTypeOK, MapTypes, OwnedOnce
  <1> QED BY <1>1 DEF Standing, Live

\* A step after which nobody's map is another, or another's.
LEMMA OwnersKept ==
    ASSUME MMapInv, MMapInv', UNCHANGED <<released, leaked>>,
           \A o \in Objects : obj'[o].mmap = obj[o].mmap,
           \A k \in Maps : map'[k].state = map[k].state \/ (Live(k) /\ Live(k)')
    PROVE  UNCHANGED Owners!vars
  <1>1. ASSUME NEW k \in Maps PROVE Standing(k)' = Standing(k)
    BY DEF Standing, Live
  <1>2. [k \in Maps |-> Standing(k)]' = [k \in Maps |-> Standing(k)]
    BY <1>1
  <1> QED BY <1>2 DEF Owners!vars

\* A new map of an empty object.
LEMMA MadeOwned ==
    ASSUME MMapInv, MMapInv', UNCHANGED <<released, leaked>>,
           NEW o \in Objects, NEW k \in Maps, obj[o] = Empty, map[k].state = "none",
           obj'[o].mmap = k, Live(k)',
           \A p \in Objects : p # o => obj'[p] = obj[p],
           \A q \in Maps : q # k => map'[q] = map[q]
    PROVE  Owners!Make(o, k)
  <1>1. k \notin released \cup leaked
    BY DEF MMapInv, Unmade
  <1>2. Standing(k) = "unmade" /\ Standing(k)' = "owned"
    BY <1>1 DEF Standing, Live
  <1>3. \A q \in Maps : q # k => Standing(q)' = Standing(q)
    BY DEF Standing, Live
  <1>4. obj[o].mmap = Null
    BY Records
  <1> QED BY <1>2, <1>3, <1>4 DEF Owners!Make

\* cleanup() of object o destroys its map, if it has one, or loses it.
LEMMA CleanedUp ==
    ASSUME MMapInv, MMapInv', NEW o \in Objects, Cleanup(o)
    PROVE  Owners!Disposed(o)
  <1>1. CASE obj[o].mmap = Null
    <2>1. map' = map /\ leaked' = leaked /\ released' = released
      BY <1>1, CleanupEffect
    <2>2. \A q \in Maps : Standing(q)' = Standing(q)
      BY <2>1 DEF Standing, Live
    <2> QED BY <1>1, <2>2 DEF Owners!Disposed
  <1>2. CASE obj[o].mmap # Null
    <2>1. PICK k \in Maps : k = obj[o].mmap
      BY <1>2, CleanupEffect
    <2>2. /\ released' = released
          /\ \A q \in Maps : q # k => map'[q] = map[q]
          /\ \/ map'[k] = Gone /\ leaked' = leaked /\ map[k].bufs = 0
             \/ LeftBehind(k) /\ leaked' = leaked \cup {k}
      BY <1>2, <2>1, CleanupEffect
    <2>3. Live(k) /\ k \notin released
      BY <1>2, <2>1 DEF MMapInv, OwnedOnce
    <2>4. \A q \in Maps : q # k => Standing(q)' = Standing(q)
      BY <2>2 DEF Standing, Live
    <2>5. Standing(k)' \in {"gone", "lost"}
      BY <2>2, <2>3, Records DEF Standing, Live, LeftBehind
    <2>6. [q \in Maps |-> Standing(q)']
             = [[q \in Maps |-> Standing(q)] EXCEPT ![k] = Standing(k)']
      BY <2>4
    <2> QED BY <1>2, <2>1, <2>5, <2>6 DEF Owners!Disposed
  <1> QED BY <1>1, <1>2

LEMMA DestroyDestroys ==
    ASSUME MMapInv, MMapInv', NEW o \in Objects, Destroy(o)
    PROVE  Owners!Destroy(o)
  <1>1. Owners!Disposed(o) /\ obj[o].mmap # Null
    BY CleanedUp DEF Destroy
  <1>2. [p \in Objects |-> obj'[p].mmap]
           = [[p \in Objects |-> obj[p].mmap] EXCEPT ![o] = Null]
    BY Records DEF Destroy, MMapInv, MMapTypeOK
  <1> QED BY <1>1, <1>2 DEF Owners!Destroy

LEMMA AssignMoves ==
    ASSUME MMapInv, MMapInv', NEW o \in Objects, NEW g \in Objects, MoveAssign(o, g)
    PROVE  Owners!Move(o, g)
  <1>1. Owners!Disposed(o) /\ o # g
    BY CleanedUp DEF MoveAssign
  <1>2. [p \in Objects |-> obj'[p].mmap]
           = [[p \in Objects |-> obj[p].mmap] EXCEPT ![o] = obj[g].mmap, ![g] = Null]
    BY <1>1, Records DEF MoveAssign, Moved, MMapInv, MMapTypeOK
  <1> QED BY <1>1, <1>2 DEF Owners!Move

LEMMA ReleaseReleases ==
    ASSUME MMapInv, MMapInv', NEW o \in Objects, Release(o)
    PROVE  Owners!Release(o)
  <1>1. PICK k \in Maps : k = obj[o].mmap /\ k # Null
    BY DEF Release, MMapInv, MMapTypeOK, ObjectTypes
  <1>2. Live(k) /\ k \notin leaked
    BY <1>1 DEF MMapInv, OwnedOnce
  <1>3. map' = map /\ leaked' = leaked /\ released' = released \cup {k}
    BY <1>1 DEF Release
  <1>4. Standing(k)' = "caller"
    BY <1>2, <1>3 DEF Standing, Live
  <1>5. \A q \in Maps : q # k => Standing(q)' = Standing(q)
    BY <1>3 DEF Standing, Live
  <1>6. [q \in Maps |-> Standing(q)'] = [[q \in Maps |-> Standing(q)] EXCEPT ![k] = "caller"]
    BY <1>4, <1>5
  <1>7. [p \in Objects |-> obj'[p].mmap]
           = [[p \in Objects |-> obj[p].mmap] EXCEPT ![o] = Null]
    BY Records DEF Release, ReleasedMembers, MMapInv, MMapTypeOK
  <1> QED BY <1>1, <1>6, <1>7 DEF Owners!Release

LEMMA CallerDestroys ==
    ASSUME MMapInv, MMapInv', NEW k \in Maps, DestroyReleased(k)
    PROVE  Owners!DestroyReleased(k)
  <1>1. Live(k) /\ k \in released /\ UNCHANGED <<obj, released, leaked>>
    BY DEF DestroyReleased
  <1>2. map'[k] = Gone /\ \A q \in Maps : q # k => map'[q] = map[q]
    BY DEF DestroyReleased, MMapInv, MMapTypeOK
  <1>3. Standing(k) = "caller" /\ Standing(k)' = "gone"
    <2>1. Standing(k) = "caller"
      BY <1>1, StandingIs
    <2>2. Standing(k)' = "gone"
      BY <1>2, Records DEF Standing, Live
    <2> QED BY <2>1, <2>2
  <1>4. \A q \in Maps : q # k => Standing(q)' = Standing(q)
    BY <1>1, <1>2 DEF Standing, Live
  <1>5. [q \in Maps |-> Standing(q)'] = [[q \in Maps |-> Standing(q)] EXCEPT ![k] = "gone"]
    BY <1>3, <1>4
  <1> QED BY <1>1, <1>3, <1>5 DEF Owners!DestroyReleased

LEMMA ConstructMakes ==
    ASSUME MMapInv, MMapInv', NEW o \in Objects,
           Construct(o) \/ \E d \in Devices : CreateFromExport(o, d)
    PROVE  (\E k \in Maps : Owners!Make(o, k)) \/ UNCHANGED Owners!vars
  <1>1. CASE Exit
    BY <1>1, OwnersKept DEF Exit, fate
  <1>2. CASE ~Exit
    <2>1. PICK k \in Maps :
            /\ obj[o] = Empty /\ map[k].state = "none"
            /\ UNCHANGED <<released, leaked>>
            /\ \A p \in Objects : p # o => obj'[p] = obj[p]
            /\ \A q \in Maps : q # k => map'[q] = map[q]
            /\ obj'[o].mmap = k /\ Live(k)'
      <3>1. CASE Construct(o)
        <4>1. PICK k \in Maps :
                /\ obj[o] = Empty /\ map[k].state = "none"
                /\ map' = [map EXCEPT ![k].state = "idle"]
                /\ obj' = [obj EXCEPT ![o].mmap = k]
                /\ UNCHANGED <<released, leaked>>
          BY <1>2, <3>1 DEF Construct, fate
        <4>2. map'[k].state = "idle" /\ obj'[o].mmap = k
          BY <4>1 DEF MMapInv, MMapTypeOK, MapTypes, ObjectTypes
        <4> QED BY <4>1, <4>2 DEF Live, MMapInv, MMapTypeOK
      <3>2. CASE \E d \in Devices : CreateFromExport(o, d)
        <4>1. PICK k \in Maps, d \in Devices :
                /\ obj[o] = Empty /\ map[k].state = "none"
                /\ map' = [map EXCEPT ![k].state = "started", ![k].devs = {d}]
                /\ obj' = [obj EXCEPT ![o] = [mmap |-> k, started |-> TRUE,
                                              callback |-> Null, devices |-> {d}]]
                /\ UNCHANGED <<released, leaked>>
          BY <1>2, <3>2 DEF CreateFromExport, fate
        <4>2. map'[k].state = "started" /\ obj'[o].mmap = k
          BY <4>1 DEF MMapInv, MMapTypeOK, MapTypes, ObjectTypes
        <4> QED BY <4>1, <4>2 DEF Live, MMapInv, MMapTypeOK
      <3> QED BY <3>1, <3>2
    <2>2. Owners!Make(o, k)
      BY <2>1, MadeOwned
    <2> QED BY <2>2
  <1> QED BY <1>1, <1>2

\* Start, stop and the setters are no business of the owner's.
LEMMA SettersKeepOwners ==
    ASSUME MMapInv, MMapInv', NEW o \in Objects,
           \/ Start(o) \/ Stop(o) \/ TakeBuf(o)
           \/ \E n \in Nat : SetMaxDevices(o, n)
           \/ \E cb \in Callbacks : SetFreeCallback(o, cb)
           \/ \E d \in Devices : AddDevice(o, d) \/ RemoveDevice(o, d)
    PROVE  UNCHANGED Owners!vars
  <1>1. CASE Exit
    BY <1>1, OwnersKept DEF Exit, fate
  <1>2. CASE ~Exit
    <2>1. PICK k \in Maps : k = obj[o].mmap /\ Live(k)
      BY <1>2 DEF Start, Stop, TakeBuf, SetMaxDevices, SetFreeCallback, AddDevice, RemoveDevice,
         Configurable, MMapInv, OwnedOnce, MMapTypeOK, ObjectTypes
    <2>2. /\ UNCHANGED <<released, leaked>>
          /\ \A p \in Objects : obj'[p].mmap = obj[p].mmap
          /\ \A q \in Maps : q # k => map'[q] = map[q]
      <3>1. /\ UNCHANGED <<released, leaked>>
            /\ \/ obj' = obj
               \/ \E b : obj' = [obj EXCEPT ![o].started = b]
               \/ \E cb : obj' = [obj EXCEPT ![o].callback = cb]
               \/ \E ds : obj' = [obj EXCEPT ![o].devices = ds]
            /\ \E m : map' = [map EXCEPT ![k] = m]
        <4>1. CASE Start(o)
          BY <1>2, <2>1, <4>1 DEF Start, fate, MMapInv, MMapTypeOK
        <4>2. CASE Stop(o)
          BY <1>2, <2>1, <4>2 DEF Stop, Stopped, fate, MMapInv, MMapTypeOK
        <4>3. CASE TakeBuf(o)
          BY <1>2, <2>1, <4>3 DEF TakeBuf, fate, MMapInv, MMapTypeOK
        <4>4. CASE \E n \in Nat : SetMaxDevices(o, n)
          BY <1>2, <2>1, <4>4 DEF SetMaxDevices, fate, MMapInv, MMapTypeOK
        <4>5. CASE \E cb \in Callbacks : SetFreeCallback(o, cb)
          BY <1>2, <2>1, <4>5 DEF SetFreeCallback, fate, MMapInv, MMapTypeOK
        <4>6. CASE \E d \in Devices : AddDevice(o, d)
          BY <1>2, <2>1, <4>6 DEF AddDevice, Pushed, fate, MMapInv, MMapTypeOK
        <4>7. CASE \E d \in Devices : RemoveDevice(o, d)
          BY <1>2, <2>1, <4>7 DEF RemoveDevice, Erased, fate, MMapInv, MMapTypeOK
        <4> QED BY <4>1, <4>2, <4>3, <4>4, <4>5, <4>6, <4>7
      <3>2. \A p \in Objects : obj'[p].mmap = obj[p].mmap
        BY <3>1 DEF MMapInv, MMapTypeOK, ObjectTypes
      <3>3. \A q \in Maps : q # k => map'[q] = map[q]
        BY <3>1 DEF MMapInv, MMapTypeOK
      <3> QED BY <3>1, <3>2, <3>3
    <2>3. Live(k)'
      <3>1. obj'[o].mmap = k /\ k # Null
        BY <2>1, <2>2, MMapAssumption
      <3> QED BY <3>1 DEF MMapInv, OwnedOnce, Live
    <2> QED BY <2>1, <2>2, <2>3, OwnersKept
  <1> QED BY <1>1, <1>2

LEMMA RestKeepsOwners ==
    ASSUME MMapInv, MMapInv',
           \/ \E o \in Objects : SetData(o) \/ Query(o)
           \/ \E d \in Devices : OpenDevice(d) \/ DropDevice(d)
           \/ Elsewhere
    PROVE  UNCHANGED Owners!vars
  <1>1. CASE \E k \in Maps : PutBuf(k)
    <2>1. PICK k \in Maps : PutBuf(k)
      BY <1>1
    <2>2. /\ UNCHANGED <<obj, released, leaked>>
          /\ \A q \in Maps : map'[q].state = map[q].state
      BY <2>1 DEF PutBuf, fate, MMapInv, MMapTypeOK, MapTypes
    <2> QED BY <2>2, OwnersKept
  <1>2. CASE ~\E k \in Maps : PutBuf(k)
    <2>1. UNCHANGED <<obj, map, released, leaked>>
      BY <1>2 DEF SetData, Query, OpenDevice, DropDevice, Elsewhere, Exit, fate
    <2> QED BY <2>1, OwnersKept
  <1> QED BY <1>1, <1>2

-----------------------------------------------------------------------------
LEMMA MMapSpecStep == MMapInv /\ [MMapNext \/ Elsewhere]_mmapVars => MMapInv'
  <1>1. CASE MMapNext
    BY <1>1, MMapStep
  <1>2. CASE Elsewhere
    BY <1>2, PutBufInv, ExitInv DEF Elsewhere, Exit
  <1>3. CASE UNCHANGED mmapVars
    BY <1>3 DEF mmapVars, fate, MMapInv, MMapTypeOK, OwnedOnce, StartedAgrees, CookieAlive,
       CallbackRunsAlive, Unmade, BufsStarted, DevicesHeld, Live, Owned
  <1> QED BY <1>1, <1>2, <1>3

LEMMA OwnersInit == MMapInit => Owners!Init
  BY DEF MMapInit, Owners!Init, Standing, Empty, NoMap

LEMMA OwnersStep ==
    ASSUME MMapInv, MMapInv', [MMapNext \/ Elsewhere]_mmapVars
    PROVE  [Owners!Next]_Owners!vars
  <1>1. ASSUME NEW o \in Objects, Construct(o) \/ \E d \in Devices : CreateFromExport(o, d)
        PROVE  [Owners!Next]_Owners!vars
    BY <1>1, ConstructMakes DEF Owners!Next
  <1>2. ASSUME NEW o \in Objects, Destroy(o) PROVE Owners!Next
    BY <1>2, DestroyDestroys DEF Owners!Next
  <1>3. ASSUME NEW o \in Objects, Release(o) PROVE Owners!Next
    BY <1>3, ReleaseReleases DEF Owners!Next
  <1>4. ASSUME NEW o \in Objects, NEW g \in Objects, MoveAssign(o, g) PROVE Owners!Next
    BY <1>4, AssignMoves DEF Owners!Next
  <1>5. ASSUME NEW k \in Maps, DestroyReleased(k) PROVE Owners!Next
    BY <1>5, CallerDestroys DEF Owners!Next
  <1>6. ASSUME NEW o \in Objects,
               \/ Start(o) \/ Stop(o) \/ TakeBuf(o)
               \/ \E n \in 1 .. Cardinality(Devices) : SetMaxDevices(o, n)
               \/ \E cb \in Callbacks : SetFreeCallback(o, cb)
               \/ \E d \in Devices : AddDevice(o, d) \/ RemoveDevice(o, d)
        PROVE  UNCHANGED Owners!vars
    <2>1. \A n \in 1 .. Cardinality(Devices) : n \in Nat
      OBVIOUS
    <2> QED BY <1>6, <2>1, SettersKeepOwners
  <1>7. CASE UNCHANGED mmapVars
    BY <1>7, OwnersKept DEF mmapVars, fate
  <1> QED
    BY <1>1, <1>2, <1>3, <1>4, <1>5, <1>6, <1>7, RestKeepsOwners DEF MMapNext

\* MMap objects own DOCA's maps as UniqueOwner promises, whatever a program does
\* with them: every change of an owner is a move, a release or a destruction.
THEOREM MMapsAreOwners == MMapSpec => ImplementsUniqueOwner
  <1>1. MMapSpec => []MMapInv
    BY MMapInitInv, MMapSpecStep, PTL DEF MMapSpec
  <1> QED BY <1>1, OwnersInit, OwnersStep, PTL DEF MMapSpec, ImplementsUniqueOwner, Owners!Spec
=============================================================================
