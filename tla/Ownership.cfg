\* Two MMap objects and maps, two Rdmas and the program share one device: moves,
\* a device that one map loses and another keeps; two contexts, one of them with
\* a connection, whose pointers go in any order.
SPECIFICATION Spec
CONSTANTS
  Devices = {d1}
  Objects = {o1, o2}
  Maps = {k1, k2}
  Callbacks = {f1, f2}
  Null = Null
  MaxBufs = 1
  Rdmas = {r1, r2}
  Conns = {c1}
SYMMETRY Symmetry
\* exit(1) stops the program.
CHECK_DEADLOCK FALSE
INVARIANTS
  TypeOK
  OwnedOnce
  StartedAgrees
  CookieAlive
  CallbackRunsAlive
  MapDevicesOpen
  
  NoLateDisconnect
  WriteResourcesAlive
PROPERTIES
  ImplementsUniqueOwner
