\* Two clients and the loop thread race on the list; three operations are
\* enough for an empty, a one-element and a longer list at every step.
SPECIFICATION Spec
CONSTANTS
  Loop = loop
  HeadNode = head
  Null = null
  Dangling = dangling
  NoOwner = unlocked
  o1 = o1
  o2 = o2
  o3 = o3
  t1 = t1
  t2 = t2
  Ops <- ThreeOps
  Clients <- TwoClients
  Waits <- NoWaits
  MaxCompletions = 1
SYMMETRY Symmetry
INVARIANTS
  TypeOK
  ListShape
  PointersLive
  JoinNeverReturns
PROPERTIES
  ImplementsTaskQueue
  AtMostOneSignal
