SPECIFICATION FairSpec
CONSTANTS
  Loop = loop
  HeadNode = head
  Null = null
  Dangling = dangling
  NoOwner = unlocked
  o1 = o1
  o2 = o2
  o3 = o3
  t1 = t1
  t2 = t2
  Ops <- TwoOps
  Clients <- OneClient
  Waits <- NoWaits
  MaxCompletions = 1
PROPERTIES
  StartedCompletes
  StopHonoured
  DestructorReturns
  CompletionsHandled
