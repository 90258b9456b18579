\* Four operations for a pool of three tasks: the pool runs empty and tasks are
\* used again, also while a surplus free is still to come.  Write or send tasks.
SPECIFICATION Spec
CONSTANTS
  Ops = {o1, o2, o3, o4}
  Slots = {s1, s2, s3}
  NoOp = NoOp
  NoSlot = NoSlot
  Copied = FALSE
SYMMETRY Symmetry
\* exit(1) stops the program.
CHECK_DEADLOCK FALSE
INVARIANTS
  TypeOK
  InFlightOwned
  CompletionsMatch
  NoTaskLeak
PROPERTIES
  ImplementsTaskPool
