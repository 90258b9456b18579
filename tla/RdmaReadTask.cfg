\* Read tasks: one operation, one task.
SPECIFICATION Spec
CONSTANTS
  Ops = {o1}
  Slots = {s1}
  NoOp = NoOp
  NoSlot = NoSlot
  Copied = TRUE
CHECK_DEADLOCK FALSE
INVARIANTS
  CallbackDestroysTheTask
