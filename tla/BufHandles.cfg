\* Three elements, so that a list has an inner one; four Buf objects, so that
\* the caller keeps its own while the whole list is collected.
SPECIFICATION Spec
CONSTANTS
  Bufs = {b1, b2, b3}
  Handles = {h1, h2, h3, h4}
  Pools = {p1, p2}
  Null = Null
  MaxRaw = 1
SYMMETRY Symmetry
\* exit(1) stops the program.
CHECK_DEADLOCK FALSE
INVARIANTS
  TypeOK
  Accounting
  SharedSafely
  NoElementLeak
  InventoryAccounted
