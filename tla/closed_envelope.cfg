\* A sibling lineage replaces its hold after a restart closed the task's envelope.
CONSTANTS
  Task = {k1}
  Lineage = {l1, l2, l3}
  Version = {v1, v2, v3}
  Hold = {h1, h2}
  Lease = {x1, x2}
  Envelope = {e1, e2}
  Call = {}
  Nil = Nil
  Amounts = {1}
  CapLimit = 2
  MaxBudgetAsks = 1
SPECIFICATION Spec
SYMMETRY Symmetry
CHECK_DEADLOCK FALSE
PROPERTIES
  ClosedEnvelopeFundsNothing
