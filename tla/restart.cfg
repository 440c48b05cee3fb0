\* Several lineages on one task, ended and restarted; two tasks drawing on one
\* business cap.
CONSTANTS
  Task = {1, 2}
  Lineage = {1, 2, 3}
  Version = {v1, v2, v3}
  Hold = {h1, h2, h3}
  Lease = {x1, x2}
  Envelope = {1, 2}
  Call = {}
  Nil = Nil
  Amounts = {1, 2}
  CapLimit = 2
  MaxBudgetAsks = 1
SPECIFICATION Spec
CONSTRAINT RestartedOrShared
SYMMETRY Symmetry
CHECK_DEADLOCK FALSE
INVARIANTS
  OneLiveLeasePerTask
  CeilingsHold
