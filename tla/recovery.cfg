\* The reconciliation pass against every way work can stop answering.
CONSTANTS
  Task = {k1}
  Lineage = {l1}
  Version = {v1}
  Hold = {h1, h2, h3}
  Lease = {x1, x2}
  Envelope = {e1}
  Call = {c1}
  Nil = Nil
  Amounts = {1}
  CapLimit = 1
  MaxBudgetAsks = 1
SPECIFICATION FairSpec
CHECK_DEADLOCK FALSE
PROPERTIES
  LapsedLeaseIsFenced
  EndedHoldIsClassified
  OrphanCallIsResolved
