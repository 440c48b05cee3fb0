\* A revision superseding work in every state it can be in, its attempts lost,
\* resumed and replaced, with a model call in flight.
CONSTANTS
  Task = {k1}
  Lineage = {l1}
  Version = {v1, v2}
  Hold = {h1, h2, h3}
  Lease = {x1, x2}
  Envelope = {e1}
  Call = {c1}
  Nil = Nil
  Amounts = {1, 2}
  CapLimit = 2
  MaxBudgetAsks = 1
SPECIFICATION Spec
SYMMETRY Symmetry
CHECK_DEADLOCK FALSE
INVARIANTS
  RuntimeInv
  ClosedHoldPaidItsCalls
  FinalStopIsNotReplaced
  LedgerBalanced
  LiveWorkIsApproved
  OneHoldPerVersion
  MarkedHoldIsKept
  EndedWorkIsClassified
PROPERTIES
  ProposalFitsCap
