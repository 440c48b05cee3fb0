SPECIFICATION FairSpec
CONSTANTS
  Calls = {"c1", "c2", "c3", "c4", "c5", "c6", "c7"}
  Ops = {"op", "agent op", "own op"}
  OpOf <- OpOfCall
  PayloadOf <- PayloadOfCall
  Payloads = {"body", "changed"}
  EntryOf <- EntryOfCall
  Self <- Own
  Audited <- AuditedCalls
  MaxCarried = 1
  MaxFaults = 2
  MaxTurns = 2
CONSTRAINT Instances
INVARIANT EffectOnce
INVARIANT ChainTellsTheRegister
INVARIANT RegisterInv
PROPERTY LandsOnlyWhileStanding
PROPERTY KeepsThePromise
PROPERTY CallsEnd
