SPECIFICATION FairSpec
CONSTANTS
  Txs = {t1, t2}
  Works = {1, 2}
  TaskOf <- TwoOnOneTask
  Menu = {"decide", "pickup", "handback", "cancel", "revoke", "sweep", "call"}
INVARIANT LocksInv
INVARIANT NoCircularWait
INVARIANT NoClaimOutlivesItsGrant
INVARIANT WritesUnderItsLocks
PROPERTY CommitsWhatItRead
PROPERTY CallsAreAnswered
