SPECIFICATION Spec
CONSTANTS
  Holders = {h1, h2}
  SignIns = {s1}
  Tokens = {t1, t2}
  NoToken = NoToken
  MaxReplacements = 2
SYMMETRY Symmetry
INVARIANT SentOnce
INVARIANT TokenInv
PROPERTY CommittedIsDurable
