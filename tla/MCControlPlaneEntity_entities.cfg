SPECIFICATION FairSpec
CONSTANTS
  None = None
  e1 = e1
  t1 = t1  t2 = t2
  c1 = c1  c2 = c2
  s1 = s1
  Entities = {e1}
  Trusts = {t1, t2}
  ControlPlanes = {c1, c2}
  Accounts = {s1}
  TrustsOf <- AnyTrust
  AccountsOf <- OneAccount
  TargetsOf <- Retargeted
INVARIANTS TypeOK ReadyHasIdentity
PROPERTIES ReadyIsEarned EntityConverges LossShows
