SPECIFICATION FairSpec
CONSTANTS
  None = None
  b1 = b1  e1 = e1
  t1 = t1  t2 = t2
  c1 = c1  c2 = c2
  a1 = a1  a2 = a2
  pol1 = pol1  pol2 = pol2  i1 = i1
  Bindings = {b1}
  Entities = {e1}
  Trusts = {t1}
  ControlPlanes = {c1}
  Accounts = {a1, a2}
  Policies = {pol1}
  Instance = i1
  RefChoices <- OneRef
  SpecsOf <- TwoAccounts
  TargetOf <- OneTarget
PROPERTIES EntitiesAsAssumed LossReachesBinding ChainConverges
