SPECIFICATION Spec
CONSTANTS
  None = None
  b1 = b1
  e1 = e1  e2 = e2
  t1 = t1  t2 = t2
  i1 = i1
  pol1 = pol1  pol2 = pol2
  s1 = s1  s2 = s2  s3 = s3
  Bindings = {b1}
  Entities = {e1, e2}
  Trusts = {t1, t2}
  Instances = {i1}
  Policies = {pol1}
  Outages = {}
  PoliciesVanish = FALSE
  TrustStates <- AlwaysUp
  RefChoices <- MayDrop
  ViewsOf <- Edited
  InstancesOf <- BothHome
INVARIANTS RoleIsolation PolicyNotFalselyClaimed
PROPERTIES ReadyIsEarned
