SPECIFICATION Spec
CONSTANTS
  None = None
  t1 = t1
  c1 = c1  c2 = c2
  i1 = i1  i2 = i2
  p1 = p1  p2 = p2
  iss1 = iss1  iss2 = iss2
  Trusts = {t1}
  ControlPlanes = {c1, c2}
  Instances = {i1}
  ConfigPrefixes = {p1}
  OverridePrefixes = {p2}
  Targets <- FreeTarget
  ProjectsOf <- OneProject
  InstanceStates <- UpOrDown
  PathOf <- PlainPaths
  IssuersOf <- IssuersOfBoth
INVARIANTS TypeOK FinalizerGuardsWork IssuerIsolation ConfiguredMountExists
PROPERTIES OnlyOwnMountRemoved ReadyIsEarned ForgottenOnlyByMoveOrSkip
