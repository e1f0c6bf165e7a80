SPECIFICATION FairSpec
CONSTANTS
  pe = pe  ct = ct  ce = ce
  b1 = b1  b2 = b2
  nowhere = nowhere  Nowhere = nowhere
  Projects = {pe}
  Trusts = {ct}
  Entities = {ce}
  Bindings = {b1, b2}
  RefsOf <- Refs
  MountOf <- Mounts
  RoleNameOf <- RoleNames
  Chars <- AllChars
  Letters <- SmallLetters
  Dash = "-"
  LowerOf <- SmallOf
  Openbao <- TheOpenbao
  MaxLen = 8
  HashLen = 3
  Prefix <- ThePrefix
  Namespace <- TheNamespace
  NameOf <- ObjectNames
  ControlPlaneOf <- ControlPlanes
INVARIANTS TypeOK RolesReachable NamesMountable
PROPERTIES ReleasedClean RoleKept TeardownCompletes DanglingShows
