SPECIFICATION FairSpec
CONSTANTS
  None = None
  pe1 = pe1
  i1 = i1  i2 = i2
  a1 = a1  a2 = a2  x = x
  Projects = {pe1}
  Instances = {i1, i2}
  Addresses = {a1, a2, x}
  StatesOf <- Servers
  AddressesOf <- TwoInstances
INVARIANTS TypeOK ReadyIdentity
PROPERTIES ReadyIsEarned OnlyLivingVouchedFor ProjectConverges OutageShows
