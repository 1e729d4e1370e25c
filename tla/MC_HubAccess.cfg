SPECIFICATION Spec
CONSTANTS
  h1 = h1
  h2 = h2
  h3 = h3
  k1 = k1
  k2 = k2
  r1 = r1
  r2 = r2
  c1 = c1
  c2 = c2
  ForgedKey = ForgedKey
  Server = Server
  Command = Command
  None = None
  HubUrl = h1
  Hubs <- MCHubs
  Liars <- MCLiars
  LastVersion = 2
  ListOf <- MCListOf
  KeyOf <- MCKeyOf
  Recalls <- MCRecalls
  Resolvers <- MCResolvers
  Memories = 1
  MaxFaults = 1
  MaxRestarts = 1
SYMMETRY Symmetry
\* Every call is made once, so the system stops.
CHECK_DEADLOCK FALSE
INVARIANTS
  SidecarAsIfAtomic
  ActiveIsListed
  OneLiarIsSurvived
PROPERTY
  NeverOlder
