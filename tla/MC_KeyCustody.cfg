SPECIFICATION Spec
CONSTANTS
  s1 = s1
  c1 = c1
  c2 = c2
  v1 = v1
  r1 = r1
  r2 = r2
  b1 = b1
  b2 = b2
  x1 = x1
  i1 = i1
  Server = Server
  FirstId = FirstId
  None = None
  Setups <- MCSetups
  Creates <- MCCreates
  Provisions <- MCProvisions
  Recalls <- MCRecalls
  Submits <- MCSubmits
  Recovers <- MCRecovers
  Imports <- MCImports
  ProcessOf <- MCProcessOf
  Mixes <- MCMixes
  MaxMishaps = 1
SYMMETRY Symmetry
\* Every call is made once, so the system stops.
CHECK_DEADLOCK FALSE
INVARIANTS
  TypeOK
  KeysKept
  KeysSomewhere
  LeadersKnown
