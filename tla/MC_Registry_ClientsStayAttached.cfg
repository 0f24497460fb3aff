CONSTANTS
  k1 = k1  h1 = h1  h2 = h2  h3 = h3  r1 = r1  r2 = r2  r3 = r3
  NoHub = NoHub
  Keys <- MCKeys
  Hubs <- MCHubs
  Reqs <- MCReqs
SPECIFICATION Spec
SYMMETRY MCSymmetry
CHECK_DEADLOCK FALSE
INVARIANT ClientsStayAttached
