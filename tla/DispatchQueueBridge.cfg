SPECIFICATION FairSpec
CONSTANTS
  r1 = r1
  r2 = r2
  k1 = k1
  c1 = c1
  c2 = c2
  h1 = h1
  h2 = h2
  None = None
  Requests = {r1}
  Keys = {k1}
  Clients = {c1, c2}
  Hooks = {h1, h2}
  Bridge = TRUE
  Slow = {}
  MaxInjected = 1
  MaxCrashes = 1
  MaxTimeouts = 1
INVARIANTS OneHookPerRequest
PROPERTY Settles
