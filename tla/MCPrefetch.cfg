SPECIFICATION Spec
CONSTANTS
  a = a
  b = b
  c = c
  d = d
  e = e
  g = g
  Funcs = {a, b, c, d, e, g}
  CallGraph <- MCCallGraph
  Trigger = a
  Pending <- MCPending
  Cached = {g}
  Unsupported = {c}
  Requested = 3
  MinPending = 2
  MaxThreads = 3
INVARIANTS ResultsComplete
PROPERTIES AtomicSpec Returns
