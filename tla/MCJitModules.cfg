SPECIFICATION Spec
CONSTANTS
  f = f
  h = h
  t = t
  u = u
  y = y
  x = x
  m1 = m1
  m2 = m2
  m3 = m3
  NULL = NULL
  Idents = {f, h, t, u, y, x}
  Modules = {m1, m2, m3}
  ModFuncs <- MCModFuncs
  ModDecls <- MCModDecls
  ModRefs <- MCModRefs
  UserNames <- MCUser
  HostNames = {}
  LibNames <- MCLib
  GetNames <- MCGet
  CodeCap = 5
  LazyModes = {TRUE, FALSE}
INVARIANTS PublishedBound CallsAgreeWithTable ProvidedIsFound
PROPERTIES CallsReturn
