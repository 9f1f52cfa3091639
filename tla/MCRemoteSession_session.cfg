SPECIFICATION Spec
CONSTANTS
  Connections = {c1, c2}
  Shared = shared
  NoServer = NoServer
  Modules = {M}
  Dirs = {d1, d2}
  FilesOf <- MCFilesOf
  StartPath <- MCStartPath
  Values = {f1, f2}
  Kind <- MCKind
  Tried <- MCTried
  MaxCalls = 3
  MaxRestarts = 1
  c1 = c1
  c2 = c2
  M = M
  d1 = d1
  d2 = d2
  f1 = f1
  f2 = f2
INVARIANTS TypeOK StatesPrivate OpaqueAlive
PROPERTY ImplementsSessions
SYMMETRY Same2
