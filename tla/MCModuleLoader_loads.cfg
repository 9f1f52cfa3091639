SPECIFICATION FairSpec
CONSTANTS
  Name <- MCName
  Cryptol = Cryptol
  Dir <- MCDir
  Memory = mem
  BuiltIn <- MCBuiltIn
  SearchPath <- MCSearchPath
  NoModule = NoModule
  NoFile = NoFile
  Disks <- AllDisks
  Volatile <- SomeDisks
  A = A
  B = B
  F = F
  d1 = d1
  d2 = d2
  mem = mem
INVARIANTS LoadedModulesInvariant EachModuleOnce ChecksFindInterfaces SessionConsistent
PROPERTIES ImplementsAtomicLoad LoadsEnd
