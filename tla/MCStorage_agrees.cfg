SPECIFICATION StorageSpec
CONSTANTS
  Keys = {k1, k2}
  Removable = {k2}
  Shares = {s1}
  Unshares = {u1}
  Watcher = watcher
  Earlier = earlier
  NoShare = noShare
  Unknown = unknown
  MaxVersion = 1
  MaxFailures = 2
  Turns = {t1, t2}
  Reverts = {v1, v2}
  Unreverts = {v3}
  Before = 1
  PerTick = 3
  Ticks = 3
  Retention = 1
  MaxClock = 4
  MaxDraws = 3
  MaxRestarts = 1
  Home = home
  Remotes = {w1, w2}
  Locals = {here}
  NoSpace = project
  NoOwner = null
  Stay = stay
  BatchSize = 2
  MaxLog = 3
  MaxWarps = 2
  MaxFaults = 1
SYMMETRY StorageSymmetry
INVARIANTS
  ShareContract
  RevertContract
  IdContract
  SyncContract
  HolderHasAll
  ShutOut
PROPERTIES
  RemovedWasShown
  OnlyOldFilesGo
CHECK_DEADLOCK FALSE
