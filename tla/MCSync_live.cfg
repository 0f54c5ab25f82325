SPECIFICATION FairSpec
CONSTANTS
  Home = home
  Remotes = {w1}
  Locals = {here}
  NoSpace = project
  NoOwner = null
  Stay = stay
  BatchSize = 2
  MaxLog = 3
  MaxWarps = 2
  MaxFaults = 2
PROPERTY CatchesUp
