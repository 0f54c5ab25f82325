SPECIFICATION Spec
CONSTANTS
  Home = home
  Remotes = {w1, w2}
  Locals = {here}
  NoSpace = project
  NoOwner = null
  Stay = stay
  BatchSize = 2
  MaxLog = 3
  MaxWarps = 2
  MaxFaults = 0
SYMMETRY RemoteSymmetry
INVARIANT RoutesToHolder
