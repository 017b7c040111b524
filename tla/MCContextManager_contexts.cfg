SPECIFICATION Spec
CONSTANTS
  t1 = t1
  t2 = t2
  h1 = h1
  h2 = h2
  h3 = h3
  Threads = {t1, t2}
  Handles = {h1, h2, h3}
  NoHandle = NoHandle
  NoThread = NoThread
  MaxContexts = 3
  Apps <- AllApps
SYMMETRY Symmetry
INVARIANTS SharesAreCounted PointersLive HandlesResolve FollowsDriver
CHECK_DEADLOCK FALSE
