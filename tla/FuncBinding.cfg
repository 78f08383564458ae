SPECIFICATION BindSpec
CONSTANTS
  x1 = x1
  x2 = x2
  u1 = u1
  u2 = u2
  u3 = u3
  c1 = c1
  c2 = c2
  NoTarget = NoTarget
  Targets <- MCTargets
  UdataAddrs <- MCUdataAddrs
  ClosureAddrs <- MCClosureAddrs
SYMMETRY Symmetry
INVARIANTS
  RedirectsAreOwned
