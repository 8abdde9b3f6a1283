SPECIFICATION SpecReliable
CONSTANTS
  i1 = i1
  i2 = i2
  i3 = i3
  p1 = p1
  p2 = p2
  p3 = p3
  h1 = h1
  h2 = h2
  None = None
  Instances = {i1, i2, i3}
  Processes = {p1, p2, p3}
  Hosts = {h1, h2}
  ProcessOf <- MCProcessOf
  HostOf <- MCHostOf
  MaxWaits = 2
INVARIANT
  OneOwner
CHECK_DEADLOCK FALSE
