\* Two connections, under two addresses or one, and a control channel of one.
SPECIFICATION FairSpec
CONSTANTS
  Conn = {c1, c2}
  Addr = {a1, a2}
  Addresses <- MCAddresses
  Outgoing = {c1}
  Caller = {t1, t2}
  Capacity = 1
  MaxCalls = 2
  MaxReceived = 1
  c1 = c1
  c2 = c2
  a1 = a1
  a2 = a2
INVARIANT TypeOK PeersHear DeadHandlesLeave
PROPERTY CallsReturn FailedPeersLeave
CHECK_DEADLOCK FALSE
