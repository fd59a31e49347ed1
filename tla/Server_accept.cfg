\* A connection that is reset before the dispatcher comes to it.
SPECIFICATION Spec
CONSTANTS
  Conn = {c1, c2}
  Addr = {a1, a2}
  Addresses <- MCAddresses
  Outgoing = {c1}
  Caller = {t1, t2}
  Capacity = 2
  MaxCalls = 2
  MaxReceived = 1
  c1 = c1
  c2 = c2
  a1 = a1
  a2 = a2
INVARIANT AcceptsEndlessly
CHECK_DEADLOCK FALSE
