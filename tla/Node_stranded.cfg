\* Two network workers, each with an orphan buffer of its own.
SPECIFICATION Spec
CONSTANTS
  IcoHash = IcoHash
  IcoAddr = addr1
  IcoValue = 7
  U32Bound = 64
  Genesis = Genesis
  MiningDifficulty = Std
  Hash <- MCHash
  BlockOf <- MCBlockOf
  Worker = {w1, w2}
  MinerWorker = mw
  OwnBlocks = {a, d}
  Deliveries <- MCDeliveriesPlain
  None = None
  MaxOrphans = 2
  a = a
  b = b
  c = c
  d = d
  e = e
  f = f
  g = g
  h = h
  addr1 = addr1
  addr2 = addr2
  addr3 = addr3
  Easy = Easy
  Std = Std
INVARIANT NoStrandedOrphan
CHECK_DEADLOCK FALSE
