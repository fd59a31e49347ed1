\* Two blocks the miner finds on the same tip before the first is stored.
SPECIFICATION MinerSpec
CONSTANTS
  IcoHash = IcoHash
  IcoAddr = addr1
  IcoValue = 7
  U32Bound = 64
  Genesis = Genesis
  MiningDifficulty = Std
  Hash <- MCMinerHash
  BlockOf <- MCMinerBlockOf
  Worker = {w1}
  MinerWorker = mw
  OwnBlocks = {a, d, i}
  Deliveries = {}
  None = None
  MaxOrphans = 3
  MaxSignals = 1
  a = a
  b = b
  c = c
  d = d
  e = e
  f = f
  g = g
  h = h
  i = i
  addr1 = addr1
  addr2 = addr2
  addr3 = addr3
  Easy = Easy
  Std = Std
INVARIANT EachBuildsOnTheLast
CHECK_DEADLOCK FALSE
