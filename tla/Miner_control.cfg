\* The miner thread under its signals, beside one network worker.
SPECIFICATION MinerFairSpec
CONSTANTS
  IcoHash = IcoHash
  IcoAddr = addr1
  IcoValue = 7
  U32Bound = 64
  Genesis = Genesis
  MiningDifficulty = Std
  Hash <- MCMinerHash
  BlockOf <- MCMinerBlockOf
  Worker = {w1}
  MinerWorker = mw
  OwnBlocks = {a, d}
  Deliveries <- MCMinerDeliveries
  None = None
  MaxOrphans = 3
  MaxSignals = 3
  a = a
  b = b
  c = c
  d = d
  e = e
  f = f
  g = g
  h = h
  i = i
  addr1 = addr1
  addr2 = addr2
  addr3 = addr3
  Easy = Easy
  Std = Std
INVARIANT MinerTypeOK FewBlocksAfterExit NothingLeftBehind NoStrandedOrphan 
PROPERTY ExitEndsBoth MinedBlocksAnnounced HandlersReturn
CHECK_DEADLOCK FALSE
