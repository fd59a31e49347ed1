\* Two network workers and the miner worker race on the chain.
SPECIFICATION Spec
CONSTANTS
  IcoHash = IcoHash
  IcoAddr = addr1
  IcoValue = 7
  U32Bound = 64
  Genesis = Genesis
  MiningDifficulty = Std
  Hash <- MCHash
  BlockOf <- MCBlockOf
  Worker = {w1, w2}
  MinerWorker = mw
  OwnBlocks = {a, d}
  Deliveries <- MCDeliveries
  None = None
  MaxOrphans = 2
  a = a
  b = b
  c = c
  d = d
  e = e
  f = f
  g = g
  h = h
  addr1 = addr1
  addr2 = addr2
  addr3 = addr3
  Easy = Easy
  Std = Std
SYMMETRY MCSymmetry
INVARIANT TypeOK ChainHangsTogether TipIsLongest UnwrapsSucceed StatesReplay AnnouncedAreStored NoDoubleSpend
PROPERTY TipMovesUp RefinesLongestChain
CHECK_DEADLOCK FALSE
