\* Requests and the generator read while a worker and the miner worker insert.
SPECIFICATION ReadersSpec
CONSTANTS
  IcoHash = IcoHash
  IcoAddr = addr1
  IcoValue = 7
  U32Bound = 64
  Genesis = Genesis
  MiningDifficulty = Std
  Hash <- MCHash
  BlockOf <- MCBlockOf
  Worker = {w1}
  MinerWorker = mw
  OwnBlocks = {a}
  Deliveries <- MCDeliveries
  None = None
  MaxOrphans = 2
  Request = {r1}
  BlockIndex <- MCBlockIndex
  a = a
  b = b
  c = c
  g = g
  addr1 = addr1
  addr2 = addr2
  addr3 = addr3
INVARIANT LookUpsSucceed WalkKeepsHeight AnswersWereTrue
CHECK_DEADLOCK FALSE
