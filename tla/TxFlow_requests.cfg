\* GetTransactions against the miner's removal from the mempool.
SPECIFICATION Spec
CONSTANTS
  IcoHash = IcoHash
  IcoAddr = addr1
  IcoValue = 7
  U32Bound = 64
  SelfAddr = addr3
  PeerAddrs <- MCPeerAddrs
  PeerContents <- MCPeerContents
  PeerTxs <- MCPeerTxs
  BlockSize = 2
  MaxBlocks = 4
  addr1 = addr1
  addr2 = addr2
  addr3 = addr3
INVARIANT NeverPoisoned
CHECK_DEADLOCK FALSE
