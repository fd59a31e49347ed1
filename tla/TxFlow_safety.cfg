\* One node that signs, mines, stores and hears of blocks and transactions.
SPECIFICATION Spec
CONSTANTS
  IcoHash = IcoHash
  IcoAddr = addr1
  IcoValue = 7
  U32Bound = 64
  SelfAddr = addr3
  PeerAddrs <- MCPeerAddrs
  PeerContents <- MCPeerContents
  PeerTxs <- MCPeerTxs
  BlockSize = 2
  MaxBlocks = 4
  addr1 = addr1
  addr2 = addr2
  addr3 = addr3
INVARIANT TypeOK PendingValidInAnyOrder FreshBlocksStored
PROPERTY RefinesMempool
CHECK_DEADLOCK FALSE
