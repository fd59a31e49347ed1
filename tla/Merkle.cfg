\* Every vector of up to nine of two data: padding on none to three of the levels.
SPECIFICATION Spec
CONSTANTS
  Leaf = {x, y}
  ZeroHash = ZeroHash
  MaxLeaves = 9
INVARIANT RootIsReference ProofsVerify ProofsBind RootBinds
CHECK_DEADLOCK FALSE
