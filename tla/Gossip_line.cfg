\* Three nodes in a line, two workers each: relays, and answers that overtake.
SPECIFICATION Spec
CONSTANTS
  Genesis = Genesis
  MiningDifficulty = Std
  Hash <- MCHash
  BlockOf <- MCBlockOf
  Node = {n1, n2, n3}
  KnownPeers <- Line
  Worker = {w1, w2}
  MinedBy <- MCMinedBy
  None = None
  MaxMined = 2
  MaxBreaks = 0
  MaxRestarts = 0
  n1 = n1
  n2 = n2
  n3 = n3
  a = a
  b = b
  c = c
  d = d
  e = e
SYMMETRY MCSymmetry
INVARIANT QuietMeansHeard
CHECK_DEADLOCK FALSE
