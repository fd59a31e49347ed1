\* Two mining nodes, one worker each; a connection breaks, a node restarts.
SPECIFICATION FairSpec
CONSTANTS
  Genesis = Genesis
  MiningDifficulty = Std
  Hash <- MCHash
  BlockOf <- MCBlockOf
  Node = {n1, n2}
  KnownPeers <- Pair
  Worker = {w1}
  MinedBy <- MCMinedBy
  None = None
  MaxMined = 2
  MaxBreaks = 1
  MaxRestarts = 1
  n1 = n1
  n2 = n2
  n3 = n3
  a = a
  b = b
  c = c
  d = d
  e = e
INVARIANT TypeOK QuietMeansAgreed MessagesBacked Answerable
PROPERTY Spreads ComesToRest
CHECK_DEADLOCK FALSE
