CONSTANTS
  p1 = p1
  p2 = p2
  r1 = r1
  Meta = Meta
  NumShards = 1
  StartingEpochs = {0, 1}
  MaxEpoch = 2
  MaxRounds = 4
  MaxBody = 2
  MiniBlocks <- MC_MiniBlocks
  PeerMiniBlocks <- MC_PeerMiniBlocks
SPECIFICATION Spec
INVARIANTS TypeOK ReplayedHeadersIndexed PeerBlockExact
