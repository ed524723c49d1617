\* Indexing restarted from epoch 2: the first rounds of epoch 2 notarize
\* shard headers still in epoch 1.
CONSTANTS
  p1 = p1
  p2 = p2
  r1 = r1
  Meta = Meta
  NumShards = 1
  StartingEpochs = {2}
  MaxEpoch = 2
  MaxRounds = 4
  MaxBody = 2
  MiniBlocks <- MC_MiniBlocks
  PeerMiniBlocks <- MC_PeerMiniBlocks
SPECIFICATION Spec
INVARIANT ReplayedHeadersIndexed
