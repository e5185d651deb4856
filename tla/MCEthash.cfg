CONSTANTS
  LightIds = {l1, l2}
  FullIds = {f1}
  BlockNumbers = {0, 30001}
  HeaderHashes = {0, 1}
  Nonces = {0, 1}
  DataSize <- MC_DataSize
  CacheSize <- MC_CacheSize
  SeedHash <- MC_SeedHash
  Hashimoto <- MC_Hashimoto

SPECIFICATION Spec

INVARIANT
  ConsistentAnswers
