CONSTANTS
  D32 <- MC_D32
  WordBytes = 1
  Lane <- MC_Lane
  Primitive <- MC_Primitive
  Sha256d <- MC_Sha256d
  HASHX11KV_MIN_NUMBER_ITERATIONS = 2
  HASHX11KV_MAX_NUMBER_ITERATIONS = 6
  HASHX11KVS_MAX_DRIFT = 15
  HASHX11KVS_MIN_LEVEL = 1
  HASHX11KVS_MAX_LEVEL = 7
  Headers <- MC_Headers
  InputLengths = {76, 80, 140}
  OutputLengths = {65535, 20, 48, 0}
  UINT32_MAX = 65535
  Blake2 <- MC_Blake2
  VerusHash <- MC_VerusHash
  EquihashOk <- MC_EquihashOk
  EquihashVariants = {"96_5", "144_5", "200_9"}
  MAX_VERUS_CALLS = 2
  NoHash = NoHash

SPECIFICATION Spec

INVARIANTS
  VerusObjectsReleased
