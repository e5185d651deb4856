CONSTANTS
  D32 <- MC_D32
  WordBytes = 1
  Lane <- MC_Lane
  Primitive <- MC_Primitive
  Sha256d <- MC_Sha256d
  HASHX11KV_MIN_NUMBER_ITERATIONS = 2
  HASHX11KV_MAX_NUMBER_ITERATIONS = 6
  HASHX11KVS_MAX_DRIFT = 15
  HASHX11KVS_MIN_LEVEL = 1
  HASHX11KVS_MAX_LEVEL = 7
  Headers <- MC_Headers
  InputLengths = {80}
  NoHash = NoHash

SPECIFICATION Spec

\* One call of x11kvs_hash: the machine stops when it has returned.
CHECK_DEADLOCK FALSE

INVARIANT
  DriftAsSpecified
