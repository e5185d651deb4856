CONSTANTS
  D32 <- MC_D32
  WordBytes = 1
  Lane <- MC_Lane
  Primitive <- MC_Primitive
  Sha256d <- MC_Sha256d
  HASHX11KV_MIN_NUMBER_ITERATIONS = 2
  HASHX11KV_MAX_NUMBER_ITERATIONS = 6
  HASHX11KVS_MAX_DRIFT = 15
  Headers <- MC_Headers
  NoHash = NoHash

SPECIFICATION Spec

\* One call of x11kv: the machine stops when it has returned.
CHECK_DEADLOCK FALSE

INVARIANTS
  TypeOK
  ChainCorrect
  RoundsInRange
