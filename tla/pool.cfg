SPECIFICATION Spec
CONSTANTS
  Sender = {s1, s2, s3}
  poolSize = 1
  MaxCreate = 4
  MaxSends = 4
INVARIANTS TypeOK ProducerOwnedOnce PoolBounded CallbacksAlive
PROPERTIES AcceptedReported PoolDestroyed
CHECK_DEADLOCK FALSE
