\* A source that expires after a second under a [cache] expire of three.
SPECIFICATION Spec
CONSTANTS
  alice = alice
  k1 = k1
  t1 = t1
  t2 = t2
  None = None
  Inherit = Inherit
  Unbounded = Unbounded
  NoKeys = NoKeys
  Threads = {t1, t2}
  CacheKeys = {alice}
  KeyLists = {NoKeys, k1}
  Cached = {alice}
  Expire <- Expire1
  Ttl = 3
  NegTtl = 0
  UseExpired = TRUE
  MaxStale = 0
  Faulty = FALSE
  Shared = FALSE
  Hung = {}
  Latency = 0
  MaxTime = 4
SYMMETRY Symmetric
INVARIANT StaleBoundPerSource
