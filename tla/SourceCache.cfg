\* Two threads look up one cached source: entries expire, writes are delayed,
\* the backend fails, and another process purges.
SPECIFICATION Spec
CONSTANTS
  alice = alice
  k1 = k1
  t1 = t1
  t2 = t2
  None = None
  Inherit = Inherit
  Unbounded = Unbounded
  NoKeys = NoKeys
  Threads = {t1, t2}
  CacheKeys = {alice}
  KeyLists = {NoKeys, k1}
  Cached = {alice}
  Expire <- Expire2
  Ttl = 1
  NegTtl = 0
  UseExpired = TRUE
  MaxStale = 1
  Faulty = TRUE
  Shared = TRUE
  Hung = {}
  Latency = 1
  MaxTime = 4
SYMMETRY Symmetric
INVARIANTS EntryGenuine FreshBound StaleBound OutageTolerated
PROPERTIES FetchedIsAnswered KeepsPromise
