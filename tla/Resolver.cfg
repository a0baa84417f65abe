\* A login for alice and one for bob, one of whose sources and whose group may hang.
SPECIFICATION FairSpec
CONSTANTS
  alice = alice
  bob = bob
  staff = staff
  toBob = toBob
  toStaff = toStaff
  t1 = t1
  t2 = t2
  corp = corp
  extra = extra
  keyA = keyA
  keyB = keyB
  None = None
  NoGrant = NoGrant
  NoKeys = NoKeys
  Inherit = Inherit
  Unbounded = Unbounded
  Threads = {t1, t2}
  Users = {alice, bob}
  Accounts = {alice, bob}
  Groups = {staff}
  Grants = {toBob, toStaff}
  Writes <- OneFileEach
  GrantUsers <- NamedUsers
  GrantGroups <- NamedGroups
  Members <- StaffMembers
  Serving <- OneEach
  ReadsFail = FALSE
  HungGroups = {staff}
  Sources = {corp, extra}
  Rank <- CorpFirst
  Uid <- OneExtraName
  Keys = {keyA, keyB}
  KeyLists = {NoKeys, keyA, keyB}
  KeysOf <- OneKeyEach
  CachedSources = {corp}
  SourceExpire <- NoneInherits
  Ttl = 1
  NegTtl = 0
  UseExpired = FALSE
  MaxStale = 0
  Faulty = FALSE
  Shared = FALSE
  Hung <- BobsCorpHangs
  Directories <- OneDirectory
  Editors = {alice}
  Moves <- ExtraLosesItsKey
  Latency = 0
  MaxTime = 0
INVARIANTS Entitled NothingLost
PROPERTIES Delegates LooksUp Ends
