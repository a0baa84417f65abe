\* Two requests for alice while her file is removed.
SPECIFICATION Spec
CONSTANTS
  alice = alice
  bob = bob
  carol = carol
  admins = admins
  staff = staff
  toBob = toBob
  toGroups = toGroups
  t1 = t1
  t2 = t2
  t3 = t3
  None = None
  NoGrant = NoGrant
  Threads = {t1, t2}
  Users = {alice, bob, carol}
  Accounts = {alice}
  Groups = {admins, staff}
  Grants = {toBob, toGroups}
  Writes <- AnyFile
  GrantUsers <- NamedUsers
  GrantGroups <- NamedGroups
  Members <- GroupMembers
  Serves <- AllServeAlice
  Faulty = FALSE
SYMMETRY Symmetric
INVARIANT NoGrantSurvives
