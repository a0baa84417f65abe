\* Three requests for alice at once; the file changes, reads and lookups fail.
SPECIFICATION Spec
CONSTANTS
  alice = alice
  bob = bob
  carol = carol
  admins = admins
  staff = staff
  toBob = toBob
  toGroups = toGroups
  t1 = t1
  t2 = t2
  t3 = t3
  None = None
  NoGrant = NoGrant
  Threads = {t1, t2, t3}
  Users = {alice, bob, carol}
  Accounts = {alice}
  Groups = {admins, staff}
  Grants = {toGroups}
  Writes <- AnyFile
  GrantUsers <- NamedUsers
  GrantGroups <- NamedGroups
  Members <- GroupMembers
  Serves <- AllServeAlice
  Faulty = TRUE
SYMMETRY Symmetric
INVARIANTS GrantFromOverlap GrantHonoured WholeGrant
