\* purge --expired --user alice, beside logins.
SPECIFICATION Spec
CONSTANTS
  alice = alice
  bob = bob
  ldap = ldap
  http = http
  p1 = p1
  p2 = p2
  l1 = l1
  root = root
  Root = root
  None = None
  Inherit = Inherit
  Procs = {p1}
  Logins = {l1}
  Users = {alice, bob}
  Sources = {ldap, http}
  Entries <- TwoEntries
  Ttl = 0
  NegTtl = 1
  Expire <- OwnExpire
  Answers <- OneAnswer
  Reach <- HttpOnly
  Foreigns <- Trusting
  Initials <- OldKeys
  Purges <- Limited
  Warms <- Nobody
  MaxTime = 1
SYMMETRY Symmetric
PROPERTY PurgeLimited
