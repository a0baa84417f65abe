\* resolve with two ldap sources and one other, on hosts with any of the libraries.
SPECIFICATION FairSpec
CONSTANTS
  corp = corp
  home = home
  edge = edge
  line = line
  hostKeytab = hostKeytab
  otherKeytab = otherKeytab
  None = None
  Failed = Failed
  Refused = Refused
  Sources = {corp, edge}
  Order <- InOrder
  Hosts <- SomeHosts
  Configs <- TwoSources
  Keytabs = {hostKeytab, otherKeytab}
  Certs <- AllCerts
  Entries <- TwoEntries
  Documents <- SomeDocuments
  Backends <- BackendNames
  Plugins <- Installed
  Lines = {line}
  Own = Own
INVARIANTS Protected HeardOut AllOrNothing StatusTrue SetUpFirst PluginsIndependent
PROPERTY Ends
CHECK_DEADLOCK FALSE
