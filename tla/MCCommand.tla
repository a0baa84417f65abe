----------------------------- MODULE MCCommand -------------------------------
(* A small instance of Command: two ldap sources around one of another kind. *)
EXTENDS Command

CONSTANTS corp, home, edge, line, hostKeytab, otherKeytab

InOrder == <<corp, home, edge>>

(* Settings of the ldap sources *)
Plain ==
  [scheme |-> "ldaps", starttls |-> FALSE, auth |-> "anonymous", identity |-> FALSE,
   principal |-> FALSE, choice |-> "auto", keytab |-> hostKeytab, filtered |-> TRUE,
   issuers |-> FALSE, loads |-> TRUE]
Kerberos == [Plain EXCEPT !.scheme = "ldap", !.auth = "gssapi"]
Simple == [Plain EXCEPT !.auth = "simple", !.identity = TRUE]
SimpleStartTLS == [Simple EXCEPT !.scheme = "ldap", !.starttls = TRUE,
                                 !.choice = "python-ldap"]
CorpSettings ==
  {Kerberos, SimpleStartTLS,
   [Simple EXCEPT !.choice = "ldap3", !.issuers = TRUE],
   [Simple EXCEPT !.scheme = "ldap"],
   [Plain EXCEPT !.auth = "external"],
   [Plain EXCEPT !.scheme = "ldap"],
   [Plain EXCEPT !.starttls = TRUE, !.filtered = FALSE],
   [Kerberos EXCEPT !.principal = TRUE],
   [Plain EXCEPT !.choice = "other", !.loads = FALSE]}
EdgeSettings == [Kerberos EXCEPT !.keytab = otherKeytab]
TwoSources ==
  {[s \in {corp, edge} |-> IF s = corp THEN c ELSE EdgeSettings] : c \in CorpSettings}

(* Hosts *)
AllLibraries ==
  [libs |-> {"python-ldap", "ldap3", "gssapi"}, password |-> TRUE,
   readable |-> {hostKeytab, otherKeytab}, ktname |-> None]
SomeHosts ==
  [libs : SUBSET {"python-ldap", "ldap3", "gssapi"}, password : BOOLEAN,
   readable : {{otherKeytab}, {hostKeytab, otherKeytab}}, ktname : {None}]
    \cup {[AllLibraries EXCEPT !.ktname = hostKeytab]}

(* Certificates and entries *)
Login == [parses |-> TRUE, serializes |-> TRUE, trusted |-> TRUE, valid |-> TRUE,
          selfSigned |-> FALSE, usage |-> "signature", purposes |-> "clientAuth"]
Mail == [Login EXCEPT !.purposes = "other"]
Garbage == [Login EXCEPT !.parses = FALSE]
Foreign == [Login EXCEPT !.trusted = FALSE, !.serializes = FALSE]
AllCerts == {Login, Mail, Garbage, Foreign}
TwoEntries == {{Login, Mail, Foreign}, {Login, Garbage}}

(* Documents *)
File == [backend |-> "file", enabled |-> TRUE, imports |-> TRUE]
Base == [n \in Names |-> IF n = home THEN File ELSE [File EXCEPT !.backend = "ldap"]]
SomeDocuments ==
  {Base,
   [Base EXCEPT ![home].backend = "vault"],
   [Base EXCEPT ![home].backend = None],
   [Base EXCEPT ![home].backend = "lost"],
   [Base EXCEPT ![corp].enabled = FALSE, ![edge].imports = FALSE],
   [Base EXCEPT ![corp].enabled = FALSE, ![corp].imports = FALSE]}
BackendNames == BuiltIn \cup {"vault", "lost"}
Installed == {[name |-> "vault", loads |-> TRUE], [name |-> "lost", loads |-> FALSE],
              [name |-> "ldap", loads |-> TRUE]}
=============================================================================
