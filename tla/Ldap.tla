-------------------------------- MODULE Ldap ---------------------------------
(***************************************************************************)
(* The ldap sources of one process: what their constructor refuses, which  *)
(* of the two client libraries it takes, and a search from the connection  *)
(* to the certificates that become keys.                                   *)
(*                                                                         *)
(* The directory decides who logs in, so the two clients must not only     *)
(* find the same keys: neither may send the password or take an answer     *)
(* over a connection that anybody can read and change, and neither may     *)
(* take a refusal for "this user has no keys".  Configuration, libraries   *)
(* and replies of the server are free.                                     *)
(***************************************************************************)
CONSTANTS
  Sources,      \* the ldap sources
  Hosts,        \* the hosts the program may run on
  Configs,      \* the configurations, each [Sources -> Setting]
  Keytabs,      \* keytab files
  Certs,        \* certificates, records of Cert
  Entries,      \* directory entries: sets of certificates
  None,         \* no answer yet, no reply, no keytab
  Failed,       \* the exception a search ends with
  Refused       \* the exception a constructor ends with

Setting ==
  [scheme : {"ldaps", "ldap", "other"}, starttls : BOOLEAN,
   auth : {"gssapi", "simple", "external", "anonymous", "other"},
   identity : BOOLEAN,      \* bind_dn and password_env, or tls_cert, is given
   principal : BOOLEAN,     \* a principal is given
   choice : {"auto", "python-ldap", "ldap3", "other"},
   keytab : Keytabs,
   filtered : BOOLEAN,      \* cert_filter is only_auth_keys, not none
   issuers : BOOLEAN,       \* issuer_ca is given
   loads : BOOLEAN]         \* cert_filter and issuer_ca can be loaded

Host == [libs : SUBSET {"python-ldap", "ldap3", "gssapi"},
         password : BOOLEAN,        \* the variable of password_env is set
         readable : SUBSET Keytabs, \* keytabs the process can read
         ktname : Keytabs \cup {None}]   \* KRB5_CLIENT_KTNAME at the start

Cert == [parses : BOOLEAN, serializes : BOOLEAN, trusted : BOOLEAN,
         valid : BOOLEAN, selfSigned : BOOLEAN,
         usage : {"none", "signature", "other"},
         purposes : {"none", "clientAuth", "any", "other"}]

Answer == [keys : SUBSET Certs]
Clients == {"python-ldap", "ldap3"}
Codes == {"success", "noSuchObject", "other"}
Reply == [op : {"connect", "starttls", "bind", "search"}, code : Codes]
Steps == {"new", "idle", "connect", "starttls", "bind", "search", "certs"}

ASSUME LdapAssumption ==
  /\ Hosts \subseteq Host
  /\ Configs \subseteq [Sources -> Setting]
  /\ Certs \subseteq Cert
  /\ Entries \subseteq SUBSET Certs
  /\ None \notin Keytabs \cup Clients \cup {Failed, Refused}
  /\ None \notin Answer
  /\ None \notin Reply
  /\ Failed \notin Answer
  /\ Refused \notin Clients

VARIABLES
  host,         \* the libraries and the environment it runs in
  config,       \* the options of every source
  ktname,       \* os.environ["KRB5_CLIENT_KTNAME"]
  client,       \* the client of each source, Refused or None
  pc,           \* where each source is
  channel,      \* its connection: closed, plain, tls, or sealed by Kerberos
  heard,        \* history: the last reply of the server in this search, or None
  found,        \* history: the entries it found
  todo,         \* the certificates it has yet to convert
  kept,         \* those that have become keys
  answer        \* its keys, Failed or None

ldapVars == <<host, config, ktname, client, pc, channel, heard, found, todo, kept,
              answer>>
given == <<host, config>>
session == <<channel, heard, found, todo, kept, answer>>

LdapInit ==
  /\ host \in Hosts
  /\ config \in Configs
  /\ ktname = host.ktname
  /\ client = [s \in Sources |-> None]
  /\ pc = [s \in Sources |-> "new"]
  /\ channel = [s \in Sources |-> "closed"]
  /\ heard = [s \in Sources |-> None]
  /\ found = [s \in Sources |-> {}]
  /\ todo = [s \in Sources |-> {}]
  /\ kept = [s \in Sources |-> {}]
  /\ answer = [s \in Sources |-> None]

-----------------------------------------------------------------------------
(* LDAPSource.__init__                                                     *)

\* Definitions named X_... are faulty variants of X; no specification uses them.
\* Here: StartTLS is not asked for.
Accepts_AnyScheme(c) ==
  /\ c.scheme \in {"ldaps", "ldap"}
  /\ c.auth # "other"
  /\ c.auth \in {"simple", "external"} => c.identity

\* The options are allowed together.
Accepts(c) ==
  /\ c.scheme \in {"ldaps", "ldap"}
  /\ c.auth # "other"
  /\ c.scheme = "ldap" => c.starttls \/ c.auth = "gssapi"
  /\ c.auth \in {"simple", "external"} => c.identity
  /\ c.auth = "simple" /\ c.scheme = "ldap" => c.starttls

\* LDAP3Client.__init__
LDAP3Usable(c) ==
  /\ "ldap3" \in host.libs
  /\ c.auth = "gssapi" => "gssapi" \in host.libs

\* PythonLDAPClient.__init__
PythonUsable(c) == "python-ldap" \in host.libs /\ ~ c.principal

Usable(c, lib) ==
  \/ lib = "ldap3" /\ LDAP3Usable(c)
  \/ lib = "python-ldap" /\ PythonUsable(c)

\* make_client: auto takes ldap3 where python-ldap does not import or a principal
\* asks for ldap3.
Chosen(c) ==
  LET lib == IF c.choice # "auto" THEN c.choice
             ELSE IF "python-ldap" \in host.libs /\ ~ c.principal THEN "python-ldap"
             ELSE "ldap3"
  IN  IF Usable(c, lib) THEN lib ELSE Refused

\* use_machine_keytab: the first source that may, sets it for all.
Keytab(c) ==
  IF c.auth = "gssapi" /\ ktname = None /\ c.keytab \in host.readable
  THEN c.keytab ELSE ktname

\* A source that is refused for its client has set the keytab already.
Construct(s) ==
  LET c == config[s]
  IN  /\ pc[s] = "new"
      /\ pc' = [pc EXCEPT ![s] = "idle"]
      /\ client' = [client EXCEPT
           ![s] = IF Accepts(c) /\ c.loads THEN Chosen(c) ELSE Refused]
      /\ ktname' = IF Accepts(c) THEN Keytab(c) ELSE ktname
      /\ UNCHANGED <<given, session>>

-----------------------------------------------------------------------------
(* The client: certificates()                                              *)

Goto(s, from, to) ==
  /\ pc[s] = from
  /\ pc' = [pc EXCEPT ![s] = to]

\* The search is over; whichever way, the connection is closed (finally: unbind).
Return(s, from, result) ==
  /\ Goto(s, from, "idle")
  /\ answer' = [answer EXCEPT ![s] = result]
  /\ channel' = [channel EXCEPT ![s] = "closed"]
  /\ todo' = [todo EXCEPT ![s] = {}]
  /\ kept' = [kept EXCEPT ![s] = {}]
  /\ UNCHANGED <<given, ktname, client>>

Ask(s) ==
  /\ client[s] \in Clients
  /\ Goto(s, "idle", "connect")
  /\ answer' = [answer EXCEPT ![s] = None]
  /\ heard' = [heard EXCEPT ![s] = None]
  /\ found' = [found EXCEPT ![s] = {}]
  /\ UNCHANGED <<given, ktname, client, channel, todo, kept>>

Hears(s, op, code) == heard' = [heard EXCEPT ![s] = [op |-> op, code |-> code]]

\* LDAPSettings.password is empty: ldap3 finds out before it connects, python-ldap
\* when it is about to bind.
NoPassword(s) ==
  /\ config[s].auth = "simple"
  /\ ~ host.password
  /\ pc[s] = IF client[s] = "ldap3" THEN "connect" ELSE "bind"
  /\ Return(s, pc[s], Failed)
  /\ UNCHANGED <<heard, found>>

MayBind(s) == config[s].auth = "simple" => host.password

\* What follows on the open connection; python-ldap does not bind as nobody.
Binding(s) ==
  IF config[s].auth = "anonymous" /\ client[s] = "python-ldap" THEN "search" ELSE "bind"

Connect(s) ==
  /\ client[s] = "ldap3" => MayBind(s)
  /\ Goto(s, "connect", IF config[s].starttls THEN "starttls" ELSE Binding(s))
  /\ channel' = [channel EXCEPT
                   ![s] = IF config[s].scheme = "ldaps" THEN "tls" ELSE "plain"]
  /\ Hears(s, "connect", "success")
  /\ UNCHANGED <<given, ktname, client, found, todo, kept, answer>>

StartTLS(s) ==
  /\ Goto(s, "starttls", Binding(s))
  /\ channel' = [channel EXCEPT ![s] = "tls"]
  /\ Hears(s, "starttls", "success")
  /\ UNCHANGED <<given, ktname, client, found, todo, kept, answer>>

\* Kerberos seals a connection without TLS (ENCRYPT, MIN_SSF), or the bind fails.
Bind(s) ==
  /\ MayBind(s)
  /\ Goto(s, "bind", "search")
  /\ channel' = [channel EXCEPT
       ![s] = IF config[s].auth = "gssapi" /\ @ = "plain" THEN "sealed" ELSE @]
  /\ Hears(s, "bind", "success")
  /\ UNCHANGED <<given, ktname, client, found, todo, kept, answer>>

\* _one_entry
Single(entries) == \E one \in entries : entries = {one}

NoKeys == [keys |-> {}]

\* One entry is read, none is no keys, more than one an error.
Search(s, entries) ==
  /\ pc[s] = "search"
  /\ Hears(s, "search", "success")
  /\ found' = [found EXCEPT ![s] = entries]
  /\ \/ /\ Single(entries)
        /\ Goto(s, "search", "certs")
        /\ todo' = [todo EXCEPT ![s] = UNION entries]
        /\ channel' = [channel EXCEPT ![s] = "closed"]
        /\ UNCHANGED <<given, ktname, client, kept, answer>>
     \/ /\ ~ Single(entries)
        /\ Return(s, "search", IF entries = {} THEN NoKeys ELSE Failed)

\* Every refusal of the server passes for an empty answer.
AsNoKeys_Any(s, op, code) == op = "search"

\* What passes for "no keys": noSuchObject as the answer of the search, and for
\* python-ldap, whose except clause covers them too, of StartTLS and the bind.
AsNoKeys(s, op, code) ==
  code = "noSuchObject" /\ (op = "search" \/ client[s] = "python-ldap")

\* The server refuses, the connection breaks or a timeout passes.
Refuse(s, op, code) ==
  /\ code # "success"
  /\ op = "connect" => code # "noSuchObject"
  /\ op = "bind" \/ (op = "connect" /\ client[s] = "ldap3") => MayBind(s)
  /\ Return(s, op, IF AsNoKeys(s, op, code) THEN NoKeys ELSE Failed)
  /\ Hears(s, op, code)
  /\ UNCHANGED found

-----------------------------------------------------------------------------
(* LDAPSource.authorized_keys                                              *)

\* only_auth_keys
OnlyAuthKeys(cert) ==
  /\ cert.valid
  /\ ~ cert.selfSigned
  /\ cert.usage # "other"
  /\ cert.purposes # "other"

\* The certificate is to become a key.
Wanted(s, cert) ==
  /\ config[s].issuers => cert.trusted
  /\ config[s].filtered => OnlyAuthKeys(cert)

\* A certificate that cannot be converted is left out.
Convert_Skips(s, cert) ==
  /\ pc[s] = "certs"
  /\ cert \in todo[s]
  /\ todo' = [todo EXCEPT ![s] = @ \ {cert}]
  /\ kept' = IF cert.parses /\ Wanted(s, cert) /\ cert.serializes
             THEN [kept EXCEPT ![s] = @ \cup {cert}] ELSE kept
  /\ UNCHANGED <<given, ktname, client, pc, channel, heard, found, answer>>

\* One value of the attribute after the other: one that does not parse, or is
\* wanted and has no OpenSSH form, is an exception and costs the others too.
Convert(s, cert) ==
  /\ pc[s] = "certs"
  /\ cert \in todo[s]
  /\ UNCHANGED <<heard, found>>
  /\ IF cert.parses /\ (Wanted(s, cert) => cert.serializes)
     THEN /\ todo' = [todo EXCEPT ![s] = @ \ {cert}]
          /\ kept' = IF Wanted(s, cert) THEN [kept EXCEPT ![s] = @ \cup {cert}] ELSE kept
          /\ UNCHANGED <<given, ktname, client, pc, channel, answer>>
     ELSE Return(s, "certs", Failed)

Converted(s) ==
  /\ todo[s] = {}
  /\ Return(s, "certs", [keys |-> kept[s]])
  /\ UNCHANGED <<heard, found>>

-----------------------------------------------------------------------------

\* The search runs on; the libraries' timeouts end every wait for the server.
SearchStep(s) ==
  \/ NoPassword(s) \/ Connect(s) \/ StartTLS(s) \/ Bind(s)
  \/ \E entries \in SUBSET Entries : Search(s, entries)
  \/ \E op \in {"connect", "starttls", "bind", "search"}, code \in Codes :
       Refuse(s, op, code)
  \/ \E cert \in Certs : Convert(s, cert)
  \/ Converted(s)

LdapNext == \E s \in Sources : Construct(s) \/ Ask(s) \/ SearchStep(s)

LdapSpec == LdapInit /\ [][LdapNext]_ldapVars

-----------------------------------------------------------------------------
(* Properties                                                              *)

LdapTypeOK ==
  /\ host \in Host
  /\ config \in [Sources -> Setting]
  /\ ktname \in Keytabs \cup {None}
  /\ client \in [Sources -> Clients \cup {Refused, None}]
  /\ pc \in [Sources -> Steps]
  /\ channel \in [Sources -> {"closed", "plain", "tls", "sealed"}]
  /\ heard \in [Sources -> Reply \cup {None}]
  /\ found \in [Sources -> SUBSET SUBSET Certs]
  /\ todo \in [Sources -> SUBSET Certs]
  /\ kept \in [Sources -> SUBSET Certs]
  /\ answer \in [Sources -> Answer \cup {Failed, None}]

\* The password goes over TLS only, and the entries come over TLS or a session that
\* Kerberos seals: what LDAPSource.__init__ refuses is enough for every way the two
\* clients take ("A clear-text connection decides who logs in").  However a search
\* ends, it leaves no connection open.
Protected ==
  \A s \in Sources :
    /\ pc[s] \in {"new", "idle", "certs"} => channel[s] = "closed"
    /\ pc[s] = "bind" /\ config[s].auth # "gssapi" => channel[s] = "tls"
    /\ pc[s] = "search" => channel[s] \in {"tls", "sealed"}

\* A source that names no error has heard the search answered: no outage and no
\* refusal passes for "no keys", which would be cached as such.  The exception is
\* python-ldap's noSuchObject as the answer of StartTLS or the bind.
HeardOut ==
  \A s \in Sources : answer[s] \notin {Failed, None} =>
    \/ heard[s].op = "search" /\ heard[s].code \in {"success", "noSuchObject"}
    \/ client[s] = "python-ldap" /\ heard[s].code = "noSuchObject" /\ answer[s] = NoKeys

\* The answer is the wanted certificates of the one entry, all of them or an error,
\* so that the entry that is cached for a user is never a part of the keys.
AllOrNothing ==
  \A s \in Sources : answer[s] \notin {Failed, None} =>
    /\ found[s] = {} \/ Single(found[s])
    /\ answer[s].keys = {cert \in UNION found[s] : Wanted(s, cert)}
    /\ \A cert \in UNION found[s] : cert.parses

=============================================================================
