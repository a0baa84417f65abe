---------------------------- MODULE CommandProofs ----------------------------
(***************************************************************************)
(* What Command.tla's run checks on three sources, for any configuration   *)
(* file, any plugins and any directory.  First what it checks of one ldap  *)
(* source on a few hosts, configurations and certificates, for all of      *)
(* them; then the command around it.                                       *)
(***************************************************************************)
EXTENDS Command, TLAPS

-----------------------------------------------------------------------------
(* One ldap source                                                         *)

Searching == {"connect", "starttls", "bind", "search", "certs"}

\* Only an accepted source is asked, and an answer comes after it.
Constructed(s) ==
  /\ client[s] \in Clients => Accepts(config[s])
  /\ pc[s] \in Searching => client[s] \in Clients /\ answer[s] = None
  /\ pc[s] = "new" => answer[s] = None

\* What protects the connection on the way to the search.
Secured(s) ==
  /\ pc[s] \in {"new", "idle", "connect", "certs"} => channel[s] = "closed"
  /\ pc[s] = "starttls" => config[s].starttls
  /\ pc[s] = "bind" =>
       channel[s] = "tls" \/ (config[s].auth = "gssapi" /\ channel[s] = "plain")
  /\ pc[s] = "search" => channel[s] \in {"tls", "sealed"}

\* The search so far: nothing found, then the certificates of one entry, of which
\* those not waiting have been converted.
Halfway(s) ==
  /\ pc[s] \in {"connect", "starttls", "bind", "search"} => found[s] = {}
  /\ pc[s] # "certs" => todo[s] = {} /\ kept[s] = {}
  /\ pc[s] = "certs" =>
       /\ heard[s] = [op |-> "search", code |-> "success"]
       /\ Single(found[s])
       /\ todo[s] \subseteq UNION found[s]
       /\ \A cert \in (UNION found[s]) \ todo[s] : cert.parses
       /\ kept[s] = {cert \in (UNION found[s]) \ todo[s] : Wanted(s, cert)}

\* What is to be shown of the answer of one source.
Heard(s) ==
  answer[s] \notin {Failed, None} =>
    \/ heard[s].op = "search" /\ heard[s].code \in {"success", "noSuchObject"}
    \/ client[s] = "python-ldap" /\ heard[s].code = "noSuchObject" /\ answer[s] = NoKeys

Whole(s) ==
  answer[s] \notin {Failed, None} =>
    /\ found[s] = {} \/ Single(found[s])
    /\ answer[s].keys = {cert \in UNION found[s] : Wanted(s, cert)}
    /\ \A cert \in UNION found[s] : cert.parses

LInv(s) == Constructed(s) /\ Secured(s) /\ Halfway(s) /\ Heard(s) /\ Whole(s)

LdapInv == LdapTypeOK /\ \A s \in Sources : LInv(s)

-----------------------------------------------------------------------------

\* Nothing has been asked at first.
LEMMA LdapInitInv == LdapInit => LdapInv
<1> SUFFICES ASSUME LdapInit PROVE LdapInv
  OBVIOUS
<1>1. LdapTypeOK
  BY LdapAssumption DEF LdapInit, LdapTypeOK, Steps, Host
<1>2. ASSUME NEW s \in Sources PROVE LInv(s)
  BY <1>2, LdapAssumption
  DEF LdapInit, LInv, Constructed, Secured, Halfway, Heard, Whole, Searching, Clients
<1> QED
  BY <1>1, <1>2 DEF LdapInv

\* A step of one source leaves the others alone.
LEMMA OtherSource ==
  ASSUME NEW s \in Sources, LInv(s), config' = config,
         client'[s] = client[s], pc'[s] = pc[s], channel'[s] = channel[s],
         heard'[s] = heard[s], found'[s] = found[s], todo'[s] = todo[s],
         kept'[s] = kept[s], answer'[s] = answer[s]
  PROVE  LInv(s)'
<1>1. \A cert : Wanted(s, cert)' <=> Wanted(s, cert)
  BY DEF Wanted
<1>2. Constructed(s)' /\ Secured(s)'
  BY DEF LInv, Constructed, Secured
<1>3. Halfway(s)'
  BY <1>1 DEF LInv, Halfway
<1>4. Heard(s)' /\ Whole(s)'
  BY <1>1 DEF LInv, Heard, Whole
<1> QED
  BY <1>2, <1>3, <1>4 DEF LInv

\* The client make_client takes is one of the two, or there is none.
LEMMA ChosenClient == ASSUME NEW c PROVE Chosen(c) \in Clients \cup {Refused}
  BY DEF Chosen, Usable, Clients

\* A source that is constructed is closed and has a client or none.
LEMMA ConstructInv ==
  ASSUME LdapInv, NEW s \in Sources, Construct(s) PROVE LdapInv'
<1> USE DEF LdapInv
<1>1. config' = config /\ pc[s] = "new" /\ config[s] \in Setting
  BY DEF Construct, given, LdapTypeOK
<1>2. /\ pc' \in [Sources -> Steps] /\ pc'[s] = "idle"
      /\ client' \in [Sources -> Clients \cup {Refused, None}]
      /\ client'[s] \in Clients => Accepts(config[s])
  BY ChosenClient, LdapAssumption DEF Construct, LdapTypeOK, Steps
<1>3. ktname' \in Keytabs \cup {None}
  BY <1>1 DEF Construct, Keytab, LdapTypeOK, Setting
<1>4. LdapTypeOK'
  BY <1>2, <1>3 DEF LdapTypeOK, Construct, given, session
<1>5. LInv(s)'
  <2>1. answer[s] = None /\ channel[s] = "closed" /\ todo[s] = {} /\ kept[s] = {}
    BY <1>1 DEF LInv, Constructed, Secured, Halfway
  <2>2. Accepts(config[s])' <=> Accepts(config[s])
    BY <1>1 DEF Accepts
  <2> QED
    BY <1>1, <1>2, <2>1, <2>2
    DEF Construct, session, LInv, Constructed, Secured, Halfway, Heard, Whole, Searching
<1>6. ASSUME NEW r \in Sources, r # s PROVE LInv(r)'
  BY <1>1, <1>6, OtherSource DEF Construct, session, LdapTypeOK
<1> QED
  BY <1>4, <1>5, <1>6

\* Ask(s) starts a search with nothing heard and nothing found.
LEMMA AskInv == ASSUME LdapInv, NEW s \in Sources, Ask(s) PROVE LdapInv'
<1> USE DEF LdapInv
<1>1. /\ pc[s] = "idle" /\ pc'[s] = "connect" /\ pc' \in [Sources -> Steps]
      /\ answer'[s] = None /\ found'[s] = {} /\ config' = config
  BY DEF Ask, Goto, LdapTypeOK, Steps, given
<1>2. LdapTypeOK'
  BY <1>1 DEF LdapTypeOK, Ask, given
<1>3. LInv(s)'
  <2>1. Constructed(s)'
    BY <1>1 DEF Ask, LInv, Constructed, Accepts
  <2>2. Secured(s)'
    BY <1>1 DEF Ask, LInv, Secured
  <2>3. Halfway(s)'
    BY <1>1 DEF Ask, LInv, Halfway
  <2>4. Heard(s)' /\ Whole(s)'
    BY <1>1 DEF Heard, Whole
  <2> QED
    BY <2>1, <2>2, <2>3, <2>4 DEF LInv
<1>4. ASSUME NEW r \in Sources, r # s PROVE LInv(r)'
  BY <1>1, <1>4, OtherSource DEF Ask, Goto, LdapTypeOK
<1> QED
  BY <1>2, <1>3, <1>4

\* A search that is over leaves a closed connection and an answer that was heard
\* and is whole.
LEMMA ReturnInv ==
  ASSUME LdapInv, NEW s \in Sources, NEW from \in Searching,
         NEW result \in Answer \cup {Failed}, Return(s, from, result),
         heard' \in [Sources -> Reply \cup {None}],
         found' \in [Sources -> SUBSET SUBSET Certs],
         \A r \in Sources : r # s => heard'[r] = heard[r] /\ found'[r] = found[r],
         result # Failed =>
           /\ \/ heard'[s].op = "search" /\ heard'[s].code \in {"success", "noSuchObject"}
              \/ /\ client[s] = "python-ldap" /\ heard'[s].code = "noSuchObject"
                 /\ result = NoKeys
           /\ found'[s] = {} \/ Single(found'[s])
           /\ result.keys = {cert \in UNION found'[s] : Wanted(s, cert)}
           /\ \A cert \in UNION found'[s] : cert.parses
  PROVE  LdapInv'
<1> USE DEF LdapInv
<1>1. /\ pc[s] = from /\ pc'[s] = "idle" /\ pc' \in [Sources -> Steps]
      /\ answer'[s] = result /\ channel'[s] = "closed" /\ todo'[s] = {} /\ kept'[s] = {}
      /\ config' = config /\ client' = client
  BY DEF Return, Goto, LdapTypeOK, Steps, given
<1>2. LdapTypeOK'
  BY <1>1 DEF LdapTypeOK, Return, given
<1>3. \A cert : Wanted(s, cert)' <=> Wanted(s, cert)
  BY <1>1 DEF Wanted
<1>4. LInv(s)'
  <2>1. Constructed(s)' /\ Secured(s)' /\ Halfway(s)'
    BY <1>1 DEF LInv, Constructed, Secured, Halfway, Accepts, Searching
  <2>2. Heard(s)' /\ Whole(s)'
    BY <1>1, <1>3 DEF Heard, Whole
  <2> QED
    BY <2>1, <2>2 DEF LInv
<1>5. ASSUME NEW r \in Sources, r # s PROVE LInv(r)'
  BY <1>1, <1>5, OtherSource DEF Return, Goto, LdapTypeOK
<1> QED
  BY <1>2, <1>4, <1>5

\* A refusal of the program itself.
LEMMA NoPasswordInv == ASSUME LdapInv, NEW s \in Sources, NoPassword(s) PROVE LdapInv'
  BY ReturnInv DEF NoPassword, LdapInv, LdapTypeOK, Searching

\* The way from the connection to the search: each step of it leaves the answer open.
LEMMA OnTheWay ==
  ASSUME LdapInv, NEW s \in Sources, pc[s] \in {"connect", "starttls", "bind"},
         pc' \in [Sources -> Steps], pc'[s] \in {"starttls", "bind", "search"},
         channel' \in [Sources -> {"closed", "plain", "tls", "sealed"}],
         heard' \in [Sources -> Reply \cup {None}],
         UNCHANGED <<given, ktname, client, found, todo, kept, answer>>,
         \A r \in Sources : r # s =>
           pc'[r] = pc[r] /\ channel'[r] = channel[r] /\ heard'[r] = heard[r],
         Secured(s)'
  PROVE  LdapInv'
<1> USE DEF LdapInv
<1>1. LdapTypeOK'
  BY DEF LdapTypeOK, given
<1>2. LInv(s)'
  <2>1. answer[s] = None /\ client[s] \in Clients
    BY DEF LInv, Constructed, Searching
  <2>2. Constructed(s)'
    BY <2>1 DEF LInv, Constructed, Accepts, given
  <2>3. Halfway(s)'
    BY DEF LInv, Halfway
  <2>4. Heard(s)' /\ Whole(s)'
    BY <2>1 DEF Heard, Whole
  <2> QED
    BY <2>2, <2>3, <2>4 DEF LInv
<1>3. ASSUME NEW r \in Sources, r # s PROVE LInv(r)'
  BY <1>3, OtherSource DEF given
<1> QED
  BY <1>1, <1>2, <1>3

\* A reply is one.
LEMMA HearsReply ==
  ASSUME LdapTypeOK, NEW s \in Sources, NEW code \in Codes,
         NEW op \in {"connect", "starttls", "bind", "search"}, Hears(s, op, code)
  PROVE  /\ heard' \in [Sources -> Reply \cup {None}]
         /\ heard'[s] = [op |-> op, code |-> code]
         /\ \A r \in Sources : r # s => heard'[r] = heard[r]
  BY DEF LdapTypeOK, Hears, Reply

\* What the options allow: a connection in the clear goes on to StartTLS or to a
\* Kerberos bind.
LEMMA ConnectInv == ASSUME LdapInv, NEW s \in Sources, Connect(s) PROVE LdapInv'
<1> USE DEF LdapInv
<1>1. pc[s] = "connect" /\ client[s] \in Clients /\ Accepts(config[s])
  BY DEF Connect, Goto, LInv, Constructed, Searching
<1>2. pc'[s] = IF config[s].starttls THEN "starttls" ELSE Binding(s)
  BY DEF Connect, Goto, LdapTypeOK
<1>3. Binding(s) \in {"bind", "search"}
  BY DEF Binding
<1>4. /\ channel' \in [Sources -> {"closed", "plain", "tls", "sealed"}]
      /\ channel'[s] = IF config[s].scheme = "ldaps" THEN "tls" ELSE "plain"
      /\ \A r \in Sources : r # s => channel'[r] = channel[r]
  BY DEF Connect, LdapTypeOK
<1>5. Secured(s)'
  <2>1. config' = config
    BY DEF Connect, given
  <2>2. CASE config[s].starttls
    BY <1>2, <2>1, <2>2 DEF Secured
  <2>3. CASE ~ config[s].starttls /\ config[s].scheme = "ldaps"
    BY <1>2, <1>3, <1>4, <2>1, <2>3 DEF Secured
  <2>4. CASE /\ ~ config[s].starttls
             /\ config[s].auth = "gssapi"
             /\ config[s].scheme # "ldaps"
    <3>1. pc'[s] = "bind"
      BY <1>2, <2>4 DEF Binding
    <3> QED
      BY <1>4, <2>1, <2>4, <3>1 DEF Secured
  <2> QED
    BY <1>1, <2>2, <2>3, <2>4 DEF Accepts
<1>6. pc' \in [Sources -> Steps] /\ \A r \in Sources : r # s => pc'[r] = pc[r]
  BY <1>3 DEF Connect, Goto, LdapTypeOK, Steps
<1>7. /\ heard' \in [Sources -> Reply \cup {None}]
      /\ \A r \in Sources : r # s => heard'[r] = heard[r]
  BY HearsReply DEF Codes, Connect
<1>8. UNCHANGED <<given, ktname, client, found, todo, kept, answer>>
  BY DEF Connect
<1>9. /\ pc[s] \in {"connect", "starttls", "bind"}
      /\ pc'[s] \in {"starttls", "bind", "search"}
  BY <1>1, <1>2, <1>3
<1> QED
  BY <1>4, <1>5, <1>6, <1>7, <1>8, <1>9, OnTheWay

\* After StartTLS everything is encrypted.
LEMMA StartTLSInv == ASSUME LdapInv, NEW s \in Sources, StartTLS(s) PROVE LdapInv'
<1> USE DEF LdapInv
<1>1. pc[s] = "starttls" /\ pc'[s] = Binding(s) /\ Binding(s) \in {"bind", "search"}
  BY DEF StartTLS, Goto, LdapTypeOK, Binding
<1>2. /\ channel' \in [Sources -> {"closed", "plain", "tls", "sealed"}]
      /\ channel'[s] = "tls"
      /\ \A r \in Sources : r # s => channel'[r] = channel[r]
  BY DEF StartTLS, LdapTypeOK
<1>3. Secured(s)'
  BY <1>1, <1>2 DEF Secured
<1>4. pc' \in [Sources -> Steps] /\ \A r \in Sources : r # s => pc'[r] = pc[r]
  BY <1>1 DEF StartTLS, Goto, LdapTypeOK, Steps
<1>5. /\ heard' \in [Sources -> Reply \cup {None}]
      /\ \A r \in Sources : r # s => heard'[r] = heard[r]
  BY HearsReply DEF Codes, StartTLS
<1>6. UNCHANGED <<given, ktname, client, found, todo, kept, answer>>
  BY DEF StartTLS
<1>7. /\ pc[s] \in {"connect", "starttls", "bind"}
      /\ pc'[s] \in {"starttls", "bind", "search"}
  BY <1>1
<1> QED
  BY <1>2, <1>3, <1>4, <1>5, <1>6, <1>7, OnTheWay

\* A Kerberos bind seals what is in the clear.
LEMMA BindInv == ASSUME LdapInv, NEW s \in Sources, Bind(s) PROVE LdapInv'
<1> USE DEF LdapInv
<1>1. pc[s] = "bind" /\ pc'[s] = "search"
  BY DEF Bind, Goto, LdapTypeOK
<1>2. /\ channel' \in [Sources -> {"closed", "plain", "tls", "sealed"}]
      /\ channel'[s] = IF config[s].auth = "gssapi" /\ channel[s] = "plain"
                       THEN "sealed" ELSE channel[s]
      /\ \A r \in Sources : r # s => channel'[r] = channel[r]
  BY DEF Bind, LdapTypeOK
<1>3. Secured(s)'
  BY <1>1, <1>2 DEF LInv, Secured
<1>4. pc' \in [Sources -> Steps] /\ \A r \in Sources : r # s => pc'[r] = pc[r]
  BY <1>1 DEF Bind, Goto, LdapTypeOK, Steps
<1>5. /\ heard' \in [Sources -> Reply \cup {None}]
      /\ \A r \in Sources : r # s => heard'[r] = heard[r]
  BY HearsReply DEF Codes, Bind
<1>6. UNCHANGED <<given, ktname, client, found, todo, kept, answer>>
  BY DEF Bind
<1>7. /\ pc[s] \in {"connect", "starttls", "bind"}
      /\ pc'[s] \in {"starttls", "bind", "search"}
  BY <1>1
<1> QED
  BY <1>2, <1>3, <1>4, <1>5, <1>6, <1>7, OnTheWay

\* The entries are none, one, or an error.
LEMMA SearchInv ==
  ASSUME LdapInv, NEW s \in Sources, NEW entries \in SUBSET Entries, Search(s, entries)
  PROVE  LdapInv'
<1> USE DEF LdapInv
<1>1. /\ heard' \in [Sources -> Reply \cup {None}]
      /\ heard'[s] = [op |-> "search", code |-> "success"]
      /\ \A r \in Sources : r # s => heard'[r] = heard[r]
  BY HearsReply DEF Search, Codes
<1>2. /\ found' \in [Sources -> SUBSET SUBSET Certs]
      /\ found'[s] = entries
      /\ \A r \in Sources : r # s => found'[r] = found[r]
  BY LdapAssumption DEF Search, LdapTypeOK
<1>3. CASE /\ ~ Single(entries)
           /\ Return(s, "search", IF entries = {} THEN NoKeys ELSE Failed)
  <2>1. NoKeys \in Answer /\ NoKeys.keys = {}
    BY DEF NoKeys, Answer
  <2> QED
    BY <1>1, <1>2, <1>3, <2>1, ReturnInv DEF Searching
<1>4. CASE /\ Single(entries)
           /\ Goto(s, "search", "certs")
           /\ todo' = [todo EXCEPT ![s] = UNION entries]
           /\ channel' = [channel EXCEPT ![s] = "closed"]
           /\ UNCHANGED <<given, ktname, client, kept, answer>>
  <2>1. /\ pc[s] = "search" /\ pc'[s] = "certs" /\ pc' \in [Sources -> Steps]
        /\ \A r \in Sources : r # s => pc'[r] = pc[r]
    BY <1>4 DEF Goto, LdapTypeOK, Steps
  <2>2. UNION entries \in SUBSET Certs
    BY LdapAssumption
  <2>3. /\ todo'[s] = UNION entries /\ todo' \in [Sources -> SUBSET Certs]
        /\ channel'[s] = "closed" /\ kept'[s] = {} /\ config' = config
    BY <1>4, <2>1, <2>2 DEF LdapTypeOK, LInv, Halfway, given
  <2>4. LdapTypeOK'
    BY <1>1, <1>2, <1>4, <2>1, <2>3 DEF LdapTypeOK, given
  <2>5. LInv(s)'
    <3>1. answer[s] = None /\ client[s] \in Clients
      BY <2>1 DEF LInv, Constructed, Searching
    <3>2. Constructed(s)'
      BY <1>4, <2>3, <3>1 DEF LInv, Constructed, Accepts
    <3>3. Secured(s)'
      BY <2>1, <2>3 DEF Secured
    <3>4. Halfway(s)'
      <4>1. (UNION found'[s]) \ todo'[s] = {}
        BY <1>2, <2>3
      <4>2. Single(found[s])'
        BY <1>2, <1>4 DEF Single
      <4>3. (kept[s] = {cert \in (UNION found[s]) \ todo[s] : Wanted(s, cert)})'
        <5>1. {cert \in {} : Wanted(s, cert)'} = {}
          OBVIOUS
        <5> QED
          BY <2>3, <4>1, <5>1
      <4> QED
        BY <1>1, <1>2, <2>1, <2>3, <4>1, <4>2, <4>3 DEF Halfway
    <3>5. Heard(s)' /\ Whole(s)'
      BY <1>4, <3>1 DEF Heard, Whole
    <3> QED
      BY <3>2, <3>3, <3>4, <3>5 DEF LInv
  <2>6. ASSUME NEW r \in Sources, r # s PROVE LInv(r)'
    BY <1>1, <1>2, <1>4, <2>1, <2>3, <2>6, OtherSource DEF LdapTypeOK
  <2> QED
    BY <2>4, <2>5, <2>6
<1> QED
  BY <1>3, <1>4 DEF Search

\* A refusal is an error, or says noSuchObject.
LEMMA RefuseInv ==
  ASSUME LdapInv, NEW s \in Sources, NEW code \in Codes,
         NEW op \in {"connect", "starttls", "bind", "search"}, Refuse(s, op, code)
  PROVE  LdapInv'
<1> USE DEF LdapInv
<1>1. /\ heard' \in [Sources -> Reply \cup {None}]
      /\ heard'[s] = [op |-> op, code |-> code]
      /\ \A r \in Sources : r # s => heard'[r] = heard[r]
  BY HearsReply DEF Refuse
<1>2. pc[s] = op /\ found' = found /\ found[s] = {}
  BY DEF Refuse, Return, Goto, LInv, Halfway
<1>3. NoKeys \in Answer /\ NoKeys.keys = {}
  BY DEF NoKeys, Answer
<1>4. Return(s, op, IF AsNoKeys(s, op, code) THEN NoKeys ELSE Failed)
  BY DEF Refuse
<1> DEFINE result == IF AsNoKeys(s, op, code) THEN NoKeys ELSE Failed
<1>5. result # Failed =>
        /\ result = NoKeys /\ code = "noSuchObject"
        /\ op = "search" \/ client[s] = "python-ldap"
  BY DEF AsNoKeys
<1>6. result \in Answer \cup {Failed}
  BY <1>3
<1>7. result # Failed =>
        /\ \/ heard'[s].op = "search" /\ heard'[s].code \in {"success", "noSuchObject"}
           \/ /\ client[s] = "python-ldap" /\ heard'[s].code = "noSuchObject"
              /\ result = NoKeys
        /\ found'[s] = {}
        /\ result.keys = {cert \in UNION found'[s] : Wanted(s, cert)}
        /\ \A cert \in UNION found'[s] : cert.parses
  BY <1>1, <1>2, <1>3, <1>5
<1>8. op \in Searching /\ found' \in [Sources -> SUBSET SUBSET Certs]
  BY <1>2 DEF Searching, LdapTypeOK
<1> HIDE DEF result
<1>9. Return(s, op, result)
  BY <1>4 DEF result
<1> QED
  BY <1>1, <1>2, <1>6, <1>7, <1>8, <1>9, ReturnInv

\* A certificate becomes a key, is not wanted, or costs all others.
LEMMA ConvertInv ==
  ASSUME LdapInv, NEW s \in Sources, NEW cert \in Certs, Convert(s, cert)
  PROVE  LdapInv'
<1> USE DEF LdapInv
<1>1. pc[s] = "certs" /\ cert \in todo[s] /\ heard' = heard /\ found' = found
  BY DEF Convert
<1>2. CASE Return(s, "certs", Failed)
  BY <1>1, <1>2, ReturnInv DEF Searching, LdapTypeOK
<1>3. CASE /\ cert.parses
           /\ todo' = [todo EXCEPT ![s] = @ \ {cert}]
           /\ kept' = IF Wanted(s, cert) THEN [kept EXCEPT ![s] = @ \cup {cert}] ELSE kept
           /\ UNCHANGED <<given, ktname, client, pc, channel, answer>>
  <2>1. /\ todo'[s] = todo[s] \ {cert}
        /\ kept'[s] = IF Wanted(s, cert) THEN kept[s] \cup {cert} ELSE kept[s]
        /\ config' = config
    BY <1>3 DEF LdapTypeOK, given
  <2>2. LdapTypeOK'
    BY <1>1, <1>3 DEF LdapTypeOK, given
  <2>3. \A c : Wanted(s, c)' <=> Wanted(s, c)
    BY <2>1 DEF Wanted
  <2>4. LInv(s)'
    <3>1. Constructed(s)' /\ Secured(s)'
      BY <1>3, <2>1 DEF LInv, Constructed, Secured, Accepts
    <3>2. Halfway(s)'
      <4> DEFINE All == UNION found[s]
      <4>1. /\ todo[s] \subseteq All
            /\ \A c \in All \ todo[s] : c.parses
            /\ kept[s] = {c \in All \ todo[s] : Wanted(s, c)}
        BY <1>1 DEF LInv, Halfway
      <4>2. All \ todo'[s] = (All \ todo[s]) \cup {cert}
        BY <1>1, <2>1, <4>1
      <4>3. \A c : c \in kept'[s] <=> c \in All \ todo'[s] /\ Wanted(s, c)
        <5>1. \A c : c \in kept'[s] <=> c \in kept[s] \/ (c = cert /\ Wanted(s, cert))
          BY <2>1
        <5>2. \A c : c \in kept[s] <=> c \in All \ todo[s] /\ Wanted(s, c)
          BY <4>1
        <5>3. \A c : c \in All \ todo'[s] <=> c \in All \ todo[s] \/ c = cert
          BY <4>2
        <5> QED
          BY <5>1, <5>2, <5>3
      <4>4. (kept[s] = {c \in (UNION found[s]) \ todo[s] : Wanted(s, c)})'
        <5>1. found'[s] = found[s]
          BY <1>1
        <5>2. \A c : c \in kept'[s] <=> c \in (UNION found'[s]) \ todo'[s] /\ Wanted(s, c)'
          BY <2>3, <4>3, <5>1
        <5> QED
          BY <5>2
      <4>5. todo'[s] \subseteq All /\ \A c \in All \ todo'[s] : c.parses
        BY <1>3, <2>1, <4>1, <4>2
      <4>6. Single(found[s])'
        BY <1>1 DEF LInv, Halfway, Single
      <4>7. heard'[s] = [op |-> "search", code |-> "success"] /\ pc'[s] = "certs"
        BY <1>1, <1>3 DEF LInv, Halfway
      <4> QED
        BY <1>1, <4>4, <4>5, <4>6, <4>7 DEF Halfway
    <3>3. Heard(s)' /\ Whole(s)'
      BY <1>1, <1>3, <2>3 DEF LInv, Heard, Whole
    <3> QED
      BY <3>1, <3>2, <3>3 DEF LInv
  <2>5. ASSUME NEW r \in Sources, r # s PROVE LInv(r)'
    BY <1>1, <1>3, <2>1, <2>5, OtherSource DEF LdapTypeOK
  <2> QED
    BY <2>2, <2>4, <2>5
<1> QED
  BY <1>2, <1>3 DEF Convert

\* With no certificate waiting, the keys are all that are wanted.
LEMMA ConvertedInv == ASSUME LdapInv, NEW s \in Sources, Converted(s) PROVE LdapInv'
<1> USE DEF LdapInv
<1>1. pc[s] = "certs" /\ todo[s] = {} /\ heard' = heard /\ found' = found
  BY DEF Converted, Return, Goto
<1>2. [keys |-> kept[s]] \in Answer /\ [keys |-> kept[s]].keys = kept[s]
  BY DEF LdapTypeOK, Answer
<1>3. /\ heard[s].op = "search" /\ heard[s].code = "success"
      /\ Single(found[s])
      /\ kept[s] = {cert \in UNION found[s] : Wanted(s, cert)}
      /\ \A cert \in UNION found[s] : cert.parses
  BY <1>1 DEF LInv, Halfway
<1> QED
  BY <1>1, <1>2, <1>3, ReturnInv DEF Converted, Searching, LdapTypeOK

\* Every step of every source keeps the invariant.
LEMMA LdapStepInv == LdapInv /\ [LdapNext]_ldapVars => LdapInv'
<1>1. ASSUME LdapInv, NEW s \in Sources, SearchStep(s) PROVE LdapInv'
  BY <1>1, NoPasswordInv, ConnectInv, StartTLSInv, BindInv, SearchInv, RefuseInv,
     ConvertInv, ConvertedInv DEF SearchStep
<1>2. ASSUME LdapInv, UNCHANGED ldapVars PROVE LdapInv'
  <2>1. LdapTypeOK'
    BY <1>2 DEF LdapInv, LdapTypeOK, ldapVars
  <2>2. ASSUME NEW s \in Sources PROVE LInv(s)'
    BY <1>2, <2>2, OtherSource DEF LdapInv, ldapVars
  <2> QED
    BY <2>1, <2>2 DEF LdapInv
<1> QED
  BY <1>1, <1>2, ConstructInv, AskInv DEF LdapNext

\* What the invariant is for.
LEMMA LdapSafe == LdapInv => Protected /\ HeardOut /\ AllOrNothing
<1>1. LdapInv => Protected
  BY DEF LdapInv, LInv, Secured, Protected
<1>2. LdapInv => HeardOut
  BY DEF LdapInv, LInv, Heard, HeardOut
<1>3. LdapInv => AllOrNothing
  BY DEF LdapInv, LInv, Whole, AllOrNothing
<1> QED
  BY <1>1, <1>2, <1>3

-----------------------------------------------------------------------------
(* The command                                                             *)

SettingUp == {"load", "plugins", "build", "globals", "cache", "user"}

\* Nobody has been asked, nothing has been answered.
Quiet ==
  /\ \A s \in Sources : pc[s] \in {"new", "idle"} /\ answer[s] = None
  /\ \A n \in Names : reply[n] = None
  /\ collected = {}
  /\ printed = {}

\* Where the command is tells what the file was and whether it has ended.
StepAgrees ==
  /\ document \in Documents
  /\ status = None <=> step # "done"
  /\ file = "broken" => step = "load" \/ status = 3
  /\ step = "load" => at = 1
  /\ step \in {"build", "plugins"} => file = "valid"
  /\ step \in SettingUp => Quiet

AllIn == \A n \in Names : Enabled(n) => n \in built

\* Everything before position `at` is built, then everything.
BuiltSoFar ==
  /\ step \in {"build", "plugins"} =>
       \A i \in 1 .. Len(Order) : i < at /\ Enabled(Order[i]) => Order[i] \in built
  /\ step \in {"globals", "cache", "user", "ask", "print"} => AllIn
  /\ status = 0 => AllIn
  /\ ~ Quiet => AllIn

Keys(n) == IF Answered(n) = Failed THEN {} ELSE Answered(n).keys

AllAnswered == \A n \in built : Answered(n) # None

AllCollected == \A x : x \in collected <=> \E n \in built : x \in Keys(n)

\* Everything before position `at` has answered and is collected, then everything.
CollectedSoFar ==
  /\ step = "ask" =>
       /\ \A i \in 1 .. Len(Order) :
            i < at /\ Order[i] \in built => Answered(Order[i]) # None
       /\ \A x : x \in collected <=>
            \E i \in 1 .. Len(Order) : i < at /\ Order[i] \in built /\ x \in Keys(Order[i])
       /\ printed = {}
  /\ step = "print" => AllAnswered /\ AllCollected
  /\ status = 0 => AllAnswered /\ AllCollected /\ printed = collected
  /\ status = Own => printed = {}
  /\ printed # {} => AllAnswered

\* The built-in names are taken, and so is every name of a plugin that loads.
RegistryAgrees ==
  /\ BuiltIn \subseteq DOMAIN registry
  /\ \A name \in BuiltIn : registry[name] = "built-in"
  /\ \A p \in Plugins \ plugins : p.loads => p.name \in DOMAIN registry

CInv ==
  /\ LdapInv
  /\ TypeOK
  /\ StepAgrees
  /\ BuiltSoFar
  /\ CollectedSoFar
  /\ RegistryAgrees

-----------------------------------------------------------------------------

\* Every table has a position in the file.
LEMMA Positions ==
  /\ \A n \in Names : \E i \in 1 .. Len(Order) : n = Order[i]
  /\ \A i \in 1 .. Len(Order) : Order[i] \in Names
  /\ Len(Order) \in Nat
  BY CommandAssumption DEF Names

\* The command starts with nothing built and nobody asked.
LEMMA InitInv == Init => CInv
<1> SUFFICES ASSUME Init PROVE CInv
  OBVIOUS
<1>1. LdapInv
  BY LdapInitInv DEF Init
<1>2. TypeOK
  BY <1>1, CommandAssumption, Positions DEF Init, TypeOK, LdapInv, CmdSteps
<1>3. Quiet
  BY DEF Init, LdapInit, Quiet
<1>4. StepAgrees
  BY <1>3 DEF Init, StepAgrees, SettingUp
<1>5. BuiltSoFar
  BY <1>3, CommandAssumption DEF Init, BuiltSoFar
<1>6. CollectedSoFar
  BY CommandAssumption DEF Init, CollectedSoFar
<1>7. RegistryAgrees
  BY DEF Init, RegistryAgrees, BuiltIn
<1> QED
  BY <1>1, <1>2, <1>4, <1>5, <1>6, <1>7 DEF CInv

\* The types of the loop's variables.
LEMMA Typed ==
  ASSUME CInv
  PROVE  /\ at \in 1 .. Len(Order) + 1 /\ plugins \subseteq Plugins /\ built \subseteq Names
         /\ status \in {0, 3, Own, None} /\ step \in CmdSteps
         /\ document \in [Names -> Table]
<1>1. TypeOK
  BY DEF CInv
<1>2. at \in 1 .. Len(Order) + 1
  BY <1>1 DEF TypeOK
<1>3. plugins \subseteq Plugins /\ built \subseteq Names
  BY <1>1 DEF TypeOK
<1>4. status \in {0, 3, Own, None} /\ step \in CmdSteps /\ document \in [Names -> Table]
  BY <1>1 DEF TypeOK
<1> QED
  BY <1>2, <1>3, <1>4

\* Where neither a source nor its answer changes, what was answered stays.
LEMMA Steady ==
  ASSUME UNCHANGED <<ldapVars, document, reply>>
  PROVE  /\ LdapInv => LdapInv'
         /\ \A n \in Names : Answered(n)' = Answered(n) /\ Keys(n)' = Keys(n)
<1>1. LdapInv => LdapInv'
  BY LdapStepInv
<1>2. ASSUME NEW n \in Names PROVE Answered(n)' = Answered(n)
  BY DEF Answered, ldapVars
<1>3. ASSUME NEW n \in Names PROVE Keys(n)' = Keys(n)
  BY <1>2 DEF Keys
<1> QED
  BY <1>1, <1>2, <1>3

\* A step of the set-up that asks nobody and builds nothing: it goes on to the next
\* part, which it may if everything is built, or stops.
LEMMA SetUpStep ==
  ASSUME CInv, step \in SettingUp,
         UNCHANGED <<ldapVars, fixed, built, reply, collected, printed>>,
         at' \in 1 .. Len(Order) + 1, plugins' \subseteq Plugins, RegistryAgrees',
         \/ Stop \/ (Leave /\ file # "broken")
         \/ /\ step' \in {"globals", "cache", "user", "ask"} /\ status' = status
            /\ AllIn /\ file # "broken"
            /\ step' = "ask" => at' = 1
         \/ /\ step' \in {"build", "plugins"} /\ status' = status /\ file = "valid"
            /\ \A i \in 1 .. Len(Order) : i < at' /\ Enabled(Order[i]) => Order[i] \in built
  PROVE  CInv'
<1> USE DEF CInv
<1>1. LdapInv'
  BY Steady DEF fixed
<1>2. Quiet /\ Quiet'
  BY DEF StepAgrees, Quiet, ldapVars
<1>3. StepAgrees'
  BY <1>2, CommandAssumption DEF StepAgrees, Stop, Leave, SettingUp, fixed
<1>4. AllIn' <=> AllIn
  BY DEF AllIn, Enabled, Listed, fixed
<1>5. BuiltSoFar'
  BY <1>2, <1>4, CommandAssumption
  DEF BuiltSoFar, StepAgrees, Stop, Leave, SettingUp, Enabled, Listed, fixed
<1>6. CollectedSoFar'
  BY <1>2, CommandAssumption DEF CollectedSoFar, StepAgrees, Stop, Leave, SettingUp, Quiet
<1>7. TypeOK'
  <2>1. step' \in CmdSteps /\ status' \in {0, 3, Own, None}
    BY DEF Stop, Leave, TypeOK, CmdSteps
  <2> QED
    BY <1>1, <2>1 DEF LdapInv, TypeOK, fixed
<1> QED
  BY <1>1, <1>3, <1>5, <1>6, <1>7

\* The file: broken stops the command, without one there is nothing to build.
LEMMA LoadInv == ASSUME CInv, Load PROVE CInv'
<1>1. RegistryAgrees'
  BY DEF CInv, Load, RegistryAgrees
<1>2. at = 1 /\ step = "load"
  BY DEF CInv, StepAgrees, Load
<1>3. file # "valid" => AllIn
  BY DEF AllIn, Enabled
<1>4. at' \in 1 .. Len(Order) + 1 /\ plugins' \subseteq Plugins
  BY Typed DEF Load
<1>5. Len(Order) \in Nat
  BY Positions
<1>6. CASE file = "broken"
  BY <1>1, <1>2, <1>4, <1>6, SetUpStep DEF Load, SettingUp
<1>7. CASE file = "valid"
  <2>1. step' = "build" /\ status' = status /\ at' = 1
    BY <1>2, <1>7 DEF Load, Continue
  <2> QED
    BY <1>1, <1>2, <1>4, <1>5, <1>7, <2>1, SetUpStep DEF Load, SettingUp
<1>8. CASE file \notin {"broken", "valid"}
  <2>1. step' = "globals" /\ status' = status
    BY <1>8 DEF Load, Continue
  <2> QED
    BY <1>1, <1>2, <1>3, <1>4, <1>8, <2>1, SetUpStep DEF Load, SettingUp
<1> QED
  BY <1>6, <1>7, <1>8

\* What the positions before `at` have is kept by every step of the loop.
LEMMA BuiltBefore ==
  ASSUME CInv, step \in {"build", "plugins"}
  PROVE  /\ file = "valid" /\ step \in SettingUp
         /\ at \in 1 .. Len(Order) + 1 /\ plugins \subseteq Plugins
         /\ \A i \in 1 .. Len(Order) : i < at /\ Enabled(Order[i]) => Order[i] \in built
  BY Typed DEF CInv, StepAgrees, BuiltSoFar, SettingUp

\* Plugins come beside what is there.
LEMMA PluginInv == ASSUME CInv, NEW p \in plugins, LoadPlugin(p) PROVE CInv'
<1>1. step = "plugins" /\ step' = step
  BY DEF LoadPlugin
<1>2. RegistryAgrees'
  <2>1. /\ BuiltIn \subseteq DOMAIN registry
        /\ \A name \in BuiltIn : registry[name] = "built-in"
        /\ \A q \in Plugins \ plugins : q.loads => q.name \in DOMAIN registry
    BY DEF CInv, RegistryAgrees
  <2>2. DOMAIN registry \subseteq DOMAIN registry' /\ plugins' = plugins \ {p}
    BY DEF LoadPlugin
  <2>3. p.loads => p.name \in DOMAIN registry'
    BY DEF LoadPlugin
  <2>4. \A name \in DOMAIN registry : registry'[name] = registry[name]
    BY DEF LoadPlugin
  <2> QED
    BY <2>1, <2>2, <2>3, <2>4 DEF RegistryAgrees
<1> QED
  BY <1>1, <1>2, BuiltBefore, SetUpStep DEF LoadPlugin, fixed

\* The loop goes to the plugins and comes back.
LEMMA PluginsInv == ASSUME CInv, NeedsPlugins \/ PluginsLoaded PROVE CInv'
<1>1. step \in {"build", "plugins"} /\ step' \in {"build", "plugins"}
  BY DEF NeedsPlugins, PluginsLoaded, Continue
<1>2. RegistryAgrees'
  BY DEF CInv, RegistryAgrees, NeedsPlugins, PluginsLoaded
<1> QED
  BY <1>1, <1>2, BuiltBefore, SetUpStep DEF NeedsPlugins, PluginsLoaded, Continue

\* What is passed over is not enabled.
LEMMA SkipInv == ASSUME CInv, Skip PROVE CInv'
<1>1. step = "build" /\ ~ Last /\ ~ Enabled(Here)
  BY DEF Skip, Enabled
<1>2. RegistryAgrees'
  BY DEF CInv, RegistryAgrees, Skip
<1>3. at \in 1 .. Len(Order)
  BY <1>1, BuiltBefore, Positions DEF Last
<1>4. CASE at' = at + 1 /\ UNCHANGED <<step, status>>
  <2>1. ASSUME NEW i \in 1 .. Len(Order), i < at', Enabled(Order[i])
        PROVE  Order[i] \in built
    <3>1. i # at
      BY <1>1, <2>1 DEF Here
    <3> QED
      BY <1>1, <1>3, <1>4, <2>1, <3>1, BuiltBefore
  <2>2. at' \in 1 .. Len(Order) + 1
    BY <1>3, <1>4
  <2> QED
    BY <1>1, <1>2, <1>4, <2>1, <2>2, BuiltBefore, SetUpStep DEF Skip
<1>5. CASE Stop /\ UNCHANGED at
  BY <1>1, <1>2, <1>5, BuiltBefore, SetUpStep DEF Skip
<1> QED
  BY <1>4, <1>5 DEF Skip

\* A name nobody registered stops the command.
LEMMA UnknownInv == ASSUME CInv, UnknownBackend PROVE CInv'
<1>1. step = "build"
  BY DEF UnknownBackend
<1>2. RegistryAgrees'
  BY DEF CInv, RegistryAgrees, UnknownBackend
<1> QED
  BY <1>1, <1>2, BuiltBefore, SetUpStep DEF UnknownBackend

\* At the end of the loop every enabled source is built.
LEMMA AllBuiltInv == ASSUME CInv, AllBuilt PROVE CInv'
<1>1. step = "build" /\ Last /\ step' = "globals" /\ status' = status
  BY DEF AllBuilt, Continue
<1>2. RegistryAgrees'
  BY DEF CInv, RegistryAgrees, AllBuilt
<1>3. AllIn
  <2>1. ASSUME NEW n \in Names, Enabled(n) PROVE n \in built
    <3>1. PICK i \in 1 .. Len(Order) : n = Order[i]
      BY Positions
    <3>2. i < at
      BY <1>1, BuiltBefore, Positions DEF Last
    <3> QED
      BY <1>1, <2>1, <3>1, <3>2, BuiltBefore
  <2> QED
    BY <2>1 DEF AllIn
<1> QED
  BY <1>1, <1>2, <1>3, BuiltBefore, SetUpStep DEF AllBuilt

\* The rest of the configuration adds no source.
LEMMA RestInv == ASSUME CInv, ImportGlobals \/ BuildCache \/ User PROVE CInv'
<1>1. step \in {"globals", "cache", "user"}
  BY DEF ImportGlobals, BuildCache, User
<1>2. RegistryAgrees'
  BY DEF CInv, RegistryAgrees, ImportGlobals, BuildCache, User
<1>3. AllIn /\ step \in SettingUp
  BY <1>1 DEF CInv, BuiltSoFar, SettingUp
<1>4. file # "broken"
  BY <1>1, CommandAssumption DEF CInv, StepAgrees
<1>5. at' \in 1 .. Len(Order) + 1 /\ plugins' \subseteq Plugins
  BY Typed, Positions DEF ImportGlobals, BuildCache, User
<1>6. CASE ImportGlobals \/ BuildCache
  BY <1>2, <1>3, <1>4, <1>5, <1>6, SetUpStep DEF ImportGlobals, BuildCache, Continue
<1>7. CASE User
  BY <1>2, <1>3, <1>4, <1>5, <1>7, SetUpStep DEF User, Continue
<1> QED
  BY <1>6, <1>7

-----------------------------------------------------------------------------

\* A source that is built, or that stops the command.
LEMMA BuildsInv ==
  ASSUME CInv, Building, NEW ok \in BOOLEAN, Builds(ok), LdapInv',
         \A s \in Sources : pc'[s] \in {"new", "idle"} /\ answer'[s] = None
  PROVE  CInv'
<1> USE DEF CInv
<1>1. step = "build" /\ ~ Last
  BY DEF Building
<1>2. at \in 1 .. Len(Order) /\ Here \in Names
  BY <1>1, BuiltBefore, Positions DEF Last, Here
<1>3. UNCHANGED <<fixed, registry, plugins, reply, collected, printed>>
  BY DEF Builds
<1>4. Quiet'
  BY <1>1, <1>3 DEF StepAgrees, SettingUp, Quiet
<1>5. RegistryAgrees'
  BY <1>3 DEF RegistryAgrees
<1>6. /\ status = None /\ file = "valid"
      /\ \A i \in 1 .. Len(Order) : i < at /\ Enabled(Order[i]) => Order[i] \in built
  BY <1>1, BuiltBefore DEF StepAgrees
<1>7. CASE at' = at + 1 /\ built' = built \cup {Here} /\ UNCHANGED <<step, status>>
  <2>1. TypeOK'
    BY <1>2, <1>3, <1>7 DEF TypeOK, LdapInv, fixed
  <2>2. StepAgrees'
    BY <1>1, <1>3, <1>4, <1>6, <1>7 DEF StepAgrees, fixed
  <2>3. BuiltSoFar'
    <3>1. ASSUME NEW i \in 1 .. Len(Order), i < at', Enabled(Order[i])'
          PROVE  Order[i] \in built'
      <4>1. Enabled(Order[i])
        BY <1>3, <3>1 DEF Enabled, Listed, fixed
      <4>2. CASE i = at
        BY <1>7, <4>2 DEF Here
      <4>3. CASE i < at
        BY <1>6, <1>7, <4>1, <4>3
      <4> QED
        BY <1>2, <1>7, <3>1, <4>2, <4>3
    <3> QED
      BY <1>1, <1>4, <1>6, <1>7, <3>1, CommandAssumption DEF BuiltSoFar
  <2>4. CollectedSoFar'
    BY <1>1, <1>4, <1>6, <1>7, CommandAssumption DEF CollectedSoFar, Quiet
  <2> QED
    BY <1>5, <2>1, <2>2, <2>3, <2>4
<1>8. CASE Stop /\ UNCHANGED <<at, built>>
  <2>1. TypeOK'
    BY <1>3, <1>8 DEF TypeOK, LdapInv, fixed, Stop, CmdSteps
  <2>2. StepAgrees'
    BY <1>3, <1>8, CommandAssumption DEF StepAgrees, fixed, Stop, SettingUp
  <2>3. BuiltSoFar' /\ CollectedSoFar'
    BY <1>4, <1>8 DEF BuiltSoFar, CollectedSoFar, Stop, Quiet
  <2> QED
    BY <1>5, <2>1, <2>2, <2>3
<1> QED
  BY <1>7, <1>8 DEF Builds

\* A constructor asks nobody.
LEMMA BuildInv == ASSUME CInv, BuildLdap \/ BuildOther PROVE CInv'
<1>1. step = "build" /\ Here \in Names
  BY BuiltBefore, Positions DEF BuildLdap, BuildOther, Building, Last, Here
<1>2. \A s \in Sources : pc[s] \in {"new", "idle"} /\ answer[s] = None
  BY <1>1 DEF CInv, StepAgrees, SettingUp, Quiet
<1>3. CASE BuildLdap
  <2>1. Here \in Sources /\ Construct(Here)
    <3>1. document \in Documents
      BY DEF CInv, StepAgrees
    <3>2. document[Here].backend = "ldap" /\ Construct(Here)
      BY <1>3 DEF BuildLdap
    <3> QED
      BY <1>1, <3>1, <3>2, CommandAssumption
  <2>2. LdapInv'
    BY <2>1, LdapStepInv DEF LdapNext, CInv
  <2>3. \A s \in Sources : pc'[s] \in {"new", "idle"} /\ answer'[s] = None
    BY <1>2, <2>1 DEF Construct, session, CInv, LdapInv, LdapTypeOK
  <2>4. (client'[Here] # Refused) \in BOOLEAN /\ Builds(client'[Here] # Refused) /\ Building
    BY <1>3 DEF BuildLdap
  <2> QED
    BY <2>2, <2>3, <2>4, BuildsInv
<1>4. CASE BuildOther
  <2>1. LdapInv'
    BY <1>4, LdapStepInv DEF BuildOther, CInv
  <2>2. \A s \in Sources : pc'[s] \in {"new", "idle"} /\ answer'[s] = None
    BY <1>2, <1>4 DEF BuildOther, ldapVars
  <2> QED
    BY <1>4, <2>1, <2>2, BuildsInv DEF BuildOther
<1> QED
  BY <1>3, <1>4

-----------------------------------------------------------------------------

\* A step of a search is of one source, which has no answer yet.
LEMMA OneSearches ==
  ASSUME LdapInv, NEW s \in Sources, (answer[s] = None /\ Ask(s)) \/ SearchStep(s)
  PROVE  /\ pc[s] = "idle" => answer[s] = None
         /\ \A r \in Sources : r # s => pc'[r] = pc[r] /\ answer'[r] = answer[r]
<1> USE DEF LdapInv, LdapTypeOK
<1>1. ASSUME NEW from, NEW to, Goto(s, from, to)
      PROVE  pc[s] = from /\ \A r \in Sources : r # s => pc'[r] = pc[r]
  BY <1>1 DEF Goto
<1>2. ASSUME NEW from, NEW result, Return(s, from, result)
      PROVE  pc[s] = from /\ \A r \in Sources : r # s => pc'[r] = pc[r] /\ answer'[r] = answer[r]
  BY <1>1, <1>2 DEF Return
<1>3. CASE answer[s] = None /\ Ask(s)
  BY <1>1, <1>3 DEF Ask
<1>4. CASE Connect(s) \/ StartTLS(s) \/ Bind(s)
  BY <1>1, <1>4 DEF Connect, StartTLS, Bind
<1>5. CASE NoPassword(s)
  <2>1. pc[s] \in {"connect", "bind"}
    BY <1>5 DEF NoPassword
  <2> QED
    BY <1>2, <1>5, <2>1 DEF NoPassword
<1>6. CASE Converted(s)
  BY <1>2, <1>6 DEF Converted
<1>7. CASE \E op \in {"connect", "starttls", "bind", "search"}, code \in Codes :
             Refuse(s, op, code)
  BY <1>2, <1>7 DEF Refuse
<1>8. CASE \E entries \in SUBSET Entries : Search(s, entries)
  BY <1>1, <1>2, <1>8 DEF Search
<1>9. CASE \E cert \in Certs : Convert(s, cert)
  BY <1>2, <1>9 DEF Convert
<1> QED
  BY <1>3, <1>4, <1>5, <1>6, <1>7, <1>8, <1>9 DEF SearchStep

\* Only the source that is asked comes by an answer, and it had none.
LEMMA AskKeeps ==
  ASSUME CInv, AskLdap \/ AskOther
  PROVE  /\ Here \in Names /\ Answered(Here) = None
         /\ \A n \in Names : n # Here => Answered(n)' = Answered(n)
         /\ LdapInv'
         /\ reply' \in [Names -> [keys : SUBSET Lines] \cup {Failed, None}]
         /\ UNCHANGED <<fixed, step, at, registry, plugins, built, collected, printed, status>>
<1>1. Here \in Names
  BY Typed, Positions DEF AskLdap, AskOther, Asking, Last, Here
<1>2. reply \in [Names -> [keys : SUBSET Lines] \cup {Failed, None}] /\ LdapInv
  BY DEF CInv, TypeOK
<1>3. CASE AskOther
  <2>1. LdapInv'
    BY <1>2, <1>3, LdapStepInv DEF AskOther
  <2>2. PICK r \in [keys : SUBSET Lines] \cup {Failed} :
             reply' = [reply EXCEPT ![Here] = r]
    BY <1>3 DEF AskOther
  <2>3. reply' \in [Names -> [keys : SUBSET Lines] \cup {Failed, None}]
    BY <1>2, <2>2
  <2>4. \A n \in Names : n # Here => reply'[n] = reply[n]
    BY <1>2, <2>2
  <2>5. \A n \in Names : n # Here => Answered(n)' = Answered(n)
    BY <1>3, <2>4 DEF AskOther, Answered, ldapVars, fixed
  <2>6. Answered(Here) = None
    BY <1>3 DEF AskOther, Answered
  <2> QED
    BY <1>1, <1>3, <2>1, <2>3, <2>5, <2>6 DEF AskOther
<1>4. CASE AskLdap
  <2>1. document \in Documents
    BY DEF CInv, StepAgrees
  <2>2. /\ document[Here].backend = "ldap" /\ UNCHANGED cmdVars
        /\ (answer[Here] = None /\ Ask(Here)) \/ SearchStep(Here)
    BY <1>4 DEF AskLdap
  <2>3. Here \in Sources
    BY <1>1, <2>1, <2>2, CommandAssumption
  <2>4. LdapInv'
    BY <1>2, <2>2, <2>3, LdapStepInv DEF LdapNext
  <2>5. /\ pc[Here] = "idle" => answer[Here] = None
        /\ \A r \in Sources : r # Here => pc'[r] = pc[r] /\ answer'[r] = answer[r]
    BY <1>2, <2>2, <2>3, OneSearches
  <2>6. Answered(Here) = None
    BY <2>2, <2>5 DEF Answered
  <2>7. ASSUME NEW n \in Names, n # Here PROVE Answered(n)' = Answered(n)
    <3>1. document' = document /\ reply' = reply
      BY <2>2 DEF cmdVars
    <3>2. document[n].backend = "ldap" => n \in Sources
      BY <2>1, CommandAssumption
    <3> QED
      BY <2>5, <2>7, <3>1, <3>2 DEF Answered
  <2> QED
    BY <1>1, <1>2, <2>2, <2>4, <2>6, <2>7 DEF cmdVars, fixed
<1> QED
  BY <1>3, <1>4

\* Asking the source at `at` leaves what the ones before have answered.
LEMMA AskedInv == ASSUME CInv, AskLdap \/ AskOther PROVE CInv'
<1> USE DEF CInv
<1>1. step = "ask" /\ ~ Last /\ Here \in built
  BY DEF AskLdap, AskOther, Asking
<1>2. UNCHANGED <<fixed, step, at, registry, plugins, built, collected, printed, status>>
  BY AskKeeps
<1>3. TypeOK'
  BY <1>2, AskKeeps DEF TypeOK, LdapInv, fixed
<1>4. StepAgrees'
  BY <1>1, <1>2 DEF StepAgrees, SettingUp, fixed
<1>5. AllIn' /\ AllIn
  BY <1>1, <1>2 DEF BuiltSoFar, AllIn, Enabled, Listed, fixed
<1>6. status = None
  BY <1>1 DEF StepAgrees
<1>7. BuiltSoFar'
  BY <1>1, <1>2, <1>5 DEF BuiltSoFar
<1>8. ASSUME NEW i \in 1 .. Len(Order), i < at, Order[i] \in built
      PROVE  Answered(Order[i])' = Answered(Order[i]) /\ Keys(Order[i])' = Keys(Order[i])
  <2>1. Answered(Order[i]) # None /\ Order[i] \in Names
    BY <1>1, <1>8, Positions DEF CollectedSoFar
  <2>2. Order[i] # Here
    BY <2>1, AskKeeps
  <2> QED
    BY <2>1, <2>2, AskKeeps DEF Keys
<1>9. CollectedSoFar'
  BY <1>1, <1>2, <1>6, <1>8, CommandAssumption DEF CollectedSoFar
<1>10. RegistryAgrees'
  BY <1>2 DEF RegistryAgrees
<1> QED
  BY <1>3, <1>4, <1>7, <1>9, <1>10, AskKeeps

\* The steps of the loop that pass to the next position.
LEMMA NextInv == ASSUME CInv, Collect \/ NotAsked PROVE CInv'
<1> USE DEF CInv
<1>1. /\ step = "ask" /\ ~ Last /\ at' = at + 1
      /\ UNCHANGED <<ldapVars, fixed, step, registry, plugins, built, reply, printed, status>>
  BY DEF Collect, NotAsked, Asking
<1>2. at \in 1 .. Len(Order) /\ Here \in Names /\ Here = Order[at]
  BY <1>1, Typed, Positions DEF Last, Here
<1>3. LdapInv' /\ \A n \in Names : Answered(n)' = Answered(n) /\ Keys(n)' = Keys(n)
  BY <1>1, Steady DEF fixed
<1>4. /\ Here \in built => Answered(Here) # None
      /\ collected' = IF Here \in built THEN collected \cup Keys(Here) ELSE collected
  BY DEF Collect, NotAsked, Asking, Keys
<1>5. Here \in built => Keys(Here) \subseteq Certs \cup Lines
  <2>1. reply[Here] \in [keys : SUBSET Lines] \cup {Failed, None}
    BY <1>2 DEF TypeOK
  <2>2. Here \in Sources => answer[Here] \in Answer \cup {Failed, None}
    BY DEF LdapInv, LdapTypeOK
  <2>3. document[Here].backend = "ldap" => Here \in Sources
    BY <1>2, CommandAssumption DEF StepAgrees
  <2>4. Here \in built => Answered(Here) \in Answer \cup [keys : SUBSET Lines] \cup {Failed}
    BY <1>4, <2>1, <2>2, <2>3 DEF Answered
  <2> QED
    BY <2>4 DEF Keys, Answer
<1>6. TypeOK'
  <2>1. collected' \subseteq Certs \cup Lines /\ printed' \subseteq collected'
    BY <1>1, <1>4, <1>5 DEF TypeOK
  <2>2. at' \in 1 .. Len(Order) + 1
    BY <1>1, <1>2
  <2> QED
    BY <1>1, <1>3, <2>1, <2>2 DEF TypeOK, LdapInv, fixed
<1>7. StepAgrees'
  BY <1>1 DEF StepAgrees, SettingUp, fixed
<1>8. BuiltSoFar'
  BY <1>1 DEF BuiltSoFar, AllIn, Enabled, Listed, fixed
<1>9. status = None
  BY <1>1 DEF StepAgrees
<1>10. ASSUME NEW i \in 1 .. Len(Order)
       PROVE  /\ i < at' <=> i < at \/ i = at
              /\ Order[i] \in Names
  BY <1>1, <1>2, Positions
<1>11. \A i \in 1 .. Len(Order) :
         i < at' /\ Order[i] \in built' => Answered(Order[i])' # None
  BY <1>1, <1>2, <1>3, <1>4, <1>10 DEF CollectedSoFar
<1>12. \A x : x \in collected' <=>
         \E i \in 1 .. Len(Order) : i < at' /\ Order[i] \in built' /\ x \in Keys(Order[i])'
  <2>1. \A x : x \in collected <=>
          \E i \in 1 .. Len(Order) : i < at /\ Order[i] \in built /\ x \in Keys(Order[i])
    BY <1>1 DEF CollectedSoFar
  <2>2. \A x : x \in collected' <=> x \in collected \/ (Here \in built /\ x \in Keys(Here))
    BY <1>4
  <2> QED
    BY <1>1, <1>2, <1>3, <1>10, <2>1, <2>2
<1>13. CollectedSoFar'
  BY <1>1, <1>9, <1>11, <1>12, CommandAssumption DEF CollectedSoFar
<1>14. RegistryAgrees'
  BY <1>1 DEF RegistryAgrees
<1> QED
  BY <1>3, <1>6, <1>7, <1>8, <1>13, <1>14

\* A user map that raises and code that leaves by itself end the command before
\* anything is printed.
LEMMA CutShortInv == ASSUME CInv, MapFails \/ ForeignExit PROVE CInv'
<1> USE DEF CInv
<1>1. /\ UNCHANGED <<ldapVars, fixed, at, registry, plugins, built, reply, collected, printed>>
      /\ (Stop /\ step = "ask") \/ Leave
      /\ step \in SettingUp \cup {"ask"} /\ step # "load"
  BY DEF MapFails, ForeignExit, Asking, SettingUp
<1>2. status = None /\ file # "broken"
  BY <1>1, CommandAssumption DEF StepAgrees, SettingUp
<1>3. RegistryAgrees'
  BY <1>1 DEF RegistryAgrees
<1>4. CASE step \in SettingUp
  BY <1>1, <1>2, <1>3, <1>4, Typed, SetUpStep DEF SettingUp
<1>5. CASE step = "ask"
  <2>1. step' = "done" /\ status' \in {3, Own} /\ printed' = {}
    BY <1>1, <1>5 DEF Stop, Leave, CollectedSoFar
  <2>2. LdapInv' /\ AllIn'
    BY <1>1, <1>5, Steady DEF BuiltSoFar, AllIn, Enabled, Listed, fixed
  <2>3. TypeOK'
    BY <1>1, <2>1, <2>2 DEF TypeOK, LdapInv, fixed, CmdSteps
  <2>4. StepAgrees'
    BY <1>1, <1>2, <2>1, CommandAssumption DEF StepAgrees, SettingUp, fixed
  <2>5. BuiltSoFar' /\ CollectedSoFar'
    BY <2>1, <2>2, CommandAssumption DEF BuiltSoFar, CollectedSoFar
  <2> QED
    BY <1>3, <2>2, <2>3, <2>4, <2>5
<1> QED
  BY <1>1, <1>4, <1>5

\* When the loop is over, all have answered and all they answered is collected.
LEMMA AllAskedInv == ASSUME CInv, AllAsked PROVE CInv'
<1> USE DEF CInv
<1>1. /\ step = "ask" /\ Last /\ step' = "print" /\ status' = status
      /\ UNCHANGED <<ldapVars, fixed, at, registry, plugins, built, reply, collected, printed>>
  BY DEF AllAsked, Continue
<1>2. LdapInv' /\ \A n \in Names : Answered(n)' = Answered(n) /\ Keys(n)' = Keys(n)
  BY <1>1, Steady DEF fixed
<1>3. \A n \in built : \E i \in 1 .. Len(Order) : i < at /\ n = Order[i]
  BY <1>1, Typed, Positions DEF Last
<1>4. \A i \in 1 .. Len(Order) : i < at
  BY <1>1, Typed, Positions DEF Last
<1>5. AllAnswered
  BY <1>1, <1>3 DEF CollectedSoFar, AllAnswered
<1>6. AllCollected
  <2>1. \A x : x \in collected <=>
          \E i \in 1 .. Len(Order) : i < at /\ Order[i] \in built /\ x \in Keys(Order[i])
    BY <1>1 DEF CollectedSoFar
  <2> QED
    BY <1>3, <1>4, <2>1 DEF AllCollected
<1>7. AllAnswered' /\ AllCollected'
  BY <1>1, <1>2, <1>5, <1>6, Typed DEF AllAnswered, AllCollected
<1>8. status = None
  BY <1>1 DEF StepAgrees
<1>9. TypeOK'
  BY <1>1, <1>2 DEF TypeOK, LdapInv, fixed, CmdSteps
<1>10. StepAgrees' /\ BuiltSoFar' /\ RegistryAgrees'
  BY <1>1, <1>8, CommandAssumption DEF StepAgrees, BuiltSoFar, RegistryAgrees, SettingUp,
     AllIn, Enabled, Listed, fixed
<1>11. CollectedSoFar'
  BY <1>1, <1>7, <1>8, CommandAssumption DEF CollectedSoFar
<1> QED
  BY <1>2, <1>9, <1>10, <1>11

\* Printing changes nothing that was collected, and ends with all of it or with 3.
LEMMA PrintInv == ASSUME CInv, (\E k \in collected : PrintLine(k)) \/ Printed PROVE CInv'
<1> USE DEF CInv
<1>1. /\ step = "print"
      /\ UNCHANGED <<ldapVars, fixed, at, registry, plugins, built, reply, collected>>
      /\ printed \subseteq printed' /\ printed' \subseteq collected
  BY DEF PrintLine, Printed, TypeOK
<1>2. LdapInv' /\ \A n \in Names : Answered(n)' = Answered(n) /\ Keys(n)' = Keys(n)
  BY <1>1, Steady DEF fixed
<1>3. AllAnswered /\ AllCollected /\ AllIn
  BY <1>1 DEF CollectedSoFar, BuiltSoFar
<1>4. AllAnswered' /\ AllCollected' /\ AllIn'
  BY <1>1, <1>2, <1>3, Typed
  DEF AllAnswered, AllCollected, AllIn, Enabled, Listed, fixed
<1>5. \/ step' = step /\ status' = status
      \/ step' = "done" /\ status' = 3
      \/ step' = "done" /\ status' = 0 /\ printed' = collected'
  BY DEF PrintLine, Printed, Stop
<1>6. TypeOK'
  BY <1>1, <1>2, <1>5 DEF TypeOK, LdapInv, fixed, CmdSteps
<1>7. StepAgrees'
  BY <1>1, <1>5, CommandAssumption DEF StepAgrees, SettingUp, fixed
<1>8. BuiltSoFar'
  BY <1>1, <1>4, <1>5 DEF BuiltSoFar
<1>9. status = None
  BY <1>1 DEF StepAgrees
<1>10. CollectedSoFar'
  BY <1>1, <1>4, <1>5, <1>9, CommandAssumption DEF CollectedSoFar
<1>11. RegistryAgrees'
  BY <1>1 DEF RegistryAgrees
<1> QED
  BY <1>2, <1>6, <1>7, <1>8, <1>10, <1>11

\* Every step keeps the invariant.
LEMMA StepInv == CInv /\ [Next]_vars => CInv'
<1>1. ASSUME CInv, UNCHANGED vars PROVE CInv'
  <2> USE DEF CInv
  <2>1. LdapInv' /\ \A n \in Names : Answered(n)' = Answered(n) /\ Keys(n)' = Keys(n)
    BY <1>1, Steady DEF vars, cmdVars
  <2>2. TypeOK'
    BY <1>1, <2>1 DEF TypeOK, LdapInv, vars, cmdVars
  <2>3. StepAgrees' /\ BuiltSoFar' /\ RegistryAgrees'
    BY <1>1 DEF StepAgrees, BuiltSoFar, RegistryAgrees, Quiet, AllIn, Enabled, Listed, vars,
       cmdVars, ldapVars
  <2>4. AllAnswered' = AllAnswered /\ AllCollected' = AllCollected
    BY <1>1, <2>1, Typed DEF AllAnswered, AllCollected, vars, cmdVars
  <2>5. CollectedSoFar'
    BY <1>1, <2>1, <2>4, Positions DEF CollectedSoFar, vars, cmdVars
  <2> QED
    BY <2>1, <2>2, <2>3, <2>5
<1> QED
  BY <1>1, LoadInv, PluginInv, PluginsInv, SkipInv, UnknownInv, AllBuiltInv, RestInv,
     BuildInv, AskedInv, NextInv, CutShortInv, AllAskedInv, PrintInv DEF Next,
     Proceed

\* The invariant holds for every file, every set of plugins and every directory.
THEOREM Invariance == Spec => []CInv
  BY InitInv, StepInv, PTL DEF Spec

-----------------------------------------------------------------------------
(* What follows                                                            *)

\* The variables keep their types.
THEOREM TypeCorrect == Spec => []TypeOK
<1>1. CInv => TypeOK
  BY DEF CInv
<1> QED
  BY <1>1, Invariance, PTL

\* No password goes over a connection without TLS, no entry is taken over one that
\* is neither encrypted nor sealed, and no connection stays open.
THEOREM ConnectionsProtected == Spec => []Protected
<1>1. CInv => Protected
  BY LdapSafe DEF CInv
<1> QED
  BY <1>1, Invariance, PTL

\* An ldap source that names no error has heard the search answered.
THEOREM SearchesHeard == Spec => []HeardOut
<1>1. CInv => HeardOut
  BY LdapSafe DEF CInv
<1> QED
  BY <1>1, Invariance, PTL

\* An ldap source answers with all wanted certificates of one entry, or an error.
THEOREM AnswersWhole == Spec => []AllOrNothing
<1>1. CInv => AllOrNothing
  BY LdapSafe DEF CInv
<1> QED
  BY <1>1, Invariance, PTL

\* Status 0 is the truth, and who leaves with a status of its own has had nothing
\* printed.
THEOREM StatusMeans == Spec => []StatusTrue
<1>1. CInv => StatusTrue
  <2> SUFFICES ASSUME CInv, status = 0 PROVE StatusTrue
    BY DEF StatusTrue, CInv, CollectedSoFar
  <2>1. file # "broken"
    BY CommandAssumption DEF CInv, StepAgrees
  <2>2. AllIn /\ AllAnswered /\ AllCollected /\ printed = collected
    BY DEF CInv, BuiltSoFar, CollectedSoFar
  <2>3. \A n \in Names : Enabled(n) => n \in built /\ Answered(n) # None
    BY <2>2 DEF AllIn, AllAnswered
  <2> DEFINE Said == {Answered(n).keys : n \in {m \in built : Answered(m) # Failed}}
  <2>4. \A x : x \in UNION Said <=> \E n \in built : x \in Keys(n)
    BY DEF Keys
  <2>5. printed = UNION Said
    BY <2>2, <2>4 DEF AllCollected
  <2> QED
    BY <2>1, <2>3, <2>5, CommandAssumption DEF StatusTrue
<1> QED
  BY <1>1, Invariance, PTL

\* Nobody is asked before everything is built, nothing printed before all answered.
THEOREM SetUpComesFirst == Spec => []SetUpFirst
<1>1. CInv => SetUpFirst
  BY DEF CInv, CollectedSoFar, BuiltSoFar, AllAnswered, AllIn, Quiet, SetUpFirst
<1> QED
  BY <1>1, Invariance, PTL

\* Built-in sources keep their names, and no plugin costs another its own.
THEOREM PluginsApart == Spec => []PluginsIndependent
<1>1. CInv => PluginsIndependent
  BY DEF CInv, RegistryAgrees, PluginsIndependent
<1> QED
  BY <1>1, Invariance, PTL
=============================================================================
