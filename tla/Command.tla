------------------------------- MODULE Command -------------------------------
(***************************************************************************)
(* `authkeys resolve`, the AuthorizedKeysCommand of sshd, from the         *)
(* configuration file to the exit status: which sources it builds, with    *)
(* which plugins, what stops it, whom it asks, and what it prints.         *)
(*                                                                         *)
(* sshd takes the output of a command that exits with 0 for the keys of    *)
(* the user.  While it is set up, any error stops it with status 3; once   *)
(* it asks, an error of a source costs that source's keys only, and one of *)
(* the user map stops it.  Code it is configured to call may leave it with *)
(* a status of its own.  The ldap sources are those of Ldap, which runs them one after the other;    *)
(* the cache is the memory backend, empty at the start, and the delegation *)
(* of the user is in Delegation.                                           *)
(***************************************************************************)
EXTENDS Ldap, Naturals, Sequences

CONSTANTS
  Order,        \* the [source.<name>] tables of the file, in order
  Documents,    \* what the file may hold: [Range(Order) -> Table]
  Backends,     \* names of backends, those of the built-in ones among them
  Plugins,      \* the installed entry points: records of Plugin
  Lines,        \* the keys the other sources may have
  Own           \* the status foreign code gives to sys.exit, which may be 0

Names == {Order[i] : i \in DOMAIN Order}
BuiltIn == {"file", "http", "github", "ldap"}
Plugin == [name : Backends, loads : BOOLEAN]

\* One table of the file: None is a table that names no backend, or no table.
Table == [backend : Backends \cup {None}, enabled : BOOLEAN, imports : BOOLEAN]

ASSUME CommandAssumption ==
  /\ Order \in Seq(Names)
  /\ Sources \subseteq Names
  /\ Documents \subseteq [Names -> Table]
  /\ \A d \in Documents, n \in Names : d[n].backend = "ldap" => n \in Sources
  /\ BuiltIn \subseteq Backends
  /\ Plugins \subseteq Plugin
  /\ None \notin Backends
  /\ Own \notin {0, 3}
  /\ None \notin {0, 3, Own}
  /\ None \notin [keys : SUBSET Lines]
  /\ Failed \notin [keys : SUBSET Lines]

VARIABLES
  file,         \* the file: none is configured, absent, broken, or valid
  document,     \* what it holds
  step,         \* where the command is
  at,           \* the position in Order of the source it builds or asks
  registry,     \* [name -> built-in or plugin]: the source classes
  plugins,      \* the entry points it has yet to load
  built,        \* the sources that have a backend
  reply,        \* the lines the others answered, Failed or None
  collected,    \* the keys so far
  printed,      \* those on standard output
  status        \* the exit status, or None

cmdVars == <<file, document, step, at, registry, plugins, built, reply, collected,
             printed, status>>
vars == <<ldapVars, cmdVars>>
fixed == <<file, document>>

CmdSteps == {"load", "plugins", "build", "globals", "cache", "user", "ask", "print",
             "done"}

Init ==
  /\ LdapInit
  /\ file \in {"none", "absent", "broken", "valid"}
  /\ document \in Documents
  /\ step = "load"
  /\ at = 1
  /\ registry = [name \in BuiltIn |-> "built-in"]
  /\ plugins = Plugins
  /\ built = {}
  /\ reply = [n \in Names |-> None]
  /\ collected = {}
  /\ printed = {}
  /\ status = None

\* Any exception up to the last line: one line of log and status 3.
Stop ==
  /\ step' = "done"
  /\ status' = 3

\* SystemExit is raised again, with the status of whoever raised it.
Leave ==
  /\ step' = "done"
  /\ status' = Own

Continue(to) ==
  /\ step' = to
  /\ UNCHANGED status

Here == Order[at]
Last == at > Len(Order)

-----------------------------------------------------------------------------
(* build: load_settings and AuthKeys.load_config                           *)

\* chosen_path, load_settings.  No file is an empty configuration.
Load ==
  /\ step = "load"
  /\ \/ file = "broken" /\ Stop
     \/ file = "valid" /\ Continue("build")
     \/ file \in {"none", "absent"} /\ Continue("globals")
  /\ UNCHANGED <<ldapVars, fixed, at, registry, plugins, built, reply, collected,
                 printed>>

\* Definitions named X_... are faulty variants of X; no specification uses them.
\* Here: a broken plugin ends the loading.
LoadPlugin_Stops(p) ==
  /\ step = "plugins"
  /\ p \in plugins
  /\ plugins' = IF p.loads THEN plugins \ {p} ELSE {}
  /\ registry' = IF p.name \notin DOMAIN registry /\ p.loads
                 THEN [name \in DOMAIN registry \cup {p.name} |->
                         IF name = p.name THEN "plugin" ELSE registry[name]]
                 ELSE registry
  /\ UNCHANGED <<ldapVars, fixed, step, at, built, reply, collected, printed, status>>

\* load_entry_points: a name that is taken and a plugin that does not load are
\* passed over.
LoadPlugin(p) ==
  /\ step = "plugins"
  /\ p \in plugins
  /\ plugins' = plugins \ {p}
  /\ registry' = IF p.name \notin DOMAIN registry /\ p.loads
                 THEN [name \in DOMAIN registry \cup {p.name} |->
                         IF name = p.name THEN "plugin" ELSE registry[name]]
                 ELSE registry
  /\ UNCHANGED <<ldapVars, fixed, step, at, built, reply, collected, printed, status>>

PluginsLoaded ==
  /\ step = "plugins"
  /\ plugins = {}
  /\ Continue("build")
  /\ UNCHANGED <<ldapVars, fixed, at, registry, plugins, built, reply, collected,
                 printed>>

\* from_mapping leaves out what names no backend.
Listed(n) == document[n].backend # None

\* The class of the source is looked up, the first time after the plugins.
NeedsPlugins ==
  /\ step = "build"
  /\ ~ Last
  /\ Listed(Here) /\ document[Here].enabled
  /\ plugins # {}
  /\ Continue("plugins")
  /\ UNCHANGED <<ldapVars, fixed, at, registry, plugins, built, reply, collected,
                 printed>>

\* A source that is not enabled gets no backend, but its sanitizer is imported.
Skip ==
  /\ step = "build"
  /\ ~ Last
  /\ Listed(Here) => ~ document[Here].enabled
  /\ \/ /\ Listed(Here) => document[Here].imports
        /\ at' = at + 1
        /\ UNCHANGED <<step, status>>
     \/ /\ Listed(Here) /\ ~ document[Here].imports
        /\ Stop
        /\ UNCHANGED at
  /\ UNCHANGED <<ldapVars, fixed, registry, plugins, built, reply, collected, printed>>

\* The source that is next is to be built and its class is known.
Building ==
  /\ step = "build"
  /\ ~ Last
  /\ Listed(Here) /\ document[Here].enabled
  /\ plugins = {}
  /\ document[Here].backend \in DOMAIN registry

\* It has a backend, or the exception of its constructor or of the import of its
\* sanitizer stops the command.
Builds(ok) ==
  /\ IF ok /\ document[Here].imports
     THEN /\ at' = at + 1
          /\ built' = built \cup {Here}
          /\ UNCHANGED <<step, status>>
     ELSE /\ Stop
          /\ UNCHANGED <<at, built>>
  /\ UNCHANGED <<fixed, registry, plugins, reply, collected, printed>>

BuildLdap ==
  /\ Building
  /\ document[Here].backend = "ldap"
  /\ Construct(Here)
  /\ Builds(client'[Here] # Refused)

\* A file source takes anything; the others may lack a url, the key of a
\* certificate or a library.
BuildOther ==
  /\ Building
  /\ document[Here].backend # "ldap"
  /\ \E ok \in BOOLEAN :
       /\ document[Here].backend = "file" => ok
       /\ Builds(ok)
  /\ UNCHANGED ldapVars

\* get_source knows no such name.
UnknownBackend ==
  /\ step = "build"
  /\ ~ Last
  /\ Listed(Here) /\ document[Here].enabled
  /\ plugins = {}
  /\ document[Here].backend \notin DOMAIN registry
  /\ Stop
  /\ UNCHANGED <<ldapVars, fixed, at, registry, plugins, built, reply, collected,
                 printed>>

AllBuilt ==
  /\ step = "build"
  /\ Last
  /\ Continue("globals")
  /\ UNCHANGED <<ldapVars, fixed, at, registry, plugins, built, reply, collected,
                 printed>>

\* usermap and groupmembers are imported.
ImportGlobals ==
  /\ step = "globals"
  /\ Continue("cache") \/ Stop
  /\ UNCHANGED <<ldapVars, fixed, at, registry, plugins, built, reply, collected,
                 printed>>

\* An unknown cache backend stops the command; one that cannot be built does not.
BuildCache ==
  /\ step = "cache"
  /\ Continue("user") \/ Stop
  /\ UNCHANGED <<ldapVars, fixed, at, registry, plugins, built, reply, collected,
                 printed>>

\* The user that is given, or the one it runs as, who may have no account.
User ==
  /\ step = "user"
  /\ \/ /\ Continue("ask")
        /\ at' = 1
     \/ /\ Stop
        /\ UNCHANGED at
  /\ UNCHANGED <<ldapVars, fixed, registry, plugins, built, reply, collected, printed>>

-----------------------------------------------------------------------------
(* AuthKeys.authorized_keys, one source after the other                    *)

Asking ==
  /\ step = "ask"
  /\ ~ Last
  /\ Here \in built

AskLdap ==
  /\ Asking
  /\ document[Here].backend = "ldap"
  /\ \/ answer[Here] = None /\ Ask(Here)
     \/ SearchStep(Here)
  /\ UNCHANGED cmdVars

\* A file that is absent or refused has no lines; one that cannot be read, an HTTP
\* status of 300 or more and every other exception cost all lines of the source.
AskOther ==
  /\ Asking
  /\ document[Here].backend # "ldap"
  /\ reply[Here] = None
  /\ \E r \in [keys : SUBSET Lines] \cup {Failed} : reply' = [reply EXCEPT ![Here] = r]
  /\ UNCHANGED <<ldapVars, fixed, step, at, registry, plugins, built, collected,
                 printed, status>>

\* What source n has answered.
Answered(n) ==
  IF document[n].backend = "ldap"
  THEN IF pc[n] = "idle" THEN answer[n] ELSE None
  ELSE reply[n]

\* A source that failed is waited for ...
Collect_Waits ==
  /\ Asking
  /\ Answered(Here) \notin {None, Failed}
  /\ at' = at + 1
  /\ collected' = collected \cup Answered(Here).keys
  /\ UNCHANGED <<ldapVars, fixed, step, registry, plugins, built, reply, printed, status>>

\* ... or all others.
Collect_Stops ==
  /\ Asking
  /\ Answered(Here) # None
  /\ IF Answered(Here) = Failed THEN at' = Len(Order) + 1 /\ UNCHANGED collected
     ELSE at' = at + 1 /\ collected' = collected \cup Answered(Here).keys
  /\ UNCHANGED <<ldapVars, fixed, step, registry, plugins, built, reply, printed, status>>

\* The error of a source is logged and costs its own keys only.
Collect ==
  /\ Asking
  /\ Answered(Here) # None
  /\ at' = at + 1
  /\ collected' = IF Answered(Here) = Failed THEN collected
                  ELSE collected \cup Answered(Here).keys
  /\ UNCHANGED <<ldapVars, fixed, step, registry, plugins, built, reply, printed, status>>

\* The user map, applied before a source is asked, raises: nothing catches that
\* before the command itself does.
MapFails ==
  /\ Asking
  /\ Answered(Here) = None
  /\ document[Here].backend = "ldap" => pc[Here] = "idle"
  /\ Stop
  /\ UNCHANGED <<ldapVars, fixed, at, registry, plugins, built, reply, collected,
                 printed>>

NotAsked ==
  /\ step = "ask"
  /\ ~ Last
  /\ Here \notin built
  /\ at' = at + 1
  /\ UNCHANGED <<ldapVars, fixed, step, registry, plugins, built, reply, collected,
                 printed, status>>

\* Printing begins with the first answer.
AllAsked_Streams ==
  /\ step = "ask"
  /\ Last \/ collected # {}
  /\ Continue("print")
  /\ UNCHANGED <<ldapVars, fixed, at, registry, plugins, built, reply, collected,
                 printed>>

\* list(...): nothing is printed before the last source has answered.
AllAsked ==
  /\ step = "ask"
  /\ Last
  /\ Continue("print")
  /\ UNCHANGED <<ldapVars, fixed, at, registry, plugins, built, reply, collected,
                 printed>>

\* print_keys; standard output may be closed.
PrintLine(k) ==
  /\ step = "print"
  /\ k \in collected \ printed
  /\ \/ /\ printed' = printed \cup {k}
        /\ UNCHANGED <<step, status>>
     \/ /\ Stop
        /\ UNCHANGED printed
  /\ UNCHANGED <<ldapVars, fixed, at, registry, plugins, built, reply, collected>>

Printed ==
  /\ step = "print"
  /\ printed = collected
  /\ step' = "done"
  /\ status' = 0
  /\ UNCHANGED <<ldapVars, fixed, at, registry, plugins, built, reply, collected,
                 printed>>

\* Code the command imports or calls - a plugin, a sanitizer, the user map, a cache
\* backend - calls sys.exit; no handler on the way catches that.
ForeignExit ==
  /\ \/ step = "plugins" /\ plugins # {}
     \/ step = "build" /\ ~ Last
     \/ step \in {"globals", "cache"}
     \/ Asking /\ (document[Here].backend = "ldap" => pc[Here] = "idle")
  /\ Leave
  /\ UNCHANGED <<ldapVars, fixed, at, registry, plugins, built, reply, collected,
                 printed>>

-----------------------------------------------------------------------------

Proceed ==
  \/ Load \/ NeedsPlugins \/ (\E p \in plugins : LoadPlugin(p)) \/ PluginsLoaded
  \/ Skip \/ BuildLdap \/ BuildOther \/ UnknownBackend \/ AllBuilt
  \/ ImportGlobals \/ BuildCache \/ User
  \/ AskLdap \/ AskOther \/ Collect \/ NotAsked \/ AllAsked
  \/ (\E k \in collected : PrintLine(k)) \/ Printed

Next == Proceed \/ MapFails \/ ForeignExit

Spec == Init /\ [][Next]_vars

\* Every wait for a source ends: the clients have timeouts and deadlines.  No user
\* map has to raise and no code to leave.
FairSpec == Spec /\ WF_vars(Proceed)

-----------------------------------------------------------------------------
(* Properties                                                              *)

TypeOK ==
  /\ LdapTypeOK
  /\ file \in {"none", "absent", "broken", "valid"}
  /\ document \in [Names -> Table]
  /\ step \in CmdSteps
  /\ at \in 1 .. Len(Order) + 1
  /\ plugins \subseteq Plugins
  /\ built \subseteq Names
  /\ reply \in [Names -> [keys : SUBSET Lines] \cup {Failed, None}]
  /\ collected \subseteq Certs \cup Lines
  /\ printed \subseteq collected
  /\ status \in {0, 3, Own, None}

Enabled(n) == file = "valid" /\ Listed(n) /\ document[n].enabled

\* Status 0 means: every enabled source was built and asked, and the keys of all
\* that answered were printed, whatever happened to the others.  A source that
\* fails costs no other source its keys, and a key file that is broken or a source
\* that is refused never passes for a user without keys.  Whoever leaves the command with
\* a status of its own, be it 0, has had nothing printed.
StatusTrue ==
  /\ status = Own => printed = {}
  /\ status = 0 =>
       /\ file # "broken"
       /\ \A n \in Names : Enabled(n) => n \in built /\ Answered(n) # None
       /\ printed = UNION {Answered(n).keys : n \in {m \in built : Answered(m) # Failed}}

\* Nothing is printed before every source has answered or failed, and nobody is
\* asked before all of the configuration is known to be in order: a command that
\* a broken part of it stops has contacted no server and printed nothing.
SetUpFirst ==
  /\ printed # {} => \A n \in built : Answered(n) # None
  /\ (\E s \in Sources : pc[s] \notin {"new", "idle"} \/ answer[s] # None)
       \/ (\E n \in Names : reply[n] # None) =>
       \A n \in Names : Enabled(n) => n \in built

\* A plugin never takes the name of a built-in source, and a broken one costs no
\* other: once the sources are looked up, every plugin that loads and has a name
\* of its own is there.
PluginsIndependent ==
  /\ \A name \in BuiltIn : registry[name] = "built-in"
  /\ step = "build" /\ plugins = {} =>
       \A p \in Plugins : p.loads => p.name \in DOMAIN registry

\* The command ends, with a status.
Ends == <>(step = "done" /\ status # None)
=============================================================================
