----------------------------- MODULE Delegation -----------------------------
(***************************************************************************)
(* AuthKeys.resolve: whose keys open an account.                           *)
(*                                                                         *)
(* A user's ~/.ssh/authkeys.cfg may grant the account to other users and   *)
(* to the members of groups.  Every request drops what an earlier one left *)
(* in the shared map AuthKeys.users, reads the file, asks the group        *)
(* resolver, publishes the result in the map, and then reads the map back. *)
(* The map is shared by all threads of the key server; the lock is not     *)
(* held from one step to the next, but it is held over the group lookups.  *)
(***************************************************************************)
EXTENDS Naturals, FiniteSets

CONSTANTS
  Threads,      \* the threads that resolve
  Users,        \* the users whose keys can be asked for
  Accounts,     \* the users who have a delegation file to write
  Groups,       \* groups a grant may name
  Grants,       \* the readable delegation files
  Writes,       \* [Accounts -> SUBSET Grants]: the files a user may write
  NoGrant,      \* a file that is absent, refused or broken
  GrantUsers,   \* [Grants -> [Accounts -> SUBSET Users]]: a file of a user names
                \*   users, the user alone if it has no `users`
  GrantGroups,  \* [Grants -> SUBSET Groups]
  Members,      \* [Groups -> SUBSET Users]
  Serves,       \* [Threads -> SUBSET Accounts]: whom a thread may be asked for
  None,         \* Python's None
  Faulty        \* can reading a file raise?

ASSUME DelegationAssumption ==
  /\ NoGrant \notin Grants
  /\ Accounts \subseteq Users
  /\ Writes \in [Accounts -> SUBSET Grants]
  /\ GrantUsers \in [Grants -> [Accounts -> SUBSET Users]]
  /\ GrantGroups \in [Grants -> SUBSET Groups]
  /\ Members \in [Groups -> SUBSET Users]
  /\ Serves \in [Threads -> SUBSET Accounts]
  /\ Faulty \in BOOLEAN
  /\ None \notin Threads \cup Users \cup Grants \cup {NoGrant}
  /\ None \notin [grant : Grants \cup {NoGrant}, who : SUBSET Users,
                  failed : SUBSET Groups]

VARIABLES
  file,         \* file[u]: u's authkeys.cfg as it is now
  users,        \* AuthKeys.users: u's loaded configuration, or None
  lock,         \* the thread inside AuthKeys._lock, or None
  pc,           \* where each thread is in resolve
  req,          \* the user it resolves, or None
  grant,        \* the delegation it has read, or None
  draft,        \* load_user_config's config, as far as it is built
  todo,         \* the groups it has yet to look up
  answer,       \* whose keys it returns, as taken from the map, or None
  own,          \* history: every state of req's file during this request
  window,       \* history: ... and during the requests it overlaps
  mishaps       \* history: what may have cost the request its grant

history == <<own, window, mishaps>>
vars == <<file, users, lock, pc, req, grant, draft, todo, answer, history>>

Files  == Grants \cup {NoGrant}
Config == [grant : Files, who : SUBSET Users, failed : SUBSET Groups]
Steps  == {"idle", "pop", "read", "load", "groups", "use", "fetch"}
Mishaps == {"unread", "broken", "popped"}

\* UserConfig([username]): the user alone.
Default(u) == [grant |-> NoGrant, who |-> {u}, failed |-> {}]

-----------------------------------------------------------------------------

Init ==
  /\ file \in [Accounts -> Files]
  /\ \A u \in Accounts : file[u] \in Writes[u] \cup {NoGrant}
  /\ users = [u \in Accounts |-> None]
  /\ lock = None
  /\ pc = [t \in Threads |-> "idle"]
  /\ req = [t \in Threads |-> None]
  /\ grant = [t \in Threads |-> None]
  /\ draft = [t \in Threads |-> None]
  /\ todo = [t \in Threads |-> {}]
  /\ answer = [t \in Threads |-> None]
  /\ own = [t \in Threads |-> {}]
  /\ window = [t \in Threads |-> {}]
  /\ mishaps = [t \in Threads |-> {}]

Goto(t, from, to) ==
  /\ pc[t] = from
  /\ pc' = [pc EXCEPT ![t] = to]

\* A call of resolve; a thread serves one request at a time.
Begin(t, u) ==
  /\ Goto(t, "idle", "pop")
  /\ u \in Serves[t]
  /\ req' = [req EXCEPT ![t] = u]
  /\ answer' = [answer EXCEPT ![t] = None]
  /\ own' = [own EXCEPT ![t] = {file[u]}]
  /\ window' = [window EXCEPT ![t] =
       {file[u]} \cup UNION {own[s] : s \in {r \in Threads : req[r] = u}}]
  /\ mishaps' = [mishaps EXCEPT ![t] = {}]
  /\ UNCHANGED <<file, users, lock, grant, draft, todo>>

\* Definitions named X_... are faulty variants of X; no specification uses them.
\* Here: what an earlier request loaded stays in the map.
Pop_KeepsEntry(t) ==
  /\ lock = None
  /\ Goto(t, "pop", "read")
  /\ UNCHANGED <<file, users, lock, req, grant, draft, todo, answer, history>>

\* with self._lock: self.users.pop(username, None).  Another request for the same
\* user may have published what it is about to use.
Pop(t) ==
  /\ lock = None
  /\ Goto(t, "pop", "read")
  /\ users' = [users EXCEPT ![req[t]] = None]
  /\ mishaps' = [r \in Threads |-> IF req[r] = req[t] /\ pc[r] = "use"
                                  THEN mishaps[r] \cup {"popped"} ELSE mishaps[r]]
  /\ UNCHANGED <<file, lock, req, grant, draft, todo, answer, own, window>>

\* _delegation_text and parse_delegation: a file that is there and in order.
ReadGrant(t) ==
  /\ Goto(t, "read", "load")
  /\ file[req[t]] # NoGrant
  /\ grant' = [grant EXCEPT ![t] = file[req[t]]]
  /\ UNCHANGED <<file, users, lock, req, draft, todo, answer, history>>

\* A missing, refused or broken file, or one that could not be read.
ReadNothing(t) ==
  /\ Goto(t, "read", "use")
  /\ \/ /\ file[req[t]] = NoGrant
        /\ UNCHANGED mishaps
     \/ /\ Faulty
        /\ mishaps' = [mishaps EXCEPT ![t] = @ \cup {"unread"}]
  /\ UNCHANGED <<file, users, lock, req, grant, draft, todo, answer, own, window>>

\* with self._lock: load_user_config starts from the users of the file.
LoadLock(t) ==
  /\ lock = None
  /\ lock' = t
  /\ Goto(t, "load", "groups")
  /\ draft' = [draft EXCEPT ![t] =
       [grant |-> grant[t], who |-> GrantUsers[grant[t]][req[t]], failed |-> {}]]
  /\ todo' = [todo EXCEPT ![t] = GrantGroups[grant[t]]]
  /\ UNCHANGED <<file, users, req, grant, answer, history>>

\* self.groupmembers(groupname, self.globals), under the lock
GroupAnswers(t, g) ==
  /\ pc[t] = "groups"
  /\ g \in todo[t]
  /\ draft' = [draft EXCEPT ![t].who = @ \cup Members[g]]
  /\ todo' = [todo EXCEPT ![t] = @ \ {g}]
  /\ UNCHANGED <<file, users, lock, pc, req, grant, answer, history>>

\* The other groups are dropped with the one that failed.
GroupFails_EndsLoop(t, g) ==
  /\ pc[t] = "groups"
  /\ g \in todo[t]
  /\ draft' = [draft EXCEPT ![t].failed = @ \cup {g}]
  /\ todo' = [todo EXCEPT ![t] = {}]
  /\ UNCHANGED <<file, users, lock, pc, req, grant, answer, history>>

\* The lookup raised: logged, and the group is left out.
GroupFails(t, g) ==
  /\ pc[t] = "groups"
  /\ g \in todo[t]
  /\ draft' = [draft EXCEPT ![t].failed = @ \cup {g}]
  /\ todo' = [todo EXCEPT ![t] = @ \ {g}]
  /\ UNCHANGED <<file, users, lock, pc, req, grant, answer, history>>

\* The lookup returned, but its members raise as they are iterated, or are None:
\* the whole configuration is lost, its lock is released.
GroupBreaks(t, g) ==
  /\ Goto(t, "groups", "use")
  /\ g \in todo[t]
  /\ lock' = None
  /\ draft' = [draft EXCEPT ![t] = None]
  /\ todo' = [todo EXCEPT ![t] = {}]
  /\ mishaps' = [mishaps EXCEPT ![t] = @ \cup {"broken"}]
  /\ UNCHANGED <<file, users, req, grant, answer, own, window>>

\* self.users[username] = config
Publish(t) ==
  /\ todo[t] = {}
  /\ Goto(t, "groups", "use")
  /\ users' = [users EXCEPT ![req[t]] = draft[t]]
  /\ lock' = None
  /\ draft' = [draft EXCEPT ![t] = None]
  /\ UNCHANGED <<file, req, grant, todo, answer, history>>

\* The map is not consulted.
Use_IgnoresMap(t) ==
  /\ Goto(t, "use", "fetch")
  /\ answer' = [answer EXCEPT ![t] = Default(req[t])]
  /\ grant' = [grant EXCEPT ![t] = None]
  /\ UNCHANGED <<file, users, lock, req, draft, todo, history>>

\* authorized_keys: self.users.get(username) or UserConfig([username])
Use(t) ==
  /\ Goto(t, "use", "fetch")
  /\ answer' = [answer EXCEPT ![t] =
       IF users[req[t]] = None THEN Default(req[t]) ELSE users[req[t]]]
  /\ grant' = [grant EXCEPT ![t] = None]
  /\ UNCHANGED <<file, users, lock, req, draft, todo, history>>

\* Every source was asked for every user of the configuration.
Finish(t) ==
  /\ Goto(t, "fetch", "idle")
  /\ req' = [req EXCEPT ![t] = None]
  /\ UNCHANGED <<file, users, lock, grant, draft, todo, answer, history>>

\* A user writes, breaks or removes the file.
Edit(u, f) ==
  /\ f \in Writes[u] \cup {NoGrant}
  /\ f # file[u]
  /\ file' = [file EXCEPT ![u] = f]
  /\ own' = [t \in Threads |-> IF req[t] = u THEN own[t] \cup {f} ELSE own[t]]
  /\ window' = [t \in Threads |-> IF req[t] = u THEN window[t] \cup {f} ELSE window[t]]
  /\ UNCHANGED <<users, lock, pc, req, grant, draft, todo, answer, mishaps>>

Resolve(t) ==
  \/ Pop(t) \/ ReadGrant(t) \/ ReadNothing(t) \/ LoadLock(t)
  \/ \E g \in Groups : GroupAnswers(t, g) \/ GroupFails(t, g) \/ GroupBreaks(t, g)
  \/ Publish(t) \/ Use(t) \/ Finish(t)

Next ==
  \/ \E t \in Threads : Resolve(t) \/ \E u \in Accounts : Begin(t, u)
  \/ \E u \in Accounts, f \in Files : Edit(u, f)

Spec == Init /\ [][Next]_vars

-----------------------------------------------------------------------------
(* Properties                                                              *)

TypeOK ==
  /\ file \in [Accounts -> Files]
  /\ users \in [Accounts -> Config \cup {None}]
  /\ lock \in Threads \cup {None}
  /\ pc \in [Threads -> Steps]
  /\ req \in [Threads -> Accounts \cup {None}]
  /\ grant \in [Threads -> Grants \cup {None}]
  /\ draft \in [Threads -> Config \cup {None}]
  /\ todo \in [Threads -> SUBSET Groups]
  /\ answer \in [Threads -> Config \cup {None}]
  /\ own \in [Threads -> SUBSET Files]
  /\ window \in [Threads -> SUBSET Files]
  /\ mishaps \in [Threads -> SUBSET Mishaps]

Granted(t) == answer[t] # None /\ answer[t].grant # NoGrant

\* A request uses no grant but one the file made while the request ran: what an
\* earlier load granted does not survive the file's removal (resolve, "The file
\* as it is now decides").
NoGrantSurvives ==
  \A t \in Threads : Granted(t) => answer[t].grant \in own[t]

\* What a request does not get of a grant the file kept making has one of three
\* reasons: the file could not be read, the members of a group broke off, or another
\* request for the same user dropped the configuration from the map after this one
\* had published it and before it used it (resolve and authorized_keys).
GrantHonoured ==
  \A t \in Threads :
    answer[t] # None /\ ~Granted(t) => NoGrant \in own[t] \/ mishaps[t] # {}

\* What two requests for one user can do to each other is bounded: a grant that
\* is used was made while this request ran, or while one ran that it overlaps.
GrantFromOverlap ==
  \A t \in Threads : Granted(t) => answer[t].grant \in window[t]

\* A grant is used whole: all its users and all members of all its groups but
\* those whose lookup failed, and nobody else; no reader sees a configuration
\* that is still being built.
WholeGrant ==
  \A t \in Threads : Granted(t) =>
    LET a == answer[t]
        groups == GrantGroups[a.grant] \ a.failed
    IN  \E u \in Serves[t] :
          /\ a.failed \subseteq GrantGroups[a.grant]
          /\ a.who = GrantUsers[a.grant][u] \cup UNION {Members[g] : g \in groups}
=============================================================================
