------------------------------ MODULE Resolver -------------------------------
(***************************************************************************)
(* AuthKeys.resolve from the call to the list of keys: the delegation of   *)
(* Delegation, then every enabled source for every user it names, each     *)
(* lookup one of SourceCache, and the keys collected.                      *)
(*                                                                         *)
(* The two parts are written and checked apart; here they share what they  *)
(* share in the code: the threads, and AuthKeys._lock, which one thread    *)
(* takes to look up the groups of a grant and another to read the cache.   *)
(***************************************************************************)
EXTENDS Integers, FiniteSets

CONSTANTS
  Threads, Users, Accounts, Groups, Grants, Writes, NoGrant, GrantUsers,
  GrantGroups, Members, Serving, None,
  ReadsFail,    \* can reading a delegation file raise?
  HungGroups,   \* groups whose lookup may never return
  Sources,      \* the enabled sources
  Rank,         \* [Sources -> Nat]: their order in the configuration
  Uid,          \* [Sources -> [Users -> uid]]: AuthKeys.usermap
  Keys,         \* keys, as (options, type, key)
  KeyLists, NoKeys,
  KeysOf,       \* [KeyLists -> SUBSET Keys]
  CachedSources,\* the sources with `cached = true`
  SourceExpire, \* [Sources -> Nat \cup {Inherit}]: their `expire`
  Inherit, Ttl, NegTtl, UseExpired, Unbounded, MaxStale, Faulty, Shared,
  Hung,         \* the (uid, source) pairs whose source may never answer
  Editors,      \* the users who change their files meanwhile
  Directories,  \* SUBSET [CacheKeys -> KeyLists]: what the sources hold at first
  Moves,        \* SUBSET (CacheKeys \X KeyLists): the changes of the sources meanwhile
  Latency, MaxTime

Pair(u, s) == <<Uid[s][u], s>>
CacheKeys == {Pair(u, s) : u \in Users, s \in Sources}

ASSUME ResolverAssumption ==
  /\ NoGrant \notin Grants
  /\ Accounts \subseteq Users
  /\ Writes \in [Accounts -> SUBSET Grants]
  /\ GrantUsers \in [Grants -> [Accounts -> SUBSET Users]]
  /\ GrantGroups \in [Grants -> SUBSET Groups]
  /\ Members \in [Groups -> SUBSET Users]
  /\ Serving \in [Threads -> SUBSET Accounts]
  /\ Editors \subseteq Accounts
  /\ NoKeys \in KeyLists
  /\ KeysOf \in [KeyLists -> SUBSET Keys]
  /\ KeysOf[NoKeys] = {}
  /\ Directories \subseteq [CacheKeys -> KeyLists]
  /\ Moves \subseteq CacheKeys \X KeyLists
  /\ MaxTime \in Nat

ASSUME NoneAssumption ==
  /\ None \notin Threads \cup Users \cup CacheKeys \cup Grants
  /\ None \notin [grant : Grants \cup {NoGrant}, who : SUBSET Users,
                  failed : SUBSET Groups]
  /\ None \notin [keys : KeyLists, at : Nat]
  /\ None \notin [key : CacheKeys, keys : KeyLists,
                  via : {"source", "cache", "stale", "error", "unread"}, at : Nat]

Cached == {k \in CacheKeys : k[2] \in CachedSources}
Expire == [k \in CacheKeys |-> SourceExpire[k[2]]]

VARIABLES
  lock,         \* the thread inside AuthKeys._lock, or None
  file, users, dpc, req, grant, draft, todo,    \* resolve, as in Delegation
  who,          \* whose keys a thread is to collect, or None
  own, window, mishaps,
  now, upstream, held, cache, cpc, asked, fetched,  \* the lookup of SourceCache
  got,          \* what a lookup returned last, or None
  plan,         \* the (source, user) combinations yet to be looked up
  keys,         \* authorized_keys' keys so far
  failed        \* history: the pairs that had no keys because of an error

delegationVars == <<file, users, dpc, req, grant, draft, todo, who,
                    own, window, mishaps>>
lookupVars == <<now, upstream, held, cache, cpc, asked, fetched, got>>
loopVars == <<plan, keys, failed>>
vars == <<lock, delegationVars, lookupVars, loopVars>>

D == INSTANCE Delegation
       WITH pc <- dpc, answer <- who, Faulty <- ReadsFail, Serves <- Serving
S == INSTANCE SourceCache WITH pc <- cpc, answer <- got

-----------------------------------------------------------------------------

Init ==
  /\ D!Init
  /\ S!Init
  /\ upstream \in Directories
  /\ plan = [t \in Threads |-> {}]
  /\ keys = [t \in Threads |-> {}]
  /\ failed = [t \in Threads |-> {}]

Begin(t, u) ==
  /\ D!Begin(t, u)
  /\ keys' = [keys EXCEPT ![t] = {}]
  /\ failed' = [failed EXCEPT ![t] = {}]
  /\ UNCHANGED <<lookupVars, plan>>

\* resolve up to the call of authorized_keys
Delegate(t) ==
  /\ \/ D!Pop(t) \/ D!ReadGrant(t) \/ D!ReadNothing(t) \/ D!LoadLock(t)
     \/ \E g \in Groups : D!GroupAnswers(t, g) \/ D!GroupFails(t, g) \/ D!GroupBreaks(t, g)
     \/ D!Publish(t)
  /\ UNCHANGED <<lookupVars, loopVars>>

\* Definitions named X_... are faulty variants of X; no specification uses them.
\* Here: the sources are asked under the lock.
Use_Locked(t) ==
  /\ dpc[t] = "use"
  /\ dpc' = [dpc EXCEPT ![t] = "fetch"]
  /\ lock = None
  /\ lock' = t
  /\ who' = [who EXCEPT ![t] =
       IF users[req[t]] = None THEN D!Default(req[t]) ELSE users[req[t]]]
  /\ grant' = [grant EXCEPT ![t] = None]
  /\ plan' = [plan EXCEPT ![t] = Sources \X who'[t].who]
  /\ UNCHANGED <<file, users, req, draft, todo, own, window, mishaps,
                 lookupVars, keys, failed>>

\* authorized_keys takes the configuration from the map and enters its loops.
Use(t) ==
  /\ D!Use(t)
  /\ plan' = [plan EXCEPT ![t] = Sources \X who'[t].who]
  /\ UNCHANGED <<lookupVars, keys, failed>>

\* The user is looked up under the name of the account.
Ask_Unmapped(t, s, u) ==
  /\ dpc[t] = "fetch"
  /\ <<s, u>> \in plan[t]
  /\ \A p \in plan[t] : Rank[s] <= Rank[p[1]]
  /\ \E k \in CacheKeys : k[2] = s /\ S!Ask(t, k)
  /\ plan' = [plan EXCEPT ![t] = @ \ {<<s, u>>}]
  /\ UNCHANGED <<delegationVars, keys, failed>>

\* Source by source, each for user by user.
Ask(t, s, u) ==
  /\ dpc[t] = "fetch"
  /\ <<s, u>> \in plan[t]
  /\ \A p \in plan[t] : Rank[s] <= Rank[p[1]]
  /\ S!Ask(t, Pair(u, s))
  /\ plan' = [plan EXCEPT ![t] = @ \ {<<s, u>>}]
  /\ UNCHANGED <<delegationVars, keys, failed>>

\* The keys of the lookup that has returned join the others.
Returned(t) == asked[t] # None /\ asked'[t] = None

\* The error of one source ends the loops.
Lookup_Aborts(t) ==
  /\ S!Resolve(t)
  /\ IF Returned(t)
     THEN LET lost == got'[t].via \in {"error", "unread"}
          IN  /\ keys' = [keys EXCEPT ![t] = @ \cup KeysOf[got'[t].keys]]
              /\ failed' = [failed EXCEPT ![t] = @ \cup
                   IF lost THEN {asked[t]} ELSE {}]
              /\ plan' = IF lost THEN [plan EXCEPT ![t] = {}] ELSE plan
     ELSE UNCHANGED loopVars
  /\ UNCHANGED delegationVars

\* The lookup of one source for one user.
Lookup(t) ==
  /\ S!Resolve(t)
  /\ IF Returned(t)
     THEN /\ keys' = [keys EXCEPT ![t] = @ \cup KeysOf[got'[t].keys]]
          /\ failed' = [failed EXCEPT ![t] = @ \cup
               IF got'[t].via \in {"error", "unread"} THEN {asked[t]} ELSE {}]
     ELSE UNCHANGED <<keys, failed>>
  /\ UNCHANGED <<delegationVars, plan>>

\* The request takes its configuration out of the map when it is done.
Finish_Pops(t) ==
  /\ plan[t] = {}
  /\ asked[t] = None
  /\ dpc[t] = "fetch"
  /\ dpc' = [dpc EXCEPT ![t] = "idle"]
  /\ users' = [users EXCEPT ![req[t]] = None]
  /\ req' = [req EXCEPT ![t] = None]
  /\ UNCHANGED <<lock, file, grant, draft, todo, who, own, window, mishaps,
                 lookupVars, loopVars>>

\* resolve returns the list.
Finish(t) ==
  /\ plan[t] = {}
  /\ asked[t] = None
  /\ D!Finish(t)
  /\ UNCHANGED <<lookupVars, loopVars>>

\* Users edit their files, administrators their sources; time passes and entries
\* are purged.
Around ==
  \/ /\ \E u \in Editors, f \in D!Files : D!Edit(u, f)
     /\ UNCHANGED <<lookupVars, loopVars>>
  \/ /\ \/ \E k \in CacheKeys : S!Purge(k)
        \/ \E m \in Moves : S!Change(m[1], m[2])
        \/ S!Tick
     /\ UNCHANGED <<delegationVars, loopVars>>

Next ==
  \/ \E t \in Threads :
       \/ \E u \in Accounts : Begin(t, u)
       \/ Delegate(t) \/ Use(t)
       \/ \E s \in Sources, u \in Users : Ask(t, s, u)
       \/ Lookup(t) \/ Finish(t)
  \/ Around

Spec == Init /\ [][Next]_vars

\* As in the two parts: a lock that is free again and again is obtained in the end,
\* a running thread runs on, and what does not hang answers or fails.
Fairness ==
  \A t \in Threads :
    /\ SF_vars(\/ Delegate(t) /\ (D!Pop(t) \/ D!LoadLock(t))
               \/ Lookup(t) /\ S!LockSteps(t))
    /\ WF_vars(Delegate(t) /\ (D!ReadGrant(t) \/ D!ReadNothing(t) \/ D!Publish(t)))
    /\ WF_vars(Delegate(t) /\ \E g \in Groups \ HungGroups :
                               \/ D!GroupAnswers(t, g)
                               \/ D!GroupFails(t, g) \/ D!GroupBreaks(t, g))
    /\ WF_vars(Use(t))
    /\ WF_vars(\E s \in Sources, u \in Users : Ask(t, s, u))
    /\ WF_vars(Lookup(t) /\ S!OwnSteps(t))
    /\ WF_vars(Lookup(t) /\ S!FetchSteps(t))
    /\ WF_vars(Finish(t))

FairSpec == Spec /\ Fairness

-----------------------------------------------------------------------------
(* Properties                                                              *)

TypeOK ==
  /\ D!TypeOK
  /\ S!TypeOK
  /\ plan \in [Threads -> SUBSET (Sources \X Users)]
  /\ keys \in [Threads -> SUBSET Keys]
  /\ failed \in [Threads -> SUBSET CacheKeys]

\* The lock as each part sees it: taken while the other part holds it, too, but
\* then by nobody it knows of.
Loading == lock # None /\ dpc[lock] = "groups"

DView == INSTANCE Delegation
  WITH pc <- dpc, answer <- who, Faulty <- ReadsFail, Serves <- Serving,
       lock <- IF Loading THEN lock ELSE None
SView == INSTANCE SourceCache
  WITH pc <- cpc, answer <- got, lock <- IF Loading THEN None ELSE lock

\* What Delegation says of resolve holds in spite of the cache's use of the lock ...
Delegates == DView!Spec

\* ... and what SourceCache says of a lookup in spite of that of the groups.
LooksUp == SView!Spec

\* The users a delegation file f of o names.
Named(f, o) ==
  IF f = NoGrant THEN {o}
  ELSE GrantUsers[f][o] \cup UNION {Members[g] : g \in GrantGroups[f]}

\* The name of a file's key lists' keys: held by the source of k at some time.
HeldKey(k, key) == \E h \in held[k] : key \in KeysOf[h.keys]

Exclusive ==
  \A s, t \in Threads : s # t => Serving[s] \cap Serving[t] = {}

\* The files a request may go by: what the user's was at some moment of the request,
\* and none if its grant was lost (Delegation's GrantHonoured says how).
Offered(t) == own[t] \cup (IF mishaps[t] = {} THEN {} ELSE {NoGrant})

\* A login is let in by nobody's keys but those of users the account's file names,
\* or of the account alone if it names none or was lost, as the file was at some
\* moment of the request, and by keys that a source held under their name in it.
Entitled ==
  Exclusive => \A t \in Threads : \A key \in keys[t] :
    \E f \in Offered(t), o \in Serving[t], s \in Sources : \E u \in Named(f, o) :
      HeldKey(Pair(u, s), key)

\* No key is lost between the sources and the answer: for every user of the
\* configuration and every source the answer has all keys of a list the source held,
\* unless this very lookup failed.
NothingLost ==
  \A t \in Threads : dpc[t] = "idle" /\ who[t] # None =>
    \A u \in who[t].who, s \in Sources :
      \/ Pair(u, s) \in failed[t]
      \/ \E h \in held[Pair(u, s)] : KeysOf[h.keys] \subseteq keys[t]

\* A group lookup that hangs holds the lock.
Stalled == \E t \in Threads : dpc[t] = "groups" /\ todo[t] \cap HungGroups # {}

\* A login ends, whoever else waits for a source that hangs, unless its own source
\* does or a group lookup that hangs holds the lock.
Ends ==
  \A t \in Threads :
    req[t] # None ~> req[t] = None \/ asked[t] \in Hung \/ Stalled
=============================================================================
