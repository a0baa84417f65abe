-------------------------- MODULE MCCacheCommand ----------------------------
(* Small instances of CacheCommand: bob has an entry in ldap and one in     *)
(* http, which keeps its keys longer than [cache] expire.  Known-empty      *)
(* results are kept longer too.                                             *)
EXTENDS CacheCommand, TLC

CONSTANTS alice, bob, ldap, http, p1, p2, l1, root

TwoEntries == {<<bob, ldap>>, <<bob, http>>}
OneAnswer == [s \in Sources |-> IF s = http THEN {"negative"} ELSE {"keys"}]
OwnExpire == [s \in Sources |-> IF s = http THEN 1 ELSE Inherit]

HttpOnly == [u \in Users |-> {<<bob, http>>}]
OneForeign == {{}, {root}}
Trusting == {{}}

OldFile(text, trusted) == [at |-> 0, text |-> text, trusted |-> trusted]
OldKeys == [Entries -> {OldFile("keys", TRUE)}]
\* The entry in ldap is one the cache ignores, the one in http decodes or does not.
OldEntries == {(<<bob, ldap>> :> OldFile("keys", FALSE)) @@
               (<<bob, http>> :> OldFile(text, TRUE)) : text \in {"keys", "damaged"}}

Plain == [user |-> None, source |-> None, expired |-> FALSE, all |-> FALSE,
          dryRun |-> FALSE]
CommandLines ==
  {[Plain EXCEPT !.expired = TRUE],
   [Plain EXCEPT !.user = bob, !.source = ldap],
   [Plain EXCEPT !.all = TRUE, !.dryRun = TRUE]}
Limited == {[Plain EXCEPT !.expired = TRUE, !.user = alice]}

BobOnly == {{bob}}
Nobody == {}

Symmetric == Permutations(Procs)
=============================================================================
