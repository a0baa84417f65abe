---------------------------- MODULE MCDelegation ----------------------------
(* Small instances of Delegation: alice may grant her account to bob, or to *)
(* herself and the members of two groups.                                   *)
EXTENDS Delegation, TLC

CONSTANTS alice, bob, carol, admins, staff, toBob, toGroups, t1, t2, t3

\* toGroups has no `users`, so it names its own user.
NamedUsers ==
  [g \in Grants |-> [u \in Accounts |-> IF g = toBob THEN {bob} ELSE {u}]]
NamedGroups == [g \in Grants |-> IF g = toGroups THEN Groups ELSE {}]
GroupMembers == [g \in Groups |-> IF g = admins THEN {carol} ELSE {bob, carol}]

\* alice may write any of the files.
AnyFile == [u \in Accounts |-> Grants]

\* Every thread serves alice.
AllServeAlice == [t \in Threads |-> {alice}]

Symmetric == Permutations(Threads)
=============================================================================
