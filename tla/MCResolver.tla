----------------------------- MODULE MCResolver ------------------------------
(* Small instances of Resolver.  alice may grant her account to bob, and bob *)
(* his to the staff, which is alice.  corp knows each of them, extra knows   *)
(* one name, to which both are mapped.                                       *)
EXTENDS Resolver

CONSTANTS alice, bob, staff, toBob, toStaff, t1, t2, corp, extra, keyA, keyB

OneEach == [t \in Threads |-> IF t = t1 THEN {alice} ELSE {bob}]
OneFileEach == [u \in Accounts |-> IF u = alice THEN {toBob} ELSE {toStaff}]
NamedUsers ==
  [g \in Grants |-> [u \in Accounts |-> IF g = toBob THEN {bob} ELSE {}]]
NamedGroups == [g \in Grants |-> IF g = toStaff THEN Groups ELSE {}]
StaffMembers == [g \in Groups |-> {alice}]

CorpFirst == [s \in Sources |-> IF s = corp THEN 1 ELSE 2]
OneExtraName ==
  [s \in Sources |-> [u \in Users |-> IF s = corp THEN u ELSE alice]]
NoneInherits == [s \in Sources |-> Inherit]

BobCorp == <<bob, corp>>
AliceExtra == <<alice, extra>>

\* Lists of one key each, and the empty one; keyA is in both sources.
OneKeyEach == [v \in KeyLists |-> IF v = NoKeys THEN {} ELSE {v}]
OneDirectory == {[k \in CacheKeys |-> IF k = BobCorp THEN keyB ELSE keyA]}
BobsCorpHangs == {BobCorp}
ExtraLosesItsKey == {<<AliceExtra, NoKeys>>}
=============================================================================
