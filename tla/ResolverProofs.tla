---------------------------- MODULE ResolverProofs ----------------------------
(***************************************************************************)
(* What Resolver.tla's run checks on two threads and two sources, for any  *)
(* number of them: that the delegation and the lookups, which share the    *)
(* threads and the lock, are each what their own module says, and that no  *)
(* key is lost on the way to the answer.                                   *)
(***************************************************************************)
EXTENDS Resolver, TLAPS

\* A thread in the part of a lookup that holds the lock.
Inside(t) == cpc[t] \in {"reading", "storing", "rescuing"}

\* Where a thread is tells what it carries; it looks up only where the delegation
\* has come to its end.
PcAgrees ==
  \A t \in Threads :
    /\ dpc[t] = "idle" <=> req[t] = None
    /\ dpc[t] \in {"load", "groups"} => grant[t] # None
    /\ dpc[t] = "groups" => draft[t] # None
    /\ cpc[t] = "idle" <=> asked[t] = None
    /\ cpc[t] \in {"fetched", "storing"} <=> fetched[t] # None
    /\ asked[t] # None => dpc[t] = "fetch"

\* Whoever resolves groups or is inside a lookup's critical section has the lock.
LockAgrees == \A t \in Threads : dpc[t] = "groups" \/ Inside(t) => lock = t

\* The source of k held the list v at some time.
Held(k, v) == \E h \in held[k] : h.keys = v

\* What is stored or on its way came from the source.
Genuine ==
  /\ \A k \in CacheKeys : Held(k, upstream[k])
  /\ \A k \in CacheKeys : cache[k] # None => Held(k, cache[k].keys)
  /\ \A t \in Threads : asked[t] # None /\ fetched[t] # None =>
       Held(asked[t], fetched[t].keys)

\* The keys of source s for user u are accounted for: still to be looked up, being
\* looked up, given up after an error, or there.
Due(t, u, s) ==
  \/ <<s, u>> \in plan[t]
  \/ asked[t] = Pair(u, s)
  \/ Pair(u, s) \in failed[t]
  \/ \E h \in held[Pair(u, s)] : KeysOf[h.keys] \subseteq keys[t]

Collected ==
  \A t \in Threads :
    /\ dpc[t] # "fetch" => plan[t] = {}
    /\ dpc[t] \in {"idle", "fetch"} /\ who[t] # None =>
         \A u \in who[t].who, s \in Sources : Due(t, u, s)

RInv == TypeOK /\ PcAgrees /\ LockAgrees /\ Genuine /\ Collected

-----------------------------------------------------------------------------

\* The invariant holds to begin with.
LEMMA InitInv == Init => RInv
<1> USE ResolverAssumption, NoneAssumption
<1> SUFFICES ASSUME Init PROVE RInv
  OBVIOUS
<1>1. D!TypeOK
  BY DEF Init, D!Init, D!TypeOK, D!Config, D!Steps, D!Files
<1>2. S!TypeOK
  BY DEF Init, S!Init, S!TypeOK, S!Steps, S!Entry
<1>3. TypeOK
  BY <1>1, <1>2 DEF Init, TypeOK
<1>4. PcAgrees /\ LockAgrees
  BY DEF Init, D!Init, S!Init, PcAgrees, LockAgrees, Inside
<1>5. Genuine
  BY DEF Init, S!Init, Genuine, Held
<1>6. Collected
  BY DEF Init, D!Init, Collected
<1> QED
  BY <1>3, <1>4, <1>5, <1>6 DEF RInv

\* The parts of the invariant that a step of the delegation leaves alone.
LEMMA DelegationStep ==
  ASSUME RInv, D!TypeOK', UNCHANGED <<lookupVars, plan>>,
         keys' \in [Threads -> SUBSET Keys], failed' \in [Threads -> SUBSET CacheKeys],
         PcAgrees', LockAgrees', Collected'
  PROVE  RInv'
<1>1. S!TypeOK'
  <2>1. lock' \in Threads \cup {None}
    BY DEF D!TypeOK
  <2> QED
    BY <2>1 DEF RInv, TypeOK, S!TypeOK, lookupVars
<1>2. TypeOK'
  BY <1>1 DEF RInv, TypeOK, lookupVars
<1>3. Genuine'
  BY DEF RInv, Genuine, Held, lookupVars
<1> QED
  BY <1>2, <1>3 DEF RInv

\* A request begins, with an empty list.
LEMMA BeginInv ==
  ASSUME RInv, NEW t \in Threads, NEW u \in Accounts, Begin(t, u)
  PROVE  RInv'
<1> USE ResolverAssumption, NoneAssumption
<1>1. D!TypeOK'
  BY DEF RInv, TypeOK, D!TypeOK, Begin, D!Begin, D!Goto, D!Steps, D!Files
<1>2. /\ keys' \in [Threads -> SUBSET Keys]
      /\ failed' \in [Threads -> SUBSET CacheKeys]
  BY DEF RInv, TypeOK, Begin
<1>3. dpc[t] = "idle" /\ dpc' = [dpc EXCEPT ![t] = "pop"] /\ asked[t] = None
  BY DEF RInv, PcAgrees, Begin, D!Begin, D!Goto
<1>4. PcAgrees' /\ LockAgrees'
  BY <1>3 DEF RInv, TypeOK, D!TypeOK, PcAgrees, LockAgrees, Inside, Begin, D!Begin, lookupVars
<1>5. Collected'
  <2>1. plan' = plan /\ asked' = asked /\ held' = held
    BY DEF Begin, lookupVars
  <2>2. \A r \in Threads : r # t =>
          keys'[r] = keys[r] /\ failed'[r] = failed[r] /\ who'[r] = who[r] /\ dpc'[r] = dpc[r]
    BY <1>3 DEF RInv, TypeOK, D!TypeOK, Begin, D!Begin
  <2>3. dpc'[t] = "pop"
    BY <1>3 DEF RInv, TypeOK, D!TypeOK
  <2>4. \A r \in Threads : r # t => \A v, x : Due(r, v, x) => Due(r, v, x)'
    BY <2>1, <2>2 DEF Due
  <2>5. plan[t] = {}
    BY <1>3 DEF RInv, Collected
  <2> SUFFICES ASSUME NEW r \in Threads
               PROVE  /\ dpc'[r] # "fetch" => plan'[r] = {}
                      /\ dpc'[r] \in {"idle", "fetch"} /\ who'[r] # None =>
                           \A v \in who'[r].who, x \in Sources : Due(r, v, x)'
    BY DEF Collected
  <2>6. CASE r = t
    BY <2>1, <2>3, <2>5, <2>6
  <2>7. CASE r # t
    BY <2>1, <2>2, <2>4, <2>7 DEF RInv, Collected
  <2> QED
    BY <2>6, <2>7
<1> QED
  BY <1>1, <1>2, <1>4, <1>5, DelegationStep DEF Begin

\* Reading the file, loading the groups and publishing touches no key.
LEMMA DelegateInv ==
  ASSUME RInv, NEW t \in Threads, Delegate(t)
  PROVE  RInv'
<1> USE ResolverAssumption, NoneAssumption
<1>1. /\ UNCHANGED <<lookupVars, plan>>
      /\ keys' \in [Threads -> SUBSET Keys]
      /\ failed' \in [Threads -> SUBSET CacheKeys]
  BY DEF RInv, TypeOK, Delegate, loopVars
<1>2. D!TypeOK' /\ PcAgrees' /\ LockAgrees' /\ who' = who
      /\ dpc' \in [Threads -> D!Steps]
      /\ dpc[t] \notin {"idle", "fetch"} /\ dpc'[t] \notin {"idle", "fetch"}
      /\ \A r \in Threads : r # t => dpc'[r] = dpc[r]
  <2>1. CASE D!Pop(t)
    <3>0. mishaps' \in [Threads -> SUBSET D!Mishaps]
      BY <2>1 DEF RInv, TypeOK, D!TypeOK, D!Pop, D!Mishaps
    <3>1. D!TypeOK'
      BY <2>1, <3>0 DEF RInv, TypeOK, PcAgrees, D!TypeOK, D!Pop, D!Goto, D!Steps
    <3> QED
      BY <1>1, <2>1, <3>1 DEF RInv, TypeOK, D!TypeOK, PcAgrees, LockAgrees, Inside, lookupVars,
         D!Pop, D!Goto
  <2>2. CASE D!ReadGrant(t) \/ D!ReadNothing(t)
    <3>0. req[t] \in Accounts
      BY <2>2 DEF RInv, TypeOK, PcAgrees, D!TypeOK, D!ReadGrant, D!ReadNothing, D!Goto
    <3>1. D!TypeOK'
      <4>1. CASE D!ReadGrant(t)
        <5>1. file[req[t]] \in Grants
          BY <4>1, <3>0 DEF RInv, TypeOK, D!TypeOK, D!ReadGrant, D!Files
        <5> QED
          BY <4>1, <5>1 DEF RInv, TypeOK, D!TypeOK, D!ReadGrant, D!Goto, D!history, D!Steps
      <4>2. CASE D!ReadNothing(t)
        <5>1. mishaps' \in [Threads -> SUBSET D!Mishaps]
          BY <4>2 DEF RInv, TypeOK, D!TypeOK, D!ReadNothing, D!Mishaps
        <5> QED
          BY <4>2, <5>1 DEF RInv, TypeOK, D!TypeOK, D!ReadNothing, D!Goto, D!Steps
      <4> QED
        BY <2>2, <4>1, <4>2
    <3>2. /\ dpc[t] = "read"
          /\ dpc' \in [Threads -> D!Steps]
          /\ dpc'[t] \in {"use", "load"}
          /\ \A r \in Threads : r # t => dpc'[r] = dpc[r]
      <4>1. dpc \in [Threads -> D!Steps]
        BY DEF RInv, TypeOK, D!TypeOK
      <4> QED
        BY <2>2, <4>1 DEF D!ReadGrant, D!ReadNothing, D!Goto, D!Steps
    <3>5. \A r \in Threads : dpc'[r] \in {"load", "groups"} => grant'[r] # None
      <4>1. CASE D!ReadGrant(t)
        <5>1. file[req[t]] \in Grants
          BY <4>1, <3>0 DEF RInv, TypeOK, D!TypeOK, D!ReadGrant, D!Files
        <5> QED
          BY <4>1, <5>1, <3>2 DEF RInv, TypeOK, PcAgrees, D!TypeOK, D!ReadGrant
      <4>2. CASE D!ReadNothing(t)
        BY <4>2, <3>2 DEF RInv, TypeOK, PcAgrees, D!TypeOK, D!ReadNothing, D!Goto
      <4> QED
        BY <2>2, <4>1, <4>2
    <3>3. UNCHANGED <<lock, req, draft, who>>
      BY <2>2 DEF D!ReadGrant, D!ReadNothing, D!history
    <3>6. UNCHANGED <<cpc, asked, fetched>>
      BY <1>1 DEF lookupVars
    <3>7. LockAgrees'
      BY <3>2, <3>3, <3>6 DEF RInv, LockAgrees, Inside
    <3>8. PcAgrees'
      <4> SUFFICES ASSUME NEW r \in Threads PROVE
            /\ dpc'[r] = "idle" <=> req[r] = None
            /\ dpc'[r] = "groups" => draft[r] # None
            /\ cpc[r] = "idle" <=> asked[r] = None
            /\ cpc[r] \in {"fetched", "storing"} <=> fetched[r] # None
            /\ asked[r] # None => dpc'[r] = "fetch"
        BY <3>3, <3>5, <3>6 DEF PcAgrees
      <4> QED
        BY <3>2 DEF RInv, PcAgrees
    <3>4. PcAgrees' /\ LockAgrees'
      BY <3>7, <3>8
    <3> QED
      BY <3>1, <3>2, <3>3, <3>4
  <2>3. CASE D!LoadLock(t)
    <3>0. req[t] \in Accounts /\ grant[t] \in Grants /\ dpc[t] = "load"
      BY <2>3 DEF RInv, TypeOK, PcAgrees, D!TypeOK, D!LoadLock, D!Goto
    <3>1. [grant |-> grant[t], who |-> GrantUsers[grant[t]][req[t]], failed |-> {}] \in D!Config
      BY <3>0 DEF D!Config, D!Files
    <3>2. D!TypeOK'
      BY <2>3, <3>0, <3>1 DEF RInv, TypeOK, D!TypeOK, D!LoadLock, D!Goto, D!history, D!Steps
    <3>3. draft'[t] # None
      BY <2>3, <3>1 DEF RInv, TypeOK, D!TypeOK, D!LoadLock, D!Config, D!Files
    <3>4. PcAgrees' /\ LockAgrees'
      BY <1>1, <2>3, <3>0, <3>3 DEF RInv, TypeOK, D!TypeOK, PcAgrees, LockAgrees, Inside, lookupVars,
         D!LoadLock, D!Goto, D!history
    <3> QED
      BY <2>3, <3>2, <3>4 DEF RInv, TypeOK, D!TypeOK, D!LoadLock, D!Goto, D!history
  <2>4. CASE \E g \in Groups : D!GroupAnswers(t, g) \/ D!GroupFails(t, g)
    <3> PICK g \in Groups : D!GroupAnswers(t, g) \/ D!GroupFails(t, g)
      BY <2>4
    <3>0. dpc[t] = "groups" /\ draft[t] \in D!Config
      BY DEF RInv, TypeOK, PcAgrees, D!TypeOK, D!GroupAnswers, D!GroupFails
    <3>1. [draft[t] EXCEPT !.who = @ \cup Members[g]] \in D!Config
          /\ [draft[t] EXCEPT !.failed = @ \cup {g}] \in D!Config
      BY <3>0 DEF D!Config
    <3>2. PICK c \in D!Config : draft' = [draft EXCEPT ![t] = c]
      BY <3>1 DEF D!GroupAnswers, D!GroupFails
    <3>3. UNCHANGED <<dpc, lock, req, grant, who>>
      BY DEF D!GroupAnswers, D!GroupFails, D!history
    <3>4. D!TypeOK'
      BY <3>2 DEF RInv, TypeOK, D!TypeOK, D!GroupAnswers, D!GroupFails, D!history
    <3>5. c # None
      BY DEF D!Config, D!Files
    <3>6. PcAgrees' /\ LockAgrees'
      BY <1>1, <3>2, <3>3, <3>5 DEF RInv, TypeOK, D!TypeOK, PcAgrees, LockAgrees, Inside, lookupVars
    <3> QED
      BY <3>0, <3>3, <3>4, <3>6 DEF RInv, TypeOK, D!TypeOK
  <2>5. CASE D!Publish(t) \/ \E g \in Groups : D!GroupBreaks(t, g)
    <3>0. dpc[t] = "groups" /\ draft[t] \in D!Config /\ req[t] \in Accounts /\ lock = t
      BY <2>5 DEF RInv, TypeOK, PcAgrees, LockAgrees, D!TypeOK, D!Publish, D!GroupBreaks, D!Goto
    <3>1. D!TypeOK'
      <4>1. CASE D!Publish(t)
        BY <4>1, <3>0 DEF RInv, TypeOK, D!TypeOK, D!Publish, D!Goto, D!history, D!Steps
      <4>2. ASSUME NEW g \in Groups, D!GroupBreaks(t, g) PROVE D!TypeOK'
        <5>1. mishaps' \in [Threads -> SUBSET D!Mishaps]
          BY <4>2 DEF RInv, TypeOK, D!TypeOK, D!GroupBreaks, D!Mishaps
        <5> QED
          BY <4>2, <5>1 DEF RInv, TypeOK, D!TypeOK, D!GroupBreaks, D!Goto, D!Steps
      <4> QED
        BY <2>5, <4>1, <4>2
    <3>2. /\ dpc'[t] = "use" /\ lock' = None
          /\ \A r \in Threads : r # t => dpc'[r] = dpc[r] /\ draft'[r] = draft[r]
          /\ UNCHANGED <<req, grant, cpc, asked, fetched>>
      BY <1>1, <2>5 DEF RInv, TypeOK, D!TypeOK, D!Publish, D!GroupBreaks, D!Goto, D!history,
         lookupVars
    <3>3. PcAgrees'
      BY <3>0, <3>2 DEF RInv, PcAgrees
    <3>4. LockAgrees'
      <4>1. \A r \in Threads : r # t => ~ (dpc[r] = "groups" \/ Inside(r))
        BY <3>0 DEF RInv, LockAgrees
      <4>2. ~ Inside(t)
        BY <3>0 DEF RInv, PcAgrees, Inside
      <4> QED
        BY <3>2, <4>1, <4>2 DEF LockAgrees, Inside
    <3> QED
      BY <2>5, <3>0, <3>1, <3>2, <3>3, <3>4 DEF RInv, TypeOK, D!TypeOK, D!Publish,
         D!GroupBreaks, D!history
  <2> QED
    BY <2>1, <2>2, <2>3, <2>4, <2>5 DEF Delegate
<1>3. Collected'
  <2>1. UNCHANGED <<who, plan, keys, failed, asked, held>>
    BY <1>2 DEF Delegate, lookupVars, loopVars
  <2>2. \A r \in Threads : \A v, x : Due(r, v, x) => Due(r, v, x)'
    BY <2>1 DEF Due
  <2>3. plan[t] = {}
    BY <1>2 DEF RInv, Collected
  <2> QED
    BY <1>2, <2>1, <2>2, <2>3 DEF RInv, Collected
<1> QED
  BY <1>1, <1>2, <1>3, DelegationStep

\* The loops begin with every source and every user to look up.
LEMMA UseInv ==
  ASSUME RInv, NEW t \in Threads, Use(t)
  PROVE  RInv'
<1> USE ResolverAssumption, NoneAssumption
<1>1. /\ dpc[t] = "use"
      /\ dpc' = [dpc EXCEPT ![t] = "fetch"]
      /\ req[t] \in Accounts
      /\ asked[t] = None
      /\ UNCHANGED <<lookupVars, keys, failed>>
      /\ UNCHANGED <<lock, file, users, req, draft, todo, own, window, mishaps>>
  BY DEF RInv, TypeOK, PcAgrees, D!TypeOK, Use, D!Use, D!Goto, D!history
<1>2. D!Default(req[t]) \in D!Config
  BY <1>1 DEF D!Default, D!Config, D!Files
<1>3. PICK c \in D!Config : who' = [who EXCEPT ![t] = c]
  BY <1>1, <1>2 DEF RInv, TypeOK, D!TypeOK, Use, D!Use
<1>4. c.who \subseteq Users /\ who'[t] = c
  BY <1>3 DEF RInv, TypeOK, D!TypeOK, D!Config
<1>5. /\ plan' = [plan EXCEPT ![t] = Sources \X c.who]
      /\ grant' = [grant EXCEPT ![t] = None]
  BY <1>4 DEF Use, D!Use
<1>6. D!TypeOK'
  BY <1>1, <1>3, <1>5 DEF RInv, TypeOK, D!TypeOK, D!Steps
<1>7. S!TypeOK'
  BY <1>1 DEF RInv, TypeOK, S!TypeOK, lookupVars
<1>8. TypeOK'
  BY <1>1, <1>4, <1>5, <1>6, <1>7 DEF RInv, TypeOK
<1>9. PcAgrees' /\ LockAgrees' /\ Genuine'
  BY <1>1, <1>5 DEF RInv, TypeOK, D!TypeOK, PcAgrees, LockAgrees, Inside, Genuine, Held, lookupVars
<1>10. Collected'
  <2>1. \A r \in Threads : r # t =>
          dpc'[r] = dpc[r] /\ plan'[r] = plan[r] /\ who'[r] = who[r]
    BY <1>1, <1>3, <1>5 DEF RInv, TypeOK, D!TypeOK
  <2>2. dpc'[t] = "fetch" /\ plan'[t] = Sources \X c.who
    BY <1>1, <1>5 DEF RInv, TypeOK, D!TypeOK
  <2>3. \A v \in c.who, x \in Sources : Due(t, v, x)'
    BY <2>2 DEF Due
  <2>4. \A r \in Threads : r # t => \A v, x : Due(r, v, x) => Due(r, v, x)'
    BY <1>1, <2>1 DEF Due, lookupVars
  <2> SUFFICES ASSUME NEW r \in Threads
               PROVE  /\ dpc'[r] # "fetch" => plan'[r] = {}
                      /\ dpc'[r] \in {"idle", "fetch"} /\ who'[r] # None =>
                           \A v \in who'[r].who, x \in Sources : Due(r, v, x)'
    BY DEF Collected
  <2>5. CASE r = t
    BY <1>4, <2>2, <2>3, <2>5
  <2>6. CASE r # t
    BY <2>1, <2>4, <2>6 DEF RInv, Collected
  <2> QED
    BY <2>5, <2>6
<1> QED
  BY <1>8, <1>9, <1>10 DEF RInv

\* resolve returns.
LEMMA FinishInv ==
  ASSUME RInv, NEW t \in Threads, Finish(t)
  PROVE  RInv'
<1> USE ResolverAssumption, NoneAssumption
<1>1. /\ dpc[t] = "fetch" /\ asked[t] = None /\ plan[t] = {}
      /\ dpc' = [dpc EXCEPT ![t] = "idle"]
      /\ req' = [req EXCEPT ![t] = None]
      /\ UNCHANGED <<lookupVars, loopVars>>
      /\ UNCHANGED <<lock, file, users, grant, draft, todo, who, own, window, mishaps>>
  BY DEF Finish, D!Finish, D!Goto, D!history
<1>2. D!TypeOK'
  BY <1>1 DEF RInv, TypeOK, D!TypeOK, D!Steps
<1>3. PcAgrees' /\ LockAgrees'
  BY <1>1 DEF RInv, TypeOK, D!TypeOK, PcAgrees, LockAgrees, Inside, lookupVars
<1>4. Collected'
  <2>1. UNCHANGED <<who, plan, keys, failed, asked, held>>
    BY <1>1 DEF lookupVars, loopVars
  <2>2. \A r \in Threads : \A v, x : Due(r, v, x)' <=> Due(r, v, x)
    BY <2>1 DEF Due
  <2>3. dpc'[t] = "idle" /\ \A r \in Threads : r # t => dpc'[r] = dpc[r]
    BY <1>1 DEF RInv, TypeOK, D!TypeOK
  <2> QED
    BY <1>1, <2>1, <2>2, <2>3 DEF RInv, Collected
<1> QED
  BY <1>1, <1>2, <1>3, <1>4, DelegationStep DEF RInv, TypeOK, loopVars

\* The delegation stands still while a lookup goes on.
LEMMA LookupTypes ==
  ASSUME RInv, UNCHANGED delegationVars, S!TypeOK',
         plan' \in [Threads -> SUBSET (Sources \X Users)],
         keys' \in [Threads -> SUBSET Keys], failed' \in [Threads -> SUBSET CacheKeys]
  PROVE  TypeOK'
<1>1. lock' \in Threads \cup {None}
  BY DEF S!TypeOK
<1>2. D!TypeOK'
  BY <1>1 DEF RInv, TypeOK, D!TypeOK, delegationVars
<1> QED
  BY <1>2 DEF TypeOK

\* A lookup is begun.
LEMMA AskInv ==
  ASSUME RInv, NEW t \in Threads, NEW s \in Sources, NEW u \in Users, Ask(t, s, u)
  PROVE  RInv'
<1> USE ResolverAssumption, NoneAssumption
<1> DEFINE k == Pair(u, s)
<1>1. k \in CacheKeys /\ k # None
  BY DEF CacheKeys
<1> HIDE DEF k
<1>2. /\ dpc[t] = "fetch" /\ cpc[t] = "idle" /\ asked[t] = None
      /\ asked' = [asked EXCEPT ![t] = k]
      /\ got' = [got EXCEPT ![t] = None]
      /\ plan' = [plan EXCEPT ![t] = @ \ {<<s, u>>}]
      /\ UNCHANGED <<now, upstream, held, cache, lock, fetched, keys, failed>>
      /\ UNCHANGED delegationVars
  BY DEF RInv, PcAgrees, Ask, S!Ask, S!Goto, S!env, k
<1>3. PICK to \in {"lookup", "fetch"} : cpc' = [cpc EXCEPT ![t] = to]
  BY DEF Ask, S!Ask, S!Goto
<1>4. S!TypeOK'
  BY <1>1, <1>2, <1>3 DEF RInv, TypeOK, S!TypeOK, S!Steps
<1>5. TypeOK'
  BY <1>2, <1>4, LookupTypes DEF RInv, TypeOK
<1>6. PcAgrees' /\ LockAgrees'
  BY <1>1, <1>2, <1>3 DEF RInv, TypeOK, S!TypeOK, PcAgrees, LockAgrees, Inside, delegationVars
<1>7. fetched[t] = None
  BY <1>2 DEF RInv, PcAgrees
<1>8. Genuine'
  <2>1. \A r \in Threads : r # t => asked'[r] = asked[r]
    BY <1>2 DEF RInv, TypeOK, S!TypeOK
  <2>2. UNCHANGED <<upstream, held, cache, fetched>>
    BY <1>2
  <2> QED
    BY <1>7, <2>1, <2>2 DEF RInv, Genuine, Held
<1>9. Collected'
  <2>1. \A r \in Threads : r # t => asked'[r] = asked[r] /\ plan'[r] = plan[r]
    BY <1>2 DEF RInv, TypeOK, S!TypeOK
  <2>2. asked'[t] = Pair(u, s) /\ plan'[t] = plan[t] \ {<<s, u>>}
    BY <1>2 DEF RInv, TypeOK, S!TypeOK, k
  <2>3. UNCHANGED <<dpc, who, failed, keys, held>>
    BY <1>2 DEF delegationVars
  <2>4. \A x \in Sources, v \in Users :
          <<x, v>> \in plan'[t] \/ <<x, v>> \notin plan[t] \/ asked'[t] = Pair(v, x)
    BY <2>2
  <2>5. ASSUME who[t] # None, NEW v \in who[t].who, NEW x \in Sources
        PROVE  Due(t, v, x)'
    <3>1. v \in Users
      BY <2>5 DEF RInv, TypeOK, D!TypeOK, D!Config
    <3>2. Pair(v, x) # None
      BY <3>1 DEF CacheKeys
    <3>3. Due(t, v, x)
      BY <1>2, <2>5 DEF RInv, Collected
    <3> QED
      BY <1>2, <2>3, <2>4, <3>1, <3>2, <3>3 DEF Due
  <2>6. \A r \in Threads : r # t => \A v, x : Due(r, v, x) => Due(r, v, x)'
    BY <2>1, <2>3 DEF Due
  <2> SUFFICES ASSUME NEW r \in Threads
               PROVE  /\ dpc[r] # "fetch" => plan'[r] = {}
                      /\ dpc[r] \in {"idle", "fetch"} /\ who[r] # None =>
                           \A v \in who[r].who, x \in Sources : Due(r, v, x)'
    BY <2>3 DEF Collected
  <2>7. CASE r = t
    BY <1>2, <2>5, <2>7
  <2>8. CASE r # t
    BY <2>1, <2>6, <2>8 DEF RInv, Collected
  <2> QED
    BY <2>7, <2>8
<1> QED
  BY <1>5, <1>6, <1>8, <1>9 DEF RInv


\* A lookup moves on: it takes the lock, leaves it for the source, or hears from it.
LEMMA MoveInv ==
  ASSUME RInv, NEW t \in Threads, NEW from \in S!Steps, NEW to \in S!Steps,
         S!Goto(t, from, to), from # "idle", to # "idle", lock' \in Threads \cup {None},
         \A r \in Threads : lock = r /\ r # t => lock' = r,
         to \in {"reading", "storing", "rescuing"} => lock' = t,
         fetched' \in [Threads -> S!Entry \cup {None}],
         \A r \in Threads : r # t => fetched'[r] = fetched[r],
         to \in {"fetched", "storing"} <=> fetched'[t] # None,
         fetched'[t] # None => Held(asked[t], fetched'[t].keys),
         UNCHANGED <<delegationVars, loopVars, now, upstream, held, cache, asked, got>>
  PROVE  RInv'
<1> USE ResolverAssumption, NoneAssumption
<1>1. cpc[t] = from /\ cpc' = [cpc EXCEPT ![t] = to] /\ asked[t] # None
  BY DEF S!Goto, RInv, PcAgrees
<1>2. S!TypeOK'
  BY <1>1 DEF RInv, TypeOK, S!TypeOK
<1>3. TypeOK'
  BY <1>2, LookupTypes DEF RInv, TypeOK, loopVars
<1>4. dpc[t] = "fetch" /\ dpc' = dpc
  BY <1>1 DEF RInv, PcAgrees, delegationVars
<1>5. cpc'[t] = to /\ \A r \in Threads : r # t => cpc'[r] = cpc[r]
  BY <1>1 DEF RInv, TypeOK, S!TypeOK
<1>6. PcAgrees'
  BY <1>1, <1>5 DEF RInv, PcAgrees, delegationVars
<1>7. LockAgrees'
  BY <1>4, <1>5 DEF RInv, LockAgrees, Inside
<1>8. Genuine'
  BY DEF RInv, Genuine, Held
<1>9. Collected'
  BY DEF RInv, Collected, Due, delegationVars, loopVars
<1> QED
  BY <1>3, <1>6, <1>7, <1>8, <1>9 DEF RInv

\* A lookup returns: what it brings home is in the list, or the pair has failed.
LEMMA ReturnInv ==
  ASSUME RInv, NEW t \in Threads, NEW from \in S!Steps, from # "idle",
         NEW v \in KeyLists, NEW via \in {"source", "cache", "stale", "error", "unread"},
         S!Return(t, from, v, via), Lookup(t),
         via \notin {"error", "unread"} => Held(asked[t], v),
         lock' \in Threads \cup {None},
         \A r \in Threads : lock = r /\ r # t => lock' = r,
         cache' \in [CacheKeys -> S!Entry \cup {None}],
         \A k \in CacheKeys : cache'[k] # None => Held(k, cache'[k].keys)
  PROVE  RInv'
<1> USE ResolverAssumption, NoneAssumption
<1>1. /\ cpc[t] = from /\ asked[t] # None /\ dpc[t] = "fetch"
      /\ asked[t] \in CacheKeys
      /\ cpc' = [cpc EXCEPT ![t] = "idle"]
      /\ asked' = [asked EXCEPT ![t] = None]
      /\ fetched' = [fetched EXCEPT ![t] = None]
      /\ UNCHANGED <<now, upstream, held>>
  BY DEF RInv, TypeOK, S!TypeOK, PcAgrees, S!Return, S!Goto, S!env
<1>2. got' = [got EXCEPT ![t] = [key |-> asked[t], keys |-> v, via |-> via, at |-> now]]
  BY DEF S!Return
<1>3. got'[t].keys = v /\ got'[t].via = via /\ asked'[t] = None
  BY <1>1, <1>2 DEF RInv, TypeOK, S!TypeOK
<1>4. /\ keys' = [keys EXCEPT ![t] = @ \cup KeysOf[v]]
      /\ failed' = [failed EXCEPT ![t] = @ \cup
           IF via \in {"error", "unread"} THEN {asked[t]} ELSE {}]
      /\ UNCHANGED <<delegationVars, plan>>
  BY <1>1, <1>3 DEF Lookup, Returned
<1>5. S!TypeOK'
  <2>1. [key |-> asked[t], keys |-> v, via |-> via, at |-> now] \in S!Answer
    BY <1>1 DEF RInv, TypeOK, S!TypeOK, S!Answer
  <2> QED
    BY <1>1, <1>2, <2>1 DEF RInv, TypeOK, S!TypeOK, S!Steps
<1>6. TypeOK'
  BY <1>1, <1>4, <1>5, LookupTypes DEF RInv, TypeOK
<1>7. PcAgrees'
  BY <1>1, <1>4 DEF RInv, TypeOK, S!TypeOK, PcAgrees, delegationVars
<1>8. LockAgrees'
  BY <1>1, <1>4 DEF RInv, TypeOK, S!TypeOK, LockAgrees, Inside, delegationVars
<1>9. Genuine'
  BY <1>1 DEF RInv, TypeOK, S!TypeOK, Genuine, Held
<1>10. Collected'
  <2>1. UNCHANGED <<dpc, who, plan, held>>
    BY <1>1, <1>4 DEF delegationVars
  <2>2. \A r \in Threads : r # t =>
          keys'[r] = keys[r] /\ failed'[r] = failed[r] /\ asked'[r] = asked[r]
    BY <1>1, <1>4 DEF RInv, TypeOK, S!TypeOK
  <2>3. keys'[t] = keys[t] \cup KeysOf[v]
    BY <1>4 DEF RInv, TypeOK
  <2>4. failed'[t] = failed[t] \cup IF via \in {"error", "unread"} THEN {asked[t]} ELSE {}
    BY <1>4 DEF RInv, TypeOK
  <2>5. asked[t] \in failed'[t]
        \/ \E h \in held[asked[t]] : KeysOf[h.keys] \subseteq keys'[t]
    BY <2>3, <2>4 DEF Held
  <2>6. \A u \in Users, s \in Sources : Due(t, u, s) => Due(t, u, s)'
    BY <2>1, <2>3, <2>4, <2>5 DEF Due
  <2>7. \A r \in Threads, u \in Users, s \in Sources : Due(r, u, s) => Due(r, u, s)'
    BY <2>1, <2>2, <2>6 DEF Due
  <2>8. \A r \in Threads : who[r] # None => who[r].who \subseteq Users
    BY DEF RInv, TypeOK, D!TypeOK, D!Config
  <2> QED
    BY <2>1, <2>7, <2>8 DEF RInv, Collected
<1> QED
  BY <1>6, <1>7, <1>8, <1>9, <1>10 DEF RInv


\* Whatever a lookup does next.
LEMMA LookupInv ==
  ASSUME RInv, NEW t \in Threads, Lookup(t)
  PROVE  RInv'
<1> USE ResolverAssumption, NoneAssumption
<1>0. S!Resolve(t) /\ UNCHANGED delegationVars
  BY DEF Lookup
<1>1. ASSUME S!LookupLock(t) \/ S!StoreLock(t) \/ S!RescueLock(t)
      PROVE  RInv'
  <2>1. PICK from \in S!Steps, to \in S!Steps :
          /\ S!Acquire(t, from, to)
          /\ from \in {"lookup", "fetched", "failed"}
          /\ to \in {"reading", "storing", "rescuing"}
          /\ from = "fetched" <=> to = "storing"
    BY <1>1 DEF S!LookupLock, S!StoreLock, S!RescueLock, S!Steps
  <2>2. /\ cpc[t] = from /\ lock = None /\ lock' = t
        /\ S!Goto(t, from, to)
        /\ UNCHANGED <<now, upstream, held, cache, asked, fetched, got>>
    BY <2>1 DEF S!Acquire, S!Goto, S!env
  <2>3. asked[t] # None /\ cpc'[t] = to
    BY <2>1, <2>2 DEF RInv, TypeOK, S!TypeOK, PcAgrees, S!Goto
  <2>4. UNCHANGED loopVars
    BY <2>2, <2>3 DEF Lookup, Returned, loopVars
  <2>5. fetched[t] # None => Held(asked[t], fetched[t].keys)
    BY <2>3 DEF RInv, Genuine
  <2>6. to \in {"fetched", "storing"} <=> fetched[t] # None
    BY <2>1, <2>2 DEF RInv, PcAgrees
  <2>7. fetched \in [Threads -> S!Entry \cup {None}]
    BY DEF RInv, TypeOK, S!TypeOK
  <2> QED
    BY <1>0, <2>1, <2>2, <2>4, <2>5, <2>6, <2>7, MoveInv
<1>2. CASE S!Miss(t) \/ S!SourceReplies(t) \/ S!SourceFails(t)
  <2>1. PICK from \in {"reading", "fetch"}, to \in {"fetch", "fetched", "failed"} :
          /\ S!Goto(t, from, to)
          /\ to = "fetched" <=> S!SourceReplies(t)
          /\ from = "reading" <=> S!Miss(t)
    BY <1>2 DEF S!Miss, S!SourceReplies, S!SourceFails, S!Goto
  <2>2. cpc[t] = from /\ asked[t] \in CacheKeys /\ fetched[t] = None
    BY <2>1 DEF RInv, TypeOK, S!TypeOK, PcAgrees, S!Goto
  <2>3. /\ UNCHANGED <<now, upstream, held, cache, asked, got>>
        /\ lock' = (IF from = "reading" THEN None ELSE lock)
    BY <1>2, <2>1, <2>2 DEF S!Miss, S!SourceReplies, S!SourceFails, S!Goto, S!env, S!Release
  <2>4. UNCHANGED loopVars
    BY <2>2, <2>3 DEF Lookup, Returned, loopVars
  <2>5. \A r \in Threads : (lock = r /\ r # t => lock' = r) /\ lock' \in Threads \cup {None}
    BY <2>2, <2>3 DEF RInv, TypeOK, S!TypeOK, LockAgrees, Inside
  <2>7. /\ fetched' \in [Threads -> S!Entry \cup {None}]
        /\ \A r \in Threads : r # t => fetched'[r] = fetched[r]
        /\ to \in {"fetched", "storing"} <=> fetched'[t] # None
        /\ fetched'[t] # None => Held(asked[t], fetched'[t].keys)
    <3>1. CASE S!SourceReplies(t)
      <4> DEFINE reply == [keys |-> upstream[asked[t]], at |-> now]
      <4>1. reply \in S!Entry /\ reply # None /\ reply.keys = upstream[asked[t]]
        BY <2>2 DEF RInv, TypeOK, S!TypeOK, S!Entry
      <4>2. Held(asked[t], reply.keys)
        BY <2>2, <4>1 DEF RInv, Genuine
      <4>3. fetched' = [fetched EXCEPT ![t] = reply]
        BY <3>1 DEF S!SourceReplies
      <4> HIDE DEF reply
      <4> QED
        BY <2>1, <3>1, <4>1, <4>2, <4>3 DEF RInv, TypeOK, S!TypeOK
    <3>2. CASE ~ S!SourceReplies(t)
      <4>1. fetched' = fetched
        BY <1>2, <3>2 DEF S!Miss, S!SourceFails
      <4> QED
        BY <2>1, <2>2, <3>2, <4>1 DEF RInv, TypeOK, S!TypeOK
    <3> QED
      BY <3>1, <3>2
  <2> QED
    BY <1>0, <2>1, <2>2, <2>3, <2>4, <2>5, <2>7, MoveInv DEF S!Steps
<1>3. CASE S!Hit(t) \/ S!Rescue(t) \/ S!NoRescue(t) \/ S!RescueFails(t)
  <2>1. cpc[t] \in {"reading", "rescuing"} /\ lock = t /\ asked[t] \in CacheKeys
    BY <1>3 DEF RInv, TypeOK, S!TypeOK, PcAgrees, LockAgrees, Inside, S!Hit, S!Rescue,
       S!NoRescue, S!RescueFails, S!Return, S!Goto
  <2>2. lock' = None /\ cache' = cache
    BY <1>3 DEF S!Hit, S!Rescue, S!NoRescue, S!RescueFails, S!Release
  <2>3. \A r \in Threads : lock = r /\ r # t => lock' = r
    BY <2>1
  <2>4. /\ cache' \in [CacheKeys -> S!Entry \cup {None}]
        /\ \A k \in CacheKeys : cache'[k] # None => Held(k, cache'[k].keys)
    BY <2>2 DEF RInv, TypeOK, S!TypeOK, Genuine
  <2>5. CASE S!Hit(t) \/ S!Rescue(t)
    <3>1. PICK via \in {"cache", "stale"}, from \in {"reading", "rescuing"} :
            /\ S!Return(t, from, cache[asked[t]].keys, via)
            /\ cache[asked[t]] # None
      BY <2>5 DEF S!Hit, S!Rescue, S!Serves
    <3>2. cache[asked[t]].keys \in KeyLists /\ Held(asked[t], cache[asked[t]].keys)
      BY <2>1, <3>1 DEF RInv, TypeOK, S!TypeOK, S!Entry, Genuine
    <3> QED
      BY <2>2, <2>3, <2>4, <3>1, <3>2, ReturnInv DEF S!Steps
  <2>6. CASE S!NoRescue(t) \/ S!RescueFails(t)
    <3>1. PICK via \in {"error", "unread"} : S!Return(t, "rescuing", NoKeys, via)
      BY <2>6 DEF S!NoRescue, S!RescueFails
    <3> QED
      BY <2>2, <2>3, <2>4, <3>1, ReturnInv DEF S!Steps
  <2> QED
    BY <1>3, <2>5, <2>6
<1>4. CASE S!Store(t) \/ S!StoreFails(t)
  <2>1. S!Return(t, "storing", fetched[t].keys, "source") /\ lock' = None
    BY <1>4 DEF S!Store, S!StoreFails, S!Release
  <2>2. cpc[t] = "storing" /\ lock = t /\ asked[t] \in CacheKeys /\ fetched[t] # None
    BY <2>1 DEF RInv, TypeOK, S!TypeOK, PcAgrees, LockAgrees, Inside, S!Return, S!Goto
  <2>3. \A r \in Threads : lock = r /\ r # t => lock' = r
    BY <2>2
  <2>4. /\ fetched[t].keys \in KeyLists
        /\ Held(asked[t], fetched[t].keys)
        /\ [keys |-> fetched[t].keys, at |-> now] \in S!Entry
    BY <2>2 DEF RInv, TypeOK, S!TypeOK, S!Entry, Genuine
  <2>5. held' = held
    BY <2>1 DEF S!Return, S!env
  <2>6. /\ cache' \in [CacheKeys -> S!Entry \cup {None}]
        /\ \A k \in CacheKeys : cache'[k] # None => Held(k, cache'[k].keys)
    <3>1. CASE cache' = cache
      BY <3>1 DEF RInv, TypeOK, S!TypeOK, Genuine
    <3>2. CASE S!Store(t)
      <4>1. cache' = [cache EXCEPT ![asked[t]] = [keys |-> fetched[t].keys, at |-> now]]
        BY <3>2 DEF S!Store
      <4> QED
        BY <2>4, <4>1 DEF RInv, TypeOK, S!TypeOK, Genuine
    <3> QED
      BY <1>4, <3>1, <3>2 DEF S!StoreFails
  <2> QED
    BY <2>1, <2>3, <2>4, <2>6, ReturnInv DEF S!Steps
<1>5. CASE S!Deliver(t) \/ S!GiveUp(t)
  <2>1. UNCHANGED <<cache, lock>>
    BY <1>5 DEF S!Deliver, S!GiveUp
  <2>2. /\ lock' \in Threads \cup {None}
        /\ \A r \in Threads : lock = r /\ r # t => lock' = r
        /\ cache' \in [CacheKeys -> S!Entry \cup {None}]
        /\ \A k \in CacheKeys : cache'[k] # None => Held(k, cache'[k].keys)
    BY <2>1 DEF RInv, TypeOK, S!TypeOK, Genuine
  <2>3. CASE S!Deliver(t)
    <3>1. S!Return(t, "fetched", fetched[t].keys, "source")
      BY <2>3 DEF S!Deliver
    <3>2. fetched[t].keys \in KeyLists /\ Held(asked[t], fetched[t].keys)
      BY <3>1 DEF RInv, TypeOK, S!TypeOK, S!Entry, PcAgrees, Genuine, S!Return, S!Goto
    <3> QED
      BY <2>2, <3>1, <3>2, ReturnInv DEF S!Steps
  <2>4. CASE S!GiveUp(t)
    <3>1. S!Return(t, "failed", NoKeys, "error")
      BY <2>4 DEF S!GiveUp
    <3> QED
      BY <2>2, <3>1, ReturnInv DEF S!Steps
  <2> QED
    BY <1>5, <2>3, <2>4
<1> QED
  BY <1>0, <1>1, <1>2, <1>3, <1>4, <1>5 DEF S!Resolve, S!Fetched, S!AfterError


\* What happens around the threads lets the histories grow.
LEMMA AroundInv ==
  ASSUME RInv, Around
  PROVE  RInv'
<1> USE ResolverAssumption, NoneAssumption
<1>1. ASSUME NEW u \in Editors, NEW f \in D!Files, D!Edit(u, f),
             UNCHANGED <<lookupVars, loopVars>>
      PROVE  RInv'
  <2>1. UNCHANGED <<lock, dpc, req, grant, draft, who>>
    BY <1>1 DEF D!Edit
  <2>2. D!TypeOK'
    <3>1. /\ own' \in [Threads -> SUBSET D!Files]
          /\ window' \in [Threads -> SUBSET D!Files]
          /\ file' \in [Accounts -> D!Files]
      BY <1>1 DEF RInv, TypeOK, D!TypeOK, D!Edit
    <3> QED
      BY <1>1, <3>1 DEF RInv, TypeOK, D!TypeOK, D!Edit
  <2>3. PcAgrees' /\ LockAgrees' /\ Collected'
    BY <1>1, <2>1 DEF RInv, PcAgrees, LockAgrees, Inside, Collected, Due, lookupVars, loopVars
  <2> QED
    BY <1>1, <2>2, <2>3, DelegationStep DEF RInv, TypeOK, loopVars
<1>2. ASSUME (\E k \in CacheKeys : S!Purge(k)) \/ (\E m \in Moves : S!Change(m[1], m[2]))
                \/ S!Tick,
             UNCHANGED <<delegationVars, loopVars>>
      PROVE  RInv'
  <2>1. UNCHANGED <<lock, cpc, asked, fetched, got>>
    BY <1>2 DEF S!Purge, S!Change, S!Tick, S!env
  <2>2. /\ now' \in Nat
        /\ upstream' \in [CacheKeys -> KeyLists]
        /\ held' \in [CacheKeys -> SUBSET S!Entry]
        /\ \A k \in CacheKeys : held[k] \subseteq held'[k]
        /\ \A k \in CacheKeys : \E h \in held'[k] : h.keys = upstream'[k]
    <3>1. CASE \E k \in CacheKeys : S!Purge(k)
      BY <3>1 DEF RInv, TypeOK, S!TypeOK, Genuine, Held, S!Purge, S!env
    <3>2. CASE \E m \in Moves : S!Change(m[1], m[2])
      <4>1. PICK k \in CacheKeys, v \in KeyLists : S!Change(k, v)
        BY <3>2
      <4>2. [keys |-> v, at |-> now] \in S!Entry
        BY DEF RInv, TypeOK, S!TypeOK, S!Entry
      <4>3. /\ upstream' = [upstream EXCEPT ![k] = v]
            /\ held' = [held EXCEPT ![k] = @ \cup {[keys |-> v, at |-> now]}]
            /\ now' = now
        BY <4>1 DEF S!Change
      <4>4. /\ upstream' \in [CacheKeys -> KeyLists]
            /\ held' \in [CacheKeys -> SUBSET S!Entry]
            /\ \A j \in CacheKeys : held[j] \subseteq held'[j]
            /\ now' \in Nat
        BY <4>2, <4>3 DEF RInv, TypeOK, S!TypeOK
      <4>5. ASSUME NEW j \in CacheKeys
            PROVE  \E h \in held'[j] : h.keys = upstream'[j]
        <5>1. CASE j = k
          <6>1. [keys |-> v, at |-> now] \in held'[j] /\ upstream'[j] = v
            BY <4>3, <5>1 DEF RInv, TypeOK, S!TypeOK
          <6> QED
            BY <6>1
        <5>2. CASE j # k
          BY <4>3, <5>2 DEF RInv, TypeOK, S!TypeOK, Genuine, Held
        <5> QED
          BY <5>1, <5>2
      <4> QED
        BY <4>4, <4>5
    <3>3. CASE S!Tick
      <4>1. \A k \in CacheKeys : [keys |-> upstream[k], at |-> now + 1] \in S!Entry
        BY DEF RInv, TypeOK, S!TypeOK, S!Entry
      <4>2. /\ now' \in Nat
            /\ upstream' = upstream
            /\ held' \in [CacheKeys -> SUBSET S!Entry]
            /\ \A k \in CacheKeys : held[k] \subseteq held'[k]
        BY <3>3, <4>1 DEF RInv, TypeOK, S!TypeOK, S!Tick
      <4> QED
        BY <4>2 DEF RInv, TypeOK, S!TypeOK, Genuine, Held
    <3> QED
      BY <1>2, <3>1, <3>2, <3>3
  <2>3. /\ cache' \in [CacheKeys -> S!Entry \cup {None}]
        /\ \A k \in CacheKeys : cache'[k] # None => cache'[k] = cache[k]
    BY <1>2 DEF RInv, TypeOK, S!TypeOK, S!Purge, S!Change, S!Tick
  <2>4. S!TypeOK'
    BY <2>1, <2>2, <2>3 DEF RInv, TypeOK, S!TypeOK
  <2>5. TypeOK'
    BY <1>2, <2>4, LookupTypes DEF RInv, TypeOK, loopVars
  <2>7. Genuine'
    <3>1. \A k \in CacheKeys : cache'[k] # None => \E h \in held'[k] : h.keys = cache'[k].keys
      BY <2>2, <2>3 DEF RInv, Genuine, Held
    <3>2. \A t \in Threads : asked[t] # None /\ fetched[t] # None =>
            \E h \in held'[asked[t]] : h.keys = fetched[t].keys
      <4> SUFFICES ASSUME NEW t \in Threads, asked[t] # None, fetched[t] # None
                   PROVE  \E h \in held'[asked[t]] : h.keys = fetched[t].keys
        OBVIOUS
      <4>1. asked[t] \in CacheKeys
        BY DEF RInv, TypeOK, S!TypeOK
      <4> QED
        BY <2>2, <4>1 DEF RInv, Genuine, Held
    <3> QED
      BY <2>1, <2>2, <3>1, <3>2 DEF Genuine, Held
  <2>8. PcAgrees' /\ LockAgrees'
    BY <1>2, <2>1 DEF RInv, PcAgrees, LockAgrees, Inside, delegationVars
  <2>9. Collected'
    <3>1. UNCHANGED <<dpc, who, plan, keys, failed, asked>>
      BY <1>2, <2>1 DEF delegationVars, loopVars
    <3>2. \A t \in Threads, u \in Users, s \in Sources : Due(t, u, s) => Due(t, u, s)'
      <4>1. \A u \in Users, s \in Sources : Pair(u, s) \in CacheKeys
        BY DEF CacheKeys
      <4> QED
        BY <2>2, <3>1, <4>1 DEF Due
    <3>3. \A t \in Threads : who[t] # None => who[t].who \subseteq Users
      BY DEF RInv, TypeOK, D!TypeOK, D!Config
    <3> QED
      BY <3>1, <3>2, <3>3 DEF RInv, Collected
  <2> QED
    BY <2>5, <2>7, <2>8, <2>9 DEF RInv
<1> QED
  BY <1>1, <1>2 DEF Around

LEMMA StepInv == RInv /\ [Next]_vars => RInv'
<1> SUFFICES ASSUME RInv, [Next]_vars PROVE RInv'
  OBVIOUS
<1>1. CASE UNCHANGED vars
  <2>1. D!TypeOK'
    BY <1>1 DEF RInv, TypeOK, D!TypeOK, vars, delegationVars
  <2>2. PcAgrees' /\ LockAgrees' /\ Collected'
    BY <1>1 DEF RInv, PcAgrees, LockAgrees, Inside, Collected, Due, vars, delegationVars,
       lookupVars, loopVars
  <2> QED
    BY <1>1, <2>1, <2>2, DelegationStep DEF RInv, TypeOK, vars, loopVars
<1>2. CASE Next
  BY <1>2, BeginInv, DelegateInv, UseInv, AskInv, LookupInv, FinishInv, AroundInv DEF Next
<1> QED
  BY <1>1, <1>2

\* The invariant holds for any number of threads, sources, users and files.
THEOREM Invariance == Spec => []RInv
<1> QED
  BY InitInv, StepInv, PTL DEF Spec

-----------------------------------------------------------------------------
(* What follows                                                            *)

\* The variables keep their types.
THEOREM TypeCorrect == Spec => []TypeOK
<1>1. RInv => TypeOK
  BY DEF RInv
<1> QED
  BY <1>1, Invariance, PTL

\* The answer has the keys of every user and source, but of the lookups that failed.
THEOREM KeysKept == Spec => []NothingLost
<1>1. RInv => NothingLost
  <2> SUFFICES ASSUME RInv, NEW t \in Threads, dpc[t] = "idle", who[t] # None,
                      NEW u \in who[t].who, NEW s \in Sources
               PROVE  \/ Pair(u, s) \in failed[t]
                      \/ \E h \in held[Pair(u, s)] : KeysOf[h.keys] \subseteq keys[t]
    BY DEF NothingLost
  <2>1. u \in Users
    BY DEF RInv, TypeOK, D!TypeOK, D!Config
  <2>2. Pair(u, s) # None
    BY <2>1, NoneAssumption DEF CacheKeys
  <2>3. plan[t] = {} /\ asked[t] = None /\ Due(t, u, s)
    BY DEF RInv, PcAgrees, Collected
  <2> QED
    BY <2>2, <2>3 DEF Due
<1> QED
  BY <1>1, Invariance, PTL

-----------------------------------------------------------------------------
(* The two parts, each with the lock as it sees it                         *)

DelegationLock == IF Loading THEN lock ELSE None
LookupLock == IF Loading THEN None ELSE lock

\* A lookup's use of the lock is none that Delegation sees.
LEMMA LookupApart ==
  ASSUME RInv, NEW t \in Threads, S!Resolve(t), UNCHANGED delegationVars
  PROVE  DelegationLock' = DelegationLock
<1> USE NoneAssumption
<1>1. dpc' = dpc /\ cpc[t] # "idle"
  BY DEF delegationVars, S!Resolve, S!LookupLock, S!Hit, S!Miss, S!SourceReplies,
     S!SourceFails, S!Fetched, S!StoreLock, S!Deliver, S!Store, S!StoreFails, S!AfterError,
     S!RescueLock, S!GiveUp, S!Rescue, S!NoRescue, S!RescueFails, S!Acquire, S!Return, S!Goto
<1>2. dpc[t] = "fetch"
  BY <1>1 DEF RInv, PcAgrees
<1>3. \/ lock' = lock
      \/ lock = None /\ lock' = t
      \/ lock' = None /\ Inside(t)
  BY DEF Inside, S!Resolve, S!LookupLock, S!Hit, S!Miss, S!SourceReplies,
     S!SourceFails, S!Fetched, S!StoreLock, S!Deliver, S!Store, S!StoreFails, S!AfterError,
     S!RescueLock, S!GiveUp, S!Rescue, S!NoRescue, S!RescueFails, S!Acquire, S!Return, S!Goto,
     S!Release
<1> QED
  BY <1>1, <1>2, <1>3 DEF RInv, LockAgrees, DelegationLock, Loading

\* Each step is one of Delegation's, or none.
LEMMA DelegatesStep == RInv /\ [Next]_vars => [DView!Next]_(DView!vars)
<1> USE NoneAssumption, ResolverAssumption
<1> SUFFICES ASSUME RInv, [Next]_vars PROVE [DView!Next]_(DView!vars)
  OBVIOUS
<1>0. dpc \in [Threads -> D!Steps] /\ lock \in Threads \cup {None}
  BY DEF RInv, TypeOK, D!TypeOK
<1>a. ASSUME DelegationLock' = DelegationLock, UNCHANGED delegationVars
      PROVE  UNCHANGED DView!vars
  BY <1>a DEF DelegationLock, DView!vars, DView!history, delegationVars
<1>1. CASE UNCHANGED vars
  <2>1. DelegationLock' = DelegationLock /\ UNCHANGED delegationVars
    BY <1>1 DEF DelegationLock, Loading, vars, delegationVars
  <2> QED
    BY <1>a, <2>1
<1>2. ASSUME NEW t \in Threads, NEW u \in Accounts, Begin(t, u)
      PROVE  DView!Begin(t, u)
  <2>1. DelegationLock' = DelegationLock
    BY <1>0, <1>2 DEF DelegationLock, Loading, Begin, D!Begin, D!Goto
  <2> QED
    BY <1>2, <2>1 DEF DelegationLock, Begin, D!Begin, D!Goto, DView!Begin, DView!Goto
<1>3. ASSUME NEW t \in Threads, Delegate(t)
      PROVE  DView!Resolve(t)
  <2> USE DEF DelegationLock, Loading, DView!Resolve, DView!Goto, DView!history, D!Goto, D!history
  <2>1. CASE D!Pop(t)
    BY <1>0, <2>1 DEF D!Pop, DView!Pop
  <2>2. CASE D!ReadGrant(t)
    BY <1>0, <2>2 DEF D!ReadGrant, DView!ReadGrant
  <2>3. CASE D!ReadNothing(t)
    BY <1>0, <2>3 DEF D!ReadNothing, DView!ReadNothing
  <2>4. CASE D!LoadLock(t)
    BY <1>0, <2>4 DEF D!LoadLock, DView!LoadLock
  <2>5. ASSUME NEW g \in Groups, D!GroupAnswers(t, g)
        PROVE  DView!GroupAnswers(t, g)
    BY <1>0, <2>5 DEF D!GroupAnswers, DView!GroupAnswers
  <2>6. ASSUME NEW g \in Groups, D!GroupFails(t, g)
        PROVE  DView!GroupFails(t, g)
    BY <1>0, <2>6 DEF D!GroupFails, DView!GroupFails
  <2>7. CASE D!Publish(t)
    BY <1>0, <2>7 DEF D!Publish, DView!Publish
  <2>8. ASSUME NEW g \in Groups, D!GroupBreaks(t, g)
        PROVE  DView!GroupBreaks(t, g)
    BY <1>0, <2>8 DEF D!GroupBreaks, DView!GroupBreaks
  <2> QED
    BY <1>3, <2>1, <2>2, <2>3, <2>4, <2>5, <2>6, <2>7, <2>8 DEF Delegate
<1>4. ASSUME NEW t \in Threads, Use(t)
      PROVE  DView!Use(t)
  <2>1. DelegationLock' = DelegationLock
    BY <1>0, <1>4 DEF DelegationLock, Loading, Use, D!Use, D!Goto
  <2> QED
    BY <1>4, <2>1 DEF DelegationLock, Use, D!Use, D!Goto, D!Default, D!history, DView!Use,
       DView!Goto, DView!Default, DView!history
<1>5. ASSUME NEW t \in Threads, Finish(t)
      PROVE  DView!Finish(t)
  <2>1. DelegationLock' = DelegationLock
    BY <1>0, <1>5 DEF DelegationLock, Loading, Finish, D!Finish, D!Goto
  <2> QED
    BY <1>5, <2>1 DEF DelegationLock, Finish, D!Finish, D!Goto, D!history, DView!Finish,
       DView!Goto, DView!history
<1>6. ASSUME NEW t \in Threads, NEW s \in Sources, NEW u \in Users, Ask(t, s, u)
      PROVE  UNCHANGED DView!vars
  <2>1. lock' = lock /\ UNCHANGED delegationVars
    BY <1>6 DEF Ask, S!Ask
  <2> QED
    BY <1>a, <2>1 DEF DelegationLock, Loading, delegationVars
<1>7. ASSUME NEW t \in Threads, Lookup(t)
      PROVE  UNCHANGED DView!vars
  BY <1>7, <1>a, LookupApart DEF Lookup
<1>8. ASSUME Around
      PROVE  DView!Next \/ UNCHANGED DView!vars
  <2>1. ASSUME NEW u \in Editors, NEW f \in D!Files, D!Edit(u, f)
        PROVE  DView!Edit(u, f) /\ f \in DView!Files /\ u \in Accounts
    BY <2>1 DEF D!Edit, DView!Edit, D!Files, DView!Files, Loading
  <2>2. ASSUME (\E k \in CacheKeys : S!Purge(k)) \/ (\E m \in Moves : S!Change(m[1], m[2]))
                  \/ S!Tick,
               UNCHANGED delegationVars
        PROVE  UNCHANGED DView!vars
    <3>1. lock' = lock
      BY <2>2 DEF S!Purge, S!Change, S!Tick
    <3> QED
      BY <2>2, <3>1, <1>a DEF DelegationLock, Loading, delegationVars
  <2> QED
    BY <1>8, <2>1, <2>2 DEF Around, DView!Next
<1> QED
  BY <1>1, <1>2, <1>3, <1>4, <1>5, <1>6, <1>7, <1>8 DEF Next, DView!Next, DView!Resolve


\* What Delegation says of resolve, its theorems among it, is true of the whole.
THEOREM DelegationHolds == Spec => Delegates
<1>1. Init => DView!Init
  BY NoneAssumption DEF Init, D!Init, DView!Init, D!Files, DView!Files, Loading
<1> QED
  BY <1>1, Invariance, DelegatesStep, PTL DEF Spec, Delegates, DView!Spec


\* The delegation's use of the lock is none that SourceCache sees.
LEMMA DelegationApart ==
  ASSUME RInv, NEW t \in Threads,
         Delegate(t) \/ Use(t) \/ Finish(t) \/ \E u \in Accounts : Begin(t, u)
  PROVE  LookupLock' = LookupLock
<1> USE NoneAssumption
<1>0. dpc \in [Threads -> D!Steps] /\ lock \in Threads \cup {None}
  BY DEF RInv, TypeOK, D!TypeOK
<1>1. PICK from \in D!Steps, to \in D!Steps :
        /\ dpc[t] = from
        /\ dpc' = [dpc EXCEPT ![t] = to]
        /\ \/ lock' = lock /\ (from = "groups" <=> to = "groups")
           \/ lock = None /\ lock' = t /\ to = "groups"
           \/ lock' = None /\ from = "groups"
  BY <1>0 DEF Delegate, Use, Finish, Begin, D!Pop, D!ReadGrant, D!ReadNothing, D!LoadLock,
     D!GroupAnswers, D!GroupFails, D!GroupBreaks, D!Publish, D!Use, D!Finish, D!Begin, D!Goto, D!Steps
<1> QED
  BY <1>0, <1>1 DEF RInv, LockAgrees, LookupLock, Loading

\* Each step is one of SourceCache's, or none.
LEMMA LooksUpStep == RInv /\ [Next]_vars => [SView!Next]_(SView!vars)
<1> USE NoneAssumption, ResolverAssumption
<1> SUFFICES ASSUME RInv, [Next]_vars PROVE [SView!Next]_(SView!vars)
  OBVIOUS
<1>0. dpc \in [Threads -> D!Steps] /\ lock \in Threads \cup {None}
  BY DEF RInv, TypeOK, D!TypeOK
<1>a. ASSUME LookupLock' = LookupLock, UNCHANGED lookupVars
      PROVE  UNCHANGED SView!vars
  BY <1>a DEF LookupLock, SView!vars, lookupVars
<1>1. CASE UNCHANGED vars
  <2>1. LookupLock' = LookupLock /\ UNCHANGED lookupVars
    BY <1>1 DEF LookupLock, Loading, vars, delegationVars
  <2> QED
    BY <1>a, <2>1
<1>2. ASSUME NEW t \in Threads,
             Delegate(t) \/ Use(t) \/ Finish(t) \/ \E u \in Accounts : Begin(t, u)
      PROVE  UNCHANGED SView!vars
  <2>1. UNCHANGED lookupVars
    BY <1>2 DEF Delegate, Use, Finish, Begin
  <2> QED
    BY <1>a, <1>2, <2>1, DelegationApart
<1>3. ASSUME NEW t \in Threads, NEW s \in Sources, NEW u \in Users, Ask(t, s, u)
      PROVE  SView!Ask(t, Pair(u, s)) /\ Pair(u, s) \in CacheKeys
  <2>1. LookupLock' = LookupLock
    BY <1>3 DEF LookupLock, Loading, Ask, S!Ask, delegationVars
  <2> QED
    BY <1>3, <2>1 DEF LookupLock, CacheKeys, Ask, S!Ask, S!Goto, S!env, SView!Ask, SView!Goto,
       SView!env
<1>4. ASSUME NEW t \in Threads, Lookup(t)
      PROVE  SView!Resolve(t)
  <2>0. S!Resolve(t) /\ dpc' = dpc /\ cpc[t] # "idle"
    BY <1>4 DEF Lookup, delegationVars, S!Resolve, S!LookupLock, S!Hit, S!Miss,
       S!SourceReplies, S!SourceFails, S!Fetched, S!StoreLock, S!Deliver, S!Store,
       S!StoreFails, S!AfterError, S!RescueLock, S!GiveUp, S!Rescue, S!NoRescue,
       S!RescueFails, S!Acquire, S!Return, S!Goto
  <2>1. dpc[t] = "fetch"
    BY <2>0 DEF RInv, PcAgrees
  <2>2. lock' = lock => LookupLock' = LookupLock
    BY <2>0 DEF LookupLock, Loading
  <2>3. lock = None /\ lock' = t => LookupLock = None /\ LookupLock' = t
    BY <2>0, <2>1 DEF LookupLock, Loading
  <2>4. lock' = None => LookupLock' = None
    BY DEF LookupLock, Loading
  <2> USE DEF S!Goto, S!env, S!Release, SView!Goto, SView!env, SView!Release
  <2>5. ASSUME NEW from, NEW to, S!Acquire(t, from, to)
        PROVE  SView!Acquire(t, from, to)
    BY <2>3, <2>5 DEF S!Acquire, SView!Acquire, LookupLock
  <2>6. ASSUME NEW from, NEW v, NEW via, S!Return(t, from, v, via)
        PROVE  SView!Return(t, from, v, via)
    BY <2>6 DEF S!Return, SView!Return
  <2>7. \A e, ttl, x : S!Serves(e, ttl, x) = SView!Serves(e, ttl, x)
    BY DEF S!Serves, S!Effective, S!Fresh, SView!Serves, SView!Effective, SView!Fresh
  <2>8. S!Acquire(t, "lookup", "reading") => SView!LookupLock(t)
    BY <2>5 DEF SView!LookupLock
  <2>9. CASE S!LookupLock(t)
    BY <2>8, <2>9 DEF S!LookupLock, SView!Resolve
  <2>10. CASE S!Fetched(t)
    BY <2>2, <2>5, <2>6, <2>10 DEF S!Fetched, S!StoreLock, S!Deliver, SView!Resolve,
       SView!Fetched, SView!StoreLock, SView!Deliver, LookupLock
  <2>11. CASE S!AfterError(t)
    BY <2>2, <2>5, <2>6, <2>11 DEF S!AfterError, S!RescueLock, S!GiveUp, SView!Resolve,
       SView!AfterError, SView!RescueLock, SView!GiveUp, LookupLock
  <2>12. CASE S!Hit(t)
    BY <2>4, <2>6, <2>7, <2>12 DEF S!Hit, SView!Resolve, SView!Hit, LookupLock
  <2>13. CASE S!Miss(t)
    BY <2>4, <2>7, <2>13 DEF S!Miss, SView!Resolve, SView!Miss, LookupLock
  <2>14. CASE S!SourceReplies(t)
    BY <2>2, <2>14 DEF S!SourceReplies, SView!Resolve, SView!SourceReplies, LookupLock
  <2>15. CASE S!SourceFails(t)
    BY <2>2, <2>15 DEF S!SourceFails, SView!Resolve, SView!SourceFails, LookupLock
  <2>16. CASE S!Store(t)
    BY <2>4, <2>6, <2>16 DEF S!Store, SView!Resolve, SView!Store, LookupLock
  <2>17. CASE S!StoreFails(t)
    BY <2>4, <2>6, <2>17 DEF S!StoreFails, SView!Resolve, SView!StoreFails, LookupLock
  <2>18. CASE S!Rescue(t)
    BY <2>4, <2>6, <2>7, <2>18 DEF S!Rescue, SView!Resolve, SView!Rescue, LookupLock
  <2>19. CASE S!NoRescue(t)
    BY <2>4, <2>6, <2>7, <2>19 DEF S!NoRescue, SView!Resolve, SView!NoRescue, LookupLock
  <2>20. CASE S!RescueFails(t)
    BY <2>4, <2>6, <2>20 DEF S!RescueFails, SView!Resolve, SView!RescueFails, LookupLock
  <2> QED
    BY <2>0, <2>9, <2>10, <2>11, <2>12, <2>13, <2>14, <2>15, <2>16, <2>17, <2>18, <2>19,
       <2>20 DEF S!Resolve
<1>5. ASSUME Around
      PROVE  SView!Next \/ UNCHANGED SView!vars
  <2>1. LookupLock' = LookupLock
    BY <1>5 DEF LookupLock, Loading, Around, D!Edit, S!Purge, S!Change, S!Tick, delegationVars
  <2>2. CASE UNCHANGED lookupVars
    BY <1>a, <2>1, <2>2
  <2>3. ASSUME NEW k \in CacheKeys, S!Purge(k)
        PROVE  SView!Purge(k)
    BY <2>1, <2>3 DEF LookupLock, S!Purge, S!env, SView!Purge, SView!env
  <2>4. ASSUME NEW k \in CacheKeys, NEW v \in KeyLists, S!Change(k, v)
        PROVE  SView!Change(k, v)
    BY <2>1, <2>4 DEF LookupLock, S!Change, SView!Change
  <2>5. ASSUME S!Tick
        PROVE  SView!Tick
    BY <2>1, <2>5 DEF LookupLock, S!Tick, SView!Tick
  <2>6. \/ UNCHANGED lookupVars
        \/ \E k \in CacheKeys : S!Purge(k)
        \/ \E m \in Moves : S!Change(m[1], m[2])
        \/ S!Tick
    BY <1>5 DEF Around
  <2>7. (\E m \in Moves : S!Change(m[1], m[2])) =>
          \E k \in CacheKeys, v \in KeyLists : SView!Change(k, v)
    <3>1. (\E m \in Moves : S!Change(m[1], m[2])) =>
            \E k \in CacheKeys, v \in KeyLists : S!Change(k, v)
      OBVIOUS
    <3> QED
      BY <2>4, <3>1
  <2>8. (\E k \in CacheKeys : S!Purge(k)) => \E k \in CacheKeys : SView!Purge(k)
    BY <2>3
  <2> QED
    BY <2>2, <2>5, <2>6, <2>7, <2>8 DEF SView!Next
<1> QED
  BY <1>1, <1>2, <1>3, <1>4, <1>5 DEF Next, SView!Next

\* What SourceCache says of a lookup is true of every lookup in the whole.
THEOREM LookupsHold == Spec => LooksUp
<1>1. Init => SView!Init
  BY NoneAssumption DEF Init, S!Init, SView!Init, Loading
<1> QED
  BY <1>1, Invariance, LooksUpStep, PTL DEF Spec, LooksUp, SView!Spec

-----------------------------------------------------------------------------
(* Whose keys let a login in                                               *)

\* What is looked up and what is found belongs to the users of the configuration.
Owned ==
  \A t \in Threads :
    /\ dpc[t] = "fetch" => who[t] # None
    /\ dpc[t] \notin {"idle", "fetch"} => keys[t] = {}
    /\ \A s \in Sources, u \in Users : <<s, u>> \in plan[t] => u \in who[t].who
    /\ asked[t] # None => \E u \in who[t].who, s \in Sources : asked[t] = Pair(u, s)
    /\ keys[t] # {} => who[t] # None
    /\ \A key \in keys[t] : \E u \in who[t].who, s \in Sources : HeldKey(Pair(u, s), key)

\* What one step of a lookup does to the loops around it.
LEMMA LookupEffect ==
  ASSUME RInv, NEW t \in Threads, Lookup(t)
  PROVE  /\ UNCHANGED <<delegationVars, plan, held>>
         /\ \/ UNCHANGED <<asked, keys>>
            \/ /\ asked[t] # None
               /\ asked' = [asked EXCEPT ![t] = None]
               /\ \E v \in KeyLists :
                    /\ keys' = [keys EXCEPT ![t] = @ \cup KeysOf[v]]
                    /\ v = NoKeys \/ Held(asked[t], v)
<1> USE ResolverAssumption, NoneAssumption
<1>0. S!Resolve(t) /\ UNCHANGED <<delegationVars, plan>>
  BY DEF Lookup
<1>1. asked[t] \in CacheKeys /\ asked[t] # None
  BY <1>0 DEF RInv, TypeOK, S!TypeOK, PcAgrees, S!Resolve, S!LookupLock, S!Hit, S!Miss,
     S!SourceReplies, S!SourceFails, S!Fetched, S!StoreLock, S!Deliver, S!Store, S!StoreFails,
     S!AfterError, S!RescueLock, S!GiveUp, S!Rescue, S!NoRescue, S!RescueFails, S!Acquire,
     S!Return, S!Goto
<1>2. CASE UNCHANGED <<asked, held>>
  <2>1. asked'[t] # None
    BY <1>1, <1>2
  <2> QED
    BY <1>0, <1>2, <2>1 DEF Lookup, Returned
<1>3. ASSUME NEW from \in S!Steps, NEW v \in KeyLists,
             NEW via \in {"source", "cache", "stale", "error", "unread"},
             S!Return(t, from, v, via), v = NoKeys \/ Held(asked[t], v)
      PROVE  /\ held' = held
             /\ asked' = [asked EXCEPT ![t] = None]
             /\ keys' = [keys EXCEPT ![t] = @ \cup KeysOf[v]]
  <2>1. /\ asked' = [asked EXCEPT ![t] = None]
        /\ got' = [got EXCEPT ![t] = [key |-> asked[t], keys |-> v, via |-> via, at |-> now]]
        /\ held' = held
    BY <1>3 DEF S!Return, S!env
  <2>2. asked'[t] = None /\ got'[t].keys = v
    BY <2>1 DEF RInv, TypeOK, S!TypeOK
  <2> QED
    BY <1>1, <2>1, <2>2 DEF Lookup, Returned
<1>4. CASE S!Hit(t) \/ S!Rescue(t)
  <2>1. PICK via \in {"cache", "stale"}, from \in {"reading", "rescuing"} :
          S!Return(t, from, cache[asked[t]].keys, via) /\ cache[asked[t]] # None
    BY <1>4 DEF S!Hit, S!Rescue, S!Serves
  <2>2. cache[asked[t]].keys \in KeyLists /\ Held(asked[t], cache[asked[t]].keys)
    BY <1>1, <2>1 DEF RInv, TypeOK, S!TypeOK, S!Entry, Genuine
  <2> QED
    BY <1>0, <1>1, <1>3, <2>1, <2>2 DEF S!Steps
<1>5. CASE S!NoRescue(t) \/ S!RescueFails(t) \/ S!GiveUp(t)
  <2>1. PICK via \in {"error", "unread"}, from \in {"rescuing", "failed"} :
          S!Return(t, from, NoKeys, via)
    BY <1>5 DEF S!NoRescue, S!RescueFails, S!GiveUp
  <2> QED
    BY <1>0, <1>1, <1>3, <2>1 DEF S!Steps
<1>6. CASE S!Store(t) \/ S!StoreFails(t) \/ S!Deliver(t)
  <2>1. PICK from \in {"storing", "fetched"} : S!Return(t, from, fetched[t].keys, "source")
    BY <1>6 DEF S!Store, S!StoreFails, S!Deliver
  <2>2. fetched[t].keys \in KeyLists /\ Held(asked[t], fetched[t].keys)
    BY <1>1, <2>1 DEF RInv, TypeOK, S!TypeOK, S!Entry, PcAgrees, Genuine, S!Return, S!Goto
  <2> QED
    BY <1>0, <1>1, <1>3, <2>1, <2>2 DEF S!Steps
<1> QED
  BY <1>0, <1>2, <1>4, <1>5, <1>6 DEF S!Resolve, S!LookupLock, S!Miss, S!SourceReplies,
     S!SourceFails, S!Fetched, S!StoreLock, S!AfterError, S!RescueLock, S!Acquire, S!env


\* Each key found is one its source held for a user of the configuration.
LEMMA OwnedStep == RInv /\ Owned /\ [Next]_vars => Owned'
<1> USE ResolverAssumption, NoneAssumption
<1> SUFFICES ASSUME RInv, Owned, [Next]_vars PROVE Owned'
  OBVIOUS
<1>1. CASE UNCHANGED vars
  BY <1>1 DEF Owned, HeldKey, vars, delegationVars, lookupVars, loopVars
<1>2. ASSUME NEW t \in Threads, NEW u \in Accounts, Begin(t, u)
      PROVE  Owned'
  <2>1. /\ dpc[t] = "idle" /\ dpc' = [dpc EXCEPT ![t] = "pop"] /\ asked[t] = None
        /\ who' = [who EXCEPT ![t] = None] /\ keys' = [keys EXCEPT ![t] = {}]
        /\ UNCHANGED <<asked, held, plan>>
        /\ plan[t] = {}
    BY <1>2 DEF RInv, PcAgrees, Collected, Begin, D!Begin, D!Goto, lookupVars
  <2>2. /\ dpc'[t] = "pop" /\ keys'[t] = {}
        /\ \A r \in Threads : r # t => dpc'[r] = dpc[r] /\ who'[r] = who[r] /\ keys'[r] = keys[r]
    BY <2>1 DEF RInv, TypeOK, D!TypeOK
  <2> QED
    BY <2>1, <2>2 DEF Owned, HeldKey
<1>3. ASSUME NEW t \in Threads, Delegate(t)
      PROVE  Owned'
  <2>1. /\ UNCHANGED <<who, asked, held, plan, keys>>
        /\ dpc[t] \notin {"idle", "fetch"}
        /\ dpc'[t] # "fetch"
        /\ \A r \in Threads : r # t => dpc'[r] = dpc[r]
    BY <1>3 DEF RInv, TypeOK, D!TypeOK, Delegate, D!Pop, D!ReadGrant, D!ReadNothing, D!LoadLock,
       D!GroupAnswers, D!GroupFails, D!GroupBreaks, D!Publish, D!Goto, lookupVars, loopVars
  <2> QED
    BY <2>1 DEF Owned, HeldKey
<1>4. ASSUME NEW t \in Threads, Use(t)
      PROVE  Owned'
  <2>1. /\ dpc[t] = "use" /\ dpc' = [dpc EXCEPT ![t] = "fetch"]
        /\ UNCHANGED <<asked, held, keys>>
    BY <1>4 DEF Use, D!Use, D!Goto, lookupVars
  <2>8. asked[t] = None /\ req[t] \in Accounts
    BY <2>1 DEF RInv, TypeOK, D!TypeOK, PcAgrees
  <2>9. keys[t] = {}
    BY <2>1 DEF Owned
  <2>2. D!Default(req[t]) \in D!Config
    BY <2>8, ResolverAssumption DEF D!Default, D!Config, D!Files
  <2>3. PICK c \in D!Config : who' = [who EXCEPT ![t] = c]
    BY <1>4, <2>8, <2>2 DEF RInv, TypeOK, D!TypeOK, Use, D!Use
  <2>4. c # None /\ who'[t] = c
    BY <2>3 DEF RInv, TypeOK, D!TypeOK, D!Config, D!Files
  <2>5. plan' = [plan EXCEPT ![t] = Sources \X c.who]
    BY <1>4, <2>4 DEF Use
  <2>6. \A r \in Threads : r # t =>
          dpc'[r] = dpc[r] /\ who'[r] = who[r] /\ plan'[r] = plan[r]
    BY <2>1, <2>3, <2>5 DEF RInv, TypeOK, D!TypeOK
  <2>7. dpc'[t] = "fetch" /\ plan'[t] = Sources \X c.who
    BY <2>1, <2>5 DEF RInv, TypeOK, D!TypeOK
  <2> QED
    BY <2>1, <2>4, <2>6, <2>7, <2>8, <2>9 DEF Owned, HeldKey
<1>5. ASSUME NEW t \in Threads, NEW s \in Sources, NEW u \in Users, Ask(t, s, u)
      PROVE  Owned'
  <2>1. /\ <<s, u>> \in plan[t]
        /\ asked' = [asked EXCEPT ![t] = Pair(u, s)]
        /\ plan' = [plan EXCEPT ![t] = @ \ {<<s, u>>}]
        /\ UNCHANGED <<dpc, who, held, keys>>
    BY <1>5 DEF Ask, S!Ask, S!env, delegationVars
  <2>2. /\ asked'[t] = Pair(u, s) /\ plan'[t] \subseteq plan[t]
        /\ \A r \in Threads : r # t => asked'[r] = asked[r] /\ plan'[r] = plan[r]
    BY <2>1 DEF RInv, TypeOK, S!TypeOK
  <2>3. u \in who[t].who
    BY <2>1 DEF Owned
  <2> QED
    BY <2>1, <2>2, <2>3 DEF Owned, HeldKey
<1>6. ASSUME NEW t \in Threads, Lookup(t)
      PROVE  Owned'
  <2>1. UNCHANGED <<dpc, who, plan, held>>
    BY <1>6, LookupEffect DEF delegationVars
  <2>2. CASE UNCHANGED <<asked, keys>>
    BY <2>1, <2>2 DEF Owned, HeldKey
  <2>3. CASE ~ UNCHANGED <<asked, keys>>
    <3>1. PICK v \in KeyLists :
            /\ keys' = [keys EXCEPT ![t] = @ \cup KeysOf[v]]
            /\ v = NoKeys \/ Held(asked[t], v)
      BY <1>6, <2>3, LookupEffect
    <3>2. asked[t] # None /\ asked' = [asked EXCEPT ![t] = None]
      BY <1>6, <2>3, LookupEffect
    <3>3. dpc[t] = "fetch" /\ who[t] # None
      BY <3>2 DEF RInv, PcAgrees, Owned
    <3>4. PICK u \in who[t].who, s \in Sources : asked[t] = Pair(u, s)
      BY <3>2 DEF Owned
    <3>5. \A key \in KeysOf[v] : HeldKey(Pair(u, s), key)
      BY <3>1, <3>4 DEF Held, HeldKey
    <3>6. /\ asked'[t] = None /\ keys'[t] = keys[t] \cup KeysOf[v]
          /\ \A r \in Threads : r # t => asked'[r] = asked[r] /\ keys'[r] = keys[r]
      BY <3>1, <3>2 DEF RInv, TypeOK, S!TypeOK
    <3>7. \A key \in keys'[t] : \E x \in who[t].who, y \in Sources : HeldKey(Pair(x, y), key)
      BY <3>5, <3>6 DEF Owned
    <3>8. \A r \in Threads : \A key \in keys'[r] :
            \E x \in who[r].who, y \in Sources : HeldKey(Pair(x, y), key)
      BY <3>6, <3>7 DEF Owned
    <3>9. \A x, y, key : HeldKey(Pair(x, y), key) => HeldKey(Pair(x, y), key)'
      BY <2>1 DEF HeldKey
    <3> QED
      BY <2>1, <3>3, <3>6, <3>8, <3>9 DEF Owned
  <2> QED
    BY <2>2, <2>3
<1>7. ASSUME NEW t \in Threads, Finish(t)
      PROVE  Owned'
  <2>1. /\ dpc[t] = "fetch" /\ dpc' = [dpc EXCEPT ![t] = "idle"]
        /\ UNCHANGED <<who, asked, held, plan, keys>>
    BY <1>7 DEF Finish, D!Finish, D!Goto, lookupVars, loopVars
  <2> QED
    BY <2>1 DEF RInv, TypeOK, D!TypeOK, Owned, HeldKey
<1>8. ASSUME Around
      PROVE  Owned'
  <2>1. UNCHANGED <<dpc, who, asked, plan, keys>>
    BY <1>8 DEF Around, D!Edit, S!Purge, S!Change, S!Tick, S!env, delegationVars, lookupVars,
       loopVars
  <2>2. \A k \in CacheKeys : held[k] \subseteq held'[k]
    BY <1>8 DEF RInv, TypeOK, S!TypeOK, Around, S!Purge, S!Change, S!Tick, S!env, lookupVars
  <2>3. \A u \in Users, s \in Sources : Pair(u, s) \in CacheKeys
    BY DEF CacheKeys
  <2>4. \A t \in Threads : who[t] # None => who[t].who \subseteq Users
    BY DEF RInv, TypeOK, D!TypeOK, D!Config
  <2> QED
    BY <2>1, <2>2, <2>3, <2>4 DEF Owned, HeldKey
<1> QED
  BY <1>1, <1>2, <1>3, <1>4, <1>5, <1>6, <1>7, <1>8 DEF Next


\* If no two threads serve one user, what a request reads, builds and publishes is
\* the file's, and its users are those the file names.
Faithful(t) ==
  /\ req[t] # None => req[t] \in Serving[t] /\ file[req[t]] \in own[t]
  /\ dpc[t] \in {"load", "groups"} => grant[t] \in own[t]
  /\ dpc[t] = "groups" =>
       /\ draft[t].grant = grant[t]
       /\ draft[t].who \subseteq Named(grant[t], req[t])
       /\ todo[t] \subseteq GrantGroups[grant[t]]
  /\ dpc[t] \in {"read", "load", "groups"} => users[req[t]] = None
  /\ dpc[t] = "use" =>
       IF users[req[t]] = None
       THEN NoGrant \in Offered(t)
       ELSE /\ users[req[t]].grant \in own[t]
            /\ users[req[t]].who \subseteq Named(users[req[t]].grant, req[t])
  /\ who[t] # None =>
       /\ who[t].grant \in Offered(t)
       /\ \E o \in Serving[t] : who[t].who \subseteq Named(who[t].grant, o)

AllFaithful == Exclusive => \A t \in Threads : Faithful(t)

\* What a thread goes by does not change unless its own state does.
LEMMA SameFaithful ==
  ASSUME RInv, NEW r \in Threads, Faithful(r), file' = file,
         req[r] # None => users'[req[r]] = users[req[r]],
         req'[r] = req[r], grant'[r] = grant[r], draft'[r] = draft[r], todo'[r] = todo[r],
         dpc'[r] = dpc[r], who'[r] = who[r], own'[r] = own[r],
         mishaps[r] # {} => mishaps'[r] # {}
  PROVE  Faithful(r)'
<1>1. dpc[r] \in {"read", "load", "groups", "use"} => req[r] # None
  BY DEF RInv, PcAgrees
<1>2. Offered(r) \subseteq Offered(r)'
  BY DEF Offered
<1> QED
  BY <1>1, <1>2 DEF Faithful, Named

\* A step of one thread leaves the others as they were.
LEMMA OthersFaithful ==
  ASSUME RInv, Exclusive, NEW t \in Threads, NEW r \in Threads, r # t, Faithful(t), Faithful(r),
         file' = file,
         \A u \in Accounts : u # req[t] => users'[u] = users[u],
         req[t] # None,
         req'[r] = req[r], grant'[r] = grant[r], draft'[r] = draft[r], todo'[r] = todo[r],
         dpc'[r] = dpc[r], who'[r] = who[r], own'[r] = own[r],
         mishaps[r] # {} => mishaps'[r] # {}
  PROVE  Faithful(r)'
<1>1. req[r] # None => req[r] # req[t] /\ req[r] \in Accounts
  BY ResolverAssumption DEF RInv, TypeOK, D!TypeOK, Exclusive, Faithful
<1> QED
  BY <1>1, SameFaithful

\* The steps of the delegation.
LEMMA FaithfulDelegate ==
  ASSUME RInv, Exclusive, \A r \in Threads : Faithful(r), NEW t \in Threads, Delegate(t)
  PROVE  \A r \in Threads : Faithful(r)'
<1> USE ResolverAssumption, NoneAssumption
<1>0. req[t] \in Accounts /\ file' = file /\ own' = own /\ who' = who /\ req' = req
  BY DEF RInv, TypeOK, D!TypeOK, PcAgrees, Delegate, D!Pop, D!ReadGrant, D!ReadNothing,
     D!LoadLock, D!GroupAnswers, D!GroupFails, D!GroupBreaks, D!Publish, D!Goto, D!history
<1>1. /\ \A u \in Accounts : u # req[t] => users'[u] = users[u]
      /\ \A r \in Threads : r # t =>
           /\ grant'[r] = grant[r] /\ draft'[r] = draft[r] /\ todo'[r] = todo[r]
           /\ dpc'[r] = dpc[r]
           /\ mishaps[r] # {} => mishaps'[r] # {}
  BY <1>0 DEF RInv, TypeOK, D!TypeOK, Delegate, D!Pop, D!ReadGrant, D!ReadNothing,
     D!LoadLock, D!GroupAnswers, D!GroupFails, D!GroupBreaks, D!Publish, D!Goto, D!history
<1>2. \A r \in Threads : r # t => Faithful(r)'
  BY <1>0, <1>1, OthersFaithful
<1>3. Faithful(t)'
  <2>0. Faithful(t) /\ req'[t] = req[t] /\ own'[t] = own[t] /\ who'[t] = who[t]
    BY <1>0
  <2>a. Offered(t) \subseteq Offered(t)'
    <3>1. mishaps[t] # {} => mishaps'[t] # {}
      BY DEF RInv, TypeOK, D!TypeOK, Delegate, D!Pop, D!ReadGrant, D!ReadNothing, D!LoadLock,
         D!GroupAnswers, D!GroupFails, D!GroupBreaks, D!Publish, D!history
    <3> QED
      BY <1>0, <3>1 DEF Offered
  <2>1. CASE D!Pop(t)
    <3>1. dpc'[t] = "read" /\ users'[req[t]] = None /\ grant' = grant
      BY <1>0, <2>1 DEF RInv, TypeOK, D!TypeOK, D!Pop, D!Goto
    <3> QED
      BY <1>0, <2>0, <2>a, <3>1 DEF Faithful
  <2>2. CASE D!ReadGrant(t)
    <3>1. /\ dpc[t] = "read" /\ dpc'[t] = "load" /\ users' = users
          /\ grant'[t] = file[req[t]]
      BY <1>0, <2>2 DEF RInv, TypeOK, D!TypeOK, D!ReadGrant, D!Goto
    <3> QED
      BY <1>0, <2>0, <2>a, <3>1 DEF Faithful
  <2>3. CASE D!ReadNothing(t)
    <3>1. /\ dpc[t] = "read" /\ dpc'[t] = "use" /\ users' = users /\ grant' = grant
          /\ file[req[t]] = NoGrant \/ mishaps'[t] # {}
      <4>1. dpc[t] = "read" /\ dpc'[t] = "use" /\ users' = users /\ grant' = grant
        BY <2>3 DEF RInv, TypeOK, D!TypeOK, D!ReadNothing, D!Goto
      <4>2. mishaps \in [Threads -> SUBSET D!Mishaps]
        BY DEF RInv, TypeOK, D!TypeOK
      <4>3. \/ file[req[t]] = NoGrant
            \/ mishaps' = [mishaps EXCEPT ![t] = @ \cup {"unread"}]
        BY <2>3 DEF D!ReadNothing
      <4>4. mishaps' = [mishaps EXCEPT ![t] = @ \cup {"unread"}] => "unread" \in mishaps'[t]
        BY <4>2
      <4> QED
        BY <4>1, <4>3, <4>4
    <3>2. NoGrant \in Offered(t)' /\ users'[req[t]] = None
      <4>1. req[t] # None
        BY <1>0
      <4>2. file[req[t]] \in own'[t] /\ users'[req[t]] = None
        BY <1>0, <2>0, <3>1, <4>1 DEF Faithful
      <4> QED
        BY <3>1, <4>2 DEF Offered
    <3> QED
      BY <1>0, <2>0, <2>a, <3>1, <3>2 DEF Faithful, Offered
  <2>4. CASE D!LoadLock(t)
    <3>0. grant[t] \in Grants /\ grant[t] # NoGrant
      BY <2>4 DEF RInv, TypeOK, D!TypeOK, PcAgrees, D!LoadLock, D!Goto
    <3> DEFINE c == [grant |-> grant[t], who |-> GrantUsers[grant[t]][req[t]], failed |-> {}]
    <3>1. /\ dpc[t] = "load" /\ dpc'[t] = "groups" /\ users' = users /\ grant' = grant
          /\ draft'[t] = c
          /\ todo'[t] = GrantGroups[grant[t]]
      BY <1>0, <2>4 DEF RInv, TypeOK, D!TypeOK, D!LoadLock, D!Goto
    <3>2. c.grant = grant[t] /\ c.who \subseteq Named(grant[t], req[t])
      BY <3>0 DEF Named
    <3> HIDE DEF c
    <3>3. /\ draft'[t].grant = grant'[t]
          /\ draft'[t].who \subseteq Named(grant'[t], req'[t])
          /\ todo'[t] \subseteq GrantGroups[grant'[t]]
      BY <2>0, <3>1, <3>2
    <3> QED
      BY <1>0, <2>0, <2>a, <3>1, <3>3 DEF Faithful, Named
  <2>5. ASSUME NEW g \in Groups, D!GroupAnswers(t, g) \/ D!GroupFails(t, g)
        PROVE  Faithful(t)'
    <3>0. /\ dpc[t] = "groups" /\ draft[t] \in D!Config /\ g \in todo[t]
          /\ grant[t] \in Grants /\ grant[t] # NoGrant
      BY <2>5 DEF RInv, TypeOK, D!TypeOK, PcAgrees, D!GroupAnswers, D!GroupFails
    <3>1. /\ UNCHANGED <<dpc, users, grant>>
          /\ todo'[t] \subseteq todo[t]
      BY <2>5 DEF RInv, TypeOK, D!TypeOK, D!GroupAnswers, D!GroupFails
    <3>2. /\ draft'[t].grant = draft[t].grant
          /\ draft'[t].who \subseteq draft[t].who \cup Members[g]
      BY <2>5, <3>0 DEF RInv, TypeOK, D!TypeOK, D!Config, D!GroupAnswers, D!GroupFails
    <3>3. Members[g] \subseteq Named(grant[t], req[t])
      BY <2>0, <3>0 DEF Faithful, Named
    <3>4. /\ draft'[t].grant = grant'[t]
          /\ draft'[t].who \subseteq Named(grant'[t], req'[t])
          /\ todo'[t] \subseteq GrantGroups[grant'[t]]
      BY <2>0, <3>0, <3>1, <3>2, <3>3 DEF Faithful
    <3> QED
      BY <1>0, <2>0, <2>a, <3>0, <3>1, <3>4 DEF Faithful, Named
  <2>6. CASE D!Publish(t)
    <3>0. dpc[t] = "groups" /\ draft[t] # None /\ grant[t] # None
      BY <2>6 DEF RInv, PcAgrees, D!Publish, D!Goto
    <3>1. dpc'[t] = "use" /\ users'[req[t]] = draft[t] /\ grant' = grant
      BY <1>0, <2>6 DEF RInv, TypeOK, D!TypeOK, D!Publish, D!Goto
    <3>2. /\ draft[t].grant \in own[t]
          /\ draft[t].who \subseteq Named(draft[t].grant, req[t])
      BY <2>0, <3>0 DEF Faithful
    <3>3. /\ users'[req'[t]] # None
          /\ users'[req'[t]].grant \in own'[t]
          /\ users'[req'[t]].who \subseteq Named(users'[req'[t]].grant, req'[t])
      BY <2>0, <3>0, <3>1, <3>2
    <3>4. who'[t] # None =>
            /\ who'[t].grant \in Offered(t)'
            /\ \E o \in Serving[t] : who'[t].who \subseteq Named(who'[t].grant, o)
      BY <2>0, <2>a DEF Faithful
    <3> QED
      BY <1>0, <2>0, <3>1, <3>3, <3>4 DEF Faithful, Named
  <2>7. ASSUME NEW g \in Groups, D!GroupBreaks(t, g)
        PROVE  Faithful(t)'
    <3>1. /\ dpc[t] = "groups" /\ dpc'[t] = "use" /\ users' = users /\ grant' = grant
          /\ mishaps'[t] # {}
      BY <1>0, <2>7 DEF RInv, TypeOK, D!TypeOK, D!GroupBreaks, D!Goto
    <3>2. NoGrant \in Offered(t)' /\ users'[req[t]] = None
      BY <1>0, <2>0, <3>1 DEF Faithful, Offered
    <3> QED
      BY <1>0, <2>0, <2>a, <3>1, <3>2 DEF Faithful
  <2> QED
    BY <2>1, <2>2, <2>3, <2>4, <2>5, <2>6, <2>7 DEF Delegate
<1> QED
  BY <1>2, <1>3


\* The other steps.
LEMMA FaithfulStep == RInv /\ Owned /\ AllFaithful /\ [Next]_vars => AllFaithful'
<1> USE ResolverAssumption, NoneAssumption
<1> SUFFICES ASSUME RInv, Owned, Exclusive, \A r \in Threads : Faithful(r), [Next]_vars
             PROVE  \A r \in Threads : Faithful(r)'
  BY DEF AllFaithful, Exclusive
<1>1. CASE UNCHANGED vars
  BY <1>1, SameFaithful DEF vars, delegationVars
<1>2. ASSUME NEW t \in Threads, NEW u \in Accounts, Begin(t, u)
      PROVE  \A r \in Threads : Faithful(r)'
  <2>1. /\ dpc[t] = "idle" /\ u \in Serving[t]
        /\ UNCHANGED <<file, users, grant, draft, todo>>
    BY <1>2 DEF Begin, D!Begin, D!Goto
  <2>2. /\ dpc'[t] = "pop" /\ req'[t] = u /\ who'[t] = None /\ own'[t] = {file[u]}
        /\ \A r \in Threads : r # t =>
             /\ dpc'[r] = dpc[r] /\ req'[r] = req[r] /\ who'[r] = who[r]
             /\ own'[r] = own[r] /\ mishaps'[r] = mishaps[r]
    BY <1>2 DEF RInv, TypeOK, D!TypeOK, Begin, D!Begin, D!Goto
  <2>4. Faithful(t)'
    BY <2>1, <2>2 DEF Faithful
  <2>5. \A r \in Threads : r # t => Faithful(r)'
    BY <2>1, <2>2, SameFaithful
  <2> QED
    BY <2>4, <2>5
<1>3. ASSUME NEW t \in Threads, Use(t)
      PROVE  \A r \in Threads : Faithful(r)'
  <2>0. dpc[t] = "use" /\ req[t] \in Accounts
    BY <1>3 DEF RInv, TypeOK, D!TypeOK, PcAgrees, Use, D!Use, D!Goto
  <2>1. UNCHANGED <<file, users, req, draft, todo, own, mishaps>>
    BY <1>3 DEF Use, D!Use, D!history
  <2>2. /\ dpc'[t] = "fetch" /\ grant'[t] = None
        /\ who'[t] = IF users[req[t]] = None THEN D!Default(req[t]) ELSE users[req[t]]
        /\ \A r \in Threads : r # t =>
             dpc'[r] = dpc[r] /\ grant'[r] = grant[r] /\ who'[r] = who[r]
    BY <1>3 DEF RInv, TypeOK, D!TypeOK, Use, D!Use, D!Goto
  <2>3. \A r \in Threads : r # t => Faithful(r)'
    BY <2>0, <2>1, <2>2, OthersFaithful
  <2>4. who'[t].grant \in Offered(t) /\ who'[t].who \subseteq Named(who'[t].grant, req[t])
    <3>1. CASE users[req[t]] = None
      BY <2>0, <2>2, <3>1 DEF Faithful, D!Default, Named
    <3>2. CASE users[req[t]] # None
      BY <2>0, <2>2, <3>2 DEF Faithful, Offered
    <3> QED
      BY <3>1, <3>2
  <2>5. req[t] \in Serving[t]
    BY <2>0 DEF Faithful
  <2>6. Faithful(t)'
    BY <2>0, <2>1, <2>2, <2>4, <2>5 DEF Faithful, Offered, Named
  <2> QED
    BY <2>3, <2>6
<1>4. ASSUME NEW t \in Threads, Finish(t)
      PROVE  \A r \in Threads : Faithful(r)'
  <2>1. UNCHANGED <<file, users, grant, draft, todo, who, own, mishaps>>
    BY <1>4 DEF Finish, D!Finish, D!history
  <2>2. /\ dpc[t] = "fetch" /\ dpc'[t] = "idle" /\ req'[t] = None
        /\ \A r \in Threads : r # t => dpc'[r] = dpc[r] /\ req'[r] = req[r]
    BY <1>4 DEF RInv, TypeOK, D!TypeOK, Finish, D!Finish, D!Goto
  <2>3. \A r \in Threads : r # t => Faithful(r)'
    BY <2>1, <2>2, SameFaithful
  <2>4. Faithful(t)'
    <3>1. Offered(t)' = Offered(t)
      BY <2>1 DEF Offered
    <3>2. who[t] # None =>
            /\ who[t].grant \in Offered(t)'
            /\ \E o \in Serving[t] : who[t].who \subseteq Named(who[t].grant, o)
      BY <3>1 DEF Faithful
    <3> QED
      BY <2>1, <2>2, <3>2 DEF Faithful, Named
  <2> QED
    BY <2>3, <2>4
<1>5. ASSUME UNCHANGED delegationVars
      PROVE  \A r \in Threads : Faithful(r)'
  BY <1>5, SameFaithful DEF delegationVars
<1>6. ASSUME NEW u \in Editors, NEW f \in D!Files, D!Edit(u, f)
      PROVE  \A r \in Threads : Faithful(r)'
  <2>1. UNCHANGED <<users, req, grant, draft, todo, dpc, who, mishaps>>
    BY <1>6 DEF D!Edit
  <2>2. \A r \in Threads : own[r] \subseteq own'[r]
    BY <1>6 DEF D!Edit
  <2>3. \A r \in Threads : req[r] # None /\ file[req[r]] \in own[r] =>
          file'[req[r]] \in own'[r]
    BY <1>6 DEF RInv, TypeOK, D!TypeOK, D!Edit
  <2>4. \A r \in Threads : Offered(r) \subseteq Offered(r)'
    BY <2>1, <2>2 DEF Offered
  <2> QED
    BY <2>1, <2>2, <2>3, <2>4 DEF Faithful, Named
<1> QED
  BY <1>1, <1>2, <1>3, <1>4, <1>5, <1>6, FaithfulDelegate DEF Next, Around, Ask, Lookup


\* The file decides, throughout.
LEMMA RightsInvariance == Spec => [](RInv /\ Owned /\ AllFaithful)
<1>1. Init => Owned /\ AllFaithful
  BY DEF Init, D!Init, S!Init, Owned, AllFaithful, Faithful
<1> QED
  BY <1>1, InitInv, StepInv, OwnedStep, FaithfulStep, PTL DEF Spec

\* Nobody is let in by the keys of a user the account's file did not name.
THEOREM LetIn == Spec => []Entitled
<1>1. RInv /\ Owned /\ AllFaithful => Entitled
  <2> SUFFICES ASSUME RInv, Owned, Exclusive, \A r \in Threads : Faithful(r),
                      NEW t \in Threads, NEW key \in keys[t]
               PROVE  \E f \in Offered(t), o \in Serving[t], s \in Sources :
                        \E u \in Named(f, o) : HeldKey(Pair(u, s), key)
    BY DEF Entitled, AllFaithful
  <2>1. PICK u \in who[t].who, s \in Sources : HeldKey(Pair(u, s), key)
    BY DEF Owned
  <2>2. who[t] # None
    BY DEF Owned
  <2>3. PICK o \in Serving[t] : who[t].who \subseteq Named(who[t].grant, o)
    BY <2>2 DEF Faithful
  <2>4. who[t].grant \in Offered(t)
    BY <2>2 DEF Faithful
  <2> QED
    BY <2>1, <2>3, <2>4
<1> QED
  BY <1>1, RightsInvariance, PTL

===============================================================================
