-------------------------- MODULE DelegationProofs --------------------------
(***************************************************************************)
(* What Delegation.tla's runs check on a few threads, for any number of    *)
(* threads, users, groups and files.                                       *)
(***************************************************************************)
EXTENDS Delegation, TLAPS

\* Past the pop and before the answer is taken from the map.
Loading(t) == pc[t] \in {"read", "load", "groups", "use"}

\* Where a thread is tells what it carries.
PcAgrees ==
  \A t \in Threads :
    /\ pc[t] = "idle" <=> req[t] = None
    /\ pc[t] \in {"load", "groups"} => grant[t] # None
    /\ pc[t] \in {"idle", "pop", "read", "fetch"} => grant[t] = None
    /\ pc[t] = "groups" <=> draft[t] # None
    /\ pc[t] = "groups" => draft[t].grant = grant[t]

\* The histories know the file's present state and what the thread has read.
HistoryAgrees ==
  \A t \in Threads :
    /\ own[t] \subseteq window[t]
    /\ req[t] # None => file[req[t]] \in own[t]
    /\ grant[t] # None => grant[t] \in own[t]

\* What one request has read, every request for the same user may see.
ReadShared ==
  \A s, t \in Threads :
    req[s] # None /\ req[s] = req[t] /\ grant[s] # None => grant[s] \in window[t]

\* What the map holds for a user, the requests that loaded it and those it waits
\* for may see.
MapShared ==
  \A t \in Threads :
    Loading(t) /\ users[req[t]] # None => users[req[t]].grant \in window[t]

\* What a request has published, the map holds until somebody drops it.
MapKept ==
  \A t \in Threads :
    pc[t] = "use" /\ users[req[t]] = None => NoGrant \in own[t] \/ mishaps[t] # {}

\* The map holds grants only, never the default.
MapHoldsGrants == \A u \in Accounts : users[u] # None => users[u].grant \in Grants

IInv ==
  /\ TypeOK
  /\ PcAgrees
  /\ HistoryAgrees
  /\ ReadShared
  /\ MapShared
  /\ MapHoldsGrants
  /\ MapKept
  /\ GrantFromOverlap
  /\ GrantHonoured

\* With one thread per user there is nobody to overlap with.
Exclusive == \A s, t \in Threads : s # t => Serves[s] \cap Serves[t] = {}

MapOwn ==
  \A t \in Threads :
    /\ req[t] # None => req[t] \in Serves[t]
    /\ Loading(t) /\ users[req[t]] # None => users[req[t]].grant \in own[t]

\* ... nor to lose a grant to.
Unpopped == \A t \in Threads : "popped" \notin mishaps[t]

EInv == MapOwn /\ NoGrantSurvives /\ Unpopped

-----------------------------------------------------------------------------

\* At the start nobody has read a file and the map is empty.
LEMMA InitInv == Init => IInv
<1> USE DelegationAssumption
<1> SUFFICES ASSUME Init PROVE IInv
  OBVIOUS
<1>1. TypeOK /\ PcAgrees
  BY DEF Init, TypeOK, PcAgrees, Config, Steps, Files
<1>2. HistoryAgrees /\ ReadShared
  BY DEF Init, HistoryAgrees, ReadShared
<1>3. MapShared /\ MapHoldsGrants
  BY DEF Init, MapShared, MapHoldsGrants, Loading
<1>4. MapKept /\ GrantFromOverlap /\ GrantHonoured
  BY DEF Init, MapKept, GrantFromOverlap, GrantHonoured, Granted
<1> QED
  BY <1>1, <1>2, <1>3, <1>4 DEF IInv

\* A request begins: it may see whatever the requests it overlaps have read.
LEMMA BeginInv ==
  ASSUME IInv, NEW t \in Threads, NEW u \in Accounts, Begin(t, u)
  PROVE  IInv'
<1> USE DelegationAssumption
<1>1. pc[t] = "idle" /\ req[t] = None /\ grant[t] = None
  BY DEF IInv, PcAgrees, Begin, Goto
<1>2. TypeOK'
  BY DEF IInv, TypeOK, Begin, Goto, Steps, Files
<1>3. PcAgrees'
  BY <1>1 DEF IInv, TypeOK, PcAgrees, Begin, Goto
<1>4. HistoryAgrees'
  BY <1>1 DEF IInv, TypeOK, HistoryAgrees, Begin
<1>5. ReadShared'
  <2> SUFFICES ASSUME NEW r \in Threads, NEW s \in Threads,
                      req'[r] # None, req'[r] = req'[s], grant'[r] # None
               PROVE  grant'[r] \in window'[s]
    BY DEF ReadShared
  <2>1. r # t /\ grant'[r] = grant[r] /\ req'[r] = req[r]
    BY <1>1 DEF IInv, TypeOK, Begin
  <2>2. CASE s = t
    <3>1. req[r] = u /\ grant[r] \in own[r]
      BY <2>1, <2>2 DEF IInv, TypeOK, HistoryAgrees, Begin
    <3>2. own[r] \subseteq window'[t]
      BY <3>1 DEF Begin, IInv, TypeOK
    <3> QED
      BY <2>1, <2>2, <3>1, <3>2
  <2>3. CASE s # t
    BY <2>1, <2>3 DEF IInv, TypeOK, ReadShared, Begin
  <2> QED
    BY <2>2, <2>3
<1>6. MapShared' /\ MapHoldsGrants'
  BY <1>1 DEF IInv, TypeOK, MapShared, MapHoldsGrants, Loading, Begin, Goto
<1>7. MapKept' /\ GrantFromOverlap' /\ GrantHonoured'
  BY <1>1 DEF IInv, TypeOK, MapKept, GrantFromOverlap, GrantHonoured, Granted, Begin, Goto
<1> QED
  BY <1>2, <1>3, <1>4, <1>5, <1>6, <1>7 DEF IInv

\* After the pop the map holds nothing the request may not see.
LEMMA PopInv ==
  ASSUME IInv, NEW t \in Threads, Pop(t)
  PROVE  IInv'
<1> USE DelegationAssumption
<1>1. pc[t] = "pop" /\ req[t] \in Accounts
  BY DEF IInv, TypeOK, PcAgrees, Pop, Goto
<1>2. TypeOK' /\ PcAgrees'
  <2>1. mishaps' \in [Threads -> SUBSET Mishaps]
    BY DEF IInv, TypeOK, Pop, Mishaps
  <2> QED
    BY <1>1, <2>1 DEF IInv, TypeOK, PcAgrees, Pop, Goto, Steps
<1>3. HistoryAgrees' /\ ReadShared' /\ GrantFromOverlap'
  BY DEF IInv, HistoryAgrees, ReadShared, GrantFromOverlap, Granted, Pop
<1>4. MapShared' /\ MapHoldsGrants'
  BY <1>1 DEF IInv, TypeOK, MapShared, MapHoldsGrants, Loading, Pop, Goto
<1>5. MapKept' /\ GrantHonoured'
  <2>1. \A s \in Threads : mishaps'[s] = {} => mishaps[s] = {}
    BY DEF Pop
  <2>2. GrantHonoured'
    BY <2>1 DEF IInv, GrantHonoured, Granted, Pop
  <2>3. MapKept'
    <3> SUFFICES ASSUME NEW s \in Threads, pc'[s] = "use", users'[req[s]] = None,
                        mishaps'[s] = {}
                 PROVE  NoGrant \in own[s]
      BY DEF MapKept, Pop
    <3>1. pc[s] = "use" /\ req[s] # req[t]
      BY <1>1 DEF IInv, TypeOK, Pop, Goto
    <3>2. users[req[s]] = None
      BY <1>1, <3>1 DEF IInv, TypeOK, Pop
    <3> QED
      BY <2>1, <3>1, <3>2 DEF IInv, MapKept
  <2> QED
    BY <2>2, <2>3
<1> QED
  BY <1>2, <1>3, <1>4, <1>5 DEF IInv

\* The file is read: everybody who overlaps knows its present state.
LEMMA ReadInv ==
  ASSUME IInv, NEW t \in Threads, ReadGrant(t) \/ ReadNothing(t)
  PROVE  IInv'
<1> USE DelegationAssumption
<1>1. pc[t] = "read" /\ req[t] \in Accounts /\ grant[t] = None
  BY DEF IInv, TypeOK, PcAgrees, ReadGrant, ReadNothing, Goto
<1>2. TypeOK'
  <2>1. pc' \in [Threads -> Steps]
    BY DEF IInv, TypeOK, ReadGrant, ReadNothing, Goto, Steps
  <2>2. grant' \in [Threads -> Grants \cup {None}]
    BY <1>1 DEF IInv, TypeOK, ReadGrant, ReadNothing, Files
  <2>3. UNCHANGED <<file, users, lock, req, draft, todo, answer, own, window>>
    BY DEF ReadGrant, ReadNothing, history
  <2>4. mishaps' \in [Threads -> SUBSET Mishaps]
    BY DEF IInv, TypeOK, ReadGrant, ReadNothing, history, Mishaps
  <2> QED
    BY <2>1, <2>2, <2>3, <2>4 DEF IInv, TypeOK
<1>3. PcAgrees'
  BY <1>1 DEF IInv, TypeOK, PcAgrees, ReadGrant, ReadNothing, Goto, Files
<1>4. HistoryAgrees'
  <2>1. UNCHANGED <<file, req, own, window>>
    BY DEF ReadGrant, ReadNothing, history
  <2>2. \A s \in Threads : grant'[s] = grant[s] \/ (s = t /\ grant'[s] = file[req[s]])
    BY DEF IInv, TypeOK, ReadGrant, ReadNothing
  <2>3. file[req[t]] \in own[t]
    BY <1>1 DEF IInv, HistoryAgrees
  <2> QED
    BY <2>1, <2>2, <2>3 DEF IInv, HistoryAgrees
<1>5. ReadShared'
  <2> SUFFICES ASSUME NEW r \in Threads, NEW s \in Threads,
                      req[r] # None, req[r] = req[s], grant'[r] # None
               PROVE  grant'[r] \in window[s]
    BY DEF ReadShared, ReadGrant, ReadNothing, history
  <2>1. CASE grant'[r] = grant[r]
    BY <2>1 DEF IInv, ReadShared
  <2>2. CASE grant'[r] # grant[r]
    <3>1. r = t /\ grant'[r] = file[req[s]]
      BY <2>2 DEF IInv, TypeOK, ReadGrant, ReadNothing
    <3> QED
      BY <3>1 DEF IInv, HistoryAgrees
  <2> QED
    BY <2>1, <2>2
<1>6. MapShared' /\ MapHoldsGrants'
  BY <1>1 DEF IInv, TypeOK, MapShared, MapHoldsGrants, Loading, ReadGrant, ReadNothing,
              Goto, history
<1>7. GrantFromOverlap'
  BY DEF IInv, GrantFromOverlap, Granted, ReadGrant, ReadNothing, history
<1>8. MapKept' /\ GrantHonoured'
  <2>1. \A s \in Threads : mishaps'[s] = {} => mishaps[s] = {}
    BY DEF IInv, TypeOK, ReadGrant, ReadNothing, history
  <2>2. UNCHANGED <<file, users, req, answer, own>>
    BY DEF ReadGrant, ReadNothing, history
  <2>3. GrantHonoured'
    BY <2>1, <2>2 DEF IInv, GrantHonoured, Granted
  <2>4. pc'[t] = "use" => NoGrant \in own[t] \/ mishaps'[t] # {}
    <3>1. CASE ReadGrant(t)
      BY <3>1 DEF IInv, TypeOK, ReadGrant, Goto
    <3>2. CASE ReadNothing(t)
      <4>1. file[req[t]] \in own[t]
        BY <1>1 DEF IInv, HistoryAgrees
      <4>2. file[req[t]] = NoGrant \/ mishaps'[t] # {}
        <5>1. mishaps \in [Threads -> SUBSET Mishaps]
          BY DEF IInv, TypeOK
        <5>2. \/ file[req[t]] = NoGrant
              \/ mishaps' = [mishaps EXCEPT ![t] = @ \cup {"unread"}]
          BY <3>2 DEF ReadNothing
        <5>3. mishaps' = [mishaps EXCEPT ![t] = @ \cup {"unread"}] => "unread" \in mishaps'[t]
          BY <5>1
        <5> QED
          BY <5>2, <5>3
      <4> QED
        BY <4>1, <4>2
    <3> QED
      BY <3>1, <3>2
  <2>5. \A s \in Threads \ {t} : pc'[s] = pc[s]
    BY DEF IInv, TypeOK, ReadGrant, ReadNothing, Goto
  <2>6. MapKept'
    BY <2>1, <2>2, <2>4, <2>5 DEF IInv, MapKept
  <2> QED
    BY <2>3, <2>6
<1> QED
  BY <1>2, <1>3, <1>4, <1>5, <1>6, <1>7, <1>8 DEF IInv

\* The configuration is built under the lock; nobody sees it.
LEMMA BuildInv ==
  ASSUME IInv, NEW t \in Threads,
         \/ LoadLock(t)
         \/ \E g \in Groups : GroupAnswers(t, g) \/ GroupFails(t, g)
  PROVE  IInv'
<1> USE DelegationAssumption
<1>1. pc[t] \in {"load", "groups"} /\ req[t] \in Accounts /\ grant[t] \in Grants
  BY DEF IInv, TypeOK, PcAgrees, LoadLock, GroupAnswers, GroupFails, Goto
<1>2. CASE LoadLock(t)
  <2> DEFINE start == [grant |-> grant[t], who |-> GrantUsers[grant[t]][req[t]], failed |-> {}]
  <2>1. start \in Config
    BY <1>1 DEF Config, Files
  <2>2. start # None /\ start.grant = grant[t]
    BY <2>1 DEF Config, Files
  <2>3. draft' = [draft EXCEPT ![t] = start]
    BY <1>2 DEF LoadLock
  <2> HIDE DEF start
  <2>4. TypeOK'
    <3>1. todo' \in [Threads -> SUBSET Groups] /\ lock' \in Threads \cup {None}
      BY <1>1, <1>2 DEF IInv, TypeOK, LoadLock
    <3>2. draft' \in [Threads -> Config \cup {None}]
      BY <2>1, <2>3 DEF IInv, TypeOK
    <3>3. pc' \in [Threads -> Steps]
      BY <1>2 DEF IInv, TypeOK, LoadLock, Goto, Steps
    <3> QED
      BY <1>2, <3>1, <3>2, <3>3 DEF IInv, TypeOK, LoadLock, history
  <2>5. PcAgrees'
    BY <1>1, <1>2, <2>2, <2>3 DEF IInv, TypeOK, PcAgrees, LoadLock, Goto
  <2>6. (/\ HistoryAgrees /\ ReadShared /\ MapHoldsGrants
         /\ GrantFromOverlap /\ GrantHonoured)'
    BY <1>2 DEF IInv, HistoryAgrees, ReadShared, MapHoldsGrants, GrantFromOverlap, Granted,
                GrantHonoured, LoadLock, history
  <2>7. (MapShared /\ MapKept)'
    BY <1>2 DEF IInv, TypeOK, MapShared, MapKept, Loading, LoadLock, Goto, history
  <2> QED
    BY <2>4, <2>5, <2>6, <2>7 DEF IInv
<1>3. ASSUME NEW g \in Groups, GroupAnswers(t, g) \/ GroupFails(t, g)
      PROVE  IInv'
  <2>1. draft[t] \in Config
    BY <1>3 DEF IInv, TypeOK, PcAgrees, GroupAnswers, GroupFails
  <2>2. PICK next \in Config : draft' = [draft EXCEPT ![t] = next] /\ next.grant = draft[t].grant
    <3>1. CASE GroupAnswers(t, g)
      <4> DEFINE wider == [draft[t] EXCEPT !.who = @ \cup Members[g]]
      <4>1. draft' = [draft EXCEPT ![t] = wider]
        BY <3>1 DEF GroupAnswers
      <4>2. wider \in Config /\ wider.grant = draft[t].grant
        BY <2>1 DEF Config
      <4> QED
        BY <4>1, <4>2
    <3>2. CASE GroupFails(t, g)
      <4> DEFINE marked == [draft[t] EXCEPT !.failed = @ \cup {g}]
      <4>1. draft' = [draft EXCEPT ![t] = marked]
        BY <3>2 DEF GroupFails
      <4>2. marked \in Config /\ marked.grant = draft[t].grant
        BY <2>1 DEF Config
      <4> QED
        BY <4>1, <4>2
    <3> QED
      BY <1>3, <3>1, <3>2
  <2>3. next # None
    BY <2>2 DEF Config, Files
  <2>4. TypeOK'
    <3>1. draft' \in [Threads -> Config \cup {None}]
      BY <2>2 DEF IInv, TypeOK
    <3>2. todo' \in [Threads -> SUBSET Groups]
      <4>1. todo[t] \ {g} \in SUBSET Groups
        BY DEF IInv, TypeOK
      <4>2. todo' = [todo EXCEPT ![t] = @ \ {g}]
        BY <1>3 DEF GroupAnswers, GroupFails
      <4> QED
        BY <4>1, <4>2 DEF IInv, TypeOK
    <3>3. UNCHANGED <<file, users, lock, pc, req, grant, answer, history>>
      BY <1>3 DEF GroupAnswers, GroupFails
    <3> QED
      BY <3>1, <3>2, <3>3 DEF IInv, TypeOK, history
  <2>5. PcAgrees'
    BY <1>3, <2>2, <2>3 DEF IInv, TypeOK, PcAgrees, GroupAnswers, GroupFails
  <2>6. (/\ HistoryAgrees /\ ReadShared /\ MapShared /\ MapHoldsGrants /\ MapKept
         /\ GrantFromOverlap /\ GrantHonoured)'
    BY <1>3 DEF IInv, HistoryAgrees, ReadShared, MapShared, MapHoldsGrants, MapKept, Loading,
                GrantFromOverlap, GrantHonoured, Granted, GroupAnswers, GroupFails, history
  <2> QED
    BY <2>4, <2>5, <2>6 DEF IInv
<1> QED
  BY <1>2, <1>3

\* A configuration that breaks off is lost, and that is a mishap of its request.
LEMMA BreakInv ==
  ASSUME IInv, NEW t \in Threads, NEW g \in Groups, GroupBreaks(t, g)
  PROVE  IInv'
<1> USE DelegationAssumption
<1>1. pc[t] = "groups" /\ req[t] \in Accounts
  BY DEF IInv, TypeOK, PcAgrees, GroupBreaks, Goto
<1>2. TypeOK'
  <2>1. mishaps' \in [Threads -> SUBSET Mishaps]
    BY DEF IInv, TypeOK, GroupBreaks, Mishaps
  <2> QED
    BY <2>1 DEF IInv, TypeOK, GroupBreaks, Goto, Steps
<1>3. PcAgrees'
  BY <1>1 DEF IInv, TypeOK, PcAgrees, GroupBreaks, Goto
<1>4. (HistoryAgrees /\ ReadShared /\ MapHoldsGrants /\ GrantFromOverlap)'
  BY DEF IInv, HistoryAgrees, ReadShared, MapHoldsGrants, GrantFromOverlap, Granted, GroupBreaks
<1>5. MapShared'
  BY <1>1 DEF IInv, TypeOK, MapShared, Loading, GroupBreaks, Goto
<1>6. (MapKept /\ GrantHonoured)'
  <2>1. mishaps'[t] # {} /\ \A s \in Threads : mishaps'[s] = {} => mishaps[s] = {}
    BY DEF IInv, TypeOK, GroupBreaks
  <2> QED
    BY <1>1, <2>1 DEF IInv, TypeOK, MapKept, GrantHonoured, Granted, GroupBreaks, Goto
<1> QED
  BY <1>2, <1>3, <1>4, <1>5, <1>6 DEF IInv

\* What is published was read by a request that still runs.
LEMMA PublishInv ==
  ASSUME IInv, NEW t \in Threads, Publish(t)
  PROVE  IInv'
<1> USE DelegationAssumption
<1>1. /\ pc[t] = "groups" /\ req[t] \in Accounts /\ draft[t] \in Config
      /\ draft[t].grant = grant[t] /\ grant[t] \in Grants
  BY DEF IInv, TypeOK, PcAgrees, Publish, Goto
<1>2. TypeOK'
  BY <1>1 DEF IInv, TypeOK, Publish, Goto, Steps, history
<1>3. PcAgrees'
  BY <1>1 DEF IInv, TypeOK, PcAgrees, Publish, Goto
<1>4. (HistoryAgrees /\ ReadShared /\ GrantFromOverlap /\ GrantHonoured)'
  BY DEF IInv, HistoryAgrees, ReadShared, GrantFromOverlap, GrantHonoured, Granted, Publish,
         history
<1>5. MapHoldsGrants'
  BY <1>1 DEF IInv, TypeOK, MapHoldsGrants, Publish
<1>6. MapShared'
  <2> SUFFICES ASSUME NEW s \in Threads, Loading(s)', users'[req[s]] # None
               PROVE  users'[req[s]].grant \in window[s]
    BY DEF MapShared, Publish, history
  <2>1. req[s] \in Accounts /\ Loading(s)
    BY <1>1 DEF IInv, TypeOK, PcAgrees, Loading, Publish, Goto
  <2>2. CASE req[s] = req[t]
    BY <1>1, <2>2 DEF IInv, TypeOK, ReadShared, Publish
  <2>3. CASE req[s] # req[t]
    BY <2>1, <2>3 DEF IInv, TypeOK, MapShared, Publish
  <2> QED
    BY <2>2, <2>3
<1>7. MapKept'
  <2>1. draft[t] # None
    BY <1>1 DEF IInv, PcAgrees
  <2> SUFFICES ASSUME NEW s \in Threads, pc'[s] = "use", users'[req[s]] = None
               PROVE  NoGrant \in own[s] \/ mishaps[s] # {}
    BY DEF MapKept, Publish, history
  <2>2. req[s] # req[t]
    BY <1>1, <2>1 DEF IInv, TypeOK, Publish
  <2>3. pc[s] = "use" /\ users[req[s]] = None
    BY <1>1, <2>2 DEF IInv, TypeOK, Publish, Goto
  <2> QED
    BY <2>3 DEF IInv, MapKept
<1> QED
  BY <1>2, <1>3, <1>4, <1>5, <1>6, <1>7 DEF IInv

\* The configuration is taken from the map, and the sources are asked.
LEMMA UseInv ==
  ASSUME IInv, NEW t \in Threads, Use(t) \/ Finish(t)
  PROVE  IInv'
<1> USE DelegationAssumption
<1>1. pc[t] \in {"use", "fetch"} /\ req[t] \in Accounts
  BY DEF IInv, TypeOK, PcAgrees, Use, Finish, Goto
<1>2. Default(req[t]) \in Config /\ Default(req[t]).grant = NoGrant
  BY <1>1 DEF Default, Config, Files
<1>3. CASE Use(t)
  <2>1. TypeOK'
    BY <1>1, <1>2, <1>3 DEF IInv, TypeOK, Use, Goto, Steps, history
  <2>2. PcAgrees'
    BY <1>3 DEF IInv, TypeOK, PcAgrees, Use, Goto
  <2>3. (HistoryAgrees /\ ReadShared /\ MapHoldsGrants)'
    BY <1>3 DEF IInv, TypeOK, HistoryAgrees, ReadShared, MapHoldsGrants, Use, history
  <2>4. (MapShared /\ MapKept)'
    BY <1>3 DEF IInv, TypeOK, MapShared, MapKept, Loading, Use, Goto, history
  <2>5. GrantFromOverlap'
    BY <1>1, <1>2, <1>3 DEF IInv, TypeOK, GrantFromOverlap, Granted, MapShared, Loading, Use,
                       Goto, history
  <2>6. GrantHonoured'
    <3>1. users[req[t]] # None => users[req[t]].grant # NoGrant
      BY <1>1 DEF IInv, MapHoldsGrants
    <3>2. pc[t] = "use" /\ UNCHANGED <<own, mishaps>>
      BY <1>3 DEF Use, Goto, history
    <3>3. users[req[t]] # None => answer'[t] = users[req[t]]
      BY <1>3 DEF IInv, TypeOK, Use
    <3>4. \A s \in Threads \ {t} : answer'[s] = answer[s]
      BY <1>3 DEF IInv, TypeOK, Use
    <3> QED
      BY <3>1, <3>2, <3>3, <3>4 DEF IInv, MapKept, GrantHonoured, Granted
  <2> QED
    BY <2>1, <2>2, <2>3, <2>4, <2>5, <2>6 DEF IInv
<1>4. CASE Finish(t)
  <2>1. TypeOK'
    BY <1>4 DEF IInv, TypeOK, Finish, Goto, Steps, history
  <2>2. PcAgrees'
    BY <1>1, <1>4 DEF IInv, TypeOK, PcAgrees, Finish, Goto
  <2>3. (/\ HistoryAgrees /\ ReadShared /\ MapHoldsGrants
         /\ GrantFromOverlap /\ GrantHonoured)'
    BY <1>4 DEF IInv, TypeOK, HistoryAgrees, ReadShared, MapHoldsGrants, GrantFromOverlap,
                GrantHonoured, Granted, Finish, history
  <2>4. (MapShared /\ MapKept)'
    BY <1>4 DEF IInv, TypeOK, MapShared, MapKept, Loading, Finish, Goto, history
  <2> QED
    BY <2>1, <2>2, <2>3, <2>4 DEF IInv
<1> QED
  BY <1>3, <1>4

\* The file changes under the requests: they all notice.
LEMMA EditInv ==
  ASSUME IInv, NEW u \in Accounts, NEW f \in Files, Edit(u, f)
  PROVE  IInv'
<1> USE DelegationAssumption
<1>1. (TypeOK /\ PcAgrees)'
  BY DEF IInv, TypeOK, PcAgrees, Edit
<1>2. \A t \in Threads : own[t] \subseteq own'[t] /\ window[t] \subseteq window'[t]
  BY DEF Edit
<1>3. HistoryAgrees'
  BY <1>2 DEF IInv, TypeOK, HistoryAgrees, Edit
<1>4. (/\ ReadShared /\ MapShared /\ MapHoldsGrants /\ MapKept
       /\ GrantFromOverlap /\ GrantHonoured)'
  BY <1>2 DEF IInv, ReadShared, MapShared, Loading, MapHoldsGrants, MapKept,
              GrantFromOverlap, GrantHonoured, Granted, Edit
<1> QED
  BY <1>1, <1>3, <1>4 DEF IInv

\* Every step keeps the invariant.
LEMMA StepInv == IInv /\ [Next]_vars => IInv'
<1> SUFFICES ASSUME IInv, [Next]_vars PROVE IInv'
  OBVIOUS
<1>1. ASSUME NEW t \in Threads, Resolve(t) PROVE IInv'
  BY <1>1, PopInv, ReadInv, BuildInv, BreakInv, PublishInv, UseInv DEF Resolve
<1>2. ASSUME NEW t \in Threads, NEW u \in Accounts, Begin(t, u) PROVE IInv'
  BY <1>2, BeginInv
<1>3. ASSUME NEW u \in Accounts, NEW f \in Files, Edit(u, f) PROVE IInv'
  BY <1>3, EditInv
<1>4. CASE UNCHANGED vars
  BY <1>4 DEF IInv, TypeOK, PcAgrees, HistoryAgrees, ReadShared, MapShared, Loading,
              MapHoldsGrants, MapKept, GrantFromOverlap, GrantHonoured, Granted, vars, history
<1> QED
  BY <1>1, <1>2, <1>3, <1>4 DEF Next

\* The inductive invariant holds throughout resolve, for any number of threads.
THEOREM Invariance == Spec => []IInv
  BY InitInv, StepInv, PTL DEF Spec

\* Every state of every execution is well typed.
THEOREM TypeCorrect == Spec => []TypeOK
<1>1. IInv => TypeOK
  BY DEF IInv
<1> QED
  BY <1>1, Invariance, PTL

\* However many requests for one user race on the shared map, a request uses no
\* grant that the file made before the oldest request it overlaps began.
THEOREM OverlapBound == Spec => []GrantFromOverlap
<1>1. IInv => GrantFromOverlap
  BY DEF IInv
<1> QED
  BY <1>1, Invariance, PTL

\* Whatever the other requests do, a grant that the file keeps making is lost only to
\* an unreadable file, to the members of a group that break off, or to a request for
\* the same user that drops it from the map before it is used.
THEOREM LossExplained == Spec => []GrantHonoured
<1>1. IInv => GrantHonoured
  BY DEF IInv
<1> QED
  BY <1>1, Invariance, PTL

-----------------------------------------------------------------------------
(* One request per user at a time                                          *)

\* With one thread per user, what the map holds was read by that user's own request.
LEMMA OwnStep == Exclusive /\ IInv /\ MapOwn /\ [Next]_vars => MapOwn'
<1> USE DelegationAssumption
<1> SUFFICES ASSUME Exclusive, IInv, MapOwn, [Next]_vars PROVE MapOwn'
  OBVIOUS
<1>1. ASSUME NEW t \in Threads, NEW u \in Accounts, Begin(t, u) PROVE MapOwn'
  BY <1>1 DEF IInv, TypeOK, MapOwn, Loading, Begin, Goto
<1>2. ASSUME NEW t \in Threads, Pop(t) PROVE MapOwn'
  <2> SUFFICES ASSUME NEW s \in Threads
               PROVE  /\ req'[s] # None => req'[s] \in Serves[s]
                      /\ Loading(s)' /\ users'[req'[s]] # None => users'[req'[s]].grant \in own'[s]
    BY DEF MapOwn, Loading
  <2>1. CASE s = t
    BY <1>2, <2>1 DEF IInv, TypeOK, PcAgrees, MapOwn, Loading, Pop, Goto, history
  <2>2. CASE s # t
    <3>1. req[s] # req[t]
      BY <1>2, <2>2 DEF IInv, TypeOK, PcAgrees, MapOwn, Exclusive, Pop, Goto
    <3> QED
      BY <1>2, <2>2, <3>1 DEF IInv, TypeOK, PcAgrees, MapOwn, Loading, Pop, Goto, history
  <2> QED
    BY <2>1, <2>2
<1>3. ASSUME NEW t \in Threads, ReadGrant(t) \/ ReadNothing(t) PROVE MapOwn'
  BY <1>3 DEF IInv, TypeOK, MapOwn, Loading, ReadGrant, ReadNothing, Goto, history
<1>4. ASSUME NEW t \in Threads,
             \/ LoadLock(t)
             \/ \E g \in Groups : GroupAnswers(t, g) \/ GroupFails(t, g) \/ GroupBreaks(t, g)
      PROVE  MapOwn'
  BY <1>4 DEF IInv, TypeOK, MapOwn, Loading, LoadLock, GroupAnswers, GroupFails, GroupBreaks,
              Goto, history
<1>5. ASSUME NEW t \in Threads, Publish(t) PROVE MapOwn'
  <2>1. /\ pc[t] = "groups" /\ req[t] \in Accounts /\ draft[t] \in Config /\ draft[t] # None
        /\ draft[t].grant \in own[t]
    BY <1>5 DEF IInv, TypeOK, PcAgrees, HistoryAgrees, Publish, Goto
  <2> SUFFICES ASSUME NEW s \in Threads
               PROVE  /\ req'[s] # None => req'[s] \in Serves[s]
                      /\ Loading(s)' /\ users'[req'[s]] # None => users'[req'[s]].grant \in own'[s]
    BY DEF MapOwn, Loading
  <2>2. CASE s = t
    BY <1>5, <2>1, <2>2 DEF IInv, TypeOK, MapOwn, Loading, Publish, Goto, history
  <2>3. CASE s # t
    <3>1. req[s] # req[t]
      BY <2>1, <2>3 DEF IInv, TypeOK, MapOwn, Exclusive
    <3> QED
      BY <1>5, <2>3, <3>1 DEF IInv, TypeOK, PcAgrees, MapOwn, Loading, Publish, Goto, history
  <2> QED
    BY <2>2, <2>3
<1>6. ASSUME NEW t \in Threads, Use(t) \/ Finish(t) PROVE MapOwn'
  BY <1>6 DEF IInv, TypeOK, PcAgrees, MapOwn, Loading, Use, Finish, Goto, history
<1>7. ASSUME NEW u \in Accounts, NEW f \in Files, Edit(u, f) PROVE MapOwn'
  BY <1>7 DEF IInv, TypeOK, MapOwn, Loading, Edit
<1>8. CASE UNCHANGED vars
  BY <1>8 DEF MapOwn, Loading, vars, history
<1> QED
  BY <1>1, <1>2, <1>3, <1>4, <1>5, <1>6, <1>7, <1>8 DEF Next, Resolve

\* With one thread per user, every step keeps what that thread knows of the file.
LEMMA ExclusiveStep == Exclusive /\ IInv /\ EInv /\ [Next]_vars => EInv'
<1> USE DelegationAssumption
<1> SUFFICES ASSUME Exclusive, IInv, EInv, [Next]_vars PROVE EInv'
  OBVIOUS
<1>1. MapOwn'
  BY OwnStep DEF EInv
<1>2. \A t \in Threads : own[t] \subseteq own'[t] \/ answer'[t] = None
  BY DEF IInv, TypeOK, Next, Resolve, Begin, Pop, ReadGrant, ReadNothing, LoadLock,
         GroupAnswers, GroupFails, GroupBreaks, Publish, Use, Finish, Edit, vars, history
<1>3. ASSUME NEW t \in Threads, answer'[t] # answer[t], answer'[t] # None, Granted(t)'
      PROVE  answer'[t].grant \in own'[t]
  <2>1. Use(t)
    BY <1>3 DEF IInv, TypeOK, Next, Resolve, Begin, Pop, ReadGrant, ReadNothing, LoadLock,
       GroupAnswers, GroupFails, GroupBreaks, Publish, Use, Finish, Edit, vars
  <2>2. pc[t] = "use" /\ req[t] \in Accounts /\ own' = own
    BY <2>1 DEF IInv, TypeOK, PcAgrees, Use, Goto, history
  <2>3. users[req[t]] # None
    BY <1>3, <2>1 DEF Use, IInv, TypeOK, Default, Granted
  <2>4. answer'[t] = users[req[t]]
    BY <2>1, <2>3 DEF Use, IInv, TypeOK
  <2> QED
    BY <2>2, <2>3, <2>4 DEF EInv, MapOwn, Loading
<1>4. NoGrantSurvives'
  BY <1>2, <1>3 DEF EInv, NoGrantSurvives, Granted
<1>5. Unpopped'
  <2>1. ASSUME NEW t \in Threads, Pop(t) PROVE Unpopped'
    <3>1. \A s \in Threads : pc[s] = "use" => req[s] # req[t]
      BY <2>1 DEF IInv, TypeOK, PcAgrees, EInv, MapOwn, Exclusive, Pop, Goto
    <3> QED
      BY <2>1, <3>1 DEF EInv, Unpopped, Pop
  <2>2. ASSUME NEW t \in Threads, NEW g \in Groups, GroupBreaks(t, g) PROVE Unpopped'
    BY <2>2 DEF IInv, TypeOK, EInv, Unpopped, GroupBreaks
  <2>3. ASSUME NEW t \in Threads, ReadNothing(t) PROVE Unpopped'
    BY <2>3 DEF IInv, TypeOK, EInv, Unpopped, ReadNothing
  <2>4. ASSUME NEW t \in Threads, NEW u \in Accounts, Begin(t, u) PROVE Unpopped'
    BY <2>4 DEF IInv, TypeOK, EInv, Unpopped, Begin
  <2>5. CASE UNCHANGED mishaps
    BY <2>5 DEF EInv, Unpopped
  <2> QED
    BY <2>1, <2>2, <2>3, <2>4, <2>5
       DEF Next, Resolve, ReadGrant, LoadLock, GroupAnswers, GroupFails, Publish, Use, Finish,
           Edit, vars, history
<1> QED
  BY <1>1, <1>4, <1>5 DEF EInv

\* At the start no request runs, so there is nothing to know.
LEMMA ExclusiveInit == Init => EInv
  BY DelegationAssumption
  DEF Init, EInv, MapOwn, Loading, NoGrantSurvives, Unpopped, Granted

\* As long as no two threads serve one user (the command line, or a server whose
\* clients ask for different users), the file as it is during the request decides:
\* no grant outlives it, and none is lost to another request.
THEOREM ExclusiveDecides ==
  ASSUME Exclusive
  PROVE  Spec => [](NoGrantSurvives /\ Unpopped)
<1>1. EInv => NoGrantSurvives /\ Unpopped
  BY DEF EInv
<1>2. IInv /\ EInv /\ [Next]_vars => EInv'
  BY ExclusiveStep
<1> QED
  BY <1>1, <1>2, ExclusiveInit, Invariance, PTL DEF Spec
-----------------------------------------------------------------------------
(* A grant is used whole                                                   *)

MembersOf(groups) == UNION {Members[g] : g \in groups}

\* The configuration c grants u's account to all the file names.
Whole(c, u) ==
  c.grant # NoGrant =>
    /\ c.failed \subseteq GrantGroups[c.grant]
    /\ c.who = GrantUsers[c.grant][u] \cup MembersOf(GrantGroups[c.grant] \ c.failed)

\* A draft does so up to the groups it has yet to look up.
WholeSoFar(c, u, left) ==
  LET groups == GrantGroups[c.grant]
  IN  /\ left \subseteq groups
      /\ c.failed \subseteq groups \ left
      /\ c.who = GrantUsers[c.grant][u] \cup MembersOf(groups \ (left \cup c.failed))

DraftWhole ==
  \A t \in Threads : draft[t] # None => WholeSoFar(draft[t], req[t], todo[t])

MapWhole == \A u \in Accounts : users[u] # None => Whole(users[u], u)

Served == \A t \in Threads : req[t] # None => req[t] \in Serves[t]

AnswerWhole ==
  \A t \in Threads : answer[t] # None => \E u \in Serves[t] : Whole(answer[t], u)

WInv == DraftWhole /\ MapWhole /\ Served /\ AnswerWhole

\* One group more.
LEMMA MembersGrow ==
  ASSUME NEW S, NEW g
  PROVE  MembersOf(S \cup {g}) = MembersOf(S) \cup Members[g]
  BY DEF MembersOf

\* Nothing is granted to begin with.
LEMMA WholeInit == Init => WInv
  BY DEF Init, WInv, DraftWhole, MapWhole, Served, AnswerWhole

\* A draft starts with the users of the file and no group.
LEMMA WholeLoad ==
  ASSUME IInv, WInv, NEW t \in Threads, LoadLock(t)
  PROVE  WInv'
<1> USE DelegationAssumption DEF IInv, TypeOK
<1> DEFINE c == [grant |-> grant[t], who |-> GrantUsers[grant[t]][req[t]], failed |-> {}]
<1>1. /\ draft'[t] = c /\ todo'[t] = GrantGroups[grant[t]] /\ req' = req
      /\ \A s \in Threads \ {t} : draft'[s] = draft[s] /\ todo'[s] = todo[s]
  BY DEF LoadLock
<1>2. GrantGroups[grant[t]] \ (GrantGroups[grant[t]] \cup {}) = {} /\ MembersOf({}) = {}
  BY DEF MembersOf
<1>3. c.who = GrantUsers[c.grant][req[t]]
             \cup MembersOf(GrantGroups[c.grant] \ (GrantGroups[c.grant] \cup c.failed))
  BY <1>2
<1>4. c.grant = grant[t] /\ c.failed = {}
  OBVIOUS
<1> HIDE DEF c
<1>5. WholeSoFar(draft'[t], req[t], todo'[t])
  BY <1>1, <1>3, <1>4 DEF WholeSoFar
<1>6. DraftWhole'
  BY <1>1, <1>5 DEF WInv, DraftWhole
<1>7. MapWhole' /\ Served' /\ AnswerWhole'
  BY DEF LoadLock, WInv, MapWhole, Served, AnswerWhole, Whole
<1> QED
  BY <1>6, <1>7 DEF WInv

\* A lookup moves a group from the ones to do to the ones that count or failed.
LEMMA WholeLookup ==
  ASSUME IInv, WInv, NEW t \in Threads, NEW g \in Groups,
         GroupAnswers(t, g) \/ GroupFails(t, g)
  PROVE  WInv'
<1> USE DEF IInv, TypeOK
<1> DEFINE c == draft[t]
           groups == GrantGroups[c.grant]
<1>1. c # None /\ c \in Config /\ g \in todo[t]
  BY DEF PcAgrees, GroupAnswers, GroupFails
<1>2. /\ todo[t] \subseteq groups
      /\ c.failed \subseteq groups \ todo[t]
      /\ c.who = GrantUsers[c.grant][req[t]] \cup MembersOf(groups \ (todo[t] \cup c.failed))
  BY <1>1 DEF WInv, DraftWhole, WholeSoFar
<1>3. /\ todo'[t] = todo[t] \ {g} /\ req' = req
      /\ \A s \in Threads \ {t} : draft'[s] = draft[s] /\ todo'[s] = todo[s]
      /\ draft'[t].grant = c.grant
  BY <1>1 DEF GroupAnswers, GroupFails, Config
<1>4. WholeSoFar(draft'[t], req[t], todo'[t])
  <2>1. CASE GroupAnswers(t, g)
    <3>1. draft'[t].who = c.who \cup Members[g] /\ draft'[t].failed = c.failed
      BY <1>1, <2>1 DEF GroupAnswers, Config
    <3>2. groups \ ((todo[t] \ {g}) \cup c.failed) = (groups \ (todo[t] \cup c.failed)) \cup {g}
      BY <1>1, <1>2
    <3>3. MembersOf(groups \ ((todo[t] \ {g}) \cup c.failed))
            = MembersOf(groups \ (todo[t] \cup c.failed)) \cup Members[g]
      BY <3>2, MembersGrow, Zenon
    <3>4. c.who \cup Members[g]
            = GrantUsers[c.grant][req[t]] \cup MembersOf(groups \ ((todo[t] \ {g}) \cup c.failed))
      BY <1>2, <3>3
    <3> HIDE DEF c
    <3> QED
      BY <1>2, <1>3, <3>1, <3>4 DEF WholeSoFar
  <2>2. CASE GroupFails(t, g)
    <3>1. draft'[t].who = c.who /\ draft'[t].failed = c.failed \cup {g}
      BY <1>1, <2>2 DEF GroupFails, Config
    <3>2. (todo[t] \ {g}) \cup (c.failed \cup {g}) = todo[t] \cup c.failed
      BY <1>1
    <3> HIDE DEF c
    <3> QED
      BY <1>1, <1>2, <1>3, <3>1, <3>2 DEF WholeSoFar
  <2> QED
    BY <2>1, <2>2
<1>5. DraftWhole'
  BY <1>3, <1>4 DEF WInv, DraftWhole
<1>6. MapWhole' /\ Served' /\ AnswerWhole'
  BY DEF GroupAnswers, GroupFails, WInv, MapWhole, Served, AnswerWhole, Whole
<1> QED
  BY <1>5, <1>6 DEF WInv

\* A configuration that breaks off leaves nothing.
LEMMA WholeBreak ==
  ASSUME IInv, WInv, NEW t \in Threads, NEW g \in Groups, GroupBreaks(t, g)
  PROVE  WInv'
  BY DEF IInv, TypeOK, GroupBreaks, WInv, DraftWhole, MapWhole, Served, AnswerWhole, Whole

\* What is published has no group left to do.
LEMMA WholePublish ==
  ASSUME IInv, WInv, NEW t \in Threads, Publish(t)
  PROVE  WInv'
<1> USE DEF IInv, TypeOK
<1>1. draft[t] # None /\ req[t] \in Accounts /\ todo[t] = {}
  BY DEF PcAgrees, Publish, Goto
<1>2. Whole(draft[t], req[t])
  <2>1. GrantGroups[draft[t].grant] \ (todo[t] \cup draft[t].failed)
          = GrantGroups[draft[t].grant] \ draft[t].failed
    BY <1>1
  <2> QED
    BY <1>1, <2>1 DEF WInv, DraftWhole, WholeSoFar, Whole
<1>3. MapWhole'
  BY <1>1, <1>2 DEF WInv, MapWhole, Publish, Whole
<1>4. DraftWhole'
  BY DEF WInv, DraftWhole, Publish
<1> QED
  BY <1>3, <1>4 DEF Publish, WInv, Served, AnswerWhole, Whole

\* What is used is what the map holds, or the user alone.
LEMMA WholeUse ==
  ASSUME IInv, WInv, NEW t \in Threads, Use(t)
  PROVE  WInv'
<1> USE DEF IInv, TypeOK
<1>1. req[t] \in Accounts /\ req[t] \in Serves[t]
  BY DEF PcAgrees, Use, Goto, WInv, Served
<1>2. Whole(answer'[t], req[t])
  BY <1>1 DEF Use, Default, WInv, MapWhole, Whole
<1>3. AnswerWhole'
  BY <1>1, <1>2 DEF Use, WInv, AnswerWhole, Whole
<1> QED
  BY <1>3 DEF Use, WInv, Served, DraftWhole, MapWhole, Whole

\* Every step keeps what is granted whole.
LEMMA WholeStep == IInv /\ WInv /\ [Next]_vars => WInv'
<1> SUFFICES ASSUME IInv, WInv, [Next]_vars PROVE WInv'
  OBVIOUS
<1>1. CASE UNCHANGED vars
  BY <1>1 DEF vars, WInv, DraftWhole, MapWhole, Served, AnswerWhole, Whole
<1>2. ASSUME NEW t \in Threads, NEW u \in Accounts, Begin(t, u) PROVE WInv'
  BY <1>2 DEF Begin, Goto, IInv, TypeOK, PcAgrees, WInv, DraftWhole, MapWhole, Served,
              AnswerWhole, Whole
<1>3. ASSUME NEW t \in Threads, Pop(t) PROVE WInv'
  BY <1>3 DEF Pop, IInv, TypeOK, WInv, DraftWhole, MapWhole, Served, AnswerWhole, Whole
<1>4. ASSUME NEW t \in Threads, ReadGrant(t) \/ ReadNothing(t) PROVE WInv'
  <2>1. UNCHANGED <<users, req, draft, todo, answer>>
    BY <1>4 DEF ReadGrant, ReadNothing
  <2> QED
    BY <2>1 DEF WInv, DraftWhole, MapWhole, Served, AnswerWhole, Whole
<1>5. ASSUME NEW t \in Threads, Finish(t) PROVE WInv'
  BY <1>5 DEF Finish, Goto, IInv, TypeOK, PcAgrees, WInv, DraftWhole, MapWhole, Served,
              AnswerWhole, Whole
<1>6. ASSUME NEW u \in Accounts, NEW f \in Files, Edit(u, f) PROVE WInv'
  BY <1>6 DEF Edit, WInv, DraftWhole, MapWhole, Served, AnswerWhole, Whole
<1> QED
  BY <1>1, <1>2, <1>3, <1>4, <1>5, <1>6, WholeLoad, WholeLookup, WholeBreak,
     WholePublish, WholeUse
     DEF Next, Resolve

\* A grant is used whole: no thread sees one that is still being built, and a group
\* that fails costs its own members only (load_user_config).
THEOREM GrantsWhole == Spec => []WholeGrant
<1>1. IInv /\ WInv => WholeGrant
  BY DEF WInv, AnswerWhole, Whole, MembersOf, WholeGrant, Granted
<1>2. Init => IInv /\ WInv
  BY InitInv, WholeInit
<1>3. IInv /\ WInv /\ [Next]_vars => IInv' /\ WInv'
  BY StepInv, WholeStep
<1> QED
  BY <1>1, <1>2, <1>3, PTL DEF Spec
=============================================================================
