-------------------------- MODULE SourceCacheProofs -------------------------
(***************************************************************************)
(* What SourceCache.tla's runs check on two threads and a clock of a few   *)
(* seconds, for every set of threads, every configuration and every clock. *)
(***************************************************************************)
EXTENDS SourceCache, TLAPS

\* The source really held a list when it is on its way to the cache, and it is
\* on its way for Latency seconds at most.
FetchGenuine ==
  \A t \in Threads : fetched[t] # None =>
    /\ asked[t] # None
    /\ fetched[t] \in held[asked[t]]
    /\ fetched[t].at <= now
    /\ now <= fetched[t].at + Latency

\* Where a thread is tells what it carries.
PcAgrees ==
  \A t \in Threads :
    /\ pc[t] = "idle" <=> asked[t] = None
    /\ pc[t] \in {"fetched", "storing"} <=> fetched[t] # None
    /\ pc[t] \in {"lookup", "reading"} => asked[t] \in Cached
    /\ pc[t] = "rescuing" => UseExpired

\* The history knows the present and nothing later.
HistoryAgrees ==
  \A k \in CacheKeys :
    /\ [keys |-> upstream[k], at |-> now] \in held[k]
    /\ \A s \in held[k] : s.at <= now

\* No entry and no answer comes from the future.
NoFuture ==
  /\ \A k \in CacheKeys : cache[k] # None => cache[k].at <= now
  /\ \A t \in Threads : answer[t] # None => answer[t].at <= now

\* The inductive invariant under the bounds on what is served.
IInv ==
  /\ TypeOK
  /\ PcAgrees
  /\ HistoryAgrees
  /\ NoFuture
  /\ FetchGenuine
  /\ EntryGenuine
-----------------------------------------------------------------------------
\* The history only grows, so what a source held it held for ever.
LEMMA HistoryGrows ==
  ASSUME NEW k \in CacheKeys, NEW v, NEW n, NEW w, held[k] \subseteq held'[k],
         HeldWithin(k, v, n, w)
  PROVE  HeldWithin(k, v, n, w)'
  BY DEF HeldWithin, Promise!HeldWithin

\* The invariant holds to begin with, also over the entries of an earlier process.
LEMMA InitInv == Init => IInv
<1> SUFFICES ASSUME Init PROVE IInv
  OBVIOUS
<1> USE ConfigAssumption, NoneAssumption
<1>1. TypeOK
  BY DEF Init, TypeOK, Entry, Steps
<1>2. PcAgrees /\ FetchGenuine
  BY DEF Init, PcAgrees, FetchGenuine
<1>3. HistoryAgrees
  BY DEF Init, HistoryAgrees
<1>4. NoFuture
  BY DEF Init, NoFuture
<1>5. EntryGenuine
  <2> SUFFICES ASSUME NEW k \in CacheKeys, cache[k] # None
               PROVE  HeldWithin(k, cache[k].keys, cache[k].at, Latency)
    BY DEF EntryGenuine
  <2>1. cache[k] \in [keys : KeyLists, at : {0}] /\ cache[k].keys = upstream[k]
    BY DEF Init
  <2>2. [keys |-> upstream[k], at |-> 0] \in held[k]
    BY DEF Init
  <2> QED
    BY <2>1, <2>2 DEF HeldWithin, Promise!HeldWithin
<1> QED
  BY <1>1, <1>2, <1>3, <1>4, <1>5 DEF IInv

\* Taking the lock moves one thread between two steps of the same kind.
LEMMA AcquireInv ==
  ASSUME IInv, NEW t \in Threads, NEW from \in Steps, NEW to \in Steps,
         Acquire(t, from, to), from # "idle", to # "idle",
         from \in {"fetched", "storing"} <=> to \in {"fetched", "storing"},
         to \in {"lookup", "reading"} => from \in {"lookup", "reading"},
         to = "rescuing" => UseExpired
  PROVE  IInv'
<1> USE ConfigAssumption, NoneAssumption
<1>1. TypeOK'
  BY DEF IInv, TypeOK, Acquire, Goto, env
<1>2. PcAgrees'
  BY DEF IInv, TypeOK, PcAgrees, Acquire, Goto, env
<1>3. (HistoryAgrees /\ NoFuture /\ FetchGenuine)'
  BY DEF IInv, HistoryAgrees, NoFuture, FetchGenuine, Acquire, env
<1>4. EntryGenuine'
  BY DEF IInv, EntryGenuine, HeldWithin, Promise!HeldWithin, Acquire, env
<1> QED
  BY <1>1, <1>2, <1>3, <1>4 DEF IInv

\* Returning an answer of the right type, with the cache as it was.
LEMMA ReturnInv ==
  ASSUME IInv, NEW t \in Threads, NEW from \in Steps \ {"idle"}, NEW v \in KeyLists,
         NEW via \in {"source", "cache", "stale", "error", "unread"},
         Return(t, from, v, via), cache' = cache, lock' \in Threads \cup {None}
  PROVE  IInv'
<1> USE ConfigAssumption, NoneAssumption
<1>1. asked[t] \in CacheKeys
  BY DEF IInv, TypeOK, PcAgrees, Return, Goto
<1>2. TypeOK'
  BY <1>1 DEF IInv, TypeOK, Return, Goto, env, Steps, Answer
<1>3. PcAgrees'
  BY DEF IInv, TypeOK, PcAgrees, Return, Goto, env
<1>4. HistoryAgrees'
  BY DEF IInv, HistoryAgrees, Return, env
<1>5. NoFuture'
  BY DEF IInv, TypeOK, NoFuture, Return, env
<1>6. FetchGenuine'
  BY DEF IInv, TypeOK, FetchGenuine, Return, env
<1>7. EntryGenuine'
  BY DEF IInv, EntryGenuine, HeldWithin, Promise!HeldWithin, Return, env
<1> QED
  BY <1>2, <1>3, <1>4, <1>5, <1>6, <1>7 DEF IInv

\* Going to the source, and coming back from it or failing.
LEMMA FetchInv ==
  ASSUME IInv, NEW t \in Threads, Miss(t) \/ SourceReplies(t) \/ SourceFails(t)
  PROVE  IInv'
<1> USE ConfigAssumption, NoneAssumption
<1>1. pc[t] \in {"reading", "fetch"} /\ asked[t] \in CacheKeys /\ fetched[t] = None
  BY DEF IInv, TypeOK, PcAgrees, Miss, SourceReplies, SourceFails, Goto
<1>2. (HistoryAgrees /\ NoFuture /\ EntryGenuine)'
  BY DEF IInv, HistoryAgrees, NoFuture, EntryGenuine, HeldWithin, Promise!HeldWithin,
         Miss, SourceReplies, SourceFails, env
<1>3. CASE Miss(t) \/ SourceFails(t)
  <2>1. PICK to \in {"fetch", "failed"} : Goto(t, pc[t], to)
    BY <1>3 DEF Miss, SourceFails, Goto
  <2>2. lock' \in Threads \cup {None} /\ UNCHANGED <<env, cache, asked, fetched, answer>>
    BY <1>3 DEF IInv, TypeOK, Miss, SourceFails, Release
  <2>3. TypeOK'
    BY <2>1, <2>2 DEF IInv, TypeOK, Goto, env, Steps
  <2>4. PcAgrees'
    BY <1>1, <2>1, <2>2 DEF IInv, TypeOK, PcAgrees, Goto
  <2>5. FetchGenuine'
    BY <2>2 DEF IInv, FetchGenuine, env
  <2> QED
    BY <1>2, <2>3, <2>4, <2>5 DEF IInv
<1>4. CASE SourceReplies(t)
  <2> DEFINE reply == [keys |-> upstream[asked[t]], at |-> now]
  <2>1. reply \in Entry /\ reply # None /\ reply.at = now
    BY <1>1 DEF IInv, TypeOK, Entry
  <2>2. reply \in held[asked[t]]
    BY <1>1 DEF IInv, HistoryAgrees
  <2>3. fetched' = [fetched EXCEPT ![t] = reply]
    BY <1>4 DEF SourceReplies
  <2> HIDE DEF reply
  <2>4. TypeOK'
    BY <1>4, <2>1, <2>3 DEF IInv, TypeOK, SourceReplies, Goto, env, Steps
  <2>5. PcAgrees'
    BY <1>1, <1>4, <2>1, <2>3 DEF IInv, TypeOK, PcAgrees, SourceReplies, Goto, env
  <2>6. FetchGenuine'
    BY <1>1, <1>4, <2>1, <2>2, <2>3 DEF IInv, TypeOK, FetchGenuine, SourceReplies, env
  <2> QED
    BY <1>2, <2>4, <2>5, <2>6 DEF IInv
<1> QED
  BY <1>3, <1>4

\* A new question.
LEMMA AskInv ==
  ASSUME IInv, NEW t \in Threads, NEW k \in CacheKeys, Ask(t, k)
  PROVE  IInv'
<1> USE ConfigAssumption, NoneAssumption
<1>1. pc[t] = "idle" /\ fetched[t] = None
  BY DEF IInv, PcAgrees, Ask, Goto
<1>2. TypeOK'
  BY DEF IInv, TypeOK, Ask, Goto, env, Steps
<1>3. PcAgrees'
  BY <1>1 DEF IInv, TypeOK, PcAgrees, Ask, Goto, env
<1>4. (HistoryAgrees /\ EntryGenuine)'
  BY DEF IInv, HistoryAgrees, EntryGenuine, HeldWithin, Promise!HeldWithin, Ask, env
<1>5. (NoFuture /\ FetchGenuine)'
  BY <1>1 DEF IInv, TypeOK, NoFuture, FetchGenuine, Ask, env
<1> QED
  BY <1>2, <1>3, <1>4, <1>5 DEF IInv

\* The write: the list was genuine in the thread's hands, so the entry is.
LEMMA StoreInv ==
  ASSUME IInv, NEW t \in Threads, Store(t)
  PROVE  IInv'
<1> USE ConfigAssumption, NoneAssumption
<1>1. pc[t] = "storing" /\ asked[t] \in CacheKeys /\ fetched[t] \in Entry
  BY DEF IInv, TypeOK, PcAgrees, Store, Return, Goto
<1>2. TypeOK'
  BY <1>1 DEF IInv, TypeOK, Store, Return, Release, Goto, env, Steps, Entry, Answer
<1>3. PcAgrees'
  BY <1>1 DEF IInv, TypeOK, PcAgrees, Store, Return, Goto, env
<1>4. HistoryAgrees'
  BY DEF IInv, HistoryAgrees, Store, Return, env
<1>5. NoFuture' /\ FetchGenuine'
  BY <1>1 DEF IInv, TypeOK, NoFuture, FetchGenuine, Store, Return, env, Entry
<1>6. EntryGenuine'
  <2> SUFFICES ASSUME NEW k \in CacheKeys, cache'[k] # None
               PROVE  HeldWithin(k, cache[k].keys, cache[k].at, Latency)'
    BY DEF EntryGenuine
  <2>1. CASE k = asked[t]
    <3>1. cache'[k] = [keys |-> fetched[t].keys, at |-> now]
      BY <1>1, <2>1 DEF IInv, TypeOK, Store
    <3>2. /\ fetched[t] \in held[k]
          /\ fetched[t].at <= now
          /\ now - Latency <= fetched[t].at
      BY <1>1, <2>1 DEF IInv, TypeOK, FetchGenuine, Entry
    <3> QED
      BY <3>1, <3>2 DEF HeldWithin, Promise!HeldWithin, Store, Return, env
  <2>2. CASE k # asked[t]
    BY <1>1, <2>2 DEF IInv, TypeOK, EntryGenuine, HeldWithin, Promise!HeldWithin,
                      Store, Return, env
  <2> QED
    BY <2>1, <2>2
<1> QED
  BY <1>2, <1>3, <1>4, <1>5, <1>6 DEF IInv

\* What happens around the threads.
LEMMA WorldInv ==
  ASSUME IInv,
         \/ \E k \in CacheKeys : Purge(k) \/ \E v \in KeyLists : Change(k, v)
         \/ Tick
  PROVE  IInv'
<1> USE ConfigAssumption, NoneAssumption
<1>1. ASSUME NEW k \in CacheKeys, Purge(k) PROVE IInv'
  <2>1. (TypeOK /\ PcAgrees)'
    BY <1>1 DEF IInv, TypeOK, PcAgrees, Purge, env
  <2>2. (HistoryAgrees /\ NoFuture /\ FetchGenuine)'
    BY <1>1 DEF IInv, TypeOK, HistoryAgrees, NoFuture, FetchGenuine, Purge, env
  <2>3. EntryGenuine'
    BY <1>1 DEF IInv, TypeOK, EntryGenuine, HeldWithin, Promise!HeldWithin, Purge, env
  <2> QED
    BY <2>1, <2>2, <2>3 DEF IInv
<1>2. ASSUME NEW k \in CacheKeys, NEW v \in KeyLists, Change(k, v) PROVE IInv'
  <2>1. \A l \in CacheKeys : held[l] \subseteq held'[l]
    BY <1>2 DEF IInv, TypeOK, Change
  <2>2. (TypeOK /\ PcAgrees)'
    BY <1>2 DEF IInv, TypeOK, PcAgrees, Change, Entry
  <2>3. (HistoryAgrees /\ NoFuture)'
    <3>1. upstream' = [upstream EXCEPT ![k] = v] /\ now' = now
      BY <1>2 DEF Change
    <3>2. held' = [held EXCEPT ![k] = held[k] \cup {[keys |-> v, at |-> now]}]
      BY <1>2 DEF Change
    <3>3. HistoryAgrees'
      <4> SUFFICES ASSUME NEW l \in CacheKeys
                   PROVE  /\ [keys |-> upstream'[l], at |-> now'] \in held'[l]
                          /\ \A s \in held'[l] : s.at <= now'
        BY DEF HistoryAgrees
      <4>1. [keys |-> upstream[l], at |-> now] \in held[l] /\ \A s \in held[l] : s.at <= now
        BY DEF IInv, HistoryAgrees
      <4>2. now \in Nat
        BY DEF IInv, TypeOK
      <4>3. CASE l = k
        BY <3>1, <3>2, <4>1, <4>2, <4>3 DEF IInv, TypeOK
      <4>4. CASE l # k
        BY <3>1, <3>2, <4>1, <4>4 DEF IInv, TypeOK
      <4> QED
        BY <4>3, <4>4
    <3>4. NoFuture'
      BY <1>2 DEF IInv, NoFuture, Change
    <3> QED
      BY <3>3, <3>4
  <2>4. FetchGenuine'
    BY <1>2, <2>1 DEF IInv, TypeOK, FetchGenuine, Change
  <2>5. EntryGenuine'
    BY <1>2, <2>1, HistoryGrows DEF IInv, EntryGenuine, HeldWithin, Promise!HeldWithin, Change
  <2> QED
    BY <2>2, <2>3, <2>4, <2>5 DEF IInv
<1>3. CASE Tick
  <2>1. \A l \in CacheKeys : held[l] \subseteq held'[l]
    BY <1>3 DEF IInv, TypeOK, Tick
  <2>2. (TypeOK /\ PcAgrees)'
    BY <1>3 DEF IInv, TypeOK, PcAgrees, Tick, Entry
  <2>3. HistoryAgrees'
    <3> SUFFICES ASSUME NEW k \in CacheKeys
                 PROVE  /\ [keys |-> upstream'[k], at |-> now'] \in held'[k]
                        /\ \A s \in held'[k] : s.at <= now'
      BY DEF HistoryAgrees
    <3>1. held'[k] = held[k] \cup {[keys |-> upstream[k], at |-> now + 1]}
      BY <1>3 DEF Tick
    <3>2. now' = now + 1 /\ upstream' = upstream /\ now \in Nat
      BY <1>3 DEF IInv, TypeOK, Tick
    <3>3. held[k] \subseteq [keys : KeyLists, at : Nat]
      BY DEF IInv, TypeOK, Entry
    <3>4. \A s \in held[k] : s.at \in Nat
      BY <3>3
    <3>5. \A s \in held[k] : s.at <= now
      BY DEF IInv, HistoryAgrees
    <3> QED
      BY <3>1, <3>2, <3>4, <3>5
  <2>4. NoFuture'
    BY <1>3 DEF IInv, TypeOK, NoFuture, Tick, Entry, Answer
  <2>5. FetchGenuine'
    BY <1>3, <2>1 DEF IInv, TypeOK, FetchGenuine, Tick, Entry
  <2>6. EntryGenuine'
    BY <1>3, <2>1, HistoryGrows DEF IInv, EntryGenuine, HeldWithin, Promise!HeldWithin, Tick
  <2> QED
    BY <2>2, <2>3, <2>4, <2>5, <2>6 DEF IInv
<1> QED
  BY <1>1, <1>2, <1>3

\* Every step keeps the invariant.
LEMMA StepInv == IInv /\ [Next]_vars => IInv'
<1> SUFFICES ASSUME IInv, [Next]_vars PROVE IInv'
  OBVIOUS
<1> USE ConfigAssumption, NoneAssumption
<1>1. ASSUME NEW t \in Threads, Resolve(t) PROVE IInv'
  <2>1. CASE LookupLock(t) \/ StoreLock(t) \/ (UseExpired /\ RescueLock(t))
    BY <2>1, AcquireInv DEF LookupLock, StoreLock, RescueLock, Steps
  <2>2. CASE Miss(t) \/ SourceReplies(t) \/ SourceFails(t)
    BY <2>2, FetchInv
  <2>3. CASE Hit(t) \/ Rescue(t)
    <3>1. cache[asked[t]] # None /\ pc[t] \in {"reading", "rescuing"}
      BY <2>3 DEF Hit, Rescue, Serves
    <3>2. cache[asked[t]].keys \in KeyLists
      BY <3>1 DEF IInv, TypeOK, PcAgrees, Entry
    <3> QED
      BY <2>3, <3>2, ReturnInv DEF Hit, Rescue, Release, Steps
  <2>4. CASE Deliver(t) \/ StoreFails(t)
    <3>1. pc[t] \in {"fetched", "storing"}
      BY <2>4 DEF Deliver, StoreFails, Return, Goto
    <3>2. fetched[t].keys \in KeyLists
      BY <3>1 DEF IInv, TypeOK, PcAgrees, Entry
    <3>3. lock' \in Threads \cup {None}
      BY <2>4 DEF Deliver, StoreFails, Release, IInv, TypeOK
    <3> QED
      BY <2>4, <3>2, <3>3, ReturnInv DEF Deliver, StoreFails, Steps
  <2>5. CASE GiveUp(t) \/ NoRescue(t) \/ RescueFails(t)
    <3>1. lock' \in Threads \cup {None}
      BY <2>5 DEF GiveUp, NoRescue, RescueFails, Release, IInv, TypeOK
    <3> QED
      BY <2>5, <3>1, ReturnInv DEF GiveUp, NoRescue, RescueFails, Steps
  <2>6. CASE Store(t)
    BY <2>6, StoreInv
  <2> QED
    BY <1>1, <2>1, <2>2, <2>3, <2>4, <2>5, <2>6 DEF Resolve, Fetched, AfterError
<1>2. ASSUME NEW t \in Threads, NEW k \in CacheKeys, Ask(t, k) PROVE IInv'
  BY <1>2, AskInv
<1>3. CASE \/ \E k \in CacheKeys : Purge(k) \/ \E v \in KeyLists : Change(k, v)
          \/ Tick
  BY <1>3, WorldInv
<1>4. CASE UNCHANGED vars
  BY <1>4 DEF IInv, TypeOK, PcAgrees, HistoryAgrees, NoFuture, FetchGenuine,
              EntryGenuine, HeldWithin, Promise!HeldWithin, vars
<1> QED
  BY <1>1, <1>2, <1>3, <1>4 DEF Next

\* The inductive invariant holds throughout the cached lookup, for any number of
\* threads, sources and TTLs.
THEOREM Invariance == Spec => []IInv
  BY InitInv, StepInv, PTL DEF Spec

\* Every state of every execution is well typed.
THEOREM TypeCorrect == Spec => []TypeOK
<1>1. IInv => TypeOK
  BY DEF IInv
<1> QED
  BY <1>1, Invariance, PTL

\* Whatever threads, failures, purges and delayed writes do, an entry is a
\* genuine answer of its source, at most Latency older than its time stamp.
THEOREM GenuineEntries == Spec => []EntryGenuine
<1>1. IInv => EntryGenuine
  BY DEF IInv
<1> QED
  BY <1>1, Invariance, PTL

-----------------------------------------------------------------------------
(* The bounds on what is served                                            *)

\* One answer respects the bound of its kind.
Bounded(a) ==
  /\ a.via = "cache" => HeldWithin(a.key, a.keys, a.at, FreshWindow[a.key][a.keys])
  /\ a.via = "source" => HeldWithin(a.key, a.keys, a.at, Latency)
  /\ a.via = "stale" => /\ UseExpired
                        /\ a.keys # NoKeys
                        /\ HeldWithin(a.key, a.keys, a.at, StaleWindow[a.key])

Bounds == \A t \in Threads : answer[t] # None => Bounded(answer[t])

\* An answer within its bound stays within it: the past does not change.
LEMMA BoundedStays ==
  ASSUME NEW a, a.key \in CacheKeys, held[a.key] \subseteq held'[a.key], Bounded(a)
  PROVE  Bounded(a)'
  BY DEF Bounded, HeldWithin, Promise!HeldWithin

\* An entry read within a TTL was held within that TTL and the latency.
LEMMA EntryAge ==
  ASSUME IInv, NEW k \in CacheKeys, cache[k] # None, NEW ttl \in Nat,
         now - ttl <= cache[k].at
  PROVE  HeldWithin(k, cache[k].keys, now, Latency + ttl)
<1>1. cache[k].at \in Nat /\ now \in Nat /\ cache[k].at <= now
  BY DEF IInv, TypeOK, NoFuture, Entry
<1>2. PICK s \in held[k] :
        /\ s.keys = cache[k].keys
        /\ s.at <= cache[k].at
        /\ Latency = Unbounded \/ cache[k].at - Latency <= s.at
  BY DEF IInv, EntryGenuine, HeldWithin, Promise!HeldWithin
<1>3. s.at \in Nat
  BY DEF IInv, TypeOK, Entry
<1>4. s.at <= now /\ now - (Latency + ttl) <= s.at
  BY <1>1, <1>2, <1>3, ConfigAssumption
<1> QED
  BY <1>2, <1>4 DEF HeldWithin, Promise!HeldWithin

\* A source's answer on its way is not older than the latency.
LEMMA FetchAge ==
  ASSUME IInv, NEW t \in Threads, fetched[t] # None
  PROVE  /\ asked[t] \in CacheKeys
         /\ HeldWithin(asked[t], fetched[t].keys, now, Latency)
<1>1. fetched[t].at \in Nat /\ now \in Nat /\ asked[t] \in CacheKeys
  BY DEF IInv, TypeOK, FetchGenuine, Entry
<1>2. fetched[t] \in held[asked[t]] /\ fetched[t].at <= now /\ now <= fetched[t].at + Latency
  BY DEF IInv, FetchGenuine
<1> QED
  BY <1>1, <1>2, ConfigAssumption DEF HeldWithin, Promise!HeldWithin

\* What each of the returning steps gives is within its bound.
LEMMA HitBound ==
  ASSUME IInv, NEW t \in Threads, Hit(t)
  PROVE  /\ asked[t] \in CacheKeys
         /\ cache[asked[t]].keys \in KeyLists
         /\ HeldWithin(asked[t], cache[asked[t]].keys, now,
                       FreshWindow[asked[t]][cache[asked[t]].keys])
<1>1. pc[t] = "reading" /\ asked[t] \in Cached /\ asked[t] \in CacheKeys
  BY ConfigAssumption DEF IInv, PcAgrees, Hit
<1> DEFINE k == asked[t]
           ttl == Effective(cache[k], Expire[k])
<1>2. cache[k] # None /\ now - ttl <= cache[k].at
  BY DEF Hit, Serves, Fresh
<1>3. cache[k].keys \in KeyLists
  BY <1>1, <1>2 DEF IInv, TypeOK, Entry
<1>4. ttl \in Nat /\ FreshWindow[k][cache[k].keys] = Latency + ttl
  BY <1>1, <1>3, ConfigAssumption DEF FreshWindow, Effective
<1> HIDE DEF ttl
<1> QED
  BY <1>1, <1>2, <1>3, <1>4, EntryAge

\* A rescued answer is within [cache] expire and max_stale together.
LEMMA RescueBound ==
  ASSUME IInv, NEW t \in Threads, Rescue(t)
  PROVE  /\ asked[t] \in CacheKeys
         /\ UseExpired
         /\ cache[asked[t]].keys \in KeyLists \ {NoKeys}
         /\ HeldWithin(asked[t], cache[asked[t]].keys, now, StaleWindow[asked[t]])
<1> DEFINE k == asked[t]
<1>1. pc[t] = "rescuing" /\ k \in CacheKeys /\ UseExpired
  BY DEF IInv, TypeOK, PcAgrees, Rescue
<1>2. cache[k] # None /\ cache[k].keys # NoKeys
  BY DEF Rescue, Serves
<1>3. cache[k].keys \in KeyLists /\ cache[k].at \in Nat /\ now \in Nat /\ cache[k].at <= now
  BY <1>1, <1>2 DEF IInv, TypeOK, NoFuture, Entry
<1>4. CASE MaxStale = Unbounded
  <2>1. PICK s \in held[k] : s.keys = cache[k].keys /\ s.at <= cache[k].at
    BY <1>1, <1>2 DEF IInv, EntryGenuine, HeldWithin, Promise!HeldWithin
  <2>2. s.at \in Nat
    BY <1>1 DEF IInv, TypeOK, Entry
  <2>3. s.at <= now
    BY <1>3, <2>1, <2>2
  <2>4. StaleWindow[k] = Unbounded
    BY <1>1, <1>4 DEF StaleWindow
  <2> QED
    BY <1>1, <1>2, <1>3, <2>1, <2>3, <2>4 DEF HeldWithin, Promise!HeldWithin
<1>5. CASE MaxStale # Unbounded
  <2>1. MaxStale \in Nat /\ Ttl \in Nat /\ Ttl + MaxStale \in Nat
    BY <1>5, ConfigAssumption
  <2>2. now - (Ttl + MaxStale) <= cache[k].at
    BY <1>2, <1>3, <1>5, <2>1 DEF Rescue, Serves, Fresh, Effective
  <2>3. StaleWindow[k] = Latency + (Ttl + MaxStale)
    BY <1>1, <1>5, <2>1, ConfigAssumption DEF StaleWindow
  <2> QED
    BY <1>1, <1>2, <1>3, <2>1, <2>2, <2>3, EntryAge
<1> QED
  BY <1>4, <1>5

\* No step forgets what a source held.
LEMMA HistoryKept ==
  ASSUME IInv, [Next]_vars, NEW k \in CacheKeys
  PROVE  held[k] \subseteq held'[k]
<1>1. CASE UNCHANGED env
  BY <1>1 DEF env
<1>2. ASSUME NEW l \in CacheKeys, NEW v \in KeyLists, Change(l, v)
      PROVE  held[k] \subseteq held'[k]
  BY <1>2 DEF Change, IInv, TypeOK
<1>3. CASE Tick
  BY <1>3 DEF Tick
<1> QED
  BY <1>1, <1>2, <1>3
  DEF Next, Resolve, Fetched, AfterError, LookupLock, Hit, Miss, SourceReplies,
     SourceFails, Deliver,
      StoreLock, Store, StoreFails, GiveUp, RescueLock, Rescue, NoRescue,
      RescueFails, Ask, Purge,
      Acquire, Return, vars, env

\* A thread's answer changes when it returns, and then to a bounded one.
LEMMA BoundsStep == IInv /\ IInv' /\ Bounds /\ [Next]_vars => Bounds'
<1> SUFFICES ASSUME IInv, IInv', Bounds, [Next]_vars, NEW u \in Threads,
                    answer'[u] # None
             PROVE  Bounded(answer[u])'
  BY DEF Bounds
<1> USE ConfigAssumption, NoneAssumption
<1>1. CASE answer'[u] = answer[u]
  <2>1. answer[u].key \in CacheKeys
    BY <1>1 DEF IInv, TypeOK, Answer
  <2>2. held[answer[u].key] \subseteq held'[answer[u].key]
    BY <2>1, HistoryKept
  <2> QED
    BY <1>1, <2>1, <2>2
    DEF Bounds, Bounded, HeldWithin, Promise!HeldWithin
<1>2. ASSUME NEW t \in Threads, NEW from, NEW v, NEW via,
             Return(t, from, v, via), answer'[u] # answer[u]
      PROVE  /\ answer'[u] = [key |-> asked[t], keys |-> v, via |-> via, at |-> now]
             /\ t = u
             /\ held' = held
  BY <1>2 DEF Return, env, IInv, TypeOK
<1>3. ASSUME NEW t \in Threads, Resolve(t), answer'[u] # answer[u]
      PROVE  Bounded(answer[u])'
  <2>1. CASE Hit(t)
    <3> DEFINE v == cache[asked[t]].keys
    <3>1. Return(t, "reading", v, "cache")
      BY <2>1 DEF Hit
    <3>2. answer'[u] = [key |-> asked[t], keys |-> v, via |-> "cache", at |-> now]
      BY <3>1, <1>2, <1>3
    <3>3. held' = held
      BY <3>1 DEF Return, env
    <3>4. HeldWithin(asked[t], v, now, FreshWindow[asked[t]][v])
      BY <2>1, HitBound
    <3> QED
      BY <3>2, <3>3, <3>4 DEF Bounded, HeldWithin, Promise!HeldWithin
  <2>2. CASE Deliver(t) \/ Store(t) \/ StoreFails(t)
    <3>1. pc[t] \in {"fetched", "storing"}
      BY <2>2 DEF Deliver, Store, StoreFails, Return, Goto
    <3>2. fetched[t] # None
      BY <3>1 DEF IInv, PcAgrees
    <3>3. HeldWithin(asked[t], fetched[t].keys, now, Latency)
      BY <3>2, FetchAge
    <3>4. PICK from \in Steps : Return(t, from, fetched[t].keys, "source")
      BY <2>2 DEF Deliver, Store, StoreFails, Steps
    <3>5. answer'[u] = [key |-> asked[t], keys |-> fetched[t].keys,
                        via |-> "source", at |-> now]
      BY <3>4, <1>2, <1>3
    <3>6. held' = held
      BY <3>4 DEF Return, env
    <3> QED
      BY <3>3, <3>5, <3>6 DEF Bounded, HeldWithin, Promise!HeldWithin
  <2>3. CASE Rescue(t)
    <3> DEFINE v == cache[asked[t]].keys
    <3>1. Return(t, "rescuing", v, "stale")
      BY <2>3 DEF Rescue
    <3>2. answer'[u] = [key |-> asked[t], keys |-> v, via |-> "stale", at |-> now]
      BY <3>1, <1>2, <1>3
    <3>3. held' = held
      BY <3>1 DEF Return, env
    <3>4. UseExpired /\ v # NoKeys /\ HeldWithin(asked[t], v, now, StaleWindow[asked[t]])
      BY <2>3, RescueBound
    <3> QED
      BY <3>2, <3>3, <3>4 DEF Bounded, HeldWithin, Promise!HeldWithin
  <2>4. CASE GiveUp(t) \/ NoRescue(t) \/ RescueFails(t)
    <3>1. PICK from \in Steps, via \in {"error", "unread"} : Return(t, from, NoKeys, via)
      BY <2>4 DEF GiveUp, NoRescue, RescueFails, Steps
    <3>2. answer'[u] = [key |-> asked[t], keys |-> NoKeys, via |-> via, at |-> now]
      BY <3>1, <1>2, <1>3
    <3> QED
      BY <3>2 DEF Bounded
  <2> QED
    BY <1>3, <2>1, <2>2, <2>3, <2>4
    DEF Resolve, Fetched, AfterError, LookupLock, StoreLock, RescueLock, Acquire,
       Miss, SourceReplies, SourceFails
<1>4. ASSUME NEW t \in Threads, NEW k \in CacheKeys, Ask(t, k)
      PROVE  answer'[u] = answer[u]
  BY <1>4 DEF Ask, IInv, TypeOK
<1> QED
  BY <1>1, <1>3, <1>4 DEF Next, Purge, Change, Tick, vars

\* Every answer is within the bound of the way it came.
LEMMA BoundsInv == Spec => []Bounds
<1>1. Init => Bounds
  BY DEF Init, Bounds
<1> QED
  BY <1>1, BoundsStep, Invariance, PTL DEF Spec

\* No login is let in by a key list its source gave up longer ago than the TTL
\* that applies to the entry plus the latency, for any number of threads racing
\* on the cache and any TTLs.
THEOREM FreshBounded == Spec => []FreshBound
<1>1. Bounds => FreshBound
  BY DEF Bounds, Bounded, FreshBound
<1> QED
  BY <1>1, BoundsInv, PTL

\* While a source fails, the keys it gave up work no longer than [cache] expire,
\* max_stale and the latency together.
THEOREM StaleBounded == Spec => []StaleBound
<1>1. Bounds => StaleBound
  BY DEF Bounds, Bounded, StaleBound
<1> QED
  BY <1>1, BoundsInv, PTL

\* The guide's reading of max_stale, past the TTL of the entry, holds of every
\* installation in which no source's own `expire` is shorter than [cache] expire;
\* the runs show that it fails in one that has such a source.
THEOREM StaleBoundedPerSource ==
  ASSUME \A k \in CacheKeys : Expire[k] = Inherit \/ Expire[k] >= Ttl
  PROVE  Spec => []StaleBoundPerSource
<1>1. ASSUME IInv, Bounds, MaxStale # Unbounded, NEW t \in Threads,
             answer[t] # None, answer[t].via = "stale"
      PROVE  LET a == answer[t]
                 ttl == IF Expire[a.key] = Inherit THEN Ttl ELSE Expire[a.key]
             IN  HeldWithin(a.key, a.keys, a.at, Latency + ttl + MaxStale)
  <2> DEFINE a == answer[t]
             ttl == IF Expire[a.key] = Inherit THEN Ttl ELSE Expire[a.key]
  <2>1. a.key \in CacheKeys /\ a.at \in Nat
    BY <1>1 DEF IInv, TypeOK, Answer
  <2>2. HeldWithin(a.key, a.keys, a.at, StaleWindow[a.key])
    BY <1>1 DEF Bounds, Bounded
  <2>3. StaleWindow[a.key] = Latency + Ttl + MaxStale
    BY <1>1, <2>1 DEF StaleWindow
  <2>4. ttl \in Nat /\ ttl >= Ttl
    BY <2>1, ConfigAssumption
  <2>5. PICK s \in held[a.key] :
          /\ s.keys = a.keys
          /\ s.at <= a.at
          /\ StaleWindow[a.key] = Unbounded \/ a.at - StaleWindow[a.key] <= s.at
    BY <2>2 DEF HeldWithin, Promise!HeldWithin
  <2>6. s.at \in Nat /\ {Latency, Ttl, MaxStale} \subseteq Nat /\ Unbounded \notin Nat
    BY <1>1, <2>1, ConfigAssumption DEF IInv, TypeOK, Entry
  <2> HIDE DEF ttl, a
  <2>7. a.at - (Latency + ttl + MaxStale) <= s.at
    BY <2>1, <2>3, <2>4, <2>5, <2>6
  <2>8. HeldWithin(a.key, a.keys, a.at, Latency + ttl + MaxStale)
    BY <2>5, <2>7 DEF HeldWithin, Promise!HeldWithin
  <2> QED
    BY <2>8 DEF a, ttl
<1>2. IInv /\ Bounds => StaleBoundPerSource
  BY <1>1 DEF StaleBoundPerSource
<1> QED
  BY <1>2, Invariance, BoundsInv, PTL

-----------------------------------------------------------------------------
(* Outages                                                                 *)

\* An entry stays, goes, or is written now.
LEMMA CacheMoves ==
  ASSUME IInv, [Next]_vars, NEW k \in CacheKeys
  PROVE  cache'[k] = cache[k] \/ cache'[k] = None \/ cache'[k].at = now
<1>1. ASSUME NEW t \in Threads, Store(t)
      PROVE  cache'[k] = cache[k] \/ cache'[k].at = now
  BY <1>1 DEF Store, IInv, TypeOK
<1>2. ASSUME NEW j \in CacheKeys, Purge(j)
      PROVE  cache'[k] = cache[k] \/ cache'[k] = None
  BY <1>2 DEF Purge, IInv, TypeOK
<1>3. ASSUME NEW t \in Threads, Resolve(t), ~ Store(t) PROVE cache' = cache
  BY <1>3 DEF Resolve, Fetched, AfterError, LookupLock, Hit, Miss, SourceReplies,
     SourceFails, Deliver,
     StoreLock, StoreFails, GiveUp, RescueLock, Rescue, NoRescue, RescueFails, Acquire
<1>4. ASSUME NEW t \in Threads, NEW j \in CacheKeys, Ask(t, j) PROVE cache' = cache
  BY <1>4 DEF Ask
<1>5. ASSUME NEW j \in CacheKeys, NEW v \in KeyLists, Change(j, v) PROVE cache' = cache
  BY <1>5 DEF Change
<1> QED
  BY <1>1, <1>2, <1>3, <1>4, <1>5 DEF Next, Tick, vars

\* With expired_on_error a login is refused over an error by NoRescue alone.
LEMMA ErrorMoves ==
  ASSUME IInv, [Next]_vars, UseExpired, NEW u \in Threads,
         answer'[u] # None, answer'[u].via = "error"
  PROVE  answer'[u] = answer[u] \/ NoRescue(u)
<1>1. ASSUME NEW t \in Threads, t # u, Resolve(t) PROVE answer'[u] = answer[u]
  BY <1>1 DEF Resolve, Fetched, AfterError, LookupLock, Hit, Miss, SourceReplies,
     SourceFails, Deliver,
     StoreLock, Store, StoreFails, GiveUp, RescueLock, Rescue, NoRescue, RescueFails,
     Acquire, Return, IInv, TypeOK
<1>2. ASSUME Resolve(u) PROVE answer'[u] = answer[u] \/ NoRescue(u)
  <2>1. ASSUME NEW v, NEW via, NEW from, Return(u, from, v, via) PROVE via = "error"
    BY <2>1 DEF Return, IInv, TypeOK
  <2>2. ~ (Hit(u) \/ Deliver(u) \/ Store(u) \/ StoreFails(u))
    BY <2>1 DEF Hit, Deliver, Store, StoreFails
  <2>3. ~ (Rescue(u) \/ RescueFails(u))
    BY <2>1 DEF Rescue, RescueFails
  <2> QED
    BY <1>2, <2>2, <2>3 DEF Resolve, Fetched, AfterError, LookupLock, Miss,
       SourceReplies, SourceFails,
       StoreLock, RescueLock, Acquire
<1>3. ASSUME NEW t \in Threads, NEW k \in CacheKeys, Ask(t, k) PROVE answer'[u] = answer[u]
  BY <1>3 DEF Ask, IInv, TypeOK
<1>4. ASSUME NEW k \in CacheKeys, Purge(k) \/ \E v \in KeyLists : Change(k, v)
      PROVE  answer'[u] = answer[u]
  BY <1>4 DEF Change, Purge
<1>5. ASSUME NEW t \in Threads, Resolve(t) PROVE answer'[u] = answer[u] \/ NoRescue(u)
  BY <1>5, <1>1, <1>2
<1>6. CASE Tick \/ UNCHANGED vars
  BY <1>6 DEF Tick, vars
<1> QED
  BY <1>3, <1>4, <1>5, <1>6 DEF Next

\* What refused a login does not come to entitle it afterwards.
LEMMA OutageStep == IInv /\ OutageTolerated /\ [Next]_vars => OutageTolerated'
<1> SUFFICES ASSUME IInv, OutageTolerated, [Next]_vars, UseExpired, NEW u \in Threads,
                    answer'[u] # None, answer'[u].via = "error"
             PROVE  ~ Entitles(cache'[answer'[u].key], answer'[u].at)
  BY DEF OutageTolerated, Entitles
<1>1. CASE answer'[u] = answer[u]
  <2> DEFINE k == answer[u].key
  <2>1. k \in CacheKeys /\ answer[u].at \in Nat /\ answer[u].at <= now /\ now \in Nat
    BY <1>1 DEF IInv, TypeOK, NoFuture, Answer
  <2>2. ~ Entitles(cache[k], answer[u].at)
    BY <1>1 DEF OutageTolerated
  <2>3. cache'[k] = cache[k] \/ cache'[k] = None \/ cache'[k].at = now
    BY <2>1, CacheMoves
  <2> QED
    BY <1>1, <2>1, <2>2, <2>3 DEF Entitles
<1>2. CASE NoRescue(u)
  <2> DEFINE k == asked[u]
  <2>1. k \in CacheKeys /\ cache' = cache /\ now \in Nat
    BY <1>2 DEF NoRescue, IInv, TypeOK, PcAgrees
  <2>2. answer'[u].key = k /\ answer'[u].at = now
    BY <1>2 DEF NoRescue, Return, IInv, TypeOK
  <2>3. SUFFICES ASSUME cache[k] # None, cache[k].keys # NoKeys
                 PROVE  MaxStale # Unbounded /\ ~ (now <= cache[k].at + Ttl + MaxStale)
    BY <2>1, <2>2 DEF Entitles
  <2>4. cache[k].at \in Nat
    BY <2>1, <2>3 DEF IInv, TypeOK, Entry
  <2>5. MaxStale # Unbounded /\ ~ (now - (Ttl + MaxStale) <= cache[k].at)
    BY <1>2, <2>3 DEF NoRescue, Serves, Fresh, Effective
  <2> QED
    BY <2>1, <2>4, <2>5, ConfigAssumption
<1> QED
  BY <1>1, <1>2, ErrorMoves

\* While a source fails, nobody is refused whom an entry within max_stale of
\* [cache] expire could serve, whatever other threads and purges do meanwhile.
THEOREM OutageBridged == Spec => []OutageTolerated
<1>1. Init => OutageTolerated
  BY DEF Init, OutageTolerated
<1> QED
  BY <1>1, OutageStep, Invariance, PTL DEF Spec

-----------------------------------------------------------------------------
(* What a source answered reaches the caller                               *)

\* Who has an answer of a source in hand and returns, returns it.
LEMMA FetchedStep ==
  ASSUME IInv, [Next]_vars, NEW t \in Threads, fetched[t] # None, asked'[t] = None
  PROVE  answer'[t].keys = fetched[t].keys
<1>1. pc[t] \in {"fetched", "storing"} /\ asked[t] # None
  BY DEF IInv, PcAgrees
<1>2. ASSUME Resolve(t) PROVE answer'[t].keys = fetched[t].keys
  <2>1. ASSUME NEW from, NEW via, Return(t, from, fetched[t].keys, via)
        PROVE  answer'[t].keys = fetched[t].keys
    BY <2>1 DEF Return, IInv, TypeOK
  <2>2. CASE Deliver(t) \/ Store(t) \/ StoreFails(t)
    BY <2>1, <2>2 DEF Deliver, Store, StoreFails
  <2> QED
    BY <1>1, <1>2, <2>2 DEF Resolve, Fetched, AfterError, LookupLock, StoreLock,
       RescueLock, Acquire, Hit, Miss,
       SourceReplies, SourceFails, GiveUp, Rescue, NoRescue, RescueFails, Return, Goto
<1>3. ASSUME NEW s \in Threads, s # t, Resolve(s) PROVE asked'[t] = asked[t]
  BY <1>3 DEF Resolve, Fetched, AfterError, LookupLock, Hit, Miss, SourceReplies,
     SourceFails, Deliver,
     StoreLock, Store, StoreFails, GiveUp, RescueLock, Rescue, NoRescue, RescueFails,
     Acquire, Return, IInv, TypeOK
<1>4. ASSUME NEW s \in Threads, NEW k \in CacheKeys, Ask(s, k) PROVE asked'[t] # None
  BY <1>1, <1>4, NoneAssumption DEF Ask, IInv, TypeOK
<1>5. ASSUME NEW k \in CacheKeys, Purge(k) \/ \E v \in KeyLists : Change(k, v)
      PROVE  asked'[t] = asked[t]
  BY <1>5 DEF Change, Purge
<1>6. CASE Tick \/ UNCHANGED vars
  BY <1>1, <1>6 DEF Tick, vars
<1>7. ASSUME NEW s \in Threads, Resolve(s) PROVE answer'[t].keys = fetched[t].keys
  BY <1>1, <1>2, <1>3, <1>7
<1> QED
  BY <1>1, <1>4, <1>5, <1>6, <1>7 DEF Next

\* A login gets what its source answered it, whatever the cache does meanwhile.
THEOREM FetchedKept == Spec => FetchedIsAnswered
<1>1. IInv /\ [Next]_vars =>
        [\A t \in Threads : fetched[t] # None /\ asked'[t] = None =>
           answer'[t].keys = fetched[t].keys]_vars
  BY FetchedStep
<1> QED
  BY <1>1, Invariance, PTL DEF Spec, FetchedIsAnswered

-----------------------------------------------------------------------------
(* The refinement                                                          *)

\* A list held within a window was held within any wider one.
LEMMA WindowWidens ==
  ASSUME IInv, NEW k \in CacheKeys, NEW v, NEW w \in Nat, NEW x \in Nat, w <= x,
         HeldWithin(k, v, now, w)
  PROVE  HeldWithin(k, v, now, x)
<1>1. PICK s \in held[k] : s.keys = v /\ s.at <= now /\ (w = Unbounded \/ now - w <= s.at)
  BY DEF HeldWithin, Promise!HeldWithin
<1>2. s.at \in Nat /\ now \in Nat
  BY DEF IInv, TypeOK, Entry
<1>3. now - x <= s.at
  BY <1>1, <1>2, ConfigAssumption
<1> QED
  BY <1>1, <1>3 DEF HeldWithin, Promise!HeldWithin

\* The window of an ordinary answer is a number of seconds.
LEMMA FreshWindowType ==
  ASSUME NEW k \in CacheKeys, NEW v \in KeyLists
  PROVE  FreshWindow[k][v] \in Nat /\ Latency <= FreshWindow[k][v]
  BY ConfigAssumption DEF FreshWindow

\* A return is the answer of the promise.
LEMMA ReturnGives ==
  ASSUME IInv, NEW t \in Threads, NEW from \in Steps \ {"idle"}, NEW v, NEW via,
         Return(t, from, v, via)
  PROVE  Promise!Give(t, v, via)
  BY DEF IInv, PcAgrees, Return, Goto, Promise!Give, env

\* The lookup starts where the promise starts.
LEMMA PromiseInit == Init => Promise!Init
  BY DEF Init, Promise!Init

\* Every step of the lookup is a step of the promise, or one it does not see.
LEMMA PromiseStep == IInv /\ [Next]_vars => [Promise!Next]_(Promise!vars)
<1> SUFFICES ASSUME IInv, [Next]_vars PROVE Promise!Next \/ UNCHANGED Promise!vars
  OBVIOUS
<1>1. ASSUME NEW t \in Threads, Resolve(t)
      PROVE  Promise!Next \/ UNCHANGED Promise!vars
  <2>1. CASE LookupLock(t) \/ StoreLock(t) \/ RescueLock(t) \/ Miss(t)
             \/ SourceReplies(t) \/ SourceFails(t)
    BY <2>1 DEF LookupLock, StoreLock, RescueLock, Acquire, Miss, SourceReplies,
                SourceFails, env, Promise!vars
  <2>2. CASE Hit(t)
    <3> DEFINE v == cache[asked[t]].keys
    <3>1. Promise!Give(t, v, "cache")
      BY <2>2, ReturnGives DEF Hit, Steps
    <3>2. v \in KeyLists /\ Promise!HeldWithin(asked[t], v, now, FreshWindow[asked[t]][v])
      BY <2>2, HitBound DEF HeldWithin
    <3>3. Promise!Current(t)
      BY <3>1, <3>2 DEF Promise!Current
    <3> QED
      BY <3>3 DEF Promise!Next
  <2>3. CASE Deliver(t) \/ Store(t) \/ StoreFails(t)
    <3> DEFINE v == fetched[t].keys
    <3>1. PICK from \in {"fetched", "storing"} : Return(t, from, v, "source")
      BY <2>3 DEF Deliver, Store, StoreFails
    <3>2. fetched[t] # None
      BY <3>1 DEF IInv, PcAgrees, Return, Goto
    <3>3. v \in KeyLists
      BY <3>2 DEF IInv, TypeOK, Entry
    <3>4. asked[t] \in CacheKeys /\ HeldWithin(asked[t], v, now, Latency)
      BY <3>2, FetchAge
    <3>5. HeldWithin(asked[t], v, now, FreshWindow[asked[t]][v])
      BY <3>3, <3>4, WindowWidens, FreshWindowType, ConfigAssumption
    <3>6. Promise!Give(t, v, "source")
      BY <3>1, ReturnGives DEF Steps
    <3>7. Promise!Current(t)
      BY <3>3, <3>5, <3>6 DEF Promise!Current, HeldWithin
    <3> QED
      BY <3>7 DEF Promise!Next
  <2>4. CASE Rescue(t)
    <3> DEFINE v == cache[asked[t]].keys
    <3>1. Promise!Give(t, v, "stale")
      BY <2>4, ReturnGives DEF Rescue, Steps
    <3>2. Promise!Rescued(t)
      BY <2>4, <3>1, RescueBound DEF Promise!Rescued, HeldWithin
    <3> QED
      BY <3>2 DEF Promise!Next
  <2>5. CASE GiveUp(t) \/ NoRescue(t) \/ RescueFails(t)
    <3>1. Promise!Refused(t)
      BY <2>5, ReturnGives DEF GiveUp, NoRescue, RescueFails, Promise!Refused, Steps
    <3> QED
      BY <3>1 DEF Promise!Next
  <2> QED
    BY <1>1, <2>1, <2>2, <2>3, <2>4, <2>5 DEF Resolve, Fetched, AfterError
<1>2. ASSUME NEW t \in Threads, NEW k \in CacheKeys, Ask(t, k)
      PROVE  Promise!Next
  <2>1. Promise!Ask(t, k)
    BY <1>2 DEF Ask, Goto, env, IInv, PcAgrees, Promise!Ask
  <2> QED
    BY <2>1 DEF Promise!Next
<1>3. ASSUME NEW k \in CacheKeys, Purge(k)
      PROVE  UNCHANGED Promise!vars
  BY <1>3 DEF Purge, env, Promise!vars
<1>4. ASSUME NEW k \in CacheKeys, NEW v \in KeyLists, Change(k, v)
      PROVE  Promise!Next
  BY <1>4 DEF Change, Promise!Change, Promise!Next
<1>5. CASE Tick
  BY <1>5 DEF Tick, Promise!Tick, Promise!Next
<1>6. CASE UNCHANGED vars
  BY <1>6 DEF vars, Promise!vars
<1> QED
  BY <1>1, <1>2, <1>3, <1>4, <1>5, <1>6 DEF Next

\* The cached lookup implements the promise: to a login the cache, its lock and
\* the races on it look like a source that answers with something it held
\* recently enough, or fails.
THEOREM Refinement == Spec => KeepsPromise
  BY PromiseInit, PromiseStep, Invariance, PTL DEF Spec, KeepsPromise, Promise!Spec
=============================================================================
