---------------------------- MODULE SourceCache -----------------------------
(***************************************************************************)
(* One lookup of one source for one user: AuthKeys._resolve_source_user,   *)
(* the cache section it guards with AuthKeys._lock, the AuthKeysCache it   *)
(* reads and writes, and the source behind it.                             *)
(*                                                                         *)
(* Any number of threads run it at once (the key server has one per        *)
(* request).  The lock covers the cache read and the cache write, never    *)
(* the fetch between them, so a thread stores what a source answered some  *)
(* time ago.  Meanwhile the source changes, fails or hangs, and `authkeys  *)
(* cache purge` run beside the server removes entries.                     *)
(***************************************************************************)
EXTENDS Integers, FiniteSets

CONSTANTS
  Threads,      \* the threads that resolve keys
  CacheKeys,    \* the (uid, source) pairs, the keys of the cache
  KeyLists,     \* the key lists a source can hold, parsed and sanitised
  NoKeys,       \* the empty list: stored as the negative marker
  None,         \* Python's None: no entry, no question, no answer, no holder
  Cached,       \* the pairs whose source has `cached = true`
  Inherit,      \* the `expire` of a source that has none of its own
  Expire,       \* [CacheKeys -> Nat \cup {Inherit}]: the source's `expire`
  Ttl,          \* [cache] expire
  NegTtl,       \* [cache] negative_expire
  UseExpired,   \* [cache] expired_on_error
  Unbounded,    \* the `max_stale` of a cache that has none
  MaxStale,     \* [cache] max_stale
  Faulty,       \* can the cache backend raise?
  Shared,       \* does the cache outlive and exceed the process (files)?
  Hung,         \* the pairs whose source may never answer
  Latency,      \* seconds an answer may take from the source to the cache
  MaxTime       \* bound on the clock

ASSUME ConfigAssumption ==
  /\ NoKeys \in KeyLists
  /\ Cached \subseteq CacheKeys
  /\ Hung \subseteq CacheKeys
  /\ Inherit \notin Nat
  /\ Unbounded \notin Nat
  /\ Expire \in [CacheKeys -> Nat \cup {Inherit}]
  /\ Ttl \in Nat
  /\ NegTtl \in Nat
  /\ MaxStale \in Nat \cup {Unbounded}
  /\ Latency \in Nat
  /\ MaxTime \in Nat
  /\ {UseExpired, Faulty, Shared} \subseteq BOOLEAN

ASSUME NoneAssumption ==
  /\ None \notin Threads
  /\ None \notin CacheKeys
  /\ None \notin [keys : KeyLists, at : Nat]
  /\ None \notin [key : CacheKeys, keys : KeyLists,
                  via : {"source", "cache", "stale", "error", "unread"}, at : Nat]

VARIABLES
  now,          \* time.time(), in seconds
  upstream,     \* upstream[k]: what the source of k holds now
  held,         \* history: every [keys, at] the source of k held
  cache,        \* cache[k]: the stored [keys, at], or None
  lock,         \* the thread inside AuthKeys._lock, or None
  pc,           \* where each thread is in _resolve_source_user
  asked,        \* the pair it resolves, or None
  fetched,      \* what its fetch returned and when, or None
  answer        \* what it returned last, or None

vars == <<now, upstream, held, cache, lock, pc, asked, fetched, answer>>
env  == <<now, upstream, held>>

Entry  == [keys : KeyLists, at : Nat]
Answer == [key : CacheKeys, keys : KeyLists,
           via : {"source", "cache", "stale", "error", "unread"}, at : Nat]
Steps  == {"idle", "lookup", "reading", "fetch", "fetched", "storing",
           "failed", "rescuing"}

-----------------------------------------------------------------------------
(* AuthKeysCache                                                           *)

\* Definitions named X_... are faulty variants of X; no specification uses them.
\* Here: an entry lives one second longer.
Fresh_OneMore(stored, ttl) == now - ttl - 1 <= stored

\* AuthKeysCache._fresh
Fresh(stored, ttl) == now - ttl <= stored

\* The TTL AuthKeysCache.get applies: a per-source one never reaches a
\* negative entry.
Effective(entry, ttl) ==
  IF entry.keys = NoKeys THEN NegTtl
  ELSE IF ttl = Inherit THEN Ttl ELSE ttl

\* max_stale is never compared ...
Serves_Forever(entry, ttl, includeExpired) ==
  /\ entry # None
  /\ Fresh(entry.at, Effective(entry, ttl)) \/ includeExpired

\* ... or counts from the write instead of from the TTL.
Serves_FromWrite(entry, ttl, includeExpired) ==
  /\ entry # None
  /\ \/ Fresh(entry.at, Effective(entry, ttl))
     \/ includeExpired /\ (MaxStale = Unbounded \/ Fresh(entry.at, MaxStale))

\* AuthKeysCache.get returns the entry rather than None.
Serves(entry, ttl, includeExpired) ==
  /\ entry # None
  /\ LET effective == Effective(entry, ttl)
     IN  \/ Fresh(entry.at, effective)
         \/ /\ includeExpired
            /\ MaxStale = Unbounded \/ Fresh(entry.at, effective + MaxStale)

-----------------------------------------------------------------------------
(* _resolve_source_user                                                    *)

\* A file backend may hold what an earlier process stored.
Init ==
  /\ now = 0
  /\ upstream \in [CacheKeys -> KeyLists]
  /\ held = [k \in CacheKeys |-> {[keys |-> upstream[k], at |-> 0]}]
  /\ cache \in [CacheKeys -> [keys : KeyLists, at : {0}] \cup {None}]
  /\ \A k \in CacheKeys : cache[k] # None => Shared /\ cache[k].keys = upstream[k]
  /\ lock = None
  /\ pc = [t \in Threads |-> "idle"]
  /\ asked = [t \in Threads |-> None]
  /\ fetched = [t \in Threads |-> None]
  /\ answer = [t \in Threads |-> None]

Goto(t, from, to) ==
  /\ pc[t] = from
  /\ pc' = [pc EXCEPT ![t] = to]

\* with self._lock
Acquire(t, from, to) ==
  /\ Goto(t, from, to)
  /\ lock = None
  /\ lock' = t
  /\ UNCHANGED <<env, cache, asked, fetched, answer>>

Release == lock' = None

\* Return to the caller.
Return(t, from, keys, via) ==
  /\ Goto(t, from, "idle")
  /\ answer' = [answer EXCEPT
                  ![t] = [key |-> asked[t], keys |-> keys, via |-> via, at |-> now]]
  /\ asked' = [asked EXCEPT ![t] = None]
  /\ fetched' = [fetched EXCEPT ![t] = None]
  /\ UNCHANGED env

\* The call: a source with `cached = false` goes straight to its backend.
Ask(t, k) ==
  /\ Goto(t, "idle", IF k \in Cached THEN "lookup" ELSE "fetch")
  /\ asked' = [asked EXCEPT ![t] = k]
  /\ answer' = [answer EXCEPT ![t] = None]
  /\ UNCHANGED <<env, cache, lock, fetched>>

LookupLock(t) == Acquire(t, "lookup", "reading")

\* The first read already accepts what has expired.
Hit_IncludesExpired(t) ==
  LET entry == cache[asked[t]]
  IN  /\ pc[t] = "reading"
      /\ Serves(entry, Expire[asked[t]], TRUE)
      /\ Return(t, "reading", entry.keys, "cache")
      /\ Release
      /\ UNCHANGED cache

\* _cached_keys(cache_key, ttl=src_ttl) found an entry.
Hit(t) ==
  LET entry == cache[asked[t]]
  IN  /\ pc[t] = "reading"
      /\ Serves(entry, Expire[asked[t]], FALSE)
      /\ Return(t, "reading", entry.keys, "cache")
      /\ Release
      /\ UNCHANGED cache

\* The lock stays held over the fetch.
Miss_KeepsLock(t) ==
  /\ pc[t] = "reading"
  /\ Serves(cache[asked[t]], Expire[asked[t]], FALSE) => Faulty
  /\ Goto(t, "reading", "fetch")
  /\ UNCHANGED <<env, cache, lock, asked, fetched, answer>>

\* It found none it may use, or the backend raised or the text did not parse.
Miss(t) ==
  /\ pc[t] = "reading"
  /\ Serves(cache[asked[t]], Expire[asked[t]], FALSE) => Faulty
  /\ Goto(t, "reading", "fetch")
  /\ Release
  /\ UNCHANGED <<env, cache, asked, fetched, answer>>

\* src.backend.authorized_keys(uid), parsed and sanitised.
SourceReplies(t) ==
  /\ Goto(t, "fetch", "fetched")
  /\ fetched' = [fetched EXCEPT ![t] = [keys |-> upstream[asked[t]], at |-> now]]
  /\ UNCHANGED <<env, cache, lock, asked, answer>>

\* An error passes for an empty answer.
SourceFails_AsEmpty(t) ==
  /\ Goto(t, "fetch", "fetched")
  /\ fetched' = [fetched EXCEPT ![t] = [keys |-> NoKeys, at |-> now]]
  /\ UNCHANGED <<env, cache, lock, asked, answer>>

\* The fetch raised.
SourceFails(t) ==
  /\ Goto(t, "fetch", "failed")
  /\ UNCHANGED <<env, cache, lock, asked, fetched, answer>>

\* Without the cache the keys go back at once.
Deliver(t) ==
  /\ Return(t, "fetched", fetched[t].keys, "source")
  /\ UNCHANGED <<cache, lock>>

StoreLock(t) == Acquire(t, "fetched", "storing")

\* if src.cached, the keys are stored before.
Fetched(t) == IF asked[t] \in Cached THEN StoreLock(t) ELSE Deliver(t)

\* self.cache[cache_key] = ...: the backend stamps the entry with the time of
\* the write, not with the time the source answered.
Store(t) ==
  /\ Return(t, "storing", fetched[t].keys, "source")
  /\ cache' = [cache EXCEPT ![asked[t]] = [keys |-> fetched[t].keys, at |-> now]]
  /\ Release

\* A failed write costs the keys.
StoreFails_LosesKeys(t) ==
  /\ Faulty
  /\ Return(t, "storing", NoKeys, "error")
  /\ Release
  /\ UNCHANGED cache

\* The write raised: logged, and the keys are returned all the same.
StoreFails(t) ==
  /\ Faulty
  /\ Return(t, "storing", fetched[t].keys, "source")
  /\ Release
  /\ UNCHANGED cache

\* A failed fetch without expired_on_error.
GiveUp(t) ==
  /\ Return(t, "failed", NoKeys, "error")
  /\ UNCHANGED <<cache, lock>>

RescueLock(t) == Acquire(t, "failed", "rescuing")

\* if self.cache.expired_on_error
AfterError(t) == IF UseExpired THEN RescueLock(t) ELSE GiveUp(t)

\* _cached_keys(cache_key, include_expired=True), which passes no per-source
\* TTL, found a non-empty list.
Rescue(t) ==
  LET entry == cache[asked[t]]
  IN  /\ pc[t] = "rescuing"
      /\ Serves(entry, Inherit, TRUE)
      /\ entry.keys # NoKeys
      /\ Return(t, "rescuing", entry.keys, "stale")
      /\ Release
      /\ UNCHANGED cache

\* It found nothing it may use, or an empty list.
NoRescue(t) ==
  LET entry == cache[asked[t]]
  IN  /\ pc[t] = "rescuing"
      /\ ~ (Serves(entry, Inherit, TRUE) /\ entry.keys # NoKeys)
      /\ Return(t, "rescuing", NoKeys, "error")
      /\ Release
      /\ UNCHANGED cache

\* The backend raised or the text did not parse.
RescueFails(t) ==
  /\ Faulty
  /\ Return(t, "rescuing", NoKeys, "unread")
  /\ Release
  /\ UNCHANGED cache

-----------------------------------------------------------------------------
(* What happens around the threads                                         *)

\* The administrator of the source replaces what it holds.
Change(k, v) ==
  /\ v # upstream[k]
  /\ upstream' = [upstream EXCEPT ![k] = v]
  /\ held' = [held EXCEPT ![k] = @ \cup {[keys |-> v, at |-> now]}]
  /\ UNCHANGED <<now, cache, lock, pc, asked, fetched, answer>>

\* `authkeys cache purge` in another process deletes one entry.
Purge(k) ==
  /\ Shared
  /\ cache[k] # None
  /\ cache' = [cache EXCEPT ![k] = None]
  /\ UNCHANGED <<env, lock, pc, asked, fetched, answer>>

\* A second passes.  Latency bounds what a thread holding a source's answer
\* may spend on the way to the cache.
Tick ==
  /\ now < MaxTime
  /\ \A t \in Threads : fetched[t] # None => now < fetched[t].at + Latency
  /\ now' = now + 1
  /\ held' = [k \in CacheKeys |->
                held[k] \cup {[keys |-> upstream[k], at |-> now + 1]}]
  /\ UNCHANGED <<upstream, cache, lock, pc, asked, fetched, answer>>

Resolve(t) ==
  \/ LookupLock(t) \/ Hit(t) \/ Miss(t)
  \/ SourceReplies(t) \/ SourceFails(t)
  \/ Fetched(t) \/ Store(t) \/ StoreFails(t)
  \/ AfterError(t) \/ Rescue(t) \/ NoRescue(t) \/ RescueFails(t)

Next ==
  \/ \E t \in Threads : Resolve(t) \/ \E k \in CacheKeys : Ask(t, k)
  \/ \E k \in CacheKeys : Purge(k) \/ \E v \in KeyLists : Change(k, v)
  \/ Tick

Spec == Init /\ [][Next]_vars

\* The steps Resolver is fair to: a waiting thread gets the lock in the end, a
\* running one runs on, and a source answers or fails unless it hangs.
LockSteps(t) == LookupLock(t) \/ Fetched(t) \/ AfterError(t)
OwnSteps(t) ==
  \/ Hit(t) \/ Miss(t) \/ Store(t) \/ StoreFails(t)
  \/ Rescue(t) \/ NoRescue(t) \/ RescueFails(t)
FetchSteps(t) == asked[t] \notin Hung /\ (SourceReplies(t) \/ SourceFails(t))

-----------------------------------------------------------------------------
(* Properties                                                              *)

\* How old an ordinary answer of k may be when it is the list v ...
FreshWindow ==
  [k \in CacheKeys |-> [v \in KeyLists |->
     IF k \in Cached
     THEN Latency + (IF v = NoKeys THEN NegTtl
                     ELSE IF Expire[k] = Inherit THEN Ttl ELSE Expire[k])
     ELSE Latency]]

\* ... and one that stands in for a failing source.
StaleWindow ==
  [k \in CacheKeys |->
     IF MaxStale = Unbounded THEN Unbounded ELSE Latency + Ttl + MaxStale]

Promise == INSTANCE BoundedStaleness WITH MayRescue <- UseExpired

HeldWithin(k, v, n, w) == Promise!HeldWithin(k, v, n, w)

TypeOK ==
  /\ now \in Nat
  /\ upstream \in [CacheKeys -> KeyLists]
  /\ held \in [CacheKeys -> SUBSET Entry]
  /\ cache \in [CacheKeys -> Entry \cup {None}]
  /\ lock \in Threads \cup {None}
  /\ pc \in [Threads -> Steps]
  /\ asked \in [Threads -> CacheKeys \cup {None}]
  /\ fetched \in [Threads -> Entry \cup {None}]
  /\ answer \in [Threads -> Answer \cup {None}]

\* An entry is what its source really answered, at most Latency seconds before
\* the entry's time stamp: an outage is never stored as "no keys", and a
\* delayed write of one thread over a newer one of another ages an entry by no
\* more than that (AuthKeysCache docstring; "last write wins").
EntryGenuine ==
  \A k \in CacheKeys :
    cache[k] # None => HeldWithin(k, cache[k].keys, cache[k].at, Latency)

\* A list is served no longer than the TTL that applies to it, plus the way
\* from the source to the cache, after its source gave it up; without the
\* cache, no longer than that way alone (AuthKeysCache.get).
FreshBound ==
  \A t \in Threads : answer[t] # None =>
    LET a == answer[t]
    IN  /\ a.via = "cache" => HeldWithin(a.key, a.keys, a.at, FreshWindow[a.key][a.keys])
        /\ a.via = "source" => HeldWithin(a.key, a.keys, a.at, Latency)

\* While a source fails, the keys it gave up keep working no longer than
\* [cache] expire plus max_stale.
StaleBound ==
  \A t \in Threads : answer[t] # None /\ answer[t].via = "stale" =>
    LET a == answer[t]
    IN  /\ UseExpired
        /\ a.keys # NoKeys
        /\ HeldWithin(a.key, a.keys, a.at, StaleWindow[a.key])

\* A failing source locks nobody out whom an entry within max_stale of [cache]
\* expire could serve: a login refused over the error found no such entry, or one
\* that was written later.
Entitles(entry, n) ==
  /\ entry # None
  /\ entry.keys # NoKeys
  /\ entry.at < n
  /\ MaxStale = Unbounded \/ n <= entry.at + Ttl + MaxStale

OutageTolerated ==
  UseExpired => \A t \in Threads :
    answer[t] # None /\ answer[t].via = "error" =>
      ~ Entitles(cache[answer[t].key], answer[t].at)

\* A rescued answer is at most max_stale past the TTL of its source, which the
\* guide calls the TTL of the entry (max_stale).
StaleBoundPerSource ==
  MaxStale # Unbounded =>
    \A t \in Threads : answer[t] # None /\ answer[t].via = "stale" =>
      LET a == answer[t]
          ttl == IF Expire[a.key] = Inherit THEN Ttl ELSE Expire[a.key]
      IN  HeldWithin(a.key, a.keys, a.at, Latency + ttl + MaxStale)

\* Nothing the cache does costs a thread the keys its source gave it, neither
\* a failing write nor what another thread stored meanwhile.
FetchedIsAnswered ==
  [][\A t \in Threads :
       fetched[t] # None /\ asked'[t] = None =>
         answer'[t].keys = fetched[t].keys]_vars

\* The cache keeps the promise of BoundedStaleness.
KeepsPromise == Promise!Spec
=============================================================================
