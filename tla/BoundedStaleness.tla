-------------------------- MODULE BoundedStaleness --------------------------
(***************************************************************************)
(* What the key cache of authkeys promises to a login: an answer about a   *)
(* (uid, source) pair is a key list the source itself held recently        *)
(* enough, or an admitted failure.  Nothing here says how the answer is    *)
(* found: there is no cache, no lock and no fetch.                         *)
(***************************************************************************)
EXTENDS Integers

CONSTANTS
  Threads,      \* the threads that resolve keys
  CacheKeys,    \* the (uid, source) pairs
  KeyLists,     \* the key lists a source can hold
  NoKeys,       \* the empty one
  None,         \* no question, no answer
  Unbounded,    \* a window without a limit
  FreshWindow,  \* [CacheKeys -> [KeyLists -> Nat]]: age of an ordinary answer
  StaleWindow,  \* [CacheKeys -> Nat \cup {Unbounded}]: age of a rescued one
  MayRescue     \* may an older answer stand in for a failing source?

VARIABLES
  now,          \* the clock, in seconds
  upstream,     \* upstream[k]: what the source of k holds now
  held,         \* held[k]: every [keys, at] such that it held keys in second at
  asked,        \* the pair a thread is asking about, or None
  answer        \* the last answer a thread was given, or None

vars == <<now, upstream, held, asked, answer>>

\* The source of k held the list v in one of the w seconds before second n.
HeldWithin(k, v, n, w) ==
  \E s \in held[k] : s.keys = v /\ s.at <= n /\ (w = Unbounded \/ n - w <= s.at)

Init ==
  /\ now = 0
  /\ upstream \in [CacheKeys -> KeyLists]
  /\ held = [k \in CacheKeys |-> {[keys |-> upstream[k], at |-> 0]}]
  /\ asked = [t \in Threads |-> None]
  /\ answer = [t \in Threads |-> None]

Ask(t, k) ==
  /\ asked[t] = None
  /\ asked' = [asked EXCEPT ![t] = k]
  /\ answer' = [answer EXCEPT ![t] = None]
  /\ UNCHANGED <<now, upstream, held>>

Give(t, v, via) ==
  /\ asked[t] # None
  /\ answer' = [answer EXCEPT
                  ![t] = [key |-> asked[t], keys |-> v, via |-> via, at |-> now]]
  /\ asked' = [asked EXCEPT ![t] = None]
  /\ UNCHANGED <<now, upstream, held>>

\* An ordinary answer: from the source, or from an entry that has not expired.
Current(t) ==
  \E v \in KeyLists, via \in {"source", "cache"} :
    /\ Give(t, v, via)
    /\ HeldWithin(asked[t], v, now, FreshWindow[asked[t]][v])

\* The source failed and an older, non-empty answer stands in for it.
Rescued(t) ==
  \E v \in KeyLists \ {NoKeys} :
    /\ MayRescue
    /\ Give(t, v, "stale")
    /\ HeldWithin(asked[t], v, now, StaleWindow[asked[t]])

\* The source failed and nothing stands in for it, or nothing that can be read.
Refused(t) == \E via \in {"error", "unread"} : Give(t, NoKeys, via)

\* The administrator of the source replaces what it holds.
Change(k, v) ==
  /\ upstream' = [upstream EXCEPT ![k] = v]
  /\ held' = [held EXCEPT ![k] = @ \cup {[keys |-> v, at |-> now]}]
  /\ UNCHANGED <<now, asked, answer>>

Tick ==
  /\ now' = now + 1
  /\ held' = [k \in CacheKeys |->
                held[k] \cup {[keys |-> upstream[k], at |-> now + 1]}]
  /\ UNCHANGED <<upstream, asked, answer>>

Next ==
  \/ \E t \in Threads :
       \/ \E k \in CacheKeys : Ask(t, k)
       \/ Current(t) \/ Rescued(t) \/ Refused(t)
  \/ \E k \in CacheKeys, v \in KeyLists : Change(k, v)
  \/ Tick

Spec == Init /\ [][Next]_vars
=============================================================================
