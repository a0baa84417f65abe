------------------------------ MODULE PairStore -----------------------------
(***************************************************************************)
(* What a cache backend is to AuthKeysCache: for one cache key it keeps a  *)
(* (value, timestamp) pair, and whoever reads gets the pair that is kept,  *)
(* or nothing.                                                             *)
(***************************************************************************)
EXTENDS Naturals

CONSTANTS Procs, Values, None

VARIABLES now, pair, got

vars == <<now, pair, got>>

Init ==
  /\ now = 0
  /\ pair = None
  /\ got = [p \in Procs |-> None]

\* A later write never carries an earlier stamp than the pair it replaces.
Put(v, n) ==
  /\ n <= now
  /\ pair # None => pair.at <= n
  /\ pair' = [val |-> v, at |-> n]
  /\ UNCHANGED <<now, got>>

Get(p) ==
  /\ got' = [got EXCEPT ![p] = pair]
  /\ UNCHANGED <<now, pair>>

\* A reader may also come back with nothing, as from an unreadable entry.
Fail(p) ==
  /\ got' = [got EXCEPT ![p] = None]
  /\ UNCHANGED <<now, pair>>

\* The readers are gone.
Restart ==
  /\ got' = [p \in Procs |-> None]
  /\ UNCHANGED <<now, pair>>

Remove ==
  /\ pair' = None
  /\ UNCHANGED <<now, got>>

Tick ==
  /\ now' = now + 1
  /\ UNCHANGED <<pair, got>>

Next ==
  \/ \E v \in Values, n \in 0 .. now : Put(v, n)
  \/ \E p \in Procs : Get(p) \/ Fail(p)
  \/ Remove \/ Restart \/ Tick

Spec == Init /\ [][Next]_vars
=============================================================================
