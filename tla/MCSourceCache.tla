--------------------------- MODULE MCSourceCache ----------------------------
(* Small instances of SourceCache: alice's keys come from a source with an *)
(* `expire` of its own.                                                    *)
EXTENDS SourceCache, TLC

CONSTANTS alice, k1, t1, t2

\* Threads are interchangeable.
Symmetric == Permutations(Threads)

Expire1 == [k \in CacheKeys |-> 1]
Expire2 == [k \in CacheKeys |-> 2]
=============================================================================
