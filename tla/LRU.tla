-------------------------------- MODULE LRU ---------------------------------
(***************************************************************************)
(* The generic LRU cache common.Cache (spec.md 4.1; its tests are          *)
(* src/unnamed/part_000).  The code of the cache is not part of this       *)
(* source tree, so these operators follow the spec and the tests.  A cache *)
(* is a value: `order` lists the keys from most to least recently used and *)
(* `val` maps each cached key to its value.                                *)
(***************************************************************************)
EXTENDS Naturals, Sequences

LOCAL INSTANCE SequencesExt

CONSTANT Capacity

EmptyCache == [order |-> <<>>, val |-> [k \in {} |-> 0]]

Cached(c, k) == k \in DOMAIN c.val

(* Move k to the front of the usage order.                                 *)
Promote(c, k) == Cons(k, Remove(c.order, k))

(* Get: on a hit, k becomes the most recently used key.                    *)
LruGet(c, k) ==
    IF Cached(c, k) THEN [c EXCEPT !.order = Promote(c, k)] ELSE c

(* Mutant of LruSet: the capacity check forgotten on insertion.            *)
LruSetNoEvict(c, k, v) ==
    [order |-> Promote(c, k), val |-> [x \in DOMAIN c.val \cup {k} |->
                                          IF x = k THEN v ELSE c.val[x]]]

(* Set: insert or refresh k as the most recently used key; when that       *)
(* exceeds the capacity, the least recently used key is evicted.           *)
LruSet(c, k, v) ==
    LET order == Promote(c, k)
        keep  == IF Len(order) > Capacity THEN SubSeq(order, 1, Capacity) ELSE order
    IN [order |-> keep,
        val   |-> [x \in ToSet(keep) |-> IF x = k THEN v ELSE c.val[x]]]

=============================================================================
