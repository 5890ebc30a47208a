------------------------------ MODULE IndexSpec ------------------------------
(***************************************************************************)
(* What an index promises its callers (index.Index in the Go code, spec.md *)
(* 7): GetOrAdd hands out the key's id, assigning the next free id to a    *)
(* new key; Get returns the id of a known key and ErrNotFound (with the    *)
(* zero id) otherwise; Contains tells whether the key is known;           *)
(* GetStateHash commits to the keys in the order of their ids; after Close *)
(* no call is made.                                                        *)
(***************************************************************************)
EXTENDS Naturals, FiniteSets

CONSTANT Keys

VARIABLES
    index,   \* the key -> id mapping
    ret,     \* the result of the last call
    closed   \* Close was called

vars == <<index, ret, closed>>

Result(op, k, i, e, x) ==
    [op |-> op, key |-> k, idx |-> i, err |-> e, exists |-> x, hash |-> <<>>]

NoCall == Result("none", "none", 0, "ok", FALSE)

(* The state hash: the keys in the order of their ids.                    *)
StateHash(ix) == [i \in 1 .. Cardinality(DOMAIN ix) |-> CHOOSE k \in DOMAIN ix : ix[k] = i - 1]

Known(k) == k \in DOMAIN index

Init ==
    /\ index = [k \in {} |-> 0]
    /\ ret = NoCall
    /\ closed = FALSE

GetOrAdd(k) ==
    IF Known(k)
    THEN /\ ret' = Result("GetOrAdd", k, index[k], "ok", FALSE)
         /\ UNCHANGED index
    ELSE LET id == Cardinality(DOMAIN index) IN
         /\ index' = [x \in DOMAIN index \cup {k} |-> IF x = k THEN id ELSE index[x]]
         /\ ret' = Result("GetOrAdd", k, id, "ok", FALSE)

Get(k) ==
    /\ ret' = IF Known(k) THEN Result("Get", k, index[k], "ok", FALSE)
                          ELSE Result("Get", k, 0, "notFound", FALSE)
    /\ UNCHANGED index

Contains(k) ==
    /\ ret' = Result("Contains", k, 0, "ok", Known(k))
    /\ UNCHANGED index

GetStateHash ==
    /\ ret' = [Result("GetStateHash", "none", 0, "ok", FALSE) EXCEPT !.hash = StateHash(index)]
    /\ UNCHANGED index

Close ==
    /\ ~closed /\ closed' = TRUE
    /\ ret' = Result("Close", "none", 0, "ok", FALSE)
    /\ UNCHANGED index

Next ==
    \/ ~closed /\ UNCHANGED closed
       /\ \/ \E k \in Keys : GetOrAdd(k) \/ Get(k) \/ Contains(k)
          \/ GetStateHash
    \/ Close

Spec == Init /\ [][Next]_vars

=============================================================================
