----------------------------- MODULE CacheIndex ------------------------------
(***************************************************************************)
(* cache.Index of src/go/backend/index/cache/cacheindex.go: an index that  *)
(* answers from an LRU cache of key -> id entries and asks the wrapped     *)
(* index on a miss.  The wrapped index is the key -> id map of IndexSpec;  *)
(* its calls may fail with an I/O error, returning the zero id.  Calls are *)
(* sequential: the type has no lock and its callers serialise access.     *)
(* GetStateHash and Close only delegate to the wrapped index; no call     *)
(* follows Close.                                                          *)
(***************************************************************************)
EXTENDS Naturals, FiniteSets, Sequences

CONSTANTS
    Keys,         \* keys of the index
    Capacity,     \* capacity of the LRU cache
    Ops,          \* the calls the caller makes: "GetOrAdd", "Get", "Contains",
                  \* "GetStateHash", "Close"
    MaxIoErrors   \* bound on calls of the wrapped index that fail

VARIABLES
    cache,     \* the LRU cache (a value of module LRU)
    index,     \* the wrapped index: key -> id
    ret,       \* the result of the last call
    ioErrors,  \* failed wrapped calls so far
    handed,    \* <<key, id>> pairs returned by successful calls so far
    closed     \* Close was called

vars == <<cache, index, ret, ioErrors, handed, closed>>

INSTANCE LRU

Result(op, k, i, e, x) ==
    [op |-> op, key |-> k, idx |-> i, err |-> e, exists |-> x, hash |-> <<>>]

Known(k) == k \in DOMAIN index

(* The wrapped index's answers: GetOrAdd adds an unknown key under the     *)
(* next id; Get of an unknown key is ErrNotFound with the zero id.         *)
WrappedAdd(k) ==
    IF Known(k) THEN index
    ELSE [x \in DOMAIN index \cup {k} |->
            IF x = k THEN Cardinality(DOMAIN index) ELSE index[x]]
WrappedId(k) == IF Known(k) THEN index[k] ELSE Cardinality(DOMAIN index)

(* The wrapped index's state hash: its keys in the order of their ids.    *)
WrappedHash(ix) == [i \in 1 .. Cardinality(DOMAIN ix) |-> CHOOSE k \in DOMAIN ix : ix[k] = i - 1]

(* A wrapped call either succeeds or fails with an I/O error.             *)
WrappedCall(ok, fails) ==
    \/ ok /\ UNCHANGED ioErrors
    \/ ioErrors < MaxIoErrors /\ ioErrors' = ioErrors + 1 /\ fails

Hand(k, i, e) == handed' = IF e = "ok" THEN handed \cup {<<k, i>>} ELSE handed

(* Mutant of GetOrAdd: the id cached before the wrapped call assigned it. *)
GetOrAddCachesEarly(k) ==
    IF Cached(cache, k)
    THEN /\ cache' = LruGet(cache, k)
         /\ ret' = Result("GetOrAdd", k, cache.val[k], "ok", FALSE)
         /\ Hand(k, cache.val[k], "ok")
         /\ UNCHANGED <<index, ioErrors>>
    ELSE /\ cache' = LruSet(cache, k, 0)
         /\ index' = WrappedAdd(k)
         /\ ret' = Result("GetOrAdd", k, WrappedId(k), "ok", FALSE)
         /\ Hand(k, WrappedId(k), "ok")
         /\ UNCHANGED ioErrors

(* GetOrAdd: a cache hit is returned as it is; on a miss the wrapped      *)
(* index's answer is cached whether or not the call failed.                *)
GetOrAdd(k) ==
    IF Cached(cache, k)
    THEN /\ cache' = LruGet(cache, k)
         /\ ret' = Result("GetOrAdd", k, cache.val[k], "ok", FALSE)
         /\ Hand(k, cache.val[k], "ok")
         /\ UNCHANGED <<index, ioErrors>>
    ELSE WrappedCall(
           /\ index' = WrappedAdd(k)
           /\ cache' = LruSet(cache, k, WrappedId(k))
           /\ ret' = Result("GetOrAdd", k, WrappedId(k), "ok", FALSE)
           /\ Hand(k, WrappedId(k), "ok"),
           /\ cache' = LruSet(cache, k, 0)
           /\ ret' = Result("GetOrAdd", k, 0, "io", FALSE)
           /\ UNCHANGED <<index, handed>>)

(* Get: on a miss the wrapped answer is cached even when it is            *)
(* ErrNotFound or an I/O error, with the zero id.                          *)
Get(k) ==
    /\ UNCHANGED index
    /\ IF Cached(cache, k)
       THEN /\ cache' = LruGet(cache, k)
            /\ ret' = Result("Get", k, cache.val[k], "ok", FALSE)
            /\ Hand(k, cache.val[k], "ok")
            /\ UNCHANGED ioErrors
       ELSE LET i == IF Known(k) THEN index[k] ELSE 0
                e == IF Known(k) THEN "ok" ELSE "notFound"
            IN WrappedCall(
                 /\ cache' = LruSet(cache, k, i)
                 /\ ret' = Result("Get", k, i, e, FALSE)
                 /\ Hand(k, i, e),
                 /\ cache' = LruSet(cache, k, 0)
                 /\ ret' = Result("Get", k, 0, "io", FALSE)
                 /\ UNCHANGED handed)

(* Contains: `exists` is the cache's answer; on a miss the wrapped Get     *)
(* only refills the cache (unless it says ErrNotFound) and `exists` stays *)
(* false.                                                                  *)
Contains(k) ==
    /\ UNCHANGED <<index, handed>>
    /\ IF Cached(cache, k)
       THEN /\ cache' = LruGet(cache, k)
            /\ ret' = Result("Contains", k, 0, "ok", TRUE)
            /\ UNCHANGED ioErrors
       ELSE WrappedCall(
              /\ cache' = IF Known(k) THEN LruSet(cache, k, index[k]) ELSE cache
              /\ ret' = Result("Contains", k, 0, "ok", FALSE),
              /\ cache' = LruSet(cache, k, 0)
              /\ ret' = Result("Contains", k, 0, "ok", FALSE))

(* GetStateHash: the wrapped index's hash, or its error.                  *)
GetStateHash ==
    /\ UNCHANGED <<cache, index, handed>>
    /\ WrappedCall(
         ret' = [Result("GetStateHash", "none", 0, "ok", FALSE) EXCEPT !.hash = WrappedHash(index)],
         ret' = Result("GetStateHash", "none", 0, "io", FALSE))

(* Close: the wrapped index is closed; the cache is left as it is.        *)
Close ==
    /\ ~closed /\ closed' = TRUE
    /\ ret' = Result("Close", "none", 0, "ok", FALSE)
    /\ UNCHANGED <<cache, index, ioErrors, handed>>

Init ==
    /\ cache = EmptyCache
    /\ index = [k \in {} |-> 0]
    /\ ret = Result("none", "none", 0, "ok", FALSE)
    /\ ioErrors = 0
    /\ handed = {}
    /\ closed = FALSE

Next ==
    \/ ~closed /\ UNCHANGED closed
       /\ \/ \E k \in Keys :
             \/ "GetOrAdd" \in Ops /\ GetOrAdd(k)
             \/ "Get" \in Ops /\ Get(k)
             \/ "Contains" \in Ops /\ Contains(k)
          \/ "GetStateHash" \in Ops /\ GetStateHash
    \/ "Close" \in Ops /\ Close

Spec == Init /\ [][Next]_vars

-----------------------------------------------------------------------------
TypeOK ==
    /\ Len(cache.order) <= Capacity
    /\ DOMAIN cache.val = {cache.order[i] : i \in DOMAIN cache.order}
    /\ index \in [DOMAIN index -> 0 .. Cardinality(Keys)]
    /\ ioErrors \in 0 .. MaxIoErrors
    /\ closed \in BOOLEAN

(* Every cache entry of a key the wrapped index knows holds that key's id: *)
(* whatever the order of calls, evictions and failed wrapped calls, the    *)
(* cache never serves a wrong id for a known key.                          *)
CachedIdsAgree ==
    \A k \in DOMAIN cache.val : Known(k) => cache.val[k] = index[k]

(* No two keys are ever handed the same id by successful calls: an id      *)
(* identifies one key, as the callers (the state's address/key indexes)    *)
(* rely on.                                                                *)
IdsUnique ==
    \A p, q \in handed : p[1] # q[1] => p[2] # q[2]

(* Contains answers whether the wrapped index knows the key.               *)
ContainsAgrees ==
    ret.op = "Contains" => ret.exists = Known(ret.key)

(* The cached index implements IndexSpec: every call returns what the      *)
(* wrapped index alone would have returned.                                *)
Abstract == INSTANCE IndexSpec

RefinesIndex == Abstract!Spec

=============================================================================
