--------------------------- MODULE ArchiveHistory ---------------------------
(***************************************************************************)
(* What the archive promises (spec.md 4.9): a record of per-block updates  *)
(* that, read at any block height x, shows the world state reached by      *)
(* applying every update of a block <= x in block order.  Blocks are added *)
(* with strictly increasing numbers.  Deleting or (re-)creating an account *)
(* invalidates its storage slots; balance, nonce and code keep their last  *)
(* written value (the archive tracks them independently of existence).     *)
(***************************************************************************)
EXTENDS Integers

CONSTANTS
    Accounts,   \* account addresses
    Keys,       \* storage slot keys
    Fields,     \* the per-account scalar properties: balance, nonce, code
    Vals,       \* values a field or a slot can be set to
    Zero,       \* the value reported for anything never written
    MaxBlock,   \* highest block number of the model
    Updates     \* the block updates the environment may add

VARIABLES
    last,       \* the newest block added, -1 if none
    snap        \* snap[x]: the world state visible when reading at block x

vars == <<last, snap>>

Heights == 0 .. MaxBlock

World == [exists  : [Accounts -> BOOLEAN],
          field   : [Fields -> [Accounts -> Vals \cup {Zero}]],
          storage : [Accounts -> [Keys -> Vals \cup {Zero}]]]

EmptyWorld == [exists  |-> [a \in Accounts |-> FALSE],
               field   |-> [f \in Fields |-> [a \in Accounts |-> Zero]],
               storage |-> [a \in Accounts |-> [k \in Keys |-> Zero]]]

(* The world after applying update u to w: deletions, then creations, then *)
(* field and slot writes, the order in which an update takes effect.       *)
Apply(w, u) ==
    LET reset  == u.deleted \cup u.created
        FieldOf(f, a, old) ==
            IF \E t \in u.fields : t[1] = f /\ t[2] = a
            THEN (CHOOSE t \in u.fields : t[1] = f /\ t[2] = a)[3] ELSE old
        SlotOf(a, k, old) ==
            IF \E t \in u.storage : t[1] = a /\ t[2] = k
            THEN (CHOOSE t \in u.storage : t[1] = a /\ t[2] = k)[3]
            ELSE IF a \in reset THEN Zero ELSE old
    IN [exists  |-> [a \in Accounts |->
                       IF a \in u.created THEN TRUE
                       ELSE IF a \in u.deleted THEN FALSE ELSE w.exists[a]],
        field   |-> [f \in Fields |-> [a \in Accounts |->
                       FieldOf(f, a, w.field[f][a])]],
        storage |-> [a \in Accounts |-> [k \in Keys |->
                       SlotOf(a, k, w.storage[a][k])]]]

TypeOK ==
    /\ last \in Heights \cup {-1}
    /\ snap \in [Heights -> World]

Init ==
    /\ last = -1
    /\ snap = [x \in Heights |-> EmptyWorld]

(* Block b, newer than every block so far, becomes visible at every height *)
(* from b on; what is visible below b is untouched.                        *)
Add(b, u) ==
    /\ b > last
    /\ last' = b
    /\ snap' = [x \in Heights |-> IF x < b THEN snap[x] ELSE Apply(snap[b], u)]

Next == \E b \in Heights, u \in Updates : Add(b, u)

Spec == Init /\ [][Next]_vars

=============================================================================
