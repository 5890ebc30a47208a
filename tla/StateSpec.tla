----------------------------- MODULE StateSpec ------------------------------
(***************************************************************************)
(* What the live state promises its callers (spec 4.8 and 5): account-     *)
(* centric writes with the creation-through-update policy, and "after      *)
(* Flush returns, every write that completed before it is durable": a      *)
(* restart shows the world as of the last completed Flush.                 *)
(***************************************************************************)
CONSTANTS
    Accounts, Keys,
    Vals,       \* balances, nonces and slot values; 0 is the zero value
    Codes,      \* contract codes, named by their hash
    EmptyCode   \* the empty code

VARIABLES
    world,      \* what the getters report for every account
    saved       \* the world as of the last completed Flush

vars == <<world, saved>>

NoSlots == [k \in Keys |-> 0]

NoAccount == [exists |-> FALSE, balance |-> 0, nonce |-> 0,
              code |-> EmptyCode, storage |-> NoSlots]

Init ==
    /\ world = [a \in Accounts |-> NoAccount]
    /\ saved = world

Write(a, acct) == world' = [world EXCEPT ![a] = acct] /\ UNCHANGED saved

(* An existing account keeps everything but its storage.                   *)
CreateAccount(a) ==
    Write(a, IF world[a].exists THEN [world[a] EXCEPT !.storage = NoSlots]
             ELSE [NoAccount EXCEPT !.exists = TRUE])

DeleteAccount(a) == Write(a, NoAccount)

(* A changed balance or nonce brings an account into existence.            *)
SetField(a, f, v) ==
    Write(a, IF world[a][f] = v THEN world[a]
             ELSE [world[a] EXCEPT ![f] = v, !.exists = TRUE])

(* Empty code on an account that does not exist is a no-op.               *)
SetCode(a, c) ==
    Write(a, IF ~world[a].exists /\ c = EmptyCode THEN world[a]
             ELSE [world[a] EXCEPT !.code = c, !.exists = TRUE])

SetStorage(a, k, v) ==
    Write(a, IF world[a].exists THEN [world[a] EXCEPT !.storage[k] = v]
             ELSE world[a])

Flush == saved' = world /\ UNCHANGED world

Restart == world' = saved /\ UNCHANGED saved

Next ==
    \/ Flush \/ Restart
    \/ \E a \in Accounts :
         \/ CreateAccount(a) \/ DeleteAccount(a)
         \/ \E f \in {"balance", "nonce"}, v \in Vals : SetField(a, f, v)
         \/ \E c \in Codes : SetCode(a, c)
         \/ \E k \in Keys, v \in Vals : SetStorage(a, k, v)

Spec == Init /\ [][Next]_vars

=============================================================================
