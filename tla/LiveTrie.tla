------------------------------ MODULE LiveTrie -------------------------------
(***************************************************************************)
(* The single-root view of the live MPT that MptState adapts (spec 4.7,    *)
(* 4.8; LiveTrie is not part of the sources modelled here).  A trie value  *)
(* maps every account to its AccountInfo and its storage slots; the node  *)
(* structure and the hashes are left out.  An account exists when its     *)
(* info is not the zero AccountInfo (spec 8, property 3).                  *)
(***************************************************************************)
CONSTANTS
    Accounts,   \* account addresses
    Keys,       \* storage slot keys
    Vals,       \* balances, nonces and slot values; 0 is the zero value
    Hashes,     \* code hashes
    NoHash      \* the zero hash of a zero AccountInfo

Info == [balance : Vals, nonce : Vals, codeHash : Hashes \cup {NoHash}]

ZeroInfo == [balance |-> 0, nonce |-> 0, codeHash |-> NoHash]

NoSlots == [k \in Keys |-> 0]

EmptyTrie == [info |-> [a \in Accounts |-> ZeroInfo],
              store |-> [a \in Accounts |-> NoSlots]]

GetAccountInfo(t, a) == t.info[a]

InfoExists(t, a) == t.info[a] # ZeroInfo

(* Writing the zero info deletes the account and its storage sub-trie.    *)
SetAccountInfo(t, a, i) ==
    IF i = ZeroInfo
    THEN [info |-> [t.info EXCEPT ![a] = ZeroInfo],
          store |-> [t.store EXCEPT ![a] = NoSlots]]
    ELSE [t EXCEPT !.info[a] = i]

ClearStorage(t, a) == [t EXCEPT !.store[a] = NoSlots]

GetValue(t, a, k) == t.store[a][k]

(* Setting a value of an account that does not exist is a no-op.          *)
SetValue(t, a, k, v) ==
    IF InfoExists(t, a) THEN [t EXCEPT !.store[a][k] = v] ELSE t

=============================================================================
