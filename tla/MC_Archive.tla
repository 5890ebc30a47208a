----------------------------- MODULE MC_Archive -----------------------------
(* Model values for Archive: two accounts, one slot, three blocks and the  *)
(* updates the live state produces: creations with a balance and a slot,   *)
(* slot and nonce writes, deletion, re-creation with code, and a balance   *)
(* set on an account never created (implicit creation through SetBalance). *)
EXTENDS Archive

CONSTANTS K1, W1, W2

U(del, cre, fs, st) == [deleted |-> del, created |-> cre, fields |-> fs, storage |-> st]

MCUpdates ==
    { U({}, {1}, {<<"balance", 1, 1>>}, {<<1, K1, 1>>}),
      U({}, {}, {<<"nonce", 1, 1>>}, {<<1, K1, 2>>}),
      U({1}, {}, {}, {}),
      U({}, {1}, {<<"code", 1, 2>>}, {}),
      U({}, {}, {<<"balance", 2, 2>>}, {}),
      U({}, {}, {}, {<<2, K1, 1>>}),
      U({2}, {}, {}, {}) }

MCKeys == {K1}
MCWritersOne == {W1}
MCWritersTwo == {W1, W2}
=============================================================================
