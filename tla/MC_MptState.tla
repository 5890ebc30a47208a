---------------------------- MODULE MC_MptState ----------------------------
EXTENDS MptState

CONSTANTS A1, A2, K1, H0, H1

MCAccounts == {A1, A2}
MCHashes == {H0, H1}

(* H0 is the empty code; H1 a contract short enough never to straddle a  *)
(* buffer refill of the reader.                                           *)
MCSmallSizes == [h \in MCHashes |-> IF h = H0 THEN 0 ELSE 300]

(* H1 a contract of 4100 bytes, longer than what is left in the 4096-byte *)
(* buffer after its 36-byte header.                                        *)
MCLargeSizes == [h \in MCHashes |-> IF h = H0 THEN 0 ELSE 4100]

=============================================================================
