-------------------------- MODULE MCRelayPersistence --------------------------
(***************************************************************************)
(* Small instances of RelayPersistence for TLC.                            *)
(***************************************************************************)
EXTENDS RelayPersistence, TLC

Symmetry == Permutations(Device) \cup Permutations(BlobId) \cup Permutations(Token)
              \cup Permutations(Handler)
=============================================================================
