---------------------------- MODULE MCRelayServer ----------------------------
(***************************************************************************)
(* Small instances of RelayServer for TLC.                                 *)
(***************************************************************************)
EXTENDS RelayServer, TLC

Symmetry == Permutations(Device) \cup Permutations(BlobId) \cup Permutations(Handler)
=============================================================================
