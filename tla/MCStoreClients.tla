--------------------------- MODULE MCStoreClients ---------------------------
(***************************************************************************)
(* Small instances of the store and its clients.                           *)
(***************************************************************************)
EXTENDS StoreClients, TLC

\* Ids are interchangeable: no definition tells one from another.
IdSymmetry == Permutations(SessionIds) \cup Permutations(CallUuids)
=============================================================================
