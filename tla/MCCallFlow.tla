----------------------------- MODULE MCCallFlow -----------------------------
(***************************************************************************)
(* Small instances of the call flow for TLC.                               *)
(***************************************************************************)
EXTENDS CallFlowInvariants, CallFlowRefinement, TLC

\* Ids are interchangeable: no definition tells one from another.
IdSymmetry == Permutations(SessionIds) \cup Permutations(CallUuids)
=============================================================================
