----------------------------- MODULE MCLifecycle -----------------------------
(* Small instances of Lifecycle for TLC: two or three runs of `install`.   *)
EXTENDS Lifecycle, TLC, FiniteSets

CONSTANTS p1, p2

\* Two sets of parameters, of two versions of the chaincodes.
MCVersionOf == [p \in Params |-> IF p = p1 THEN "v1" ELSE "v2"]

\* MAJORITY of the peer orgs (Channel/Application/LifecycleEndorsement).
MCMajority == {Q \in SUBSET Orgs : 2 * Cardinality(Q) > NumOrgs}

RunSymmetry == Permutations(Runs)
=============================================================================
