---------------------------- MODULE MCMasterVNID ----------------------------
(* Model-checking instance of MasterVNID: two tenant namespaces and the   *)
(* admin namespace, VNIDs 1..2 (enough for both tenants to be isolated,   *)
(* so AllocateNext fails only when an id leaks).                           *)
EXTENDS MasterVNID, TLC

CONSTANTS n1, n2, adm

MCNamespaces == {n1, n2, adm}
MCAdminNamespaces == {adm}

\* n1 and n2 play the same role; adm does not.
TenantSymmetry == Permutations({n1, n2})
=============================================================================
