--------------------------- MODULE MCLocalOutputs ---------------------------
(***************************************************************************)
(* LocalOutputs for a checkout with a manifest, a compose env and one      *)
(* generated file with its sidecar, prepared from two versions.            *)
(***************************************************************************)
EXTENDS LocalOutputs, TLC

CONSTANTS p1, p2, v1, v2

MCPlan == <<"manifest", "composeEnv", "generated", "sidecar">>

MCSymmetry == Permutations(Procs) \cup Permutations(Versions)
=============================================================================
