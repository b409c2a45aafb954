------------------------ MODULE MCManifestReconcile ------------------------
(* Instances of ManifestReconcile for TLC: a manifest of three groups.     *)
EXTENDS ManifestReconcile

CONSTANTS g1, g2, g3

MCGroupOrder == <<g1, g2, g3>>
MCGroupUninit == {StateUninitialized}
MCManifestTargets == {StateEmpty, StateUninitialized}
MCManifestUnset == {StateEmpty}
MCNoWrites == {}
MCGroupWrites == {"enable", "own"}
=============================================================================
