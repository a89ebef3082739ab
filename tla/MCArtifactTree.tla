--------------------------- MODULE MCArtifactTree ---------------------------
(* Small instances of ArtifactTree for TLC. *)
EXTENDS ArtifactTree

HandlerSymmetry == Permutations(Handlers)
=============================================================================
