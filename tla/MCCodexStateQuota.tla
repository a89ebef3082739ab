-------------------------- MODULE MCCodexStateQuota --------------------------
(* Small instances of CodexStateQuota for TLC. *)
EXTENDS CodexStateQuota, TLC

(* Saves are interchangeable; every run here checks safety only.           *)
SaveSymmetry == Permutations(Saves)
=============================================================================
