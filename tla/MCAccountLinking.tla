-------------------------- MODULE MCAccountLinking --------------------------
(* Small instances of AccountLinking for TLC. *)
EXTENDS AccountLinking, TLC

MCIdentities == {[site |-> "a", id |-> 1], [site |-> "b", id |-> 1]}

(* No definition names a request, a Clerk user or a bridge: rows and keys  *)
(* are chosen by what they hold.                                           *)
Symmetry == Permutations(Requests) \cup Permutations(Clerks)
=============================================================================
