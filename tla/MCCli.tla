------------------------------- MODULE MCCli --------------------------------
(* A small instance of Cli for TLC. *)
EXTENDS Cli, TLC

ProcessSymmetry == Permutations(Processes)
=============================================================================
