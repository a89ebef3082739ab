----------------------------- MODULE MCRunStore -----------------------------
(* Small instances of RunStore for TLC: the constants are sets of model    *)
(* values, given in the configurations.                                    *)
EXTENDS RunStore
=============================================================================
