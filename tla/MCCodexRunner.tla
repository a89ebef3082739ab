--------------------------- MODULE MCCodexRunner ---------------------------
EXTENDS CodexRunner, TLC

CONSTANTS r1, r2, r3, m1, x, y

Symmetry == Permutations({r1, r2, r3})

(* Chats with and without a model, with and without a schema, refinements  *)
(* and the calls around them.                                              *)
MCAsks ==
    {[kind |-> "chat", model |-> m, schema |-> s] : m \in {m1}, s \in {x, y}}
    \cup {[kind |-> "chat", model |-> None, schema |-> None],
          [kind |-> "refine", model |-> m1, schema |-> None]}
    \cup {[kind |-> k, model |-> None, schema |-> None] : k \in {"models", "logout", "sign-in"}}
=============================================================================
