----------------------------- MODULE MCPipeRefs -----------------------------
(* PipeRefs on small instances: environments are interchangeable.          *)
EXTENDS PipeRefs, TLC

Symmetry == Permutations(Env)
=============================================================================
