------------------------------- MODULE MCPmap -------------------------------
(* Pmap on small instances: pages are interchangeable, and so are slots.    *)
EXTENDS Pmap, TLC

Symmetry == Permutations(Page) \cup Permutations(Space)
=============================================================================
