-------------------------- MODULE MCDispatchQueue --------------------------
(* Two request ids, one subject, up to two leader calls and two hooks.     *)
EXTENDS DispatchQueue, TLC

CONSTANTS r1, r2, k1, c1, c2, h1, h2

Symmetric == Permutations({r1, r2}) \cup Permutations({c1, c2}) \cup Permutations({h1, h2})
=============================================================================
