----------------------------- MODULE MCHttpRelay -----------------------------
(* Model values and symmetry for the relay with its relay client. *)
EXTENDS HttpRelay, TLC

Symmetry == Permutations(Posts) \union Permutations(Polls) \union Permutations(Gets)
=============================================================================
