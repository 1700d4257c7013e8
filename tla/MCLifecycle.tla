---------------------------- MODULE MCLifecycle -----------------------------
(* Two connections to an address and to a name; a reverse lookup may answer  *)
(* that very name, which merges rows, or a new one, which moves the row.     *)
EXTENDS Lifecycle, TLC

ConnSymmetry == Permutations(Conns)
=============================================================================
