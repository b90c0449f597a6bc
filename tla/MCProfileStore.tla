--------------------------- MODULE MCProfileStore ---------------------------
(***************************************************************************)
(* A small instance of ProfileStore for TLC: two calls that overlap in any  *)
(* way, two accounts and two profiles.  Calls and what a person enters are  *)
(* only compared.                                                          *)
(***************************************************************************)
EXTENDS ProfileStore, TLC

Symmetry == Permutations(Calls) \cup Permutations(Bodies)
=============================================================================
