----------------------------- MODULE MCAccountData -----------------------------
(***************************************************************************)
(* Small instances of AccountData for TLC.                                  *)
(***************************************************************************)
EXTENDS AccountData, TLC

ErasureOps == {"bootstrap", "logout", "erase", "create"}
RetentionOps == {"bootstrap", "logout", "create", "read", "get", "metrics"}
ItemRunOps == {"bootstrap", "create", "replace", "delete", "erase"}

\* Identifiers are only compared, so any permutation of them is a symmetry.
Symmetry ==
    Permutations(Users) \cup Permutations(Requests) \cup Permutations(Bodies)
=============================================================================
