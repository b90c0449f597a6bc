----------------------------- MODULE MCCatalogCache -----------------------------
(***************************************************************************)
(* Small instances of CatalogCache for TLC: two months, and catalogues of   *)
(* up to two products a month, so that a month may be empty, may come in a   *)
(* new order, and may need two pages.                                       *)
(***************************************************************************)
EXTENDS CatalogCache

Nothing == <<<<>>, <<>>>>
Old == <<<<"p", "q">>, <<>>>>
New == <<<<"q", "p">>, <<"n">>>>
MCCatalogues == {Nothing, Old, New}
=============================================================================
