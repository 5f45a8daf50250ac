------------------------------ MODULE MCCatalog ------------------------------
(***************************************************************************)
(* A spreadsheet of one product, made of one ingredient.  Machines and     *)
(* resources are created by requests.                                      *)
(***************************************************************************)
EXTENDS Catalog, TLC

Bread      == <<"product", "ingredient">>
RequestIds == Permutations(Requests)
=============================================================================
