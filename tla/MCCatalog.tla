----------------------------- MODULE MCCatalog -----------------------------
(* Catalog on a small instance.                                             *)
EXTENDS Catalog
=============================================================================
