---------------------------- MODULE MCCatalogUpdates ----------------------------
(* An instance of CatalogUpdates for TLC; the cfg names its model values. *)
EXTENDS CatalogUpdates
================================================================================
