----------------------------- MODULE MCCatalogMeta -----------------------------
(* An instance of CatalogMeta for TLC. *)
EXTENDS CatalogMeta, TLC

CONSTANTS q1, q2, good, better, broken

==================================================================================
