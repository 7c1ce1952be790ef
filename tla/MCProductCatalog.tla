--------------------------- MODULE MCProductCatalog ---------------------------
(* The instance of ProductCatalog for TLC is given by constants alone.     *)
EXTENDS ProductCatalog, TLC
=============================================================================
