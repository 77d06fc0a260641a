------------------------------ MODULE MCMarket ------------------------------
(* Small instances of the registry with its marketplace. *)
EXTENDS Sales, MCNames
=============================================================================
