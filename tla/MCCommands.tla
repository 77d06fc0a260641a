----------------------------- MODULE MCCommands -----------------------------
(* Small instances of the CLI against the registry and its marketplace. *)
EXTENDS Commands, MCMarket
=============================================================================
