----------------------------- MODULE MCResolver -----------------------------
(* Small instances of the resolver over a changing registry. *)
EXTENDS Resolver, MCNames
=============================================================================
