----------------------------- MODULE MCIndexer ------------------------------
(* Small instances of the indexer behind its webhook. *)
EXTENDS Indexer, MCMarket
=============================================================================
