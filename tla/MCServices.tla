----------------------------- MODULE MCServices -----------------------------
(***************************************************************************)
(* Services with two TaskStats calls for TLC.                              *)
(***************************************************************************)
EXTENDS Services

CONSTANTS c1, c2
=============================================================================
