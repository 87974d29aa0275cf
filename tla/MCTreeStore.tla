----------------------------- MODULE MCTreeStore -----------------------------
(***************************************************************************)
(* A work-map that overrides a built-in, one editor who retries and one    *)
(* who may walk away at any point.                                         *)
(***************************************************************************)
EXTENDS TreeStore

CONSTANTS d1, d2
=============================================================================
