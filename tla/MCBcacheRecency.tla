-------------------------- MODULE MCBcacheRecency ---------------------------
(***************************************************************************)
(* The instances of MCBcache, for BcacheRecency.                           *)
(***************************************************************************)
EXTENDS BcacheRecency, MCBcache
=============================================================================
