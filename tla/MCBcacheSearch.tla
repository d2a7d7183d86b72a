--------------------------- MODULE MCBcacheSearch ---------------------------
(***************************************************************************)
(* The instances of MCBcache, for BcacheSearch.                            *)
(***************************************************************************)
EXTENDS BcacheSearch, MCBcache
=============================================================================
