---------------------------- MODULE MCTokenStore ----------------------------
(***************************************************************************)
(* The instance of TokenStore that TLC checks: token_store.cfg makes the   *)
(* locks contended, token_timing.cfg follows the refresh token over        *)
(* several periods.  The two give different constants to this module.      *)
(***************************************************************************)
EXTENDS TokenStore

=============================================================================
