---------------------------- MODULE MCGitCloner -----------------------------
(***************************************************************************)
(* The instance of GitCloner that TLC checks: two repositories, each with  *)
(* any remote, with and without a token.                                   *)
(***************************************************************************)
EXTENDS GitCloner

=============================================================================
