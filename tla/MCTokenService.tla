---------------------------- MODULE MCTokenService ----------------------------
(* Instances of TokenService for TLC.                                      *)
EXTENDS TokenService

CONSTANTS a, rf

OneClient == {a}
=============================================================================
