---------------------------- MODULE MCClientTokens ----------------------------
(* Instances of ClientTokens for TLC.                                      *)
EXTENDS ClientTokens

CONSTANTS c1, c2, f1

TwoChecks == {c1, c2}
OneForcer == {f1}
=============================================================================
