----------------------------- MODULE MCOidcFlow -----------------------------
(* Bounded instances of OidcFlow for TLC.                                  *)
EXTENDS OidcFlow, TLC

=============================================================================
