--------------------------- MODULE MCSigningHealth ---------------------------
(* SigningHealth for TLC: its one bound is set in the configuration. *)
EXTENDS SigningHealth
=============================================================================
