------------------------------ MODULE MCConfig ------------------------------
(* Config for TLC: one well-formed and one malformed address.             *)
EXTENDS Config
=============================================================================
