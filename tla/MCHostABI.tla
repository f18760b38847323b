----------------------------- MODULE MCHostABI -----------------------------
(* HostABI for TLC: two resource ids, one key, two payloads.              *)
EXTENDS HostABI

MCRids == {0, 1}
=============================================================================
