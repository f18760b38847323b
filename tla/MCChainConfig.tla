--------------------------- MODULE MCChainConfig ---------------------------
(* ChainConfig for TLC: uint32 scaled to 2 bits, so key 5 wraps onto 1.  *)
EXTENDS ChainConfig
=============================================================================
