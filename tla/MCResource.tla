----------------------------- MODULE MCResource -----------------------------
(* Resource for TLC: two requests, one id, one file name, and an archive  *)
(* of regular entries of two bytes.                                        *)
EXTENDS Resource

MCArchiveData == {d \in Data : Len(d) = 2}
=============================================================================
