----------------------------- MODULE MCRegistry -----------------------------
(* Two ids for three instances: enough for AddInstance to draw an id that  *)
(* is already taken.                                                       *)
EXTENDS Registry
=============================================================================
