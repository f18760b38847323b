----------------------------- MODULE MCErrorSet -----------------------------
(* ErrorSet for TLC.                                                        *)
EXTENDS ErrorSet

LiteralForms == {"literal"}
AllForms == {"literal", "spare"}
=============================================================================
