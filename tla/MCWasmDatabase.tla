--------------------------- MODULE MCWasmDatabase ---------------------------
(* WasmDatabase for TLC: "public" and one other schema; two tables of     *)
(* known datatypes and one with a column whose datatype the JSON left     *)
(* out (the enum's zero value, UNKNOWN).                                   *)
EXTENDS WasmDatabase

CONSTANTS t1, t2, t3   \* the table names, as model values

MCSchemaNames == {"public", "app"}

MCColumns == (t1 :> {"UINT"}) @@ (t2 :> {"NUMERIC", "TEXT"}) @@ (t3 :> {"UNKNOWN"})

MCTableCols == [t \in Tables |-> MCColumns[t]]
=============================================================================
