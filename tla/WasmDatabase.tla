---------------------------- MODULE WasmDatabase ----------------------------
(***************************************************************************)
(* A project's SQL store, wasm.Database (src/unnamed/part_001, 1-240).    *)
(*                                                                         *)
(* Init merges the declared Schemas into d.schemas by name ("" is        *)
(* "public", no schema at all is one "public"), initialises the endpoint, *)
(* tries CREATE DATABASE, and migrates each schema in the order Go's map  *)
(* iteration gives: the schema's tables are added to the endpoint (ep is *)
(* d.ep, a pointer, so the tables added for one schema stay for the       *)
(* next) and migration.Migrate creates the endpoint's tables in that      *)
(* schema.  A Migrate error ends Init.  WithSchema(name), which the SQL  *)
(* host imports call through WithDefaultSchema, answers for a schema of  *)
(* d.schemas after SET SEARCH_PATH succeeds.                               *)
(*                                                                         *)
(* Tables are names; a schema's tables are a set.  Each table has a     *)
(* fixed set of columns, a column being its datatype, and Table.Build,   *)
(* which Init calls on every table of a schema before migrating it,       *)
(* panics on a column whose datatype Column.Datatype has no case for (the *)
(* zero value when the JSON leaves it out).  Keys and the other column    *)
(* fields are copied by Build and are left out.                            *)
(***************************************************************************)
EXTENDS Sequences, SequencesExt, FiniteSets

CONSTANTS
    SchemaNames,    \* schema names a project may declare, "public" among them
    Tables,         \* table names
    MaxDeclared,    \* bound on the length of the declared Schemas list
    NoSchema,       \* no schema: the answer of a failed WithSchema
    TableCols       \* table name -> the datatypes of its columns

ASSUME "public" \in SchemaNames /\ "" \notin SchemaNames

Declared == [name : SchemaNames \cup {""}, tables : SUBSET Tables]

VARIABLES
    declared,   \* d.Schemas as decoded from the project's configuration
    schemas,    \* d.schemas: schema name -> its merged tables
    migrated,   \* the tables created in each schema
    phase,      \* "new", "ready", "failed" or "panicked"
    answer      \* the schema the last WithSchema call returned an executor for

vars == <<declared, schemas, migrated, phase, answer>>

TypeOK ==
    /\ declared \in Seq(Declared)
    /\ DOMAIN schemas \subseteq SchemaNames /\ \A s \in DOMAIN schemas : schemas[s] \subseteq Tables
    /\ DOMAIN migrated \subseteq SchemaNames /\ \A s \in DOMAIN migrated : migrated[s] \subseteq Tables
    /\ phase \in {"new", "ready", "failed", "panicked"}
    /\ answer \in SchemaNames \cup {NoSchema}

Init ==
    /\ declared \in UNION {[1..n -> Declared] : n \in 0..MaxDeclared}
    /\ schemas = <<>> /\ migrated = <<>>
    /\ phase = "new"
    /\ answer = NoSchema

(* Mutant of SchemaName: the empty name kept instead of "public".         *)
SchemaNameKeepEmpty(n) == n

(* The name Init and WithSchema use for a declared name: "" is "public". *)
SchemaName(n) == IF n = "" THEN "public" ELSE n

(* Mutant of MergeSchema: d.schemas[s.Name].Tables assigned, not appended. *)
MergeSchemaOverwrite(m, s) ==
    LET n == SchemaName(s.name) IN
    IF n \in DOMAIN m THEN [m EXCEPT ![n] = s.tables] ELSE m @@ (n :> s.tables)

(* One iteration of Init's merge loop: a new name gets an empty schema,   *)
(* and the declared tables are appended to it.                             *)
MergeSchema(m, s) ==
    LET n == SchemaName(s.name) IN
    IF n \in DOMAIN m THEN [m EXCEPT ![n] = @ \cup s.tables] ELSE m @@ (n :> s.tables)

(* The Schemas list after Init's default: one "public" when none is given. *)
WithDefault(ds) == IF ds = <<>> THEN <<[name |-> "public", tables |-> {}]>> ELSE ds

(* The datatypes Column.Datatype's switch has a case for.  The SQL type  *)
(* each case returns (serial or integer by AutoIncrement, varchar or text *)
(* by Length, ...) is data no state depends on; the default case panics. *)
Supported ==
    {"INT", "INT8", "UINT8", "INT16", "UINT16", "INT32", "UINT32", "UINT",
     "INT64", "UINT64", "FLOAT32", "FLOAT64", "TEXT", "BOOL", "TIMESTAMP",
     "DECIMAL", "NUMERIC"}

(* Building the tables of a schema, Table.Build calling Column.Build and *)
(* so Column.Datatype on every column, panics on some column.             *)
TableBuildPanics(tables) == \E t \in tables : \E c \in TableCols[t] : c \notin Supported

(* The migration loop over the schemas in the given order: the tables of *)
(* a schema are built and added to the endpoint, then the schema is       *)
(* migrated, and the failAt-th Migrate fails.  [ep |-> tables on the      *)
(* endpoint, done |-> the tables created per schema, out |-> "ok", "err"  *)
(* or "panic"].                                                            *)
Migrate(merged, order, failAt) ==
    FoldLeft(LAMBDA acc, j :
                 LET ep == acc.ep \cup merged[order[j]] IN
                 CASE acc.out # "ok" -> acc
                   [] TableBuildPanics(merged[order[j]]) -> [acc EXCEPT !.out = "panic"]
                   [] j = failAt -> [acc EXCEPT !.ep = ep, !.out = "err"]
                   [] OTHER -> [ep |-> ep, done |-> acc.done @@ (order[j] :> ep), out |-> "ok"],
             [ep |-> {}, done |-> <<>>, out |-> "ok"],
             [j \in 1..Len(order) |-> j])

(* Database.Init.  d.ep.Init() may fail; CREATE DATABASE may fail and is  *)
(* only logged; the failAt-th Migrate fails, or none when failAt is past  *)
(* the end; a panic in Build leaves Init without returning.               *)
DatabaseInit ==
    /\ phase = "new"
    /\ LET merged == FoldLeft(MergeSchema, <<>>, WithDefault(declared)) IN
       /\ schemas' = merged
       /\ \/ /\ phase' = "failed" /\ UNCHANGED migrated
          \/ \E order \in SetToSeqs(DOMAIN merged), failAt \in 1..(Cardinality(DOMAIN merged) + 1) :
                LET m == Migrate(merged, order, failAt) IN
                /\ migrated' = m.done
                /\ phase' = CASE m.out = "ok" -> "ready"
                              [] m.out = "err" -> "failed"
                              [] m.out = "panic" -> "panicked"
    /\ UNCHANGED <<declared, answer>>

(* WithSchema(name): "" is "public"; a name d.schemas lacks is an error;  *)
(* SET SEARCH_PATH may fail.  WithDefaultSchema is WithSchema("public").  *)
WithSchema(name) ==
    /\ phase = "ready"
    /\ \/ /\ SchemaName(name) \notin DOMAIN schemas /\ answer' = NoSchema
       \/ /\ SchemaName(name) \in DOMAIN schemas
          /\ answer' \in {SchemaName(name), NoSchema}
    /\ UNCHANGED <<declared, schemas, migrated, phase>>

Next ==
    \/ DatabaseInit
    \/ \E name \in SchemaNames \cup {""} : WithSchema(name)

Spec == Init /\ [][Next]_vars

-----------------------------------------------------------------------------
(* After a successful Init, every table a project declared exists in the  *)
(* schema it was declared for: declarations that share a name (or leave  *)
(* it empty, meaning "public") are merged, not overwritten, and every     *)
(* schema was migrated.                                                    *)
DeclaredTablesMigrated ==
    phase = "ready" =>
        \A i \in 1..Len(declared) :
            LET n == SchemaName(declared[i].name) IN
            n \in DOMAIN migrated /\ declared[i].tables \subseteq migrated[n]

(* A schema holds only the tables declared for it.  Init adds each       *)
(* schema's tables to the shared endpoint d.ep before migrating it, so a  *)
(* schema migrated later also receives the tables of every schema         *)
(* migrated before it.                                                     *)
SchemaHasOwnTables ==
    \A n \in DOMAIN migrated : migrated[n] = schemas[n]

(* Once Init has succeeded, WithDefaultSchema, which ws_get_sql_db and    *)
(* ws_set_sql_db call before every statement, finds its schema: Init     *)
(* adds "public" only when no schema at all is declared.                   *)
DefaultSchemaExists ==
    phase = "ready" => "public" \in DOMAIN schemas
=============================================================================
