\* Up to two declared schemas over three tables, one with a column of no
\* known datatype; every migration order and failure point.
CONSTANTS
    SchemaNames <- MCSchemaNames
    Tables = {t1, t2, t3}
    MaxDeclared = 2
    NoSchema = NoSchema
    t1 = t1
    t2 = t2
    t3 = t3
    TableCols <- MCTableCols
SPECIFICATION Spec
INVARIANT TypeOK
INVARIANT DeclaredTablesMigrated
CHECK_DEADLOCK FALSE
