\* Up to two declared schemas, every migration order and failure point.
CONSTANTS
    SchemaNames <- MCSchemaNames
    Tables = {t1, t2}
    MaxDeclared = 2
    NoSchema = NoSchema
    t1 = t1
    t2 = t2
    t3 = t3
    TableCols <- MCTableCols
SPECIFICATION Spec
INVARIANT SchemaHasOwnTables
CHECK_DEADLOCK FALSE
