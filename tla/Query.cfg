\* Conditions as the parser reads them; indexes and plans of a table with a
\* key, over every short run of statements.
CONSTANTS
    parse <- Parsed
    eval <- eval_expression
    where_columns <- extract_where_columns
    eq_value <- extract_eq_value
    MaxRowId = 2
    ColumnType <- MCTypes
    PrimaryKey = {"k"}
    NotNull = {"k"}
    Inserts <- MCInserts
    Updates <- MCUpdates
    Wheres <- MCWheres
    MaxHistory = 2
    WithIndex = {"v"}
    Samples <- MCSamples
    Manipulations <- MCManipulations
    Trees <- MCTrees
SPECIFICATION SessionSpec
INVARIANTS
    IndexAgrees
    AnswersSound
    ParsesAsWritten
    StatementsApart
    NothingIgnored
CHECK_DEADLOCK FALSE
