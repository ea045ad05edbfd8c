CONSTANT Schemas <- SmallSchemas
SPECIFICATION Spec
INVARIANTS TypeOK NamesArePaths ExtensionFields ResolvedInScope FailureHasCause
CHECK_DEADLOCK FALSE
