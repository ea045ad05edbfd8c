CONSTANT Schemas <- SmallSchemas
SPECIFICATION Spec
INVARIANT MapKeysScalar
CHECK_DEADLOCK FALSE
