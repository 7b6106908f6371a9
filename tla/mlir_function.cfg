SPECIFICATION Spec
CONSTANT Graphs <- MCNames
INVARIANT FunctionFound
CHECK_DEADLOCK FALSE
