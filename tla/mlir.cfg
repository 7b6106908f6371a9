SPECIFICATION Spec
CONSTANT Graphs <- MCGraphs
INVARIANTS TypeOK PlainGraphsAccepted AcceptedMeansFaithful ParametersResolve
CHECK_DEADLOCK FALSE
