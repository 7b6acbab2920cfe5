CONSTANT N = 3
SPECIFICATION Spec
INVARIANT SuccessMeansExported
CHECK_DEADLOCK FALSE
