SPECIFICATION Spec
CONSTANT Scenarios <- LockScenarios
INVARIANT RefusedWithin
CHECK_DEADLOCK FALSE
