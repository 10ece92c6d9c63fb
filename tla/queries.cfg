SPECIFICATION Spec
CONSTANT Scenarios <- MCScenarios
INVARIANTS BindsInPlace RowsInScope FeaturesGated NothingUnknownSent
CHECK_DEADLOCK FALSE
