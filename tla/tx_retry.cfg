CONSTANT Policies = {0, 1, 3}
SPECIFICATION RetrySpec
CHECK_DEADLOCK FALSE
INVARIANTS AppliedAtMostOnce OutcomeIsHonest ConnectionReturned
PROPERTY Returns
