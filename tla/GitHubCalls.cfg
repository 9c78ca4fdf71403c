CONSTANTS
 Burst = 2
 Cost = 2
 MaxLate = 1
 MaxElapse = 1
 MaxFaulty = 3
 MaxAttempts = 3
 BaseDelay = 1
 MaxDelay = 3
 MaxCalls = 2
 MaxTime = 2
SPECIFICATION Spec
INVARIANTS RateRespected WritesAccounted ReviewTruthful GaveUpExhausted
PROPERTIES WaitsOnlyOverTheRate AttemptsSpaced EveryCallAnswered
CHECK_DEADLOCK FALSE
