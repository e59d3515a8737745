\* A child that copied the segment too early may wait for ever.
SPECIFICATION Spec
CONSTANTS
    Tests <- AllTests
    MaxRuns = 2
    MaxConnects = 2
    MaxOpens = 3
INVARIANTS ReadsThisRequest PassedMeansCrossed FailsOnlyForCause
PROPERTY EveryTestEnds
CHECK_DEADLOCK FALSE
