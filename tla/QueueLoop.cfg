SPECIFICATION Spec
CONSTANTS
    numCQs <- MCnumCQs
    Loops = 3
INVARIANTS QuietReadsAreQuiet ExpectedEventComes NoSignalIsLost
PROPERTIES ObservesEach Passes
