\* After a write past the vector nothing more is said of the program.
SPECIFICATION Spec
CONSTANTS
    Handles = {e1, e2, e3, e4}
    NullEvent = null
    Counts <- MCCounts
    DefaultCount = 2
    Moduli <- MCModuli
    Word = 8
SYMMETRY Symmetry
INVARIANTS NoIndexIsShared OverrunOnlyWhenFull MeasuredIsElapsed
CHECK_DEADLOCK FALSE
