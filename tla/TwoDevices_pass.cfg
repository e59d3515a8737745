SPECIFICATION Spec
INVARIANTS AddressesKeptApart
PROPERTY EndsUnlessLostOrStopped
\* The test ends, or both processes wait for good.
CHECK_DEADLOCK FALSE
