SPECIFICATION Spec
PROPERTY ReadIsSignaled
\* The test ends, or both processes wait for good.
CHECK_DEADLOCK FALSE
