SPECIFICATION Spec
CONSTANT NumDevices = 2
INVARIANT WaitsForInterrupt
CHECK_DEADLOCK FALSE
\* After a failure the test stops, and on the second device it may hang.
