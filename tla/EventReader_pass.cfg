\* After a failure the test stops, and on the second device it may hang.
SPECIFICATION Spec
CONSTANT NumDevices = 2
INVARIANTS InterruptsLoadedModule NotAnotherBuffer
PROPERTY FirstDeviceEnds
CHECK_DEADLOCK FALSE
