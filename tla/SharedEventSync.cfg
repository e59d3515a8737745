\* Three threads (without symmetry, which is unsound for the liveness
\* property); a stop before the end is a violation of AllThreadsFinish.
CONSTANTS
    Threads = {t1, t2, t3}
    num_events = 4
    num_iterations = 2
    NoThread = NoThread
SPECIFICATION Spec
INVARIANTS ResetAlone NoLateSignal QueryFindsSignal NoStaleSignal
PROPERTY AllThreadsFinish
CHECK_DEADLOCK FALSE
