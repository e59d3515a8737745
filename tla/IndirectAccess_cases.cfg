\* Both test cases, one after the other, on the same globals; one thread's
\* kernel may compute wrongly, and the threads it leaves at the barrier then
\* wait for ever.
CONSTANTS
    Threads = {t1, t2, t3}
    NoThread = NoThread
    thread_iters = 2
    Nodes = 2
    Tests = 2
    Faulty = {t1}
SPECIFICATION Spec
INVARIANTS FirstCaseFreesAfterAllDone NoLostWakeup
PROPERTY AllCasesEnd
CHECK_DEADLOCK FALSE
