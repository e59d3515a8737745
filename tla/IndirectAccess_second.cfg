\* The comment at the barrier, checked in the second test case.
CONSTANTS
    Threads = {t1, t2}
    NoThread = NoThread
    thread_iters = 1
    Nodes = 1
    Tests = 2
    Faulty = {}
SPECIFICATION Spec
INVARIANT FreeAfterAllDone
