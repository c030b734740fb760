SPECIFICATION Spec
CONSTANTS
    NPROC = 3
    NSEM = 1
    QUANTUM = 1
    INITPRIO = 1
    Prios = {1, 2}
    Delays = {2}
    Waits = {0, 1}
    Counts = {0, 1}
    Signals = {1, 2}
    MaxCount = 1
    MaxChprio = 1
CHECK_DEADLOCK FALSE
INVARIANTS QueuesAgree HighestRuns WakeOnTime CallsResume
