CONSTANTS
    BootTasks = 3
    NR_TASKS = 5
    MaxTasks = 5
    PRIORITY_MIN = 1
    PRIORITY_MAX = 3
SPECIFICATION SchedSpec
INVARIANTS SchedTypeOK RunningHasQuantum SlicesWhole
PROPERTIES LongestFirst RoundsSpec EveryTaskRuns
