CONSTANTS
    BootTasks = 2
    NR_TASKS = 2
    MaxTasks = 3
    PRIORITY_MIN = 1
    PRIORITY_MAX = 3
SPECIFICATION SchedSpec
INVARIANTS TaskArrayInBounds
