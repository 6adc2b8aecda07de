------------------------------- MODULE Rounds -------------------------------
(***************************************************************************)
(* What the scheduler promises: the tasks run in rounds.  In a round every *)
(* task gets one slice of the hart, in some order, and no task gets a      *)
(* second slice before all the others have had theirs; a task forked       *)
(* during a round still gets a slice in it.  Nothing here mentions ticks,  *)
(* counters or priorities.                                                 *)
(***************************************************************************)
EXTENDS Integers

CONSTANTS
    BootTasks,  \* tasks the boot code creates, the idle task (0) included
    MaxTasks    \* bound on the tasks ever created

VARIABLES
    nr_tasks,   \* tasks that exist: 0 .. nr_tasks-1
    running,    \* the task that has the hart, 0 before the first round
    waiting     \* the tasks that have not had their slice of this round

vars == <<nr_tasks, running, waiting>>

UserTasks == 1 .. nr_tasks - 1

Init ==
    /\ nr_tasks = BootTasks
    /\ running = 0
    /\ waiting = {}

\* The slice of the running task is over: the hart goes to a waiting task.
NextSlice(t) ==
    /\ t \in waiting
    /\ running' = t
    /\ waiting' = waiting \ {t}
    /\ UNCHANGED nr_tasks

\* Nobody is waiting: a new round starts with t.
NewRound(t) ==
    /\ waiting = {}
    /\ running' = t
    /\ waiting' = UserTasks \ {t}
    /\ UNCHANGED nr_tasks

\* The running task forks; the child waits for a slice of this round.
Fork ==
    /\ running # 0
    /\ nr_tasks < MaxTasks
    /\ nr_tasks' = nr_tasks + 1
    /\ waiting' = waiting \cup {nr_tasks}
    /\ UNCHANGED running

Next ==
    \/ \E t \in UserTasks : NextSlice(t) \/ NewRound(t)
    \/ Fork

Spec == Init /\ [][Next]_vars
=============================================================================
