------------------------------- MODULE Sched -------------------------------
(***************************************************************************)
(* The scheduler: do_timer, schedule and switch_to of                      *)
(* arch/riscv/kernel/proc.c, the timer path of trap.c and clock.c, and the *)
(* parts of task_init and do_fork that set the scheduling fields.          *)
(*                                                                         *)
(* The hart takes interrupts in user mode only: sstatus.SIE is never set   *)
(* in the kernel, so a trap handler is one action.  The one system call    *)
(* that can last is a read from the console, which polls the firmware      *)
(* inside the kernel until a byte arrives.                                 *)
(***************************************************************************)
EXTENDS Integers, FiniteSets

CONSTANTS
    BootTasks,      \* tasks task_init creates (its up_limit), idle (0) included
    NR_TASKS,       \* length of the array task[]
    MaxTasks,       \* bound on the tasks ever created (do_fork has none)
    PRIORITY_MIN,
    PRIORITY_MAX

ASSUME SchedAssumption ==
    /\ {BootTasks, NR_TASKS, MaxTasks, PRIORITY_MIN, PRIORITY_MAX} \subseteq Nat
    /\ 1 < BootTasks /\ BootTasks <= NR_TASKS /\ BootTasks <= MaxTasks
    /\ 0 < PRIORITY_MIN /\ PRIORITY_MIN <= PRIORITY_MAX

VARIABLES
    nr_tasks,   \* task[0 .. nr_tasks-1] are in use
    current,    \* the running task, 0 is idle
    counter,    \* task_struct.counter: ticks left in this round
    priority,   \* task_struct.priority
    timer,      \* the SBI timer: armed, or expired with the interrupt pending
    mode,       \* what the hart does: "boot", "user", "read" in the kernel, or
                \* "halted" in the loop of Err
    born        \* history: the tasks forked in this round

schedVars == <<nr_tasks, current, counter, priority, timer, mode, born>>

TaskIds   == 0 .. MaxTasks - 1
UserTasks == 1 .. nr_tasks - 1

SchedTypeOK ==
    /\ nr_tasks \in BootTasks .. MaxTasks
    /\ current \in 0 .. nr_tasks - 1
    /\ counter \in [TaskIds -> 0 .. PRIORITY_MAX]
    /\ priority \in [TaskIds -> 0 .. PRIORITY_MAX]
    /\ timer \in {"armed", "pending"}
    /\ mode \in {"boot", "user", "read", "halted"}
    /\ born \subseteq TaskIds

\* task_init, up to the call of start_kernel, with the first timer event set
\* by head.S.  rand() gives every task a priority in the range.
SchedInit ==
    /\ nr_tasks = BootTasks
    /\ current = 0
    /\ counter = [t \in TaskIds |-> 0]
    /\ priority \in {p \in [TaskIds -> 0 .. PRIORITY_MAX] :
                        \A t \in TaskIds :
                            IF t \in UserTasks THEN p[t] >= PRIORITY_MIN
                            ELSE p[t] = 0}
    /\ timer = "armed"
    /\ mode = "boot"
    /\ born = {}

-----------------------------------------------------------------------------
(* schedule                                                                *)

\* Mutant: the counters are refilled when a task waits with one tick left.
EagerExhausted(c) == \A t \in UserTasks : c[t] <= 1

\* No task has a tick left.
Exhausted(c) == \A t \in UserTasks : c[t] = 0

\* The counters after the refill, if there is one.
Refilled(c) ==
    IF Exhausted(c)
    THEN [t \in TaskIds |-> IF t \in UserTasks THEN priority[t] ELSE c[t]]
    ELSE c

\* Mutant: the loop stops at the first task that has a tick left.
FirstRunnable(c) == {t \in UserTasks : c[t] > 0 /\ \A u \in 1 .. t - 1 : c[u] = 0}

\* The task with most ticks; the first of them, since the loop goes on while
\* task[i]->counter <= next->counter.
Best(c) ==
    {t \in UserTasks : \A u \in UserTasks :
        c[u] < c[t] \/ (c[u] = c[t] /\ t <= u)}

\* switch_to does nothing when the best task is the running one.
schedule(c) ==
    /\ counter' = Refilled(c)
    /\ born' = IF Exhausted(c) THEN {} ELSE born
    /\ \E t \in Best(Refilled(c)) : current' = t

-----------------------------------------------------------------------------
(* do_timer                                                                *)

\* Mutant: a tick is charged twice.
ChargedTwice == [counter EXCEPT ![current] = @ - 2]

\* The counters after the tick has been charged to the running task.
Charged ==
    IF current = 0 \/ counter[current] = 0
    THEN counter
    ELSE [counter EXCEPT ![current] = @ - 1]

\* Mutant: the counter that has just reached zero is not looked at.
WasOver == current = 0 \/ counter[current] = 0

\* Mutant: the task is preempted at every tick.
AlwaysOver == TRUE

SliceOver == current = 0 \/ Charged[current] = 0

do_timer ==
    IF SliceOver
    THEN schedule(Charged)
    ELSE counter' = Charged /\ UNCHANGED <<current, born>>

-----------------------------------------------------------------------------
(* Steps of the hart.                                                      *)

\* start_kernel: the boot code schedules the first task and never runs again.
StartKernel ==
    /\ mode = "boot"
    /\ schedule(counter)
    /\ mode' = "user"
    /\ UNCHANGED <<nr_tasks, priority, timer>>

\* TIMECLOCK cycles after it was set the timer expires (hardware).
TimerExpires ==
    /\ timer = "armed"
    /\ timer' = "pending"
    /\ UNCHANGED <<nr_tasks, current, counter, priority, mode, born>>

\* Mutant: clock_set_next_event is left out of the handler.
NotRearmed == UNCHANGED timer

\* sbi_set_timer clears the pending interrupt and sets the next event.
clock_set_next_event == timer' = "armed"

\* trap_handler for a timer interrupt.
TimerInterrupt ==
    /\ mode = "user"
    /\ timer = "pending"
    /\ clock_set_next_event
    /\ do_timer
    /\ UNCHANGED <<nr_tasks, priority, mode>>

\* The program executes its next instruction; a pending interrupt goes first.
UserStep == mode = "user" /\ timer # "pending"

\* sys_read on the console: stdin_read polls with interrupts off.
ReadConsole ==
    /\ UserStep
    /\ mode' = "read"
    /\ UNCHANGED <<nr_tasks, current, counter, priority, timer, born>>

\* The bytes have arrived and the system call returns.
ReadReturns ==
    /\ mode = "read"
    /\ mode' = "user"
    /\ UNCHANGED <<nr_tasks, current, counter, priority, timer, born>>

\* A bad access or an unknown system call ends in Err, which loops for ever
\* with interrupts off: one faulty program stops the machine.
Panic ==
    /\ UserStep
    /\ mode' = "halted"
    /\ UNCHANGED <<nr_tasks, current, counter, priority, timer, born>>

Halted == mode = "halted" /\ UNCHANGED schedVars

\* What do_fork copies from the parent's task_struct into the child's.
ChildQuantum == counter[current]

\* do_fork: the child inherits priority and counter with the task_struct.
Fork ==
    /\ UserStep
    /\ nr_tasks < MaxTasks
    /\ nr_tasks' = nr_tasks + 1
    /\ counter' = [counter EXCEPT ![nr_tasks] = ChildQuantum]
    /\ priority' = [priority EXCEPT ![nr_tasks] = priority[current]]
    /\ born' = born \cup {nr_tasks}
    /\ UNCHANGED <<current, timer, mode>>

SchedNext ==
    \/ StartKernel
    \/ TimerExpires
    \/ TimerInterrupt
    \/ ReadConsole
    \/ ReadReturns
    \/ Fork
    \/ Panic
    \/ Halted

\* The boot code runs on, the timer expires, a pending interrupt is taken in
\* user mode.  That a read returns is an assumption about the user at the
\* console.
Fairness ==
    /\ WF_schedVars(StartKernel)
    /\ WF_schedVars(TimerExpires)
    /\ WF_schedVars(TimerInterrupt)
    /\ WF_schedVars(ReadReturns)

SchedSpec == SchedInit /\ [][SchedNext]_schedVars /\ Fairness

-----------------------------------------------------------------------------
(* Properties.                                                             *)

\* Once the kernel has started, the running task is a user task with ticks
\* left: do_timer never finds idle running or a counter that is already zero,
\* schedule() always finds a task, and the idle task never runs again.
RunningHasQuantum ==
    mode # "boot" => current \in UserTasks /\ counter[current] > 0

\* A task that is not running has either its whole slice of the round before
\* it or none of it (a task forked in this round has what its parent had):
\* slices are never interrupted and are as long as the priority says.
SlicesWhole ==
    \A t \in UserTasks \ (born \cup {current}) : counter[t] \in {0, priority[t]}

\* The next task is the one with the longest slice left, so within a round
\* slices never get longer.
LongestFirst ==
    [][current' # current =>
         \A t \in UserTasks : counter'[t] <= counter'[current']]_schedVars

\* The inductive invariant: the properties above, and what the boot state and
\* the range of the priorities add to them.
SchedInv ==
    /\ SchedTypeOK
    /\ RunningHasQuantum
    /\ SlicesWhole
    /\ \A t \in UserTasks : priority[t] >= PRIORITY_MIN
    /\ born \subseteq UserTasks
    /\ mode = "boot" => current = 0 /\ Exhausted(counter)

Waiting == {t \in UserTasks : counter[t] > 0} \ {current}

Round == INSTANCE Rounds WITH running <- current, waiting <- Waiting

\* Every task gets one slice per round, a forked one included.
RoundsSpec == Round!Spec

\* No task starves: a task that exists executes instructions again, whatever
\* the others do, unless one of them makes the kernel stop in Err.  (They may
\* fork and read from the console, and then the whole machine waits until the
\* read returns.)
EveryTaskRuns ==
    \A t \in TaskIds \ {0} :
        [](t < nr_tasks => <>(mode = "halted" \/ (current = t /\ UserStep)))

\* task[] "holds all the threads" (the comment on its declaration): do_fork
\* has room for the child it adds.
TaskArrayInBounds == nr_tasks <= NR_TASKS
=============================================================================
