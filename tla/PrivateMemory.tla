--------------------------- MODULE PrivateMemory ---------------------------
(***************************************************************************)
(* What the virtual memory of the kernel promises to user programs: every  *)
(* task has a memory of its own.  A page has no content until it is first  *)
(* touched, then it holds one of its initial contents; a write changes the *)
(* page of one task and of no other; a fork gives the new task a copy of   *)
(* all the pages of its parent.  Nothing here mentions frames, page        *)
(* tables, reference counts, copy on write or the TLB.                     *)
(***************************************************************************)
EXTENDS Integers

CONSTANTS
    BootTasks,  \* tasks the boot code creates, the idle task (0) included
    MaxTasks,   \* bound on the tasks ever created
    Pages,      \* user virtual pages
    Writable,   \* the pages a program may write
    Values,     \* contents of a page
    Initial,    \* [Pages -> SUBSET Values]: contents a fresh page may have
    Untouched   \* content of a page before its first access

VARIABLES
    nr_tasks,   \* tasks that exist: 0 .. nr_tasks-1
    mem         \* mem[t][v]: content of page v as task t sees it

vars == <<nr_tasks, mem>>

TaskIds == 0 .. MaxTasks - 1
UserTasks == 1 .. nr_tasks - 1

Init ==
    /\ nr_tasks = BootTasks
    /\ mem = [t \in TaskIds |-> [v \in Pages |-> Untouched]]

\* The first access of t to page v gives the page one of its initial contents.
Touch(t, v) ==
    /\ mem[t][v] = Untouched
    /\ \E x \in Initial[v] : mem' = [mem EXCEPT ![t][v] = x]
    /\ UNCHANGED nr_tasks

\* Task t writes x to a page it already touched.
Write(t, v, x) ==
    /\ v \in Writable
    /\ mem[t][v] # Untouched
    /\ mem' = [mem EXCEPT ![t][v] = x]
    /\ UNCHANGED nr_tasks

\* Task t forks: the child starts with a copy of all of t's pages.
Fork(t) ==
    /\ nr_tasks < MaxTasks
    /\ nr_tasks' = nr_tasks + 1
    /\ mem' = [mem EXCEPT ![nr_tasks] = mem[t]]

Next ==
    \E t \in UserTasks :
        \/ \E v \in Pages : Touch(t, v)
        \/ \E v \in Pages, x \in Values : Write(t, v, x)
        \/ Fork(t)

Spec == Init /\ [][Next]_vars
=============================================================================
