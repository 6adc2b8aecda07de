----------------------------- MODULE UserContexts -----------------------------
(***************************************************************************)
(* What traps promise to programs: each has registers of its own, which    *)
(* only it changes while it runs; an interrupt or a page fault leaves them *)
(* as they are; a call is answered once, in a0, and resumes behind the     *)
(* ecall; and clone gives the child its parent's registers.                *)
(***************************************************************************)
EXTENDS Integers

CONSTANTS
    MaxTasks, ProgramSize, Values,
    SPs         \* values of a program's stack pointer

Context == [pc : 0 .. ProgramSize - 1, sp : SPs, a0 : Int, val : Values]

VARIABLES
    ctx,        \* ctx[t]: the registers of program t
    running,    \* the program that runs, 0 in the kernel
    request,    \* request[t]: the call that t waits for
    tasks,      \* programs 1 .. tasks exist
    fresh       \* programs that have not run yet

vars == <<ctx, running, request, tasks, fresh>>

Behind(c, result) == [c EXCEPT !.pc = (@ + 1) % ProgramSize, !.a0 = result]

\* A program computes.
Compute(t) ==
    /\ running = t
    /\ ctx' = [ctx EXCEPT ![t] = ctx'[t]]
    /\ UNCHANGED <<running, request, tasks, fresh>>

\* A trap, for a call or not; and the way back, once the call is answered.
Enter(t) ==
    /\ running = t
    /\ running' = 0
    /\ request' = [request EXCEPT ![t] = request'[t]]
    /\ UNCHANGED <<ctx, tasks, fresh>>

Leave(t) ==
    /\ running = 0
    /\ t \notin fresh
    /\ request[t] = "none"
    /\ running' = t
    /\ UNCHANGED <<ctx, request, tasks, fresh>>

\* A program starts with unknown values in its general registers.
Start(t) ==
    /\ running = 0
    /\ t \in fresh
    /\ running' = t
    /\ fresh' = fresh \ {t}
    /\ ctx' = [ctx EXCEPT ![t].val = ctx'[t].val, ![t].a0 = ctx'[t].a0]
    /\ UNCHANGED <<request, tasks>>

Answer(t) ==
    /\ running = 0
    /\ request[t] \in {"read", "getpid"}
    /\ ctx' = [ctx EXCEPT ![t] = Behind(ctx[t], ctx'[t].a0)]
    /\ request[t] = "getpid" => ctx'[t].a0 = t
    /\ request' = [request EXCEPT ![t] = "none"]
    /\ UNCHANGED <<running, tasks, fresh>>

Clone(t) ==
    /\ running = 0
    /\ request[t] = "clone"
    /\ tasks < MaxTasks
    /\ tasks' = tasks + 1
    /\ ctx' = [ctx EXCEPT ![t] = Behind(ctx[t], tasks + 1),
                          ![tasks + 1] = Behind(ctx[t], 0)]
    /\ request' = [request EXCEPT ![t] = "none"]
    /\ UNCHANGED <<running, fresh>>

Init ==
    /\ ctx \in [1 .. MaxTasks -> Context]
    /\ running = 0
    /\ request = [t \in 1 .. MaxTasks |-> "none"]
    /\ tasks = 1
    /\ fresh = {1}

Next ==
    \E t \in 1 .. tasks :
        Compute(t) \/ Enter(t) \/ Leave(t) \/ Start(t) \/ Answer(t) \/ Clone(t)

Spec == Init /\ [][Next]_vars
=============================================================================
