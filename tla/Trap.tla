--------------------------------- MODULE Trap ---------------------------------
(***************************************************************************)
(* Traps and context switches: entry.S, the dispatch of trap.c and         *)
(* syscall.c, and the frames and thread_structs that task_init and do_fork *)
(* prepare (proc.c).                                                       *)
(*                                                                         *)
(* A trap happens in a program, or in the kernel when it uses a program's  *)
(* buffer whose page is not there (SSTATUS_SUM lets it).  The kernel has   *)
(* interrupts off.  Which task do_timer chooses is the Sched module's      *)
(* concern; a read that takes long is one here that faults in between.     *)
(***************************************************************************)
EXTENDS Integers

CONSTANTS
    MaxTasks,     \* bound on the user tasks
    ProgramSize,  \* instructions of the program
    MaxDepth,     \* bound on the depth of a program's stack
    Values        \* values of a general register; zero is among them

ASSUME TrapAssumption ==
    /\ MaxTasks \in Nat \ {0} /\ ProgramSize \in Nat \ {0} /\ MaxDepth \in Nat
    /\ Values \subseteq Int /\ 0 \in Values

VARIABLES
    hart,       \* registers and CSRs, with the place in the code
    current,    \* the running task, 0 for idle
    thread,     \* thread[t]: thread_struct of task t
    kmem,       \* kmem[t][d]: frame at depth d of the kernel stack of t
    umem,       \* umem[t][d]: frame at depth d of the stack of program t
    nr_tasks    \* tasks 1 .. nr_tasks exist

vars == <<hart, current, thread, kmem, umem, nr_tasks>>

Tasks == 1 .. nr_tasks
Call   == {"getpid", "read", "clone"}
Causes == Call \cup {"timer", "fault"}

\* A stack pointer: the stack of program (User) in the current address space,
\* or the kernel stack of a task, and how many frames are on it.
User == -1
SP(of, depth) == [of |-> of, depth |-> depth]
Null == SP(-2, 0)
Push(sp) == [sp EXCEPT !.depth = @ + 1]
Pop(sp)  == [sp EXCEPT !.depth = @ - 1]
USER_END == SP(User, 0)
KernelTop(t) == SP(t, 0)     \* the end of the task's page

StackPointer == [of : -2 .. MaxTasks, depth : 0 .. MaxDepth + 1]
KernelPc == -1
Pcs == -1 .. ProgramSize - 1

\* The general registers: a program's, or in the kernel those in which a
\* handler keeps the cause of the trap and the address of its frame.
Program(v)  == [cause |-> "none", regs |-> Null, val |-> v]
Handler(c, regs) == [cause |-> c, regs |-> regs, val |-> 0]
Regs == [cause : Causes \cup {"none"}, regs : StackPointer, val : Values \cup {0}]

\* struct pt_regs.
Frame == [x : Regs, a0 : Int, sp : StackPointer, sepc : Pcs, spp : {"U", "S"}]
NoFrame == [x |-> Program(0), a0 |-> 0, sp |-> Null, sepc |-> KernelPc, spp |-> "S"]

Thread == [ra : {"switch_to", "__dummy", "__ret_from_fork"}, sp : StackPointer,
           s : Regs, sepc : Pcs, sscratch : StackPointer]

Hart == [at : {"user", "handler", "ret", "__dummy", "schedule"}, x : Regs, a0 : Int,
         pc : Pcs, sp : StackPointer, sscratch : StackPointer, sepc : Pcs]

TypeOK ==
    /\ hart \in Hart
    /\ current \in 0 .. nr_tasks
    /\ thread \in [0 .. MaxTasks -> Thread]
    /\ kmem \in [1 .. MaxTasks -> [1 .. 2 -> Frame]]
    /\ umem \in [1 .. MaxTasks -> [1 .. MaxDepth + 1 -> Frame]]
    /\ nr_tasks \in 1 .. MaxTasks

-----------------------------------------------------------------------------
(* entry.S.                                                                *)

\* switch_stack: the new sp and sscratch.
switch_stack(sp, sscratch) == IF sscratch = Null THEN <<sp, sscratch>> ELSE <<sscratch, sp>>

Load(sp) == IF sp.of = User THEN umem[current][sp.depth] ELSE kmem[sp.of][sp.depth]

\* A popped frame is not read again: the model forgets it.
Write(sp, frame) ==
    IF sp.of = User
    THEN umem' = [umem EXCEPT ![current][sp.depth] = frame] /\ UNCHANGED kmem
    ELSE kmem' = [kmem EXCEPT ![sp.of][sp.depth] = frame] /\ UNCHANGED umem

\* _traps: the hart traps at pc in mode spp; the frame is saved below the sp
\* that switch_stack gives, and holds that sp.
_traps(cause, pc, spp) ==
    LET sw == switch_stack(hart.sp, hart.sscratch)
        regs == Push(sw[1])
    IN
    /\ Write(regs, [x |-> hart.x, a0 |-> hart.a0, sp |-> regs, sepc |-> pc, spp |-> spp])
    /\ hart' = [hart EXCEPT !.at = "handler", !.x = Handler(cause, regs), !.pc = KernelPc,
                            !.sp = regs, !.sscratch = sw[2], !.sepc = pc]

\* __ret_from_fork: x2 is loaded last, the frame dropped, the stacks switched.
__ret_from_fork ==
    LET f == Load(hart.sp)
        sw == switch_stack(Pop(f.sp), hart.sscratch)
    IN
    /\ hart.at = "ret"
    /\ hart' = [at |-> IF f.spp = "U" THEN "user" ELSE "handler", x |-> f.x, a0 |-> f.a0,
                pc |-> f.sepc, sp |-> sw[1], sscratch |-> sw[2], sepc |-> f.sepc]
    /\ Write(hart.sp, NoFrame)
    /\ UNCHANGED <<current, thread, nr_tasks>>

\* Only sp and sscratch are set: the other registers are what the kernel left.
__dummy ==
    /\ hart.at = "__dummy"
    /\ LET sw == switch_stack(hart.sp, hart.sscratch) IN
       hart' = [hart EXCEPT !.at = "user", !.x = Program(@.val), !.pc = hart.sepc,
                            !.sp = sw[1], !.sscratch = sw[2]]
    /\ UNCHANGED <<current, thread, kmem, umem, nr_tasks>>

\* Mutant: sscratch is not part of the context.
ForgetSscratch(t) ==
    [ra |-> "switch_to", sp |-> hart.sp, s |-> hart.x, sepc |-> hart.sepc,
     sscratch |-> thread[t].sscratch]

\* What __switch_to saves.
SavedThread(t) ==
    [ra |-> "switch_to", sp |-> hart.sp, s |-> hart.x, sepc |-> hart.sepc,
     sscratch |-> hart.sscratch]

\* __switch_to: its ret goes where ra says.
Places == [switch_to |-> "ret", __dummy |-> "__dummy", __ret_from_fork |-> "ret"]
__switch_to(next) ==
    /\ thread' = [thread EXCEPT ![current] = SavedThread(current)]
    /\ hart' = [hart EXCEPT !.at = Places[thread[next].ra], !.x = thread[next].s,
                            !.sp = thread[next].sp, !.sepc = thread[next].sepc,
                            !.sscratch = thread[next].sscratch]
    /\ current' = next
    /\ UNCHANGED <<kmem, umem, nr_tasks>>

-----------------------------------------------------------------------------
(* Traps and their handlers.                                               *)

InUser == hart.at = "user"
InHandler(cause) == hart.at = "handler" /\ hart.x.cause = cause

\* The program computes.
Compute ==
    /\ InUser
    /\ \E v \in Values, d \in 0 .. MaxDepth, pc \in 0 .. ProgramSize - 1 :
           hart' = [hart EXCEPT !.x = Program(v), !.sp = SP(User, d), !.pc = pc]
    /\ UNCHANGED <<current, thread, kmem, umem, nr_tasks>>

Trap(cause) ==
    /\ InUser
    /\ _traps(cause, hart.pc, "U")
    /\ UNCHANGED <<current, thread, nr_tasks>>

\* The kernel touches the buffer of a read or a write, whose page is missing.
\* The program has just written to its stack (the wrappers of unistd.c keep
\* their variables there), so the stack's page is there and writable.
KernelFault ==
    /\ InHandler("read")
    /\ _traps("fault", KernelPc, "S")
    /\ UNCHANGED <<current, thread, nr_tasks>>

Return == hart' = [hart EXCEPT !.at = "ret"]

\* do_timer returns, or schedules another task.
DoTimer ==
    /\ InHandler("timer")
    /\ \/ Return /\ UNCHANGED <<current, thread, kmem, umem, nr_tasks>>
       \/ \E next \in Tasks \ {current} : __switch_to(next)

DoPageFault ==
    /\ InHandler("fault")
    /\ Return
    /\ UNCHANGED <<current, thread, kmem, umem, nr_tasks>>

\* syscall_handler: the result in a0, and sepc behind the ecall.
Answered(frame, result) ==
    [frame EXCEPT !.a0 = result, !.sepc = (@ + 1) % ProgramSize]

AnswerCall(results) ==
    /\ \E r \in results : Write(hart.x.regs, Answered(Load(hart.x.regs), r))
    /\ Return
    /\ UNCHANGED <<current, thread, nr_tasks>>

sys_getpid == InHandler("getpid") /\ AnswerCall({current})
sys_read   == InHandler("read") /\ AnswerCall(Values)

\* Mutant: the child's frame keeps the parent's sp.
ParentSp(frame, child_regs) == Answered(frame, 0)

\* The child's frame: its own sp, a0 = 0 and sepc behind the ecall.
ChildFrame(frame, child_regs) == [Answered(frame, 0) EXCEPT !.sp = child_regs]

ChildThread(child_regs) ==
    [thread[current] EXCEPT !.ra = "__ret_from_fork", !.sp = child_regs,
                            !.sscratch = hart.sscratch]

\* do_fork copies the page of the parent's task_struct, frames included.
sys_clone ==
    /\ InHandler("clone")
    /\ nr_tasks < MaxTasks
    /\ LET child == nr_tasks + 1
           regs == hart.x.regs
           child_regs == SP(child, regs.depth)
       IN
       /\ kmem' = [kmem EXCEPT
              ![child] = [kmem[current] EXCEPT
                             ![regs.depth] = ChildFrame(Load(regs), child_regs)],
              ![current][regs.depth] = Answered(Load(regs), child)]
       /\ umem' = [umem EXCEPT ![child] = umem[current]]
       /\ thread' = [thread EXCEPT ![child] = ChildThread(child_regs)]
       /\ nr_tasks' = child
    /\ Return
    /\ UNCHANGED current

\* start_kernel: idle gives the hart away and never gets it back.
start_kernel ==
    /\ hart.at = "schedule"
    /\ \E next \in Tasks : __switch_to(next)

\* task_init: task 1, whose thread_struct is zero but for four members.
Init ==
    /\ \E v \in Values :
           hart = [at |-> "schedule", x |-> Program(v), a0 |-> 0, pc |-> KernelPc,
                   sp |-> SP(0, 0), sscratch |-> Null, sepc |-> KernelPc]
    /\ current = 0
    /\ thread = [t \in 0 .. MaxTasks |->
                    [ra |-> "__dummy", sp |-> KernelTop(t), s |-> Program(0), sepc |-> 0,
                     sscratch |-> USER_END]]
    /\ kmem = [t \in 1 .. MaxTasks |-> [d \in 1 .. 2 |-> NoFrame]]
    /\ umem = [t \in 1 .. MaxTasks |-> [d \in 1 .. MaxDepth + 1 |-> NoFrame]]
    /\ nr_tasks = 1

\* The program traps for a clone while a task may still be made.
Next ==
    \/ Compute
    \/ \E cause \in Causes : (cause = "clone" => nr_tasks < MaxTasks) /\ Trap(cause)
    \/ KernelFault \/ DoTimer \/ DoPageFault \/ sys_getpid \/ sys_read \/ sys_clone
    \/ __ret_from_fork \/ __dummy \/ start_kernel

Spec == Init /\ [][Next]_vars

-----------------------------------------------------------------------------
(* Properties.                                                             *)

\* A trap runs between two stacks, the task's kernel stack and its program's,
\* of which one is in sp and the other in sscratch; the program always finds an
\* empty kernel stack behind it, so that no frame is ever left; and a task that
\* waits keeps both of its own.
OwnStacks ==
    /\ current # 0 => {hart.sp.of, hart.sscratch.of} = {User, current}
    /\ InUser => hart.sp.of = User /\ hart.sscratch = KernelTop(current)
    /\ \A t \in Tasks \ {current} :
          /\ thread[t].sp = IF thread[t].ra = "__dummy" THEN KernelTop(t) ELSE SP(t, 1)
          /\ thread[t].sscratch.of = User

\* Where the frames are and what they hold, on which OwnStacks rests.
UserSPs == {SP(User, d) : d \in 0 .. MaxDepth}
OfProgram(r) == r.cause = "none" /\ r.regs = Null

\* The frame of the trap from program t.
Framed(t) ==
    LET frame == kmem[t][1] IN
    /\ OfProgram(frame.x)
    /\ frame.sp = SP(t, 1) /\ frame.sepc # KernelPc /\ frame.spp = "U"

InProgram ==
    /\ OfProgram(hart.x) /\ hart.pc # KernelPc
    /\ hart.sp \in UserSPs /\ hart.sscratch = KernelTop(current)

InTrap ==
    /\ Framed(current)
    /\ hart.sp = SP(current, 1) /\ hart.sscratch \in UserSPs
    /\ hart.at = "handler" => hart.x.cause \in Causes /\ hart.x.regs = hart.sp

\* In the fault of a read: its frame is on the program's stack.
InKernelFault ==
    LET frame == umem[current][hart.sp.depth] IN
    /\ Framed(current)
    /\ hart.sscratch = SP(current, 1) /\ hart.sp.of = User /\ Pop(hart.sp) \in UserSPs
    /\ frame.x.cause = "read" /\ frame.x.regs = SP(current, 1)
    /\ frame.sp = hart.sp /\ frame.sepc = KernelPc /\ frame.spp = "S"
    /\ hart.at = "handler" => hart.x.cause = "fault" /\ hart.x.regs = hart.sp

OnHart ==
    /\ hart.at = "schedule" <=> current = 0
    /\ hart.at \in {"schedule", "__dummy"} => OfProgram(hart.x)
    /\ hart.at = "__dummy" =>
          hart.sp = KernelTop(current) /\ hart.sscratch = USER_END /\ hart.sepc = 0
    /\ InUser => InProgram
    /\ hart.at \in {"handler", "ret"} => InTrap \/ InKernelFault

\* A task that waits: never run, or stopped in a trap.
Waits(t) ==
    /\ thread[t].sscratch \in UserSPs
    /\ IF thread[t].ra = "__dummy"
       THEN /\ thread[t].sp = KernelTop(t) /\ thread[t].sscratch = USER_END
            /\ OfProgram(thread[t].s) /\ thread[t].sepc = 0
       ELSE thread[t].sp = SP(t, 1) /\ Framed(t)

\* The inductive invariant.
IInv == TypeOK /\ OnHart /\ \A t \in Tasks \ {current} : Waits(t)

\* A trap finds its frame, and leaves nothing, on the task's own two stacks.
StacksSound == IInv /\ OwnStacks

(* The registers of a program: in the hart while it runs, else in its frame *)
(* on the kernel stack and, for sp, in sscratch.                            *)
ContextOf(r, a0, pc, sp) == [pc |-> pc, sp |-> sp, a0 |-> a0, val |-> r.val]

UserSp(t) ==
    IF t # current THEN thread[t].sscratch
    ELSE IF hart.sscratch.of = User THEN hart.sscratch ELSE Pop(hart.sp)

Fresh(t) ==
    \/ t # current /\ thread[t].ra = "__dummy"
    \/ t = current /\ hart.at = "__dummy"

Contexts ==
    [t \in 1 .. MaxTasks |->
        IF t = current /\ InUser THEN ContextOf(hart.x, hart.a0, hart.pc, hart.sp)
        ELSE IF t > nr_tasks \/ Fresh(t) THEN ContextOf(Program(0), 0, 0, USER_END)
        ELSE ContextOf(kmem[t][1].x, kmem[t][1].a0, kmem[t][1].sepc, UserSp(t))]

\* The registers of the handler of the program's own trap, under a nested one.
Outer == IF hart.sp.of = User THEN umem[current][hart.sp.depth].x ELSE hart.x
Waiting == hart.at = "handler" \/ (hart.at = "ret" /\ hart.sp.of = User)
Requests ==
    [t \in 1 .. MaxTasks |->
        IF t = current /\ Waiting /\ Outer.cause \in Call THEN Outer.cause ELSE "none"]

Running == IF InUser THEN current ELSE 0
FreshTasks == {t \in Tasks : Fresh(t)}

\* Programs keep their registers: through interrupts, switches, clones and
\* faults of the kernel in the middle of their calls.
Abstract == INSTANCE UserContexts WITH
    SPs <- UserSPs, ctx <- Contexts, running <- Running, request <- Requests,
    tasks <- nr_tasks, fresh <- FreshTasks
UserContextsSpec == Abstract!Spec
=============================================================================
