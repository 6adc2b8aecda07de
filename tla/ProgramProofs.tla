---------------------------- MODULE ProgramProofs ----------------------------
(***************************************************************************)
(* Proofs about programs: Trap, for every number of tasks, length of the   *)
(* program and depth of its stack; and Shell, for every set of keys, names *)
(* and texts and every length of its line.                                 *)
(***************************************************************************)
EXTENDS Trap, Shell, PrintkProofs

-----------------------------------------------------------------------------
(* Trap.                                                                   *)

USE TrapAssumption

-----------------------------------------------------------------------------
(* Stack pointers and frames.                                              *)

\* The registers have their types, and a hart that has left the boot runs a task.
LEMMA HartFacts ==
    ASSUME TypeOK, OnHart
    PROVE  /\ hart.sp \in StackPointer /\ hart.sscratch \in StackPointer
           /\ hart.x \in Regs /\ hart.a0 \in Int /\ hart.pc \in Pcs /\ hart.sepc \in Pcs
           /\ hart.at \in {"user", "handler", "ret", "__dummy", "schedule"}
           /\ hart = [at |-> hart.at, x |-> hart.x, a0 |-> hart.a0, pc |-> hart.pc,
                      sp |-> hart.sp, sscratch |-> hart.sscratch, sepc |-> hart.sepc]
           /\ hart.at # "schedule" => current \in Tasks /\ current \in 1 .. MaxTasks
           /\ Tasks \subseteq 1 .. MaxTasks
  BY DEF TypeOK, OnHart, Tasks, Hart

\* What Push and Pop do to a program's stack pointer.
LEMMA UserSPFacts ==
    /\ \A sp \in UserSPs : /\ sp \in StackPointer /\ sp.of = User /\ sp # Null
                           /\ sp.depth \in 0 .. MaxDepth /\ Push(sp) \in StackPointer
                           /\ Push(sp).of = User /\ Push(sp).depth = sp.depth + 1
                           /\ Pop(Push(sp)) = sp /\ sp = SP(User, sp.depth)
    /\ \A d \in 0 .. MaxDepth : SP(User, d) \in UserSPs
    /\ USER_END \in UserSPs
<1>1. ASSUME NEW sp \in UserSPs
      PROVE  /\ sp \in StackPointer /\ sp.of = User /\ sp # Null
             /\ sp.depth \in 0 .. MaxDepth /\ Push(sp) \in StackPointer
             /\ Push(sp).of = User /\ Push(sp).depth = sp.depth + 1
             /\ Pop(Push(sp)) = sp /\ sp = SP(User, sp.depth)
  <2> PICK d \in 0 .. MaxDepth : sp = [of |-> -1, depth |-> d]
    BY DEF UserSPs, SP, User
  <2>1. sp.of = -1 /\ sp.depth = d
    OBVIOUS
  <2>2. Push(sp) = [of |-> -1, depth |-> d + 1]
    BY <2>1 DEF Push
  <2>3. Pop(Push(sp)) = [of |-> -1, depth |-> d + 1 - 1]
    BY <2>2 DEF Pop
  <2> QED
    BY <2>1, <2>2, <2>3 DEF StackPointer, User, SP, Null
<1>2. \A d \in 0 .. MaxDepth : SP(User, d) \in UserSPs
  BY DEF UserSPs
<1>3. USER_END \in UserSPs
  BY <1>2 DEF USER_END
<1> QED
  BY <1>1, <1>2, <1>3

\* A task's kernel stack, empty and with the frame of a trap.
LEMMA KernelSPFacts ==
    ASSUME NEW t \in 1 .. MaxTasks
    PROVE  /\ SP(t, 0) \in StackPointer /\ SP(t, 1) \in StackPointer /\ SP(t, 0) # Null
           /\ SP(t, 1) # Null
           /\ Push(SP(t, 0)) = SP(t, 1) /\ Pop(SP(t, 1)) = SP(t, 0)
           /\ SP(t, 0).of = t /\ SP(t, 1).of = t /\ t # User
           /\ SP(t, 1).depth = 1 /\ SP(t, 0).depth = 0
  BY DEF StackPointer, SP, User, Null, Push, Pop

\* A waiting task whose thread_struct and frame stay as they are still waits.
LEMMA WaitsStays ==
    ASSUME NEW t, Waits(t), thread'[t] = thread[t], kmem'[t][1] = kmem[t][1]
    PROVE  Waits(t)'
  BY DEF Waits, Framed, KernelTop, SP

-----------------------------------------------------------------------------
(* The inductive invariant, one action after the other.                    *)

\* task_init's first task waits to run, and no other exists.
LEMMA InitInv == Init => IInv
<1> SUFFICES ASSUME Init PROVE IInv
  OBVIOUS
<1> PICK v \in Values :
           hart = [at |-> "schedule", x |-> Program(v), a0 |-> 0, pc |-> KernelPc,
                   sp |-> SP(0, 0), sscratch |-> Null, sepc |-> KernelPc]
  BY DEF Init
<1>1. TypeOK
  <2>1. hart \in Hart
    BY DEF Regs, Program, KernelPc, Pcs, SP, Null, StackPointer, Hart
  <2>2. NoFrame \in Frame
    BY DEF NoFrame, Frame, Program, Regs, Null, SP, KernelPc, Pcs, StackPointer
  <2>3. \A t \in 0 .. MaxTasks : thread[t] \in Thread
    BY DEF Init, Thread, KernelTop, SP, Program, Regs, USER_END, User, Null, Pcs, StackPointer
  <2>4. thread \in [0 .. MaxTasks -> Thread]
    BY <2>3 DEF Init
  <2>5. kmem \in [1 .. MaxTasks -> [1 .. 2 -> Frame]]
        /\ umem \in [1 .. MaxTasks -> [1 .. MaxDepth + 1 -> Frame]]
    BY <2>2 DEF Init
  <2>6. nr_tasks \in 1 .. MaxTasks /\ current \in 0 .. nr_tasks
    BY DEF Init
  <2> QED
    BY <2>1, <2>4, <2>5, <2>6 DEF TypeOK
<1>2. OnHart
  BY DEF Init, OnHart, InUser, OfProgram, Program
<1>3. ASSUME NEW t \in Tasks \ {current} PROVE Waits(t)
  <2>1. t \in 0 .. MaxTasks
    BY DEF Tasks, Init
  <2>2. thread[t] = [ra |-> "__dummy", sp |-> KernelTop(t), s |-> Program(0), sepc |-> 0,
                     sscratch |-> USER_END]
    BY <2>1 DEF Init
  <2> QED
    BY <2>2, UserSPFacts DEF Waits, OfProgram, Program
<1> QED
  BY <1>1, <1>2, <1>3 DEF IInv

\* A program that computes touches nothing of the kernel's.
LEMMA ComputeKeepsInv ==
    ASSUME IInv, Compute PROVE IInv'
<1> USE DEF IInv
<1>1. PICK v \in Values, d \in 0 .. MaxDepth, pc \in 0 .. ProgramSize - 1 :
           hart' = [hart EXCEPT !.x = Program(v), !.sp = SP(User, d), !.pc = pc]
  BY DEF Compute
<1>2. /\ hart'.x = Program(v) /\ hart'.sp = SP(User, d) /\ hart'.pc = pc /\ hart'.at = "user"
      /\ hart'.sscratch = hart.sscratch /\ hart'.sepc = hart.sepc /\ hart'.a0 = hart.a0
      /\ hart'
             = [at |-> "user", x |-> Program(v), a0 |-> hart.a0, pc |-> pc, sp |-> SP(User, d),
                 sscratch |-> hart.sscratch, sepc |-> hart.sepc]
  BY <1>1, HartFacts DEF Compute, InUser
<1>3. TypeOK'
  <2>1. Program(v) \in Regs /\ pc \in Pcs /\ SP(User, d) \in StackPointer
    BY UserSPFacts DEF Program, Regs, Null, SP, StackPointer, Pcs
  <2>2. hart' \in Hart
    BY <1>2, <2>1, HartFacts DEF Hart
  <2> QED
    BY <2>2 DEF TypeOK, Compute
<1>4. OnHart'
  <2>1. InProgram'
    BY <1>2, UserSPFacts DEF InProgram, OnHart, Compute, InUser, OfProgram, Program, KernelPc,
    KernelTop
  <2> QED
    BY <1>2, <2>1 DEF OnHart, Compute, InUser
<1>5. \A t \in Tasks' \ {current'} : Waits(t)'
  BY WaitsStays DEF Compute, Tasks
<1> QED
  BY <1>3, <1>4, <1>5

\* A frame at the top of a kernel stack is that task's alone.
LEMMA KmemWrite ==
    ASSUME TypeOK, NEW t \in 1 .. MaxTasks, NEW f \in Frame, Write(SP(t, 1), f)
    PROVE  /\ kmem' \in [1 .. MaxTasks -> [1 .. 2 -> Frame]] /\ umem' = umem
           /\ kmem'[t][1] = f
           /\ \A u \in 1 .. MaxTasks \ {t} : kmem'[u] = kmem[u]
<1>1. kmem' = [kmem EXCEPT ![t][1] = f] /\ umem' = umem
  BY DEF Write, SP, User
<1> QED
  BY <1>1 DEF TypeOK

\* A frame on the stack of the program that runs.
LEMMA UmemWrite ==
    ASSUME TypeOK, current \in 1 .. MaxTasks, NEW d \in 1 .. MaxDepth + 1, NEW f \in Frame,
           Write(SP(User, d), f)
    PROVE  /\ umem' \in [1 .. MaxTasks -> [1 .. MaxDepth + 1 -> Frame]] /\ kmem' = kmem
           /\ umem'[current][d] = f
           /\ \A u \in 1 .. MaxTasks \ {current} : umem'[u] = umem[u]
<1>1. umem' = [umem EXCEPT ![current][d] = f] /\ kmem' = kmem
  BY DEF Write, SP, User
<1> QED
  BY <1>1 DEF TypeOK

\* _traps from a program: the frame goes to the task's empty kernel stack, the
\* program's sp to sscratch.
LEMMA TrapEffect ==
    ASSUME IInv, NEW cause \in Causes, Trap(cause)
    PROVE  /\ hart' = [at |-> "handler", x |-> Handler(cause, SP(current, 1)), a0 |-> hart.a0,
                       pc |-> KernelPc, sp |-> SP(current, 1), sscratch |-> hart.sp,
                       sepc |-> hart.pc]
           /\ kmem' \in [1 .. MaxTasks -> [1 .. 2 -> Frame]] /\ umem' = umem
           /\ kmem'[current][1] = [x |-> hart.x, a0 |-> hart.a0, sp |-> SP(current, 1),
                                   sepc |-> hart.pc, spp |-> "U"]
           /\ \A u \in 1 .. MaxTasks \ {current} : kmem'[u] = kmem[u]
<1>1. current \in 1 .. MaxTasks /\ hart.sscratch = SP(current, 0) /\ hart.sp \in UserSPs
  BY HartFacts DEF IInv, OnHart, InUser, Trap, InProgram, KernelTop
<1> DEFINE f == [x |-> hart.x, a0 |-> hart.a0, sp |-> SP(current, 1), sepc |-> hart.pc, spp |-> "U"]
<1>2. switch_stack(hart.sp, hart.sscratch) = <<SP(current, 0), hart.sp>>
  BY <1>1, KernelSPFacts DEF switch_stack
<1>3. /\ Write(SP(current, 1), f)
      /\ hart' = [hart EXCEPT !.at = "handler", !.x = Handler(cause, SP(current, 1)),
             !.pc = KernelPc,
                            !.sp = SP(current, 1), !.sscratch = hart.sp, !.sepc = hart.pc]
  <2> DEFINE sw == switch_stack(hart.sp, hart.sscratch)
  <2>1. Push(sw[1]) = SP(current, 1) /\ sw[2] = hart.sp
    BY <1>1, <1>2, KernelSPFacts
  <2>2. /\ Write(Push(sw[1]), [x |-> hart.x, a0 |-> hart.a0, sp |-> Push(sw[1]),
                               sepc |-> hart.pc, spp |-> "U"])
        /\ hart' = [hart EXCEPT !.at = "handler", !.x = Handler(cause, Push(sw[1])),
                                !.pc = KernelPc, !.sp = Push(sw[1]), !.sscratch = sw[2],
                                !.sepc = hart.pc]
    BY Zenon DEF Trap, _traps
  <2> HIDE DEF sw
  <2> QED
    BY Zenon, <2>1, <2>2
<1>4. f \in Frame
  BY <1>1, HartFacts, KernelSPFacts DEF Frame, IInv
<1>5. hart' = [at |-> "handler", x |-> Handler(cause, SP(current, 1)), a0 |-> hart.a0,
                       pc |-> KernelPc, sp |-> SP(current, 1), sscratch |-> hart.sp,
                       sepc |-> hart.pc]
  BY <1>3, HartFacts DEF IInv
<1> HIDE DEF f
<1>6. /\ kmem' \in [1 .. MaxTasks -> [1 .. 2 -> Frame]] /\ umem' = umem
      /\ kmem'[current][1] = f
      /\ \A u \in 1 .. MaxTasks \ {current} : kmem'[u] = kmem[u]
  BY <1>1, <1>3, <1>4, KmemWrite DEF IInv
<1> QED
  BY <1>5, <1>6 DEF f

\* A trap from a program keeps the invariant.
LEMMA TrapKeepsInv ==
    ASSUME IInv, NEW cause \in Causes, Trap(cause) PROVE IInv'
<1> DEFINE regs == SP(current, 1)
<1>1. /\ hart' = [at |-> "handler", x |-> Handler(cause, regs), a0 |-> hart.a0,
                       pc |-> KernelPc, sp |-> regs, sscratch |-> hart.sp,
                       sepc |-> hart.pc]
      /\ kmem' \in [1 .. MaxTasks -> [1 .. 2 -> Frame]] /\ umem' = umem
      /\ kmem'[current][1] = [x |-> hart.x, a0 |-> hart.a0, sp |-> regs,
                                   sepc |-> hart.pc, spp |-> "U"]
      /\ \A u \in 1 .. MaxTasks \ {current} : kmem'[u] = kmem[u]
  BY TrapEffect
<1>2. UNCHANGED <<current, thread, nr_tasks>>
  BY DEF Trap
<1>3. /\ current \in Tasks /\ current \in 1 .. MaxTasks /\ hart.sp \in UserSPs
         /\ regs \in StackPointer
      /\ OfProgram(hart.x) /\ hart.pc # KernelPc
  BY HartFacts, KernelSPFacts DEF IInv, OnHart, InUser, Trap, InProgram
<1>4. Handler(cause, regs) \in Regs /\ Handler(cause, regs).cause = cause
      /\ Handler(cause, regs).regs = regs
  BY <1>3 DEF Handler, Regs
<1> HIDE DEF regs
<1>5. TypeOK'
  <2>1. hart' \in Hart
    BY <1>1, <1>3, <1>4, HartFacts DEF IInv, KernelPc, Pcs, Hart
  <2> QED
    BY <1>1, <1>2, <2>1 DEF TypeOK, IInv
<1>6. OnHart'
  <2>1. hart'.at = "handler" /\ hart'.x.cause = cause /\ hart'.x.regs = regs /\ hart'.sp = regs
        /\ hart'.sscratch = hart.sp
    BY <1>1, <1>4
  <2>2. Framed(current)'
    BY <1>1, <1>2, <1>3 DEF Framed, OfProgram, regs
  <2>3. InTrap'
    BY <1>2, <1>3, <2>1, <2>2 DEF InTrap, regs, UserSPs
  <2> QED
    BY <2>1, <2>3, <1>2, <1>3 DEF OnHart, InUser, Tasks, IInv, TypeOK
<1>7. \A t \in Tasks' \ {current'} : Waits(t)'
  BY WaitsStays, <1>1, <1>2, HartFacts DEF IInv, Tasks
<1> QED
  BY <1>5, <1>6, <1>7 DEF IInv

\* _traps from the handler of a read: switch_stack takes the program's stack, and
\* leaves the kernel's in sscratch.
LEMMA KernelFaultEffect ==
    ASSUME IInv, KernelFault
    PROVE  /\ hart.x.regs = SP(current, 1) /\ hart.sp = SP(current, 1)
           /\ hart.sscratch \in UserSPs /\ Framed(current)
           /\ hart' = [at |-> "handler", x |-> Handler("fault", Push(hart.sscratch)),
                       a0 |-> hart.a0, pc |-> KernelPc, sp |-> Push(hart.sscratch),
                       sscratch |-> SP(current, 1), sepc |-> KernelPc]
           /\ umem' \in [1 .. MaxTasks -> [1 .. MaxDepth + 1 -> Frame]] /\ kmem' = kmem
           /\ umem'[current][hart.sscratch.depth + 1] =
                 [x |-> hart.x, a0 |-> hart.a0, sp |-> Push(hart.sscratch),
                  sepc |-> KernelPc, spp |-> "S"]
           /\ \A u \in 1 .. MaxTasks \ {current} : umem'[u] = umem[u]
<1>1. /\ current \in 1 .. MaxTasks /\ hart.sp = SP(current, 1) /\ hart.sscratch \in UserSPs
      /\ hart.x.regs = SP(current, 1) /\ Framed(current)
  <2>1. hart.at = "handler" /\ hart.x.cause = "read"
    BY DEF KernelFault, InHandler
  <2> QED
    BY <2>1, HartFacts DEF IInv, OnHart, InTrap, InKernelFault
<1> DEFINE regs == Push(hart.sscratch)
<1> DEFINE f == [x |-> hart.x, a0 |-> hart.a0, sp |-> regs, sepc |-> KernelPc, spp |-> "S"]
<1> DEFINE d == hart.sscratch.depth + 1
<1>2. switch_stack(hart.sp, hart.sscratch) = <<hart.sscratch, SP(current, 1)>>
  BY <1>1, UserSPFacts DEF switch_stack
<1>3. /\ Write(regs, f)
      /\ hart' = [hart EXCEPT !.at = "handler", !.x = Handler("fault", regs), !.pc = KernelPc,
                            !.sp = regs, !.sscratch = SP(current, 1), !.sepc = KernelPc]
  <2> DEFINE sw == switch_stack(hart.sp, hart.sscratch)
  <2>1. sw[1] = hart.sscratch /\ sw[2] = SP(current, 1)
    BY <1>1, <1>2
  <2>2. /\ Write(Push(sw[1]), [x |-> hart.x, a0 |-> hart.a0, sp |-> Push(sw[1]),
                               sepc |-> KernelPc, spp |-> "S"])
        /\ hart' = [hart EXCEPT !.at = "handler", !.x = Handler("fault", Push(sw[1])),
                                !.pc = KernelPc, !.sp = Push(sw[1]), !.sscratch = sw[2],
                                !.sepc = KernelPc]
    BY Zenon DEF KernelFault, _traps
  <2> HIDE DEF sw
  <2> QED
    BY Zenon, <2>1, <2>2
<1>4. regs \in StackPointer /\ regs = SP(User, d) /\ d \in 1 .. MaxDepth + 1
  <2>1. hart.sscratch = [of |-> -1, depth |-> hart.sscratch.depth]
    BY <1>1, UserSPFacts DEF SP, User
  <2> QED
    BY <1>1, <2>1, UserSPFacts DEF SP, User, Push
<1>5. hart' = [at |-> "handler", x |-> Handler("fault", regs), a0 |-> hart.a0,
                       pc |-> KernelPc, sp |-> regs, sscratch |-> SP(current, 1),
                       sepc |-> KernelPc]
  BY <1>3, HartFacts DEF IInv
<1>6. f \in Frame
  BY <1>4, HartFacts DEF Frame, IInv, KernelPc, Pcs
<1> HIDE DEF f, d, regs
<1>7. /\ umem' \in [1 .. MaxTasks -> [1 .. MaxDepth + 1 -> Frame]] /\ kmem' = kmem
      /\ umem'[current][d] = f
      /\ \A u \in 1 .. MaxTasks \ {current} : umem'[u] = umem[u]
  BY <1>1, <1>3, <1>4, <1>6, UmemWrite DEF IInv
<1> QED
  BY <1>1, <1>5, <1>7 DEF f, regs, d

\* A fault inside a read keeps the invariant: the frame of the program's own trap
\* lies on the other stack.
LEMMA KernelFaultKeepsInv ==
    ASSUME IInv, KernelFault PROVE IInv'
<1> DEFINE regs == Push(hart.sscratch)
           d == hart.sscratch.depth + 1
<1>1. /\ hart.x.regs = SP(current, 1) /\ hart.sp = SP(current, 1)
      /\ hart.sscratch \in UserSPs /\ Framed(current)
      /\ hart' = [at |-> "handler", x |-> Handler("fault", regs), a0 |-> hart.a0,
                  pc |-> KernelPc, sp |-> regs, sscratch |-> SP(current, 1),
                  sepc |-> KernelPc]
      /\ umem' \in [1 .. MaxTasks -> [1 .. MaxDepth + 1 -> Frame]] /\ kmem' = kmem
      /\ umem'[current][d] = [x |-> hart.x, a0 |-> hart.a0, sp |-> regs,
                              sepc |-> KernelPc, spp |-> "S"]
  BY KernelFaultEffect
<1>2. UNCHANGED <<current, thread, nr_tasks>> /\ hart.at = "handler" /\ hart.x.cause = "read"
  BY DEF KernelFault, InHandler
<1>3. /\ current \in Tasks /\ current \in 1 .. MaxTasks
      /\ SP(current, 1) \in StackPointer
  BY <1>2, HartFacts, KernelSPFacts DEF IInv
<1>4. regs \in StackPointer /\ regs.depth = d /\ regs.of = User /\ Pop(regs) = hart.sscratch
  BY <1>1, UserSPFacts
<1>5. Handler("fault", regs) \in Regs /\ Handler("fault", regs).cause = "fault"
      /\ Handler("fault", regs).regs = regs
  BY <1>4 DEF Handler, Regs, Causes
<1> HIDE DEF regs, d
<1>6. TypeOK'
  <2>1. hart' \in Hart
    BY <1>1, <1>3, <1>4, <1>5, HartFacts DEF IInv, KernelPc, Pcs, Hart
  <2> QED
    BY <1>1, <1>2, <2>1 DEF TypeOK, IInv
<1>7. OnHart'
  <2>1. hart'.at = "handler" /\ hart'.x.cause = "fault" /\ hart'.x.regs = regs
        /\ hart'.sp = regs /\ hart'.sscratch = SP(current, 1)
    BY <1>1, <1>5
  <2>2. Framed(current)'
    BY <1>1, <1>2 DEF Framed, SP
  <2>3. InKernelFault'
    BY <1>1, <1>2, <1>3, <1>4, <2>1, <2>2 DEF InKernelFault, UserSPs
  <2> QED
    BY <2>1, <2>3, <1>2, <1>3 DEF OnHart, InUser, Tasks, IInv, TypeOK
<1>8. \A t \in Tasks' \ {current'} : Waits(t)'
  BY WaitsStays, <1>1, <1>2 DEF IInv, Tasks
<1> QED
  BY <1>6, <1>7, <1>8 DEF IInv

\* __ret_from_fork: from the program's trap back to the program, from the fault
\* in a read back to the read, each on the two stacks it had.
LEMMA RetEffect ==
    ASSUME IInv, __ret_from_fork
    PROVE  \/ /\ InTrap
              /\ hart' = [at |-> "user", x |-> kmem[current][1].x, a0 |-> kmem[current][1].a0,
                          pc |-> kmem[current][1].sepc, sp |-> hart.sscratch,
                          sscratch |-> SP(current, 0), sepc |-> kmem[current][1].sepc]
              /\ kmem' \in [1 .. MaxTasks -> [1 .. 2 -> Frame]] /\ umem' = umem
              /\ \A u \in 1 .. MaxTasks \ {current} : kmem'[u] = kmem[u]
           \/ /\ InKernelFault
              /\ hart' = [at |-> "handler", x |-> umem[current][hart.sp.depth].x,
                          a0 |-> umem[current][hart.sp.depth].a0, pc |-> KernelPc,
                          sp |-> SP(current, 1), sscratch |-> Pop(hart.sp), sepc |-> KernelPc]
              /\ umem' \in [1 .. MaxTasks -> [1 .. MaxDepth + 1 -> Frame]] /\ kmem' = kmem
<1> DEFINE f == Load(hart.sp)
           sw == switch_stack(Pop(f.sp), hart.sscratch)
<1>1. /\ hart' = [at |-> IF f.spp = "U" THEN "user" ELSE "handler", x |-> f.x, a0 |-> f.a0,
                  pc |-> f.sepc, sp |-> sw[1], sscratch |-> sw[2], sepc |-> f.sepc]
      /\ Write(hart.sp, NoFrame)
      /\ hart.at = "ret"
  BY Zenon DEF __ret_from_fork
<1>2. NoFrame \in Frame
  BY DEF NoFrame, Frame, Program, Regs, Null, SP, KernelPc, Pcs, StackPointer
<1>3. current \in 1 .. MaxTasks /\ (InTrap \/ InKernelFault)
  BY <1>1, HartFacts DEF IInv, OnHart
<1>4. CASE InTrap
  <2>1. /\ hart.sp = SP(current, 1) /\ hart.sscratch \in UserSPs /\ f = kmem[current][1]
        /\ f.sp = SP(current, 1) /\ f.spp = "U"
    BY <1>3, <1>4, KernelSPFacts DEF InTrap, Framed, Load
  <2>2. Pop(f.sp) = SP(current, 0)
    BY <1>3, <2>1, KernelSPFacts
  <2>3. sw[1] = hart.sscratch /\ sw[2] = SP(current, 0)
    BY <2>1, <2>2, UserSPFacts DEF switch_stack
  <2>4. /\ kmem' \in [1 .. MaxTasks -> [1 .. 2 -> Frame]] /\ umem' = umem
        /\ \A u \in 1 .. MaxTasks \ {current} : kmem'[u] = kmem[u]
    BY <1>1, <1>2, <1>3, <2>1, KmemWrite DEF IInv
  <2> HIDE DEF sw, f
  <2> QED
    BY <1>1, <1>4, <2>1, <2>3, <2>4
<1>5. CASE InKernelFault
  <2>1. /\ hart.sp.of = User /\ Pop(hart.sp) \in UserSPs /\ hart.sscratch = SP(current, 1)
        /\ f = umem[current][hart.sp.depth]
        /\ f.sp = hart.sp /\ f.spp = "S" /\ f.sepc = KernelPc
    BY <1>3, <1>5 DEF InKernelFault, Load
  <2>2. hart.sp = SP(User, hart.sp.depth) /\ hart.sp.depth \in 1 .. MaxDepth + 1
    <3>1. hart.sp \in StackPointer
      BY HartFacts DEF IInv
    <3>2. Pop(hart.sp).depth = hart.sp.depth - 1
      BY <3>1 DEF Pop, StackPointer
    <3> QED
      BY <2>1, <3>1, <3>2, UserSPFacts DEF StackPointer, SP
  <2>3. sw[1] = SP(current, 1) /\ sw[2] = Pop(hart.sp)
    BY <1>3, <2>1, KernelSPFacts DEF switch_stack
  <2>4. umem' \in [1 .. MaxTasks -> [1 .. MaxDepth + 1 -> Frame]] /\ kmem' = kmem
    BY <1>1, <1>2, <1>3, <2>2, UmemWrite DEF IInv
  <2> HIDE DEF sw, f
  <2> QED
    BY <1>1, <1>5, <2>1, <2>3, <2>4
<1> QED
  BY <1>3, <1>4, <1>5

\* A return keeps the invariant.
LEMMA RetKeepsInv ==
    ASSUME IInv, __ret_from_fork PROVE IInv'
<1>1. UNCHANGED <<current, thread, nr_tasks>> /\ hart.at = "ret"
  BY DEF __ret_from_fork
<1>2. /\ current \in Tasks /\ current \in 1 .. MaxTasks
      /\ SP(current, 1) \in StackPointer /\ SP(current, 0) \in StackPointer
  BY <1>1, HartFacts, KernelSPFacts DEF IInv
<1>3. CASE /\ InTrap
           /\ hart' = [at |-> "user", x |-> kmem[current][1].x, a0 |-> kmem[current][1].a0,
                       pc |-> kmem[current][1].sepc, sp |-> hart.sscratch,
                       sscratch |-> SP(current, 0), sepc |-> kmem[current][1].sepc]
           /\ kmem' \in [1 .. MaxTasks -> [1 .. 2 -> Frame]] /\ umem' = umem
           /\ \A u \in 1 .. MaxTasks \ {current} : kmem'[u] = kmem[u]
  <2> DEFINE f == kmem[current][1]
  <2>1. f \in Frame
    BY <1>2 DEF IInv, TypeOK
  <2>2. OfProgram(f.x) /\ f.sepc # KernelPc /\ hart.sscratch \in UserSPs
    BY <1>3 DEF InTrap, Framed
  <2> HIDE DEF f
  <2>3. /\ hart' = [at |-> "user", x |-> f.x, a0 |-> f.a0, pc |-> f.sepc, sp |-> hart.sscratch,
                    sscratch |-> SP(current, 0), sepc |-> f.sepc]
        /\ kmem' \in [1 .. MaxTasks -> [1 .. 2 -> Frame]] /\ umem' = umem
        /\ \A u \in 1 .. MaxTasks \ {current} : kmem'[u] = kmem[u]
    BY <1>3 DEF f
  <2>4. TypeOK'
    <3>1. hart' \in Hart
      BY <1>2, <2>1, <2>2, <2>3, UserSPFacts DEF Frame, Hart
    <3> QED
      BY <1>1, <2>3, <3>1 DEF TypeOK, IInv
  <2>5. OnHart'
    <3>1. InProgram'
      BY <1>1, <2>2, <2>3 DEF InProgram, KernelTop, OfProgram, UserSPs, KernelPc, SP, Null
    <3> QED
      BY <1>1, <1>2, <2>3, <3>1 DEF OnHart, InUser, Tasks, IInv, TypeOK
  <2>6. \A t \in Tasks' \ {current'} : Waits(t)'
    BY WaitsStays, <1>1, <2>3, HartFacts DEF IInv, Tasks
  <2> QED
    BY <2>4, <2>5, <2>6 DEF IInv
<1>4. CASE /\ InKernelFault
           /\ hart' = [at |-> "handler", x |-> umem[current][hart.sp.depth].x,
                       a0 |-> umem[current][hart.sp.depth].a0, pc |-> KernelPc,
                       sp |-> SP(current, 1), sscratch |-> Pop(hart.sp), sepc |-> KernelPc]
           /\ umem' \in [1 .. MaxTasks -> [1 .. MaxDepth + 1 -> Frame]] /\ kmem' = kmem
  <2> DEFINE f == umem[current][hart.sp.depth]
             usp == Pop(hart.sp)
  <2>1. hart.sp.depth \in 1 .. MaxDepth + 1
    <3>1. hart.sp \in StackPointer /\ usp \in UserSPs
      BY <1>4, HartFacts DEF IInv, InKernelFault
    <3>2. usp.depth = hart.sp.depth - 1
      BY <3>1 DEF Pop, StackPointer
    <3> HIDE DEF usp
    <3> QED
      BY <3>1, <3>2, UserSPFacts DEF StackPointer
  <2>2. f \in Frame
    BY <1>2, <2>1 DEF IInv, TypeOK
  <2>3. /\ f.x.cause = "read" /\ f.x.regs = SP(current, 1) /\ usp \in UserSPs /\ Framed(current)
    BY <1>4 DEF InKernelFault
  <2> HIDE DEF f, usp
  <2>4. /\ hart' = [at |-> "handler", x |-> f.x, a0 |-> f.a0, pc |-> KernelPc,
                    sp |-> SP(current, 1), sscratch |-> usp, sepc |-> KernelPc]
        /\ umem' \in [1 .. MaxTasks -> [1 .. MaxDepth + 1 -> Frame]] /\ kmem' = kmem
    BY <1>4 DEF f, usp
  <2>5. TypeOK'
    <3>1. hart' \in Hart
      BY <1>2, <2>2, <2>3, <2>4, UserSPFacts DEF Frame, KernelPc, Pcs, Hart
    <3> QED
      BY <1>1, <2>4, <3>1 DEF TypeOK, IInv
  <2>6. OnHart'
    <3>1. Framed(current)'
      BY <1>1, <2>3, <2>4 DEF Framed, SP
    <3>2. InTrap'
      BY <1>1, <2>3, <2>4, <3>1 DEF InTrap, UserSPs, Causes, Call
    <3> QED
      BY <1>1, <1>2, <2>4, <3>2 DEF OnHart, InUser, Tasks, IInv, TypeOK
  <2>7. \A t \in Tasks' \ {current'} : Waits(t)'
    BY WaitsStays, <1>1, <2>4 DEF IInv, Tasks
  <2> QED
    BY <2>5, <2>6, <2>7 DEF IInv
<1> QED
  BY RetEffect, <1>3, <1>4

\* __dummy: the first instruction of a task runs on its program's stack.
LEMMA DummyEffect ==
    ASSUME IInv, __dummy
    PROVE  /\ hart' = [at |-> "user", x |-> Program(hart.x.val), a0 |-> hart.a0, pc |-> 0,
                       sp |-> USER_END, sscratch |-> SP(current, 0), sepc |-> 0]
           /\ hart.sp = SP(current, 0) /\ hart.sscratch = USER_END /\ hart.sepc = 0
           /\ current \in Tasks /\ current \in 1 .. MaxTasks
<1> DEFINE sw == switch_stack(hart.sp, hart.sscratch)
<1>1. /\ hart.sp = SP(current, 0) /\ hart.sscratch = USER_END /\ hart.sepc = 0
      /\ current \in Tasks /\ current \in 1 .. MaxTasks
  BY HartFacts DEF __dummy, IInv, OnHart, KernelTop
<1>2. sw[1] = USER_END /\ sw[2] = SP(current, 0)
  BY <1>1, UserSPFacts DEF switch_stack
<1>3. hart' = [hart EXCEPT !.at = "user", !.x = Program(hart.x.val), !.pc = hart.sepc,
                            !.sp = sw[1], !.sscratch = sw[2]]
  BY Zenon DEF __dummy
<1> HIDE DEF sw
<1>4. hart' = [at |-> "user", x |-> Program(hart.x.val), a0 |-> hart.a0, pc |-> 0,
                       sp |-> USER_END, sscratch |-> SP(current, 0), sepc |-> 0]
  BY <1>1, <1>2, <1>3, HartFacts DEF IInv
<1> QED
  BY <1>1, <1>4

\* The first return to a program keeps the invariant.
LEMMA DummyKeepsInv ==
    ASSUME IInv, __dummy PROVE IInv'
<1>1. UNCHANGED <<current, thread, kmem, umem, nr_tasks>>
  BY DEF __dummy
<1>2. hart.x.val \in Values \cup {0}
  BY HartFacts DEF IInv, Regs
<1>3. Program(hart.x.val) \in Regs /\ OfProgram(Program(hart.x.val))
  BY <1>2 DEF Program, Regs, OfProgram, Null, SP, StackPointer
<1>4. TypeOK'
  <2>1. hart' \in Hart
    BY <1>3, DummyEffect, UserSPFacts, KernelSPFacts, HartFacts DEF IInv, Pcs, Hart
  <2> QED
    BY <1>1, <2>1 DEF TypeOK, IInv
<1>5. OnHart'
  <2> DEFINE p == Program(hart.x.val)
  <2>1. OfProgram(p) /\ hart' = [at |-> "user", x |-> p, a0 |-> hart.a0, pc |-> 0,
                       sp |-> USER_END, sscratch |-> SP(current, 0), sepc |-> 0]
    BY <1>3, DummyEffect
  <2> HIDE DEF p
  <2>2. hart'.x = p /\ hart'.pc = 0 /\ hart'.sp = USER_END /\ hart'.sscratch = SP(current, 0)
        /\ hart'.at = "user"
    BY <2>1
  <2>3. USER_END \in UserSPs
    BY UserSPFacts
  <2>4. InProgram'
    BY <1>1, <2>1, <2>2, <2>3 DEF InProgram, KernelTop, OfProgram, KernelPc, UserSPs, SP, Null
  <2> QED
    BY <1>1, <2>2, <2>4, DummyEffect, HartFacts DEF OnHart, InUser, Tasks, IInv
<1>6. \A t \in Tasks' \ {current'} : Waits(t)'
  BY WaitsStays, <1>1 DEF IInv, Tasks
<1> QED
  BY <1>4, <1>5, <1>6 DEF IInv

\* __switch_to: all registers but pc and a0 come from the next thread_struct.
LEMMA SwitchEffect ==
    ASSUME TypeOK, NEW next, __switch_to(next)
    PROVE  /\ hart' = [at |-> Places[thread[next].ra], x |-> thread[next].s, a0 |-> hart.a0,
                       pc |-> hart.pc, sp |-> thread[next].sp,
                       sscratch |-> thread[next].sscratch, sepc |-> thread[next].sepc]
           /\ thread' = [thread EXCEPT ![current] = SavedThread(current)]
           /\ current' = next
           /\ UNCHANGED <<kmem, umem, nr_tasks>>
  BY DEF TypeOK, __switch_to, Hart

\* A switch to a waiting task keeps the invariant: the task that leaves the hart
\* is in its own trap, never in the fault of a read, and waits there.
LEMMA SwitchKeepsInv ==
    ASSUME IInv, NEW next \in Tasks \ {current}, __switch_to(next),
           hart.at = "handler" => hart.x.cause = "timer",
           hart.at \in {"handler", "schedule"}
    PROVE  IInv'
<1> DEFINE th == thread[next]
<1>1. next \in 1 .. MaxTasks /\ next \in Tasks /\ current \in 0 .. nr_tasks /\ th \in Thread
      /\ Waits(next)
      /\ current \in 0 .. MaxTasks
  BY HartFacts DEF IInv, TypeOK, Tasks
<1> HIDE DEF th
<1>2. /\ hart' = [at |-> Places[th.ra], x |-> th.s, a0 |-> hart.a0, pc |-> hart.pc,
                  sp |-> th.sp, sscratch |-> th.sscratch, sepc |-> th.sepc]
      /\ thread' = [thread EXCEPT ![current] = SavedThread(current)]
      /\ current' = next
      /\ UNCHANGED <<kmem, umem, nr_tasks>>
  BY SwitchEffect DEF th, IInv
<1>3. SavedThread(current) \in Thread
  BY HartFacts DEF SavedThread, Thread, IInv
<1>4. thread' \in [0 .. MaxTasks -> Thread] /\ thread'[current] = SavedThread(current)
      /\ \A t \in 0 .. MaxTasks \ {current} : thread'[t] = thread[t]
  BY <1>1, <1>2, <1>3 DEF IInv, TypeOK
<1>5. /\ th.sscratch \in UserSPs
      /\ th.ra = "__dummy" =>
            /\ th.sp = KernelTop(next) /\ th.sscratch = USER_END
            /\ OfProgram(th.s) /\ th.sepc = 0
      /\ th.ra # "__dummy" => th.sp = SP(next, 1) /\ Framed(next)
      /\ th.s \in Regs /\ th.sp \in StackPointer /\ th.sscratch \in StackPointer /\ th.sepc \in Pcs
  BY <1>1 DEF Waits, th, Thread
<1>6. /\ th.ra = "__dummy" => Places[th.ra] = "__dummy"
      /\ th.ra # "__dummy" => Places[th.ra] = "ret"
  BY <1>1 DEF Places, Thread
<1>7. TypeOK'
  <2>1. hart' \in Hart
    BY <1>2, <1>5, <1>6, HartFacts DEF IInv, Hart
  <2> QED
    BY <1>1, <1>2, <1>4, <2>1 DEF TypeOK, IInv, Tasks
<1>8. OnHart'
  <2>1. CASE th.ra = "__dummy"
    <3>1. hart'.at = "__dummy" /\ OfProgram(hart'.x) /\ hart'.sp = KernelTop(next)
          /\ hart'.sscratch = USER_END /\ hart'.sepc = 0
      BY <1>2, <1>5, <1>6, <2>1
    <3> QED
      BY <1>1, <1>2, <3>1 DEF OnHart, OfProgram, KernelTop, USER_END, SP, Null, InUser
  <2>2. CASE th.ra # "__dummy"
    <3>1. hart'.at = "ret" /\ hart'.sp = SP(next, 1) /\ hart'.sscratch \in UserSPs
      BY <1>2, <1>5, <1>6, <2>2
    <3>2. InTrap'
      BY <1>2, <1>5, <2>2, <3>1 DEF InTrap, Framed, UserSPs, SP, OfProgram, Null
    <3> QED
      BY <1>1, <1>2, <3>1, <3>2 DEF OnHart, InUser
  <2> QED
    BY <2>1, <2>2
<1>9. ASSUME NEW t \in Tasks' \ {current'} PROVE Waits(t)'
  <2>1. t \in Tasks /\ t # next /\ t \in 0 .. MaxTasks /\ t \in 1 .. MaxTasks
    BY <1>2, HartFacts DEF Tasks, IInv
  <2>2. CASE t # current
    <3>1. Waits(t) /\ thread'[t] = thread[t] /\ kmem'[t][1] = kmem[t][1]
      BY <1>2, <1>4, <2>1, <2>2 DEF IInv
    <3> QED
      BY <3>1, WaitsStays
  <2>3. CASE t = current
    <3>1. InTrap
      BY <2>1, <2>3 DEF IInv, OnHart, InKernelFault, Tasks, TypeOK
    <3>2. thread'[t] = [ra |-> "switch_to", sp |-> SP(t, 1), s |-> hart.x, sepc |-> hart.sepc,
                       sscratch |-> hart.sscratch]
      BY <1>4, <2>3, <3>1 DEF SavedThread, InTrap
    <3>3. thread'[t].ra = "switch_to" /\ thread'[t].sp = SP(t, 1)
          /\ thread'[t].sscratch = hart.sscratch
      BY <3>2
    <3>4. Framed(t)' /\ hart.sscratch \in UserSPs
      BY <1>2, <2>3, <3>1 DEF InTrap, Framed, OfProgram, SP, Null
    <3> QED
      BY <3>3, <3>4 DEF Waits, UserSPs, SP
  <2> QED
    BY <2>2, <2>3
<1> QED
  BY <1>7, <1>8, <1>9 DEF IInv

\* A handler that returns keeps the invariant as long as it keeps the frame.
LEMMA ReturnKeepsInv ==
    ASSUME IInv, hart.at = "handler", Return, UNCHANGED <<current, thread, nr_tasks>>,
           kmem' \in [1 .. MaxTasks -> [1 .. 2 -> Frame]],
           umem' \in [1 .. MaxTasks -> [1 .. MaxDepth + 1 -> Frame]],
           \A u \in Tasks \ {current} : kmem'[u] = kmem[u],
           Framed(current)',
           InKernelFault => umem'[current] = umem[current]
    PROVE  IInv'
<1>1. hart' = [at |-> "ret", x |-> hart.x, a0 |-> hart.a0, pc |-> hart.pc,
              sp |-> hart.sp, sscratch |-> hart.sscratch, sepc |-> hart.sepc]
  BY HartFacts DEF Return, IInv
<1>2. current \in Tasks /\ current \in 1 .. MaxTasks
  BY HartFacts DEF IInv
<1>3. TypeOK'
  <2>1. hart' \in Hart
    BY <1>1, HartFacts DEF IInv, Hart
  <2> QED
    BY <2>1 DEF TypeOK, IInv
<1>4. OnHart'
  <2>1. hart'.at = "ret" /\ hart'.sp = hart.sp /\ hart'.sscratch = hart.sscratch
    BY <1>1
  <2>2. CASE InTrap
    <3>1. InTrap'
      BY <2>1, <2>2 DEF InTrap, UserSPs, SP
    <3> QED
      BY <1>2, <2>1, <3>1 DEF OnHart, InUser, IInv, TypeOK, Tasks
  <2>3. CASE InKernelFault
    <3>1. InKernelFault'
      BY <2>1, <2>3 DEF InKernelFault, UserSPs, SP, Pop
    <3> QED
      BY <1>2, <2>1, <3>1 DEF OnHart, InUser, IInv, TypeOK, Tasks
  <2> QED
    BY <2>2, <2>3 DEF IInv, OnHart
<1>5. \A t \in Tasks' \ {current'} : Waits(t)'
  BY WaitsStays DEF IInv, Tasks
<1> QED
  BY <1>3, <1>4, <1>5 DEF IInv

\* A handler finds the frame of the program's trap, and finds it in its own
\* registers unless it handles a fault.
LEMMA FramedInHandler ==
    ASSUME IInv, hart.at = "handler"
    PROVE  /\ Framed(current)
           /\ hart.x.cause # "fault" => InTrap /\ hart.x.regs = SP(current, 1)
  BY DEF IInv, OnHart, InTrap, InKernelFault

\* The return from a page fault keeps the invariant.
LEMMA DoPageFaultKeepsInv ==
    ASSUME IInv, DoPageFault PROVE IInv'
<1>1. hart.at = "handler" /\ Return /\ UNCHANGED <<current, thread, kmem, umem, nr_tasks>>
  BY DEF DoPageFault, InHandler
<1>2. Framed(current)'
  BY <1>1, FramedInHandler DEF Framed, OfProgram, SP, Null
<1>3. kmem \in [1 .. MaxTasks -> [1 .. 2 -> Frame]]
      /\ umem \in [1 .. MaxTasks -> [1 .. MaxDepth + 1 -> Frame]]
  BY DEF IInv, TypeOK
<1> QED
  BY <1>1, <1>2, <1>3, ReturnKeepsInv

\* The timer's handler keeps the invariant, whether it switches or returns.
LEMMA DoTimerKeepsInv ==
    ASSUME IInv, DoTimer PROVE IInv'
<1>1. hart.at = "handler" /\ hart.x.cause = "timer"
  BY DEF DoTimer, InHandler
<1>2. CASE Return /\ UNCHANGED <<current, thread, kmem, umem, nr_tasks>>
  <2>1. Framed(current)'
    BY <1>1, <1>2, FramedInHandler DEF Framed, OfProgram, SP, Null
  <2>2. kmem \in [1 .. MaxTasks -> [1 .. 2 -> Frame]]
        /\ umem \in [1 .. MaxTasks -> [1 .. MaxDepth + 1 -> Frame]]
    BY DEF IInv, TypeOK
  <2> QED
    BY <1>1, <1>2, <2>1, <2>2, ReturnKeepsInv
<1>3. CASE \E next \in Tasks \ {current} : __switch_to(next)
  BY <1>1, <1>3, SwitchKeepsInv
<1> QED
  BY <1>2, <1>3 DEF DoTimer

\* The first schedule of start_kernel keeps the invariant.
LEMMA StartKeepsInv ==
    ASSUME IInv, start_kernel PROVE IInv'
<1>1. hart.at = "schedule" /\ current = 0 /\ \E next \in Tasks : __switch_to(next)
  BY DEF start_kernel, IInv, OnHart
<1>2. \A next \in Tasks : next # 0
  BY HartFacts DEF IInv
<1> QED
  BY <1>1, <1>2, SwitchKeepsInv

\* syscall_handler changes a0 and sepc of a frame and nothing else.
LEMMA AnsweredFrame ==
    ASSUME NEW f \in Frame, NEW t \in 1 .. MaxTasks, NEW r \in Int,
           OfProgram(f.x), f.sp = SP(t, 1), f.sepc # KernelPc, f.spp = "U"
    PROVE  /\ Answered(f, r) = [x |-> f.x, a0 |-> r, sp |-> f.sp,
                               sepc |-> (f.sepc + 1) % ProgramSize, spp |-> "U"]
           /\ (f.sepc + 1) % ProgramSize \in 0 .. ProgramSize - 1
           /\ Answered(f, r) \in Frame
<1>1. f.sepc \in 0 .. ProgramSize - 1 /\ f.sepc + 1 \in Nat
  BY DEF Frame, Pcs, KernelPc
<1>2. (f.sepc + 1) % ProgramSize \in 0 .. ProgramSize - 1
  BY <1>1
<1>3. Answered(f, r) = [x |-> f.x, a0 |-> r, sp |-> f.sp,
                       sepc |-> (f.sepc + 1) % ProgramSize, spp |-> "U"]
  <2> DEFINE n == (f.sepc + 1) % ProgramSize
  <2>1. Answered(f, r) = [f EXCEPT !.a0 = r, !.sepc = n]
    BY Zenon DEF Answered
  <2> HIDE DEF n
  <2>2. Answered(f, r) = [x |-> f.x, a0 |-> r, sp |-> f.sp, sepc |-> n, spp |-> f.spp]
    BY <2>1 DEF Frame
  <2> QED
    BY <2>2 DEF n
<1> QED
  BY <1>2, <1>3 DEF Frame, Pcs

\* The handler of a call has the frame of the program's trap at hand.
LEMMA CallFrame ==
    ASSUME IInv, hart.at = "handler", hart.x.cause \in Call
    PROVE  /\ current \in Tasks /\ current \in 1 .. MaxTasks
           /\ hart.x.regs = SP(current, 1) /\ Load(hart.x.regs) = kmem[current][1]
           /\ kmem[current][1] \in Frame /\ OfProgram(kmem[current][1].x)
           /\ kmem[current][1].sp = SP(current, 1) /\ kmem[current][1].sepc # KernelPc
           /\ kmem[current][1].spp = "U" /\ InTrap /\ ~InKernelFault
<1>1. current \in Tasks /\ current \in 1 .. MaxTasks
  BY HartFacts DEF IInv
<1>2. InTrap /\ hart.x.regs = SP(current, 1) /\ Framed(current) /\ ~InKernelFault
  BY FramedInHandler DEF Call, InKernelFault
<1>3. Load(hart.x.regs) = kmem[current][1]
  BY <1>1, <1>2, KernelSPFacts DEF Load
<1>4. kmem[current][1] \in Frame
  BY <1>1 DEF IInv, TypeOK
<1> QED
  BY <1>1, <1>2, <1>3, <1>4 DEF Framed

\* The answer to a call keeps the invariant.
LEMMA AnswerKeepsInv ==
    ASSUME IInv, hart.at = "handler", hart.x.cause \in Call,
           NEW results \in SUBSET Int, AnswerCall(results)
    PROVE  IInv'
<1> DEFINE f == kmem[current][1]
<1>1. PICK r \in results : Write(SP(current, 1), Answered(f, r))
  BY CallFrame DEF AnswerCall
<1>2. /\ f \in Frame /\ OfProgram(f.x) /\ f.sp = SP(current, 1) /\ f.sepc # KernelPc
      /\ f.spp = "U" /\ current \in 1 .. MaxTasks /\ r \in Int
  BY CallFrame
<1> DEFINE g == Answered(f, r)
<1> HIDE DEF f
<1>3. /\ g = [x |-> f.x, a0 |-> r, sp |-> f.sp,
              sepc |-> (f.sepc + 1) % ProgramSize, spp |-> "U"]
      /\ (f.sepc + 1) % ProgramSize \in 0 .. ProgramSize - 1 /\ g \in Frame
  BY <1>2, AnsweredFrame
<1>4. g.x = f.x /\ g.sp = SP(current, 1) /\ g.sepc # KernelPc /\ g.spp = "U"
  BY <1>2, <1>3 DEF KernelPc
<1> HIDE DEF g
<1>5. /\ kmem' \in [1 .. MaxTasks -> [1 .. 2 -> Frame]] /\ umem' = umem
      /\ kmem'[current][1] = g
      /\ \A u \in 1 .. MaxTasks \ {current} : kmem'[u] = kmem[u]
  <2>1. Write(SP(current, 1), g)
    BY <1>1 DEF g
  <2> QED
    BY <2>1, <1>2, <1>3, KmemWrite DEF IInv
<1>6. Return /\ UNCHANGED <<current, thread, nr_tasks>>
  BY DEF AnswerCall
<1>7. Framed(current)'
  BY <1>2, <1>4, <1>5, <1>6 DEF Framed, OfProgram, SP, Null
<1>8. umem' \in [1 .. MaxTasks -> [1 .. MaxDepth + 1 -> Frame]] /\ Tasks \subseteq 1 .. MaxTasks
  BY <1>5, HartFacts DEF IInv, TypeOK
<1> QED
  BY <1>5, <1>6, <1>7, <1>8, ReturnKeepsInv

\* getpid and read keep the invariant.
LEMMA CallsKeepInv ==
    ASSUME IInv, sys_getpid \/ sys_read PROVE IInv'
<1>1. CASE sys_getpid
  <2>1. {current} \in SUBSET Int
    BY DEF IInv, TypeOK
  <2> QED
    BY <1>1, <2>1, AnswerKeepsInv DEF sys_getpid, InHandler, Call
<1>2. CASE sys_read
  BY <1>2, AnswerKeepsInv, SMTT(30) DEF sys_read, InHandler, Call
<1> QED
  BY <1>1, <1>2

\* do_fork: the frames of parent and child, and the child's thread_struct.
LEMMA CloneEffect ==
    ASSUME IInv, sys_clone
    PROVE  LET child == nr_tasks + 1
               f == kmem[current][1]
               pc == (f.sepc + 1) % ProgramSize
           IN
           /\ child \in 1 .. MaxTasks /\ current \in Tasks /\ current \in 1 .. MaxTasks
           /\ child # current /\ Tasks' = Tasks \cup {child}
           /\ f \in Frame /\ pc \in 0 .. ProgramSize - 1 /\ OfProgram(f.x)
           /\ kmem' \in [1 .. MaxTasks -> [1 .. 2 -> Frame]]
           /\ umem' \in [1 .. MaxTasks -> [1 .. MaxDepth + 1 -> Frame]]
           /\ kmem'[current][1] = [x |-> f.x, a0 |-> child, sp |-> SP(current, 1),
                                   sepc |-> pc, spp |-> "U"]
           /\ kmem'[child][1] = [x |-> f.x, a0 |-> 0, sp |-> SP(child, 1),
                                 sepc |-> pc, spp |-> "U"]
           /\ \A u \in 1 .. MaxTasks \ {current, child} : kmem'[u] = kmem[u]
           /\ thread' \in [0 .. MaxTasks -> Thread]
           /\ thread'[child].ra = "__ret_from_fork" /\ thread'[child].sp = SP(child, 1)
           /\ thread'[child].sscratch = hart.sscratch
           /\ \A u \in 0 .. MaxTasks \ {child} : thread'[u] = thread[u]
           /\ nr_tasks' = child /\ current' = current /\ Return /\ InTrap
           /\ hart.at = "handler" /\ hart.x.cause = "clone" /\ ~InKernelFault
<1> DEFINE child == nr_tasks + 1
           f == kmem[current][1]
           pc == (f.sepc + 1) % ProgramSize
<1>1. hart.at = "handler" /\ hart.x.cause \in Call /\ hart.x.cause = "clone"
  BY DEF sys_clone, InHandler, Call
<1>2. /\ f \in Frame /\ OfProgram(f.x) /\ f.sp = SP(current, 1) /\ f.sepc # KernelPc
      /\ f.spp = "U" /\ current \in 1 .. MaxTasks /\ current \in Tasks
      /\ hart.x.regs = SP(current, 1) /\ Load(hart.x.regs) = f /\ InTrap /\ ~InKernelFault
  BY <1>1, CallFrame
<1>3. child \in 1 .. MaxTasks /\ child # current /\ child \in Int
  BY <1>2 DEF sys_clone, IInv, TypeOK, Tasks
<1>4. hart.x.regs.depth = 1 /\ SP(child, 1) \in StackPointer
  BY <1>2, <1>3, KernelSPFacts
<1> DEFINE g == Answered(f, child)
           h == ChildFrame(f, SP(child, 1))
           ct == ChildThread(SP(child, 1))
<1>5. /\ kmem' = [kmem EXCEPT ![child] = [kmem[current] EXCEPT ![1] = h], ![current][1] = g]
      /\ umem' = [umem EXCEPT ![child] = umem[current]]
      /\ thread' = [thread EXCEPT ![child] = ct]
      /\ nr_tasks' = child
      /\ Return /\ current' = current
  <2> DEFINE sp == SP(child, hart.x.regs.depth)
  <2>1. sp = SP(child, 1)
    BY <1>4
  <2>2. /\ kmem' = [kmem EXCEPT ![child] = [kmem[current] EXCEPT ![hart.x.regs.depth]
               = ChildFrame(Load(hart.x.regs), sp)],
                         ![current][hart.x.regs.depth] = Answered(Load(hart.x.regs), child)]
        /\ umem' = [umem EXCEPT ![child] = umem[current]]
        /\ thread' = [thread EXCEPT ![child] = ChildThread(sp)]
        /\ nr_tasks' = child
        /\ Return /\ current' = current
    BY Zenon DEF sys_clone
  <2> HIDE DEF sp, child, f
  <2> QED
    BY Zenon, <1>2, <1>4, <2>1, <2>2
<1>6. ct = [ra |-> "__ret_from_fork", sp |-> SP(child, 1), s |-> thread[current].s,
            sepc |-> thread[current].sepc, sscratch |-> hart.sscratch]
      /\ ct \in Thread
  <2>1. thread[current] \in Thread
    BY <1>2 DEF IInv, TypeOK
  <2>2. ct = [ra |-> "__ret_from_fork", sp |-> SP(child, 1), s |-> thread[current].s,
            sepc |-> thread[current].sepc, sscratch |-> hart.sscratch]
    <3> DEFINE th == thread[current]
               top == SP(child, 1)
    <3>1. ct = [th EXCEPT !.ra = "__ret_from_fork", !.sp = top, !.sscratch = hart.sscratch]
          /\ th \in Thread
      BY Zenon, <2>1 DEF ChildThread
    <3> HIDE DEF th, top, ct
    <3>2. ct = [ra |-> "__ret_from_fork", sp |-> top, s |-> th.s, sepc |-> th.sepc,
                sscratch |-> hart.sscratch]
      BY <3>1 DEF Thread
    <3> QED
      BY <3>2 DEF th, top
  <2> QED
    BY <1>4, <2>1, <2>2, HartFacts DEF Thread, IInv
<1> HIDE DEF f
<1>7. /\ g = [x |-> f.x, a0 |-> child, sp |-> SP(current, 1), sepc |-> pc, spp |-> "U"]
      /\ g \in Frame
  BY <1>2, <1>3, AnsweredFrame
<1>8. /\ h = [x |-> f.x, a0 |-> 0, sp |-> SP(child, 1), sepc |-> pc, spp |-> "U"]
      /\ h \in Frame /\ pc \in 0 .. ProgramSize - 1
  <2>1. /\ Answered(f, 0) = [x |-> f.x, a0 |-> 0, sp |-> f.sp, sepc |-> pc, spp |-> "U"]
        /\ pc \in 0 .. ProgramSize - 1
    BY <1>2, AnsweredFrame
  <2>2. h = [x |-> f.x, a0 |-> 0, sp |-> SP(child, 1), sepc |-> pc, spp |-> "U"]
    BY <2>1 DEF ChildFrame
  <2> QED
    BY <1>2, <1>4, <2>1, <2>2 DEF Frame, Pcs
<1> HIDE DEF g, h, ct, pc
<1>9. /\ kmem' \in [1 .. MaxTasks -> [1 .. 2 -> Frame]]
      /\ kmem'[current][1] = g /\ kmem'[child][1] = h
      /\ \A u \in 1 .. MaxTasks \ {current, child} : kmem'[u] = kmem[u]
  <2> DEFINE row == [kmem[current] EXCEPT ![1] = h]
  <2> USE DEF IInv, TypeOK
  <2>1. row \in [1 .. 2 -> Frame] /\ row[1] = h
    BY <1>2, <1>8
  <2> HIDE DEF row
  <2> DEFINE K == [kmem EXCEPT ![child] = row]
  <2>2. K \in [1 .. MaxTasks -> [1 .. 2 -> Frame]] /\ K[child][1] = h
        /\ \A u \in 1 .. MaxTasks \ {child} : K[u] = kmem[u]
    BY <1>3, <2>1
  <2>3. kmem' = [K EXCEPT ![current][1] = g]
    BY <1>5 DEF row
  <2> HIDE DEF K, child
  <2> QED
    BY <1>2, <1>3, <1>7, <2>2, <2>3
<1>10. umem' \in [1 .. MaxTasks -> [1 .. MaxDepth + 1 -> Frame]]
  BY <1>2, <1>3, <1>5 DEF IInv, TypeOK
<1>11. /\ thread' \in [0 .. MaxTasks -> Thread] /\ thread'[child] = ct
       /\ \A u \in 0 .. MaxTasks \ {child} : thread'[u] = thread[u]
  BY <1>2, <1>3, <1>5, <1>6 DEF IInv, TypeOK
<1>12. /\ thread'[child].ra = "__ret_from_fork" /\ thread'[child].sp = SP(child, 1)
       /\ thread'[child].sscratch = hart.sscratch
  BY <1>6, <1>11
<1>13. Tasks' = Tasks \cup {child}
  BY <1>3, <1>5 DEF Tasks, IInv, TypeOK
<1> QED
  BY <1>1, <1>2, <1>3, <1>5, <1>7, <1>8, <1>9, <1>10, <1>11, <1>12, <1>13 DEF f, pc

\* A clone keeps the invariant: the child waits in the copy of its parent's trap.
LEMMA CloneKeepsInv ==
    ASSUME IInv, sys_clone PROVE IInv'
<1> PICK child \in 1 .. MaxTasks : child = nr_tasks + 1
  BY CloneEffect
<1> DEFINE f == kmem[current][1]
           pc == (f.sepc + 1) % ProgramSize
<1>1. /\ child \in 1 .. MaxTasks /\ current \in Tasks /\ current \in 1 .. MaxTasks
      /\ child # current /\ Tasks' = Tasks \cup {child}
      /\ f \in Frame /\ pc \in 0 .. ProgramSize - 1 /\ OfProgram(f.x)
      /\ kmem' \in [1 .. MaxTasks -> [1 .. 2 -> Frame]]
      /\ umem' \in [1 .. MaxTasks -> [1 .. MaxDepth + 1 -> Frame]]
      /\ kmem'[current][1] = [x |-> f.x, a0 |-> child, sp |-> SP(current, 1),
                              sepc |-> pc, spp |-> "U"]
      /\ kmem'[child][1] = [x |-> f.x, a0 |-> 0, sp |-> SP(child, 1),
                            sepc |-> pc, spp |-> "U"]
      /\ \A u \in 1 .. MaxTasks \ {current, child} : kmem'[u] = kmem[u]
      /\ thread' \in [0 .. MaxTasks -> Thread]
      /\ thread'[child].ra = "__ret_from_fork" /\ thread'[child].sp = SP(child, 1)
      /\ thread'[child].sscratch = hart.sscratch
      /\ \A u \in 0 .. MaxTasks \ {child} : thread'[u] = thread[u]
      /\ nr_tasks' = child /\ current' = current /\ Return /\ InTrap
      /\ hart.at = "handler"
  BY CloneEffect
<1> HIDE DEF f, pc
<1>2. hart' = [at |-> "ret", x |-> hart.x, a0 |-> hart.a0, pc |-> hart.pc,
              sp |-> hart.sp, sscratch |-> hart.sscratch, sepc |-> hart.sepc]
  BY <1>1, HartFacts DEF Return, IInv
<1>3. TypeOK'
  <2>1. hart' \in Hart
    BY <1>2, HartFacts DEF IInv, Hart
  <2>2. nr_tasks' \in 1 .. MaxTasks /\ current' \in 0 .. nr_tasks'
    BY <1>1 DEF IInv, TypeOK
  <2> QED
    BY <1>1, <2>1, <2>2 DEF TypeOK
<1>4. Framed(current)' /\ Framed(child)' /\ hart.sscratch \in UserSPs
  <2>1. pc # KernelPc
    BY <1>1 DEF KernelPc
  <2>2. Framed(current)'
    BY <1>1, <2>1 DEF Framed, OfProgram, SP, Null
  <2>3. Framed(child)'
    BY <1>1, <2>1 DEF Framed, OfProgram, SP, Null
  <2> QED
    BY <1>1, <2>2, <2>3 DEF InTrap
<1>5. OnHart'
  <2>1. hart'.at = "ret" /\ hart'.sp = hart.sp /\ hart'.sscratch = hart.sscratch
    BY <1>2
  <2>2. InTrap'
    BY <1>1, <1>4, <2>1 DEF InTrap, UserSPs, SP
  <2> QED
    BY <1>1, <2>1, <2>2 DEF OnHart, InUser
<1>6. ASSUME NEW t \in Tasks' \ {current'} PROVE Waits(t)'
  <2>1. CASE t = child
    <3>1. /\ thread'[t].ra = "__ret_from_fork" /\ thread'[t].sp = SP(t, 1)
          /\ thread'[t].sscratch = hart.sscratch /\ Framed(t)'
      BY <1>1, <1>4, <2>1
    <3> QED
      BY <1>4, <3>1 DEF Waits, UserSPs, SP
  <2>2. CASE t # child
    <3>1. t \in Tasks /\ t # current /\ t \in 0 .. MaxTasks /\ t \in 1 .. MaxTasks
      BY <1>1, <2>2, HartFacts DEF IInv
    <3>2. Waits(t) /\ thread'[t] = thread[t] /\ kmem'[t] = kmem[t]
      BY <1>1, <2>2, <3>1 DEF IInv
    <3> QED
      BY <3>2, WaitsStays
  <2> QED
    BY <2>1, <2>2
<1> QED
  BY <1>3, <1>5, <1>6 DEF IInv

\* Every step keeps the invariant.
LEMMA NextKeepsInv == IInv /\ [Next]_vars => IInv'
<1> SUFFICES ASSUME IInv, [Next]_vars PROVE IInv'
  OBVIOUS
<1>1. CASE Compute
  BY <1>1, ComputeKeepsInv
<1>2. ASSUME NEW cause \in Causes, Trap(cause) PROVE IInv'
  BY <1>2, TrapKeepsInv
<1>3. CASE KernelFault
  BY <1>3, KernelFaultKeepsInv
<1>4. CASE DoTimer
  BY <1>4, DoTimerKeepsInv
<1>5. CASE DoPageFault
  BY <1>5, DoPageFaultKeepsInv
<1>6. CASE sys_getpid \/ sys_read
  BY <1>6, CallsKeepInv
<1>7. CASE sys_clone
  BY <1>7, CloneKeepsInv
<1>8. CASE __ret_from_fork
  BY <1>8, RetKeepsInv
<1>9. CASE __dummy
  BY <1>9, DummyKeepsInv
<1>10. CASE start_kernel
  BY <1>10, StartKeepsInv
<1>11. CASE UNCHANGED vars
  <2>1. UNCHANGED <<hart, current, thread, kmem, umem, nr_tasks>>
    BY <1>11 DEF vars
  <2>2. TypeOK'
    BY <2>1 DEF IInv, TypeOK
  <2>3. OnHart'
    BY <2>1 DEF IInv, OnHart, InUser, OfProgram, KernelTop, USER_END, SP, User, Null, InProgram,
                InTrap, InKernelFault, Framed, UserSPs, Pop
  <2>4. \A t \in Tasks' \ {current'} : Waits(t)'
    BY <2>1, WaitsStays DEF IInv, Tasks
  <2> QED
    BY <2>2, <2>3, <2>4 DEF IInv
<1> QED
  BY <1>1, <1>2, <1>3, <1>4, <1>5, <1>6, <1>7, <1>8, <1>9, <1>10, <1>11 DEF Next

\* The two stacks of the running task, and of those that wait.
LEMMA InvImpliesOwnStacks == IInv => OwnStacks
<1> SUFFICES ASSUME IInv PROVE OwnStacks
  OBVIOUS
<1>1. current # 0 => {hart.sp.of, hart.sscratch.of} = {User, current}
  <2>1. ASSUME current # 0 PROVE {hart.sp.of, hart.sscratch.of} = {User, current}
    <3>1. current \in 1 .. MaxTasks /\ hart.at # "schedule"
      BY <2>1, HartFacts DEF IInv, OnHart
    <3> QED
      BY <3>1, HartFacts, UserSPFacts, KernelSPFacts
         DEF IInv, OnHart, InUser, InProgram, InTrap, InKernelFault, KernelTop
  <2> QED
    BY <2>1
<1>2. InUser => hart.sp.of = User /\ hart.sscratch = KernelTop(current)
  BY UserSPFacts DEF IInv, OnHart, InProgram
<1>3. ASSUME NEW t \in Tasks \ {current}
      PROVE  /\ thread[t].sp = IF thread[t].ra = "__dummy" THEN KernelTop(t) ELSE SP(t, 1)
             /\ thread[t].sscratch.of = User
  BY UserSPFacts DEF IInv, Waits
<1> QED
  BY <1>1, <1>2, <1>3 DEF OwnStacks

\* The inductive invariant holds in every state.
THEOREM InductiveInvariant == Spec => []IInv
  BY InitInv, NextKeepsInv, PTL DEF Spec

\* A trap runs between the task's kernel stack and its program's, one in sp and
\* the other in sscratch; a program always has an empty kernel stack behind it;
\* a waiting task keeps both of its own (entry.S, task_init, do_fork).
THEOREM StacksCorrect == Spec => []StacksSound
<1>1. IInv => StacksSound
  BY InvImpliesOwnStacks DEF StacksSound
<1> QED
  BY <1>1, InductiveInvariant, PTL

-----------------------------------------------------------------------------
(* The refinement.                                                         *)

\* Contexts and Requests are functions on the tasks, and only the running task
\* can have a request.
LEMMA Views ==
    /\ Contexts = [t \in 1 .. MaxTasks |-> Contexts[t]]
    /\ Requests = [t \in 1 .. MaxTasks |-> Requests[t]]
    /\ \A t \in 1 .. MaxTasks : t # current => Requests[t] = "none"
  BY DEF Contexts, Requests

\* The same after a step.
LEMMA NextViews ==
    /\ Contexts' = [t \in 1 .. MaxTasks |-> Contexts'[t]]
    /\ Requests' = [t \in 1 .. MaxTasks |-> Requests'[t]]
    /\ \A t \in 1 .. MaxTasks : t # current' => Requests'[t] = "none"
  BY DEF Contexts, Requests

\* What the abstract program sees of the task on the hart.
CurrentView ==
    /\ InUser => Contexts[current] = ContextOf(hart.x, hart.a0, hart.pc, hart.sp)
    /\ hart.at = "__dummy" => Contexts[current] = ContextOf(Program(0), 0, 0, USER_END)
    /\ hart.at \in {"handler", "ret"} /\ InTrap =>
          Contexts[current] = ContextOf(kmem[current][1].x, kmem[current][1].a0,
                                        kmem[current][1].sepc, hart.sscratch)
    /\ hart.at \in {"handler", "ret"} /\ InKernelFault =>
          Contexts[current] = ContextOf(kmem[current][1].x, kmem[current][1].a0,
                                        kmem[current][1].sepc, Pop(hart.sp))
    /\ hart.at \in {"user", "__dummy"} => Requests[current] = "none"
    /\ hart.at = "ret" /\ InTrap => Requests[current] = "none"
    /\ hart.at = "handler" /\ InTrap =>
          Requests[current] = IF hart.x.cause \in Call THEN hart.x.cause ELSE "none"
    /\ hart.at \in {"handler", "ret"} /\ InKernelFault => Requests[current] = "read"

\* The abstract program on the hart, read off the concrete registers and frames.
LEMMA CurrentViewHolds == IInv /\ current \in Tasks => CurrentView
<1> SUFFICES ASSUME IInv, current \in Tasks PROVE CurrentView
  OBVIOUS
<1>1. current \in 1 .. MaxTasks /\ ~(current > nr_tasks)
  BY HartFacts DEF IInv, Tasks, TypeOK
<1>2. InTrap => hart.sscratch.of = User /\ hart.sp.of # User
  BY <1>1, UserSPFacts, KernelSPFacts DEF InTrap
<1>3. InKernelFault => hart.sscratch.of # User /\ hart.sp.of = User /\ Outer.cause = "read"
  BY <1>1, KernelSPFacts DEF InKernelFault, Outer
<1>4. /\ InUser => Contexts[current] = ContextOf(hart.x, hart.a0, hart.pc, hart.sp)
      /\ hart.at = "__dummy" => Contexts[current] = ContextOf(Program(0), 0, 0, USER_END)
      /\ hart.at \in {"handler", "ret"} /\ InTrap =>
            Contexts[current] = ContextOf(kmem[current][1].x, kmem[current][1].a0,
                                          kmem[current][1].sepc, hart.sscratch)
      /\ hart.at \in {"handler", "ret"} /\ InKernelFault =>
            Contexts[current] = ContextOf(kmem[current][1].x, kmem[current][1].a0,
                                          kmem[current][1].sepc, Pop(hart.sp))
  BY <1>1, <1>2, <1>3 DEF Contexts, Fresh, UserSp, InUser
<1>5. /\ hart.at \in {"user", "__dummy"} => Requests[current] = "none"
      /\ hart.at = "ret" /\ InTrap => Requests[current] = "none"
      /\ hart.at = "handler" /\ InTrap =>
            Requests[current] = IF hart.x.cause \in Call THEN hart.x.cause ELSE "none"
      /\ hart.at \in {"handler", "ret"} /\ InKernelFault => Requests[current] = "read"
  BY <1>1, <1>2, <1>3 DEF Requests, Waiting, Outer, Call
<1> QED
  BY <1>4, <1>5 DEF CurrentView

\* The same after a step.
LEMMA NextViewHolds == (IInv /\ current \in Tasks)' => CurrentView'
  BY CurrentViewHolds, PTL

\* A task that is neither on the hart nor touched by the step looks the same.
LEMMA OtherContext ==
    ASSUME NEW t \in 1 .. MaxTasks, t # current, t # current', thread'[t] = thread[t],
           kmem'[t][1] = kmem[t][1], t > nr_tasks <=> t > nr_tasks'
    PROVE  Contexts'[t] = Contexts[t]
  BY DEF Contexts, Fresh, UserSp, ContextOf, Program, USER_END, SP, Null

\* The abstract state in one equation.
AbstractUnchanged == Contexts' = Contexts /\ Running' = Running /\ Requests' = Requests
                     /\ nr_tasks' = nr_tasks /\ FreshTasks' = FreshTasks

\* A step of the running task leaves the others' registers and requests alone.
LEMMA OthersSame ==
    ASSUME IInv, UNCHANGED <<current, thread, nr_tasks>>, current \in Tasks, NEW S,
           S = 1 .. MaxTasks \ {current},
           \A u \in S : kmem'[u] = kmem[u]
    PROVE  /\ \A u \in S : Contexts'[u] = Contexts[u] /\ Requests'[u] = Requests[u]
           /\ (hart'.at = "__dummy" <=> hart.at = "__dummy") => FreshTasks' = FreshTasks
           /\ Contexts'[current] = Contexts[current] => Contexts' = Contexts
           /\ Requests'[current] = Requests[current] => Requests' = Requests
<1>1. \A u \in S : Contexts'[u] = Contexts[u]
  BY OtherContext DEF IInv, TypeOK
<1>2. \A u \in S : Requests'[u] = Requests[u]
  BY DEF Requests
<1>3. (hart'.at = "__dummy" <=> hart.at = "__dummy") => FreshTasks' = FreshTasks
  BY DEF FreshTasks, Fresh, Tasks
<1>4. Contexts'[current] = Contexts[current] => \A u \in 1 .. MaxTasks : Contexts'[u] = Contexts[u]
  BY <1>1
<1>5. Requests'[current] = Requests[current] => \A u \in 1 .. MaxTasks : Requests'[u] = Requests[u]
  BY <1>2
<1>6. Contexts' = [t \in 1 .. MaxTasks |-> Contexts'[t]]
      /\ Contexts = [t \in 1 .. MaxTasks |-> Contexts[t]]
  BY DEF Contexts
<1>7. Requests' = [t \in 1 .. MaxTasks |-> Requests'[t]]
      /\ Requests = [t \in 1 .. MaxTasks |-> Requests[t]]
  BY DEF Requests
<1>8. Contexts'[current] = Contexts[current] => Contexts' = Contexts
  BY <1>4, <1>6
<1>9. Requests'[current] = Requests[current] => Requests' = Requests
  BY <1>5, <1>7
<1> QED
  BY <1>1, <1>2, <1>3, <1>8, <1>9

\* Which of the two traps it is, by the stack in sp.
LEMMA WhichTrap ==
    /\ IInv /\ hart.at \in {"handler", "ret"} /\ hart.sp.of # User => InTrap
    /\ (IInv /\ hart.at \in {"handler", "ret"} /\ hart.sp.of # User)' => InTrap'
  BY DEF IInv, OnHart, InKernelFault

\* A program that computes does so in the abstract specification.
LEMMA ComputeRefines ==
    ASSUME IInv, IInv', Compute PROVE Abstract!Compute(current)
<1>1. /\ InUser /\ InUser' /\ hart.at = "user" /\ hart'.at = "user"
      /\ UNCHANGED <<current, thread, kmem, umem, nr_tasks>> /\ current \in Tasks
  BY HartFacts DEF Compute, InUser, IInv
<1>2. CurrentView /\ CurrentView'
  BY <1>1, CurrentViewHolds, NextViewHolds DEF Tasks
<1>3. Requests'[current] = Requests[current]
  BY <1>1, <1>2 DEF CurrentView
<1>4. /\ Requests' = Requests /\ FreshTasks' = FreshTasks
      /\ \A u \in 1 .. MaxTasks \ {current} : Contexts'[u] = Contexts[u]
  BY <1>1, <1>3, OthersSame
<1>5. Contexts' = [Contexts EXCEPT ![current] = Contexts'[current]]
  BY <1>4 DEF Contexts
<1>6. Running = current /\ Running' = Running
  BY <1>1 DEF Running
<1> QED
  BY <1>1, <1>4, <1>5, <1>6 DEF Abstract!Compute

\* A trap from the program enters the kernel and keeps the registers.
LEMMA TrapRefines ==
    ASSUME IInv, IInv', NEW cause \in Causes, Trap(cause) PROVE Abstract!Enter(current)
<1>1. /\ InUser /\ hart.at = "user" /\ UNCHANGED <<current, thread, nr_tasks>> /\ current \in Tasks
      /\ current \in 1 .. MaxTasks
  BY HartFacts DEF Trap, InUser, IInv
<1>2. /\ hart'.at = "handler" /\ hart'.sp = SP(current, 1) /\ hart'.sscratch = hart.sp
      /\ kmem'[current][1].x = hart.x /\ kmem'[current][1].a0 = hart.a0
      /\ kmem'[current][1].sepc = hart.pc
      /\ \A u \in 1 .. MaxTasks \ {current} : kmem'[u] = kmem[u]
  BY TrapEffect
<1>3. InTrap'
  BY <1>1, <1>2, WhichTrap, KernelSPFacts
<1>4. CurrentView /\ CurrentView'
  BY <1>1, CurrentViewHolds, NextViewHolds DEF Tasks
<1>5. Contexts'[current] = Contexts[current]
  BY <1>1, <1>2, <1>3, <1>4 DEF CurrentView
<1>6. /\ Contexts' = Contexts /\ FreshTasks' = FreshTasks
      /\ \A u \in 1 .. MaxTasks \ {current} : Requests'[u] = Requests[u]
  BY <1>1, <1>2, <1>5, OthersSame
<1>7. Requests' = [Requests EXCEPT ![current] = Requests'[current]]
  BY <1>6 DEF Requests
<1>8. Running = current /\ Running' = 0
  BY <1>1, <1>2 DEF Running, InUser
<1> QED
  BY <1>1, <1>6, <1>7, <1>8 DEF Abstract!Enter

\* A fault inside a read is not seen by any program.
LEMMA KernelFaultRefines ==
    ASSUME IInv, IInv', KernelFault PROVE AbstractUnchanged
<1>1. /\ hart.at = "handler" /\ hart.x.cause = "read" /\ UNCHANGED <<current, thread, nr_tasks>>
      /\ current \in Tasks /\ current \in 1 .. MaxTasks
  BY HartFacts DEF KernelFault, InHandler, IInv
<1>2. /\ hart.sp = SP(current, 1) /\ hart.sscratch \in UserSPs
      /\ hart'.at = "handler" /\ hart'.sp = Push(hart.sscratch) /\ kmem' = kmem
  BY KernelFaultEffect
<1>3. InTrap
  BY <1>1, <1>2, WhichTrap, KernelSPFacts
<1>4. hart'.sp.of = User /\ Pop(hart'.sp) = hart.sscratch
  BY <1>2, UserSPFacts
<1>5. InKernelFault'
  BY <1>1, <1>2, <1>4, KernelSPFacts DEF IInv, OnHart, InTrap
<1>6. CurrentView /\ CurrentView'
  BY <1>1, CurrentViewHolds, NextViewHolds DEF Tasks
<1>7. Contexts'[current] = Contexts[current]
  BY <1>1, <1>2, <1>3, <1>4, <1>5, <1>6 DEF CurrentView
<1>8. Requests'[current] = Requests[current]
  BY <1>1, <1>2, <1>3, <1>5, <1>6 DEF CurrentView, Call
<1>9. Contexts' = Contexts /\ Requests' = Requests /\ FreshTasks' = FreshTasks
  BY <1>1, <1>2, <1>7, <1>8, OthersSame
<1>10. Running' = Running
  BY <1>1, <1>2 DEF Running, InUser
<1> QED
  BY <1>1, <1>9, <1>10 DEF AbstractUnchanged

\* The handler of an interrupt or of a page fault changes no program's registers.
LEMMA ReturnRefines ==
    ASSUME IInv, IInv', hart.at = "handler", hart.x.cause \notin Call, Return,
           UNCHANGED <<current, thread, kmem, umem, nr_tasks>>
    PROVE  AbstractUnchanged
<1>1. /\ current \in Tasks /\ current \in 1 .. MaxTasks
      /\ hart'.at = "ret" /\ hart'.sp = hart.sp /\ hart'.sscratch = hart.sscratch
  BY HartFacts DEF IInv, Return
<1>2. CurrentView /\ CurrentView'
  BY <1>1, CurrentViewHolds, NextViewHolds DEF Tasks
<1>3. Contexts'[current] = Contexts[current] /\ Requests'[current] = Requests[current]
  <2>1. CASE InTrap
    <3>1. hart'.sp.of # User
      BY <1>1, <2>1, KernelSPFacts DEF InTrap
    <3>2. InTrap'
      BY <1>1, <3>1, WhichTrap
    <3> QED
      BY <1>1, <1>2, <2>1, <3>2 DEF CurrentView
  <2>2. CASE InKernelFault
    <3>1. hart'.sp.of = User
      BY <1>1, <2>2 DEF InKernelFault
    <3>2. InKernelFault'
      BY <1>1, <3>1, KernelSPFacts DEF IInv, OnHart, InTrap
    <3> QED
      BY <1>1, <1>2, <2>2, <3>2 DEF CurrentView
  <2> QED
    BY <2>1, <2>2 DEF IInv, OnHart
<1>4. Contexts' = Contexts /\ Requests' = Requests /\ FreshTasks' = FreshTasks
  BY <1>1, <1>3, OthersSame
<1>5. Running' = Running
  BY <1>1 DEF Running, InUser
<1> QED
  BY <1>4, <1>5 DEF AbstractUnchanged

\* A switch is not seen by any program.
LEMMA SwitchRefines ==
    ASSUME IInv, IInv', NEW next \in Tasks \ {current}, __switch_to(next),
           hart.at = "handler" => hart.x.cause = "timer",
           hart.at \in {"handler", "schedule"}
    PROVE  AbstractUnchanged
<1>1. /\ next \in 1 .. MaxTasks /\ Waits(next) /\ thread[next] \in Thread
      /\ next \in Tasks' /\ current \in 0 .. MaxTasks /\ ~(next > nr_tasks)
  BY HartFacts DEF IInv, TypeOK, Tasks, __switch_to
<1>2. /\ hart'.at = Places[thread[next].ra] /\ hart'.sp = thread[next].sp
      /\ hart'.sscratch = thread[next].sscratch
      /\ thread' = [thread EXCEPT ![current] = SavedThread(current)]
      /\ current' = next /\ UNCHANGED <<kmem, umem, nr_tasks>>
  BY SwitchEffect DEF IInv
<1>3. /\ thread'[current] = SavedThread(current)
      /\ \A t \in 0 .. MaxTasks \ {current} : thread'[t] = thread[t]
  BY <1>1, <1>2 DEF IInv, TypeOK
<1>4. /\ SavedThread(current).ra = "switch_to"
      /\ SavedThread(current).sscratch = hart.sscratch
  BY DEF SavedThread
<1>5. CurrentView' /\ (current \in Tasks => CurrentView)
  BY <1>1, <1>2, CurrentViewHolds, NextViewHolds
<1>6. hart'.at = IF thread[next].ra = "__dummy" THEN "__dummy" ELSE "ret"
  BY <1>1, <1>2 DEF Places, Thread
<1>7. thread[next].ra # "__dummy" => InTrap'
  <2>1. thread[next].ra # "__dummy" => hart'.sp.of # User /\ hart'.at = "ret"
    BY <1>1, <1>2, <1>6, KernelSPFacts DEF Waits
  <2> QED
    BY <2>1, WhichTrap
<1>8. Contexts'[next] = Contexts[next] /\ Requests'[next] = Requests[next]
  <2>1. Requests[next] = "none"
    BY <1>1, Views
  <2>2. CASE thread[next].ra = "__dummy"
    <3>1. Contexts[next] = ContextOf(Program(0), 0, 0, USER_END)
      BY <1>1, <2>2 DEF Contexts, Fresh
    <3> QED
      BY <1>2, <1>5, <1>6, <2>1, <2>2, <3>1 DEF CurrentView
  <2>3. CASE thread[next].ra # "__dummy"
    <3>1. Contexts[next] = ContextOf(kmem[next][1].x, kmem[next][1].a0, kmem[next][1].sepc,
                                     thread[next].sscratch)
      BY <1>1, <2>3 DEF Contexts, Fresh, UserSp
    <3> QED
      BY <1>2, <1>5, <1>6, <1>7, <2>1, <2>3, <3>1 DEF CurrentView
  <2> QED
    BY <2>2, <2>3
<1>9. ASSUME current \in Tasks
      PROVE  Contexts'[current] = Contexts[current] /\ Requests'[current] = Requests[current]
  <2>1. current \in 1 .. MaxTasks /\ ~(current > nr_tasks) /\ current # current'
    BY <1>2, <1>9, HartFacts DEF IInv, Tasks, TypeOK
  <2>2. InTrap /\ hart.at = "handler" /\ hart.x.cause = "timer"
    BY <1>9 DEF IInv, OnHart, InKernelFault, Tasks, TypeOK
  <2>3. Contexts'[current] = ContextOf(kmem[current][1].x, kmem[current][1].a0,
                                       kmem[current][1].sepc, hart.sscratch)
    BY <1>2, <1>3, <1>4, <2>1 DEF Contexts, Fresh, UserSp
  <2>4. Requests'[current] = "none" /\ Requests[current] = "none"
    BY <1>5, <1>9, <2>1, <2>2, NextViews DEF CurrentView, Call
  <2> QED
    BY <1>5, <1>9, <2>2, <2>3, <2>4 DEF CurrentView
<1>10. ASSUME NEW t \in 1 .. MaxTasks
       PROVE  Contexts'[t] = Contexts[t] /\ Requests'[t] = Requests[t]
  <2>1. CASE t = next
    BY <1>8, <2>1
  <2>2. CASE t = current
    <3>1. current \in Tasks
      BY <2>2 DEF IInv, TypeOK, Tasks
    <3> QED
      BY <1>9, <2>2, <3>1
  <2>3. CASE t # next /\ t # current
    <3>1. Contexts'[t] = Contexts[t]
      BY <1>2, <1>3, <2>3, OtherContext
    <3> QED
      BY <1>2, <2>3, <3>1, Views, NextViews
  <2> QED
    BY <2>1, <2>2, <2>3
<1>11. Contexts' = Contexts /\ Requests' = Requests
  BY <1>10, Views, NextViews
<1>12. FreshTasks' = FreshTasks
  <2>1. ASSUME NEW t \in Tasks PROVE Fresh(t)' <=> Fresh(t)
    <3>1. t \in 0 .. MaxTasks
      BY HartFacts DEF IInv
    <3> QED
      BY <1>2, <1>3, <1>4, <1>6, <2>1, <3>1 DEF Fresh
  <2> QED
    BY <1>2, <2>1 DEF FreshTasks, Tasks
<1>13. Running' = Running
  BY <1>6 DEF Running, InUser
<1> QED
  BY <1>2, <1>11, <1>12, <1>13 DEF AbstractUnchanged

\* getpid and read answer the call of the running program, once and in a0.
LEMMA AnswerRefines ==
    ASSUME IInv, IInv', hart.at = "handler", hart.x.cause \in Call,
           NEW results \in SUBSET Int, AnswerCall(results), hart.x.cause \in {"read", "getpid"},
           hart.x.cause = "getpid" => results = {current}
    PROVE  Abstract!Answer(current)
<1> DEFINE f == kmem[current][1]
<1>1. PICK r \in results : Write(SP(current, 1), Answered(f, r))
  BY CallFrame DEF AnswerCall
<1>2. /\ f \in Frame /\ OfProgram(f.x) /\ f.sp = SP(current, 1) /\ f.sepc # KernelPc
      /\ f.spp = "U" /\ current \in 1 .. MaxTasks /\ current \in Tasks /\ r \in Int
      /\ InTrap /\ hart.sp = SP(current, 1)
  BY CallFrame DEF InTrap
<1> HIDE DEF f
<1> DEFINE g == Answered(f, r)
           pc == (f.sepc + 1) % ProgramSize
<1>3. g.x = f.x /\ g.a0 = r /\ g.sepc = pc /\ g \in Frame
  BY <1>2, AnsweredFrame
<1> HIDE DEF g, pc
<1>4. /\ kmem'[current][1] = g
      /\ \A u \in 1 .. MaxTasks \ {current} : kmem'[u] = kmem[u]
  <2>1. Write(SP(current, 1), g)
    BY <1>1 DEF g
  <2> QED
    BY <2>1, <1>2, <1>3, KmemWrite DEF IInv
<1>5. /\ Return /\ UNCHANGED <<current, thread, nr_tasks>>
      /\ hart'.at = "ret" /\ hart'.sp = hart.sp /\ hart'.sscratch = hart.sscratch
  BY HartFacts DEF AnswerCall, Return, IInv
<1>6. InTrap'
  BY <1>2, <1>5, WhichTrap, KernelSPFacts
<1>7. CurrentView /\ CurrentView'
  BY <1>2, <1>5, CurrentViewHolds, NextViewHolds DEF Tasks
<1>8. Contexts[current] = ContextOf(f.x, f.a0, f.sepc, hart.sscratch)
  BY <1>2, <1>7 DEF CurrentView, f
<1>9. Contexts'[current] = ContextOf(f.x, r, pc, hart.sscratch)
  BY <1>3, <1>4, <1>5, <1>6, <1>7 DEF CurrentView
<1>10. Contexts'[current].a0 = r
  BY <1>9 DEF ContextOf
<1>11. Contexts'[current] = Abstract!Behind(Contexts[current], Contexts'[current].a0)
  <2>1. Abstract!Behind(Contexts[current], r) = [Contexts[current] EXCEPT !.pc
            = (@ + 1) % ProgramSize, !.a0 = r]
    BY Zenon DEF Abstract!Behind
  <2> DEFINE c == Contexts[current]
  <2>2. c = [pc |-> f.sepc, sp |-> hart.sscratch, a0 |-> f.a0, val |-> f.x.val]
    BY <1>8 DEF ContextOf
  <2>3. c.pc = f.sepc
    BY <2>2
  <2>4. (c.pc + 1) % ProgramSize = pc
    BY <2>3 DEF pc
  <2>5. Abstract!Behind(c, r) = [c EXCEPT !.pc = pc, !.a0 = r]
    BY Zenon, <2>1, <2>4
  <2> HIDE DEF c
  <2>6. [c EXCEPT !.pc = pc, !.a0 = r] =
            [pc |-> pc, sp |-> hart.sscratch, a0 |-> r, val |-> f.x.val]
    <3> DEFINE d == [c EXCEPT !.pc = pc]
    <3>1. d = [pc |-> pc, sp |-> hart.sscratch, a0 |-> f.a0, val |-> f.x.val]
      BY <2>2
    <3>2. [c EXCEPT !.pc = pc, !.a0 = r] = [d EXCEPT !.a0 = r]
      BY Zenon
    <3> HIDE DEF d
    <3> QED
      BY <3>1, <3>2
  <2> QED
    BY <1>9, <1>10, <2>5, <2>6 DEF ContextOf, c
<1>12. /\ FreshTasks' = FreshTasks
       /\ \A u \in 1 .. MaxTasks \ {current} : Contexts'[u] = Contexts[u]
          /\ Requests'[u] = Requests[u]
  BY <1>2, <1>4, <1>5, OthersSame
<1>13. Contexts' = [Contexts EXCEPT ![current]
           = Abstract!Behind(Contexts[current], Contexts'[current].a0)]
  <2> DEFINE c == Abstract!Behind(Contexts[current], Contexts'[current].a0)
  <2>1. Contexts'[current] = c
    BY <1>11
  <2> HIDE DEF c
  <2>2. Contexts' = [Contexts EXCEPT ![current] = c]
    BY <1>2, <1>12, <2>1, Views, NextViews
  <2> QED
    BY <2>2 DEF c
<1>14. Requests[current] = hart.x.cause /\ Requests'[current] = "none"
  BY <1>2, <1>5, <1>6, <1>7 DEF CurrentView
<1>15. Requests' = [Requests EXCEPT ![current] = "none"]
  BY <1>2, <1>12, <1>14, Views, NextViews
<1>16. Running = 0 /\ Running' = 0
  BY <1>5 DEF Running, InUser
<1>17. Requests[current] = "getpid" => Contexts'[current].a0 = current
  BY <1>1, <1>10, <1>14
<1> QED
  BY <1>5, <1>12, <1>13, <1>14, <1>15, <1>16, <1>17 DEF Abstract!Answer

\* A clone gives the child the registers of its parent but for a0.
LEMMA CloneRefines ==
    ASSUME IInv, IInv', sys_clone PROVE Abstract!Clone(current)
<1> PICK child \in 1 .. MaxTasks : child = nr_tasks + 1
  BY CloneEffect
<1> DEFINE f == kmem[current][1]
           pc == (f.sepc + 1) % ProgramSize
<1>1. /\ current \in Tasks /\ current \in 1 .. MaxTasks
      /\ child # current /\ Tasks' = Tasks \cup {child}
      /\ kmem'[current][1] = [x |-> f.x, a0 |-> child, sp |-> SP(current, 1),
                              sepc |-> pc, spp |-> "U"]
      /\ kmem'[child][1] = [x |-> f.x, a0 |-> 0, sp |-> SP(child, 1),
                            sepc |-> pc, spp |-> "U"]
      /\ \A u \in 1 .. MaxTasks \ {current, child} : kmem'[u] = kmem[u]
      /\ thread'[child].ra = "__ret_from_fork"
      /\ thread'[child].sscratch = hart.sscratch
      /\ \A u \in 0 .. MaxTasks \ {child} : thread'[u] = thread[u]
      /\ nr_tasks' = child /\ current' = current /\ Return /\ InTrap
      /\ hart.at = "handler" /\ hart.x.cause = "clone"
  BY CloneEffect
<1>2. /\ hart'.at = "ret" /\ hart'.sp = hart.sp /\ hart'.sscratch = hart.sscratch
      /\ hart.sp = SP(current, 1)
  BY <1>1, HartFacts DEF Return, IInv, InTrap
<1>3. InTrap'
  BY <1>1, <1>2, WhichTrap, KernelSPFacts
<1>4. CurrentView /\ CurrentView'
  BY <1>1, CurrentViewHolds, NextViewHolds
<1> DEFINE c == Contexts[current]
<1>5. c = [pc |-> f.sepc, sp |-> hart.sscratch, a0 |-> f.a0, val |-> f.x.val]
  BY <1>1, <1>4 DEF CurrentView, ContextOf
<1> HIDE DEF f, c, pc
<1>6. Contexts'[current] = [pc |-> pc, sp |-> hart.sscratch, a0 |-> child, val |-> f.x.val]
  BY <1>1, <1>2, <1>3, <1>4 DEF CurrentView, ContextOf
<1>7. Contexts'[child] = [pc |-> pc, sp |-> hart.sscratch, a0 |-> 0, val |-> f.x.val]
  <2>1. ~(child > nr_tasks') /\ ~Fresh(child)' /\ child # current'
    BY <1>1 DEF Fresh
  <2>2. Contexts'[child] = ContextOf(kmem'[child][1].x, kmem'[child][1].a0,
                                     kmem'[child][1].sepc, thread'[child].sscratch)
    BY <2>1 DEF Contexts, UserSp
  <2> QED
    BY <1>1, <2>2 DEF ContextOf
<1>8. ASSUME NEW r \in {child, 0}
      PROVE  Abstract!Behind(c, r) =
                [pc |-> pc, sp |-> hart.sscratch, a0 |-> r, val |-> f.x.val]
  <2>1. Abstract!Behind(c, r) = [c EXCEPT !.pc = (c.pc + 1) % ProgramSize, !.a0 = r]
    BY Zenon DEF Abstract!Behind
  <2>2. (c.pc + 1) % ProgramSize = pc
    BY <1>5 DEF pc
  <2>3. Abstract!Behind(c, r) = [c EXCEPT !.pc = pc, !.a0 = r]
    BY Zenon, <2>1, <2>2
  <2>4. [c EXCEPT !.pc = pc, !.a0 = r] =
            [pc |-> pc, sp |-> hart.sscratch, a0 |-> r, val |-> f.x.val]
    <3> DEFINE d == [c EXCEPT !.pc = pc]
    <3>1. d = [pc |-> pc, sp |-> hart.sscratch, a0 |-> f.a0, val |-> f.x.val]
      BY <1>5
    <3>2. [c EXCEPT !.pc = pc, !.a0 = r] = [d EXCEPT !.a0 = r]
      BY Zenon
    <3> HIDE DEF d
    <3> QED
      BY <3>1, <3>2
  <2> QED
    BY <2>3, <2>4
<1> DEFINE own == Abstract!Behind(c, child)
           his == Abstract!Behind(c, 0)
<1>9. Contexts'[current] = own /\ Contexts'[child] = his
  BY <1>6, <1>7, <1>8
<1>10. ASSUME NEW u \in 1 .. MaxTasks, u # current, u # child
       PROVE  Contexts'[u] = Contexts[u]
  <2>1. u > nr_tasks <=> u > nr_tasks'
    BY <1>1, <1>10 DEF IInv, TypeOK
  <2> QED
    BY <1>1, <1>10, <2>1, OtherContext
<1> HIDE DEF own, his
<1>11. Contexts' = [Contexts EXCEPT ![current] = own, ![child] = his]
  BY <1>1, <1>9, <1>10, Views, NextViews
<1>12. Requests[current] = "clone" /\ Requests'[current] = "none"
  BY <1>1, <1>2, <1>3, <1>4 DEF CurrentView, Call
<1>13. Requests' = [Requests EXCEPT ![current] = "none"]
  BY <1>1, <1>12, Views, NextViews
<1>14. FreshTasks' = FreshTasks
  <2>1. ASSUME NEW t \in Tasks PROVE Fresh(t)' <=> Fresh(t)
    <3>1. t \in 0 .. MaxTasks /\ t # child
      BY HartFacts DEF IInv, Tasks, TypeOK
    <3> QED
      BY <1>1, <1>2, <3>1 DEF Fresh
  <2>2. ~Fresh(child)'
    BY <1>1 DEF Fresh
  <2> QED
    BY <1>1, <2>1, <2>2 DEF FreshTasks
<1>15. Running = 0 /\ Running' = 0 /\ nr_tasks < MaxTasks
  BY <1>1, <1>2 DEF Running, InUser, sys_clone
<1>16. /\ Contexts' = [Contexts EXCEPT ![current]
              = Abstract!Behind(Contexts[current], nr_tasks + 1),
                                       ![nr_tasks + 1] = Abstract!Behind(Contexts[current], 0)]
       /\ nr_tasks' = nr_tasks + 1
  BY Zenon, <1>1, <1>11 DEF own, his, c
<1> QED
  BY <1>12, <1>13, <1>14, <1>15, <1>16 DEF Abstract!Clone

\* The return from a trap resumes the program where it was, or the read under it.
LEMMA RetRefines ==
    ASSUME IInv, IInv', __ret_from_fork
    PROVE  AbstractUnchanged \/ Abstract!Leave(current)
<1>1. /\ hart.at = "ret" /\ UNCHANGED <<current, thread, nr_tasks>>
      /\ current \in Tasks /\ current \in 1 .. MaxTasks
  BY HartFacts DEF __ret_from_fork, IInv
<1>2. CurrentView /\ CurrentView'
  BY <1>1, CurrentViewHolds, NextViewHolds DEF Tasks
<1> DEFINE k == kmem[current][1]
           u == umem[current][hart.sp.depth]
           usp == Pop(hart.sp)
<1>3. CASE /\ InTrap
           /\ hart' = [at |-> "user", x |-> k.x, a0 |-> k.a0, pc |-> k.sepc,
                       sp |-> hart.sscratch, sscratch |-> SP(current, 0), sepc |-> k.sepc]
           /\ \A t \in 1 .. MaxTasks \ {current} : kmem'[t] = kmem[t]
  <2> HIDE DEF k
  <2>1. /\ hart'.at = "user" /\ hart'.x = k.x /\ hart'.a0 = k.a0 /\ hart'.pc = k.sepc
        /\ hart'.sp = hart.sscratch
    BY <1>3
  <2>2. Contexts[current] = ContextOf(k.x, k.a0, k.sepc, hart.sscratch)
        /\ Requests[current] = "none"
    BY <1>1, <1>2, <1>3 DEF CurrentView, k
  <2>3. Contexts'[current] = Contexts[current] /\ Requests'[current] = Requests[current]
    BY <1>1, <1>2, <2>1, <2>2 DEF CurrentView, InUser
  <2>4. Contexts' = Contexts /\ Requests' = Requests /\ FreshTasks' = FreshTasks
    BY <1>1, <1>3, <2>1, <2>3, OthersSame
  <2>5. Running = 0 /\ Running' = current /\ current \notin FreshTasks
    BY <1>1, <2>1 DEF Running, InUser, FreshTasks, Fresh
  <2> QED
    BY <1>1, <2>2, <2>4, <2>5 DEF Abstract!Leave
<1>4. CASE /\ InKernelFault
           /\ hart' = [at |-> "handler", x |-> u.x, a0 |-> u.a0, pc |-> KernelPc,
                       sp |-> SP(current, 1), sscratch |-> usp, sepc |-> KernelPc]
           /\ kmem' = kmem
  <2>1. u.x.cause = "read"
    BY <1>4 DEF InKernelFault
  <2> HIDE DEF u, usp
  <2>2. /\ hart'.at = "handler" /\ hart'.x = u.x /\ hart'.sp = SP(current, 1)
        /\ hart'.sscratch = usp
    BY <1>4
  <2>3. InTrap'
    BY <1>1, <2>2, WhichTrap, KernelSPFacts
  <2>4. Contexts'[current] = Contexts[current]
    BY <1>1, <1>2, <1>4, <2>2, <2>3 DEF CurrentView, usp
  <2>5. Requests'[current] = Requests[current]
    BY <1>1, <1>2, <1>4, <2>1, <2>2, <2>3 DEF CurrentView, Call
  <2>6. Contexts' = Contexts /\ Requests' = Requests /\ FreshTasks' = FreshTasks
    BY <1>1, <1>4, <2>2, <2>4, <2>5, OthersSame
  <2>7. Running' = Running
    BY <1>1, <2>2 DEF Running, InUser
  <2> QED
    BY <1>1, <2>6, <2>7 DEF AbstractUnchanged
<1> QED
  BY <1>3, <1>4, RetEffect

\* The first return to a program starts it at its first instruction.
LEMMA DummyRefines ==
    ASSUME IInv, IInv', __dummy PROVE Abstract!Start(current)
<1>1. /\ hart.at = "__dummy" /\ UNCHANGED <<current, thread, kmem, umem, nr_tasks>>
      /\ current \in Tasks /\ current \in 1 .. MaxTasks
  BY DummyEffect DEF __dummy
<1>2. CurrentView /\ CurrentView'
  BY <1>1, CurrentViewHolds, NextViewHolds DEF Tasks
<1> DEFINE v == hart.x.val
           a == hart.a0
<1>3. /\ hart'.at = "user" /\ hart'.x.val = v /\ hart'.a0 = a /\ hart'.pc = 0
      /\ hart'.sp = USER_END
  BY DummyEffect DEF Program
<1> HIDE DEF v, a
<1>4. Contexts[current] = [pc |-> 0, sp |-> USER_END, a0 |-> 0, val |-> 0]
  BY <1>1, <1>2 DEF CurrentView, ContextOf, Program
<1>5. Contexts'[current] = [pc |-> 0, sp |-> USER_END, a0 |-> a, val |-> v]
  BY <1>1, <1>2, <1>3 DEF CurrentView, ContextOf, InUser
<1>6. Requests'[current] = Requests[current]
  BY <1>1, <1>2, <1>3 DEF CurrentView
<1>7. /\ Requests' = Requests
      /\ \A u \in 1 .. MaxTasks \ {current} : Contexts'[u] = Contexts[u]
  BY <1>1, <1>6, OthersSame
<1>8. Contexts' = [Contexts EXCEPT ![current].val = Contexts'[current].val,
                                   ![current].a0 = Contexts'[current].a0]
  <2> DEFINE c == Contexts[current]
             d == Contexts'[current]
  <2>1. d.val = v /\ d.a0 = a
    BY <1>5
  <2>2. [c EXCEPT !.val = v, !.a0 = a] = d
    <3> DEFINE e == [c EXCEPT !.val = v]
    <3>1. e = [pc |-> 0, sp |-> USER_END, a0 |-> 0, val |-> v]
      BY <1>4
    <3>2. [c EXCEPT !.val = v, !.a0 = a] = [e EXCEPT !.a0 = a]
      BY Zenon
    <3> HIDE DEF e
    <3> QED
      BY <1>5, <3>1, <3>2
  <2> HIDE DEF c, d
  <2>3. Contexts' = [Contexts EXCEPT ![current] = d]
    BY <1>1, <1>7, Views, NextViews DEF d
  <2>4. [Contexts EXCEPT ![current].val = d.val, ![current].a0 = d.a0]
            = [Contexts EXCEPT ![current] = [c EXCEPT !.val = d.val, !.a0 = d.a0]]
    BY <1>1, Views DEF c
  <2> QED
    BY <2>1, <2>2, <2>3, <2>4 DEF d
<1>9. FreshTasks' = FreshTasks \ {current} /\ current \in FreshTasks
  BY <1>1, <1>3 DEF FreshTasks, Fresh, Tasks
<1>10. Running = 0 /\ Running' = current
  BY <1>1, <1>3 DEF Running, InUser
<1> QED
  BY <1>1, <1>7, <1>8, <1>9, <1>10 DEF Abstract!Start

\* Before the first schedule no program has run and none has a request.
LEMMA InitRefines == Init => Abstract!Init
<1> SUFFICES ASSUME Init PROVE Abstract!Init
  OBVIOUS
<1>1. IInv /\ current = 0 /\ nr_tasks = 1 /\ hart.at = "schedule" /\ Tasks = {1}
  BY InitInv DEF Init, Tasks
<1>2. thread[1].ra = "__dummy"
  BY DEF Init
<1>3. ASSUME NEW t \in 1 .. MaxTasks
      PROVE  /\ Contexts[t] = [pc |-> 0, sp |-> USER_END, a0 |-> 0, val |-> 0]
             /\ Requests[t] = "none"
  <2>1. t > nr_tasks \/ Fresh(t)
    BY <1>1, <1>2 DEF Fresh
  <2> QED
    BY <1>1, <2>1 DEF Contexts, Requests, ContextOf, Program
<1>4. [pc |-> 0, sp |-> USER_END, a0 |-> 0, val |-> 0] \in Abstract!Context
  BY UserSPFacts DEF Abstract!Context
<1>5. Contexts \in [1 .. MaxTasks -> Abstract!Context]
  BY <1>3, <1>4, Views
<1>6. Requests = [t \in 1 .. MaxTasks |-> "none"]
  BY <1>3, Views
<1>7. Running = 0 /\ FreshTasks = {1}
  BY <1>1, <1>2 DEF Running, InUser, FreshTasks, Fresh
<1> QED
  BY <1>1, <1>5, <1>6, <1>7 DEF Abstract!Init

\* Every step is one of the abstract specification, or none.
LEMMA NextRefines == IInv /\ IInv' /\ [Next]_vars => [Abstract!Next]_Abstract!vars
<1> SUFFICES ASSUME IInv, IInv', [Next]_vars PROVE [Abstract!Next]_Abstract!vars
  OBVIOUS
<1>1. AbstractUnchanged => UNCHANGED Abstract!vars
  BY DEF AbstractUnchanged, Abstract!vars
<1>2. ASSUME current \in Tasks,
             \/ Abstract!Compute(current) \/ Abstract!Enter(current) \/ Abstract!Leave(current)
             \/ Abstract!Start(current) \/ Abstract!Answer(current) \/ Abstract!Clone(current)
      PROVE  Abstract!Next
  BY <1>2 DEF Abstract!Next, Tasks
<1>3. hart.at # "schedule" => current \in Tasks
  BY HartFacts DEF IInv
<1>4. CASE Compute
  BY <1>2, <1>3, <1>4, ComputeRefines DEF Compute, InUser
<1>5. ASSUME NEW cause \in Causes, Trap(cause) PROVE Abstract!Next
  BY <1>2, <1>3, <1>5, TrapRefines DEF Trap, InUser
<1>6. CASE KernelFault
  BY <1>1, <1>6, KernelFaultRefines
<1>7. CASE DoTimer
  <2>1. hart.at = "handler" /\ hart.x.cause = "timer" /\ "timer" \notin Call
    BY <1>7 DEF DoTimer, InHandler, Call
  <2> QED
    BY <1>1, <1>7, <2>1, ReturnRefines, SwitchRefines DEF DoTimer
<1>8. CASE DoPageFault
  BY <1>1, <1>8, ReturnRefines DEF DoPageFault, InHandler, Call
<1>9. CASE sys_getpid
  <2>1. /\ hart.at = "handler" /\ hart.x.cause = "getpid" /\ AnswerCall({current})
        /\ {current} \in SUBSET Int /\ "getpid" \in Call
    BY <1>9 DEF sys_getpid, InHandler, Call, IInv, TypeOK
  <2>2. Abstract!Answer(current)
    BY <2>1, AnswerRefines
  <2> QED
    BY <1>2, <1>3, <2>1, <2>2
<1>10. CASE sys_read
  <2>1. /\ hart.at = "handler" /\ hart.x.cause = "read" /\ AnswerCall(Values)
        /\ Values \in SUBSET Int /\ "read" \in Call
    BY <1>10 DEF sys_read, InHandler, Call
  <2>2. Abstract!Answer(current)
    BY <2>1, AnswerRefines
  <2> QED
    BY <1>2, <1>3, <2>1, <2>2
<1>11. CASE sys_clone
  BY <1>2, <1>3, <1>11, CloneRefines DEF sys_clone, InHandler
<1>12. CASE __ret_from_fork
  BY <1>1, <1>2, <1>3, <1>12, RetRefines DEF __ret_from_fork
<1>13. CASE __dummy
  BY <1>2, <1>3, <1>13, DummyRefines DEF __dummy
<1>14. CASE start_kernel
  <2>1. hart.at = "schedule" /\ current = 0 /\ \A next \in Tasks : next # 0
    BY <1>14, HartFacts DEF start_kernel, IInv, OnHart
  <2> QED
    BY <1>1, <1>14, <2>1, SwitchRefines DEF start_kernel
<1>15. CASE UNCHANGED vars
  <2>1. UNCHANGED <<hart, current, thread, kmem, umem, nr_tasks>>
    BY <1>15 DEF vars
  <2>2. AbstractUnchanged
    BY <2>1 DEF AbstractUnchanged, Contexts, Requests, Running, FreshTasks, Fresh, Tasks, InUser,
                ContextOf, UserSp, Waiting, Outer, Program, USER_END, SP, User, Null, Pop, Call
  <2> QED
    BY <1>1, <2>2
<1> QED
  BY <1>4, <1>5, <1>6, <1>7, <1>8, <1>9, <1>10, <1>11, <1>12, <1>13, <1>14, <1>15 DEF Next

\* Traps, switches, clones and faults of the kernel implement UserContexts: only
\* a program changes its registers, but for the one answer to each call.
THEOREM ImplementsUserContexts == Spec => UserContextsSpec
<1>1. IInv /\ IInv' /\ [Next]_vars => [Abstract!Next]_Abstract!vars
  BY NextRefines
<1> QED
  BY <1>1, InitRefines, InductiveInvariant, PTL DEF Spec, UserContextsSpec, Abstract!Spec

HIDE TrapAssumption

-----------------------------------------------------------------------------
(* The shell's own formats: a message with %s.                             *)

\* The fields of a state that has printed, and those of the first one.
LEMMA PrintedIs ==
    ASSUME NEW st, st.flags \in FlagSet, NEW text, NEW used
    PROVE  /\ IsState(Printed(st, text, used)) /\ Printed(st, text, used).at = st.at + 1
           /\ Printed(st, text, used).flags \in FlagSet /\ ~ Printed(st, text, used).flags.in_format
           /\ Printed(st, text, used).out = st.out \o text
           /\ Printed(st, text, used).written = st.written + Len(text)
           /\ Printed(st, text, used).used = used
<1>1. [st.flags EXCEPT !.in_format = FALSE] \in FlagSet
      /\ ~ [st.flags EXCEPT !.in_format = FALSE].in_format
  BY DEF FlagSet
<1> DEFINE f == [st.flags EXCEPT !.in_format = FALSE]
<1> HIDE DEF f
<1>2. Printed(st, text, used) =
         [at |-> st.at + 1, flags |-> f, out |-> st.out \o text, written |-> st.written + Len(text),
          used |-> used, stored |-> st.stored]
  BY DEF Printed, f
<1>3. f \in FlagSet /\ ~ f.in_format
  BY <1>1 DEF f
<1> QED
  BY <1>2, <1>3 DEF IsState

LEMMA StartIs ==
    /\ IsState(Start) /\ Start.at = 1 /\ Start.flags \in FlagSet /\ ~ Start.flags.in_format
    /\ Start.out = <<>> /\ Start.written = 0 /\ Start.used = 0
<1>1. Flags(FALSE, 0) \in FlagSet /\ ~ Flags(FALSE, 0).in_format
  BY DEF Flags, FlagSet
<1> DEFINE f == Flags(FALSE, 0)
<1>2. f \in FlagSet /\ ~ f.in_format
  BY <1>1
<1>3. Start = [at |-> 1, flags |-> f, out |-> <<>>, written |-> 0, used |-> 0, stored |-> <<>>]
  BY DEF Start
<1> HIDE DEF f
<1> QED
  BY <1>2, <1>3 DEF IsState

\* A turn of vprintfmt, as what it makes of the state.
Stage(st, at, in_format, out, used) ==
    /\ IsState(st) /\ st.at = at /\ st.flags \in FlagSet /\ st.flags.in_format = in_format
    /\ st.out = out /\ st.used = used /\ st.written \in Nat

\* Printing moves a stage on by one character.
LEMMA PrintedStage ==
    ASSUME NEW st, NEW at, NEW g, NEW out, NEW used, Stage(st, at, g, out, used), NEW text, NEW n,
           Len(text) \in Nat
    PROVE  Stage(Printed(st, text, n), at + 1, FALSE, out \o text, n)
<1>1. st.flags \in FlagSet /\ st.at = at /\ st.out = out
  BY DEF Stage
<1> DEFINE p == Printed(st, text, n)
<1>2. /\ IsState(p) /\ p.at = st.at + 1 /\ p.flags \in FlagSet /\ ~ p.flags.in_format
      /\ p.out = st.out \o text /\ p.used = n /\ p.written = st.written + Len(text)
  <2>1. st.flags \in FlagSet
    BY <1>1
  <2> QED
    BY ONLY <2>1, PrintedIs
<1> HIDE DEF p
<1>3. p.flags.in_format = FALSE
  BY <1>2 DEF FlagSet
<1>4. p.written \in Nat
  BY <1>2 DEF Stage
<1> QED
  BY <1>1, <1>2, <1>3, <1>4 DEF Stage, p

\* A plain character is printed, a % opens a directive,
LEMMA CharStage ==
    ASSUME NEW fmt, NEW args, NEW st, NEW at, NEW out, NEW used, Stage(st, at, FALSE, out, used),
           NEW c, At(fmt, at) = c, IsPlain(c)
    PROVE  Stage(Turn(fmt, args, st), at + 1, FALSE, out \o <<c>>, used)
<1>1. IsState(st) /\ ~ st.flags.in_format /\ c = At(fmt, st.at) /\ c # "" /\ c # "%" /\ st.used = used
  BY DEF Stage, IsPlain
<1>2. Turn(fmt, args, st) = Printed(st, <<c>>, st.used)
  BY <1>1, CharTurn
<1>3. Len(<<c>>) \in Nat
  OBVIOUS
<1> QED
  BY <1>1, <1>2, <1>3, PrintedStage

LEMMA PercentStage ==
    ASSUME NEW fmt, NEW args, NEW st, NEW at, NEW out, NEW used, Stage(st, at, FALSE, out, used),
           At(fmt, at) = "%"
    PROVE  Stage(Turn(fmt, args, st), at + 1, TRUE, out, used)
<1>1. IsState(st) /\ ~ st.flags.in_format /\ At(fmt, st.at) = "%" /\ st.at = at /\ st.out = out /\ st.used = used
  BY DEF Stage
<1> DEFINE f == Flags(TRUE, -1)
           p == Moved(st, st.at + 1, f, st.used)
<1>2. f \in FlagSet /\ f.in_format = TRUE
  BY DEF Flags, FlagSet
<1>3. Turn(fmt, args, st) = p
  BY <1>1, PercentTurn
<1> HIDE DEF f
<1>4. IsState(p) /\ p.at = at + 1 /\ p.flags = f /\ p.out = out /\ p.used = used /\ p.written = st.written
  BY <1>1 DEF Moved, IsState
<1> HIDE DEF p
<1>5. Stage(p, at + 1, TRUE, out, used)
  BY <1>2, <1>4 DEF Stage
<1> QED
  BY <1>3, <1>5

\* s is no flag, no digit and no number's beginning.
LEMMA SFacts ==
    /\ "s" \notin FlagChars /\ "s" \notin {"", "*", "."} /\ DigitOf("s") \notin 1 .. 9
    /\ IsPlain("\n") /\ IsPlain(":")
<1>1. "s" \notin DigitChars
  BY DEF DigitChars
<1>2. DigitOf("s") = 99
  BY <1>1, NotDigit
<1>3. "s" \notin FlagChars /\ "s" \notin {"", "*", "."}
  BY DEF FlagChars
<1> QED
  BY <1>2, <1>3 DEF IsPlain

\* and %s prints the text of its argument.
LEMMA StringStage ==
    ASSUME NEW fmt, NEW args, NEW st, NEW at, NEW out, NEW used, Stage(st, at, TRUE, out, used),
           At(fmt, at) = "s", NEW t, Len(t) \in Nat, args[used + 1].text = t, args[used + 1].null = FALSE
    PROVE  Stage(Turn(fmt, args, st), at + 1, FALSE, out \o t, used + 1)
<1>1. IsState(st) /\ st.flags.in_format /\ At(fmt, st.at) = "s" /\ st.used = used
  BY DEF Stage
<1> DEFINE c == "s"
<1>2. /\ c = At(fmt, st.at) /\ c \notin FlagChars /\ c \notin {"", "*", "."}
      /\ DigitOf(c) \notin 1 .. 9
  BY <1>1, SFacts
<1>3. c = "s"
  OBVIOUS
<1> HIDE DEF c
<1>4. Turn(fmt, args, st) = Convert(c, [st EXCEPT !.at = @ + 1], args)
  BY ONLY <1>1, <1>2, ConvertTurn, Zenon
<1>5. Convert(c, [st EXCEPT !.at = @ + 1], args) = Printed(st, puts_wo_nl(args[st.used + 1]), st.used + 1)
  BY ONLY <1>1, <1>3, ConvertIs, Zenon
<1>6. puts_wo_nl(args[st.used + 1]) = t
  BY <1>1 DEF puts_wo_nl
<1>7. Turn(fmt, args, st) = Printed(st, t, used + 1)
  BY <1>1, <1>4, <1>5, <1>6, Zenon
<1> QED
  BY <1>7, PrintedStage

\* The shell's messages: "x:%s\n".
Message(x) == <<x, ":", "%", "s", "\n">>
GivenText(t) == <<[word |-> 0, text |-> t, null |-> FALSE]>>
Filled(x, t) == ((<<x>> \o <<":">>) \o t) \o <<"\n">>

\* Where the characters of a message's format stand.
LEMMA MessageIs ==
    ASSUME NEW x
    PROVE  /\ Len(Message(x)) = 5 /\ DOMAIN Message(x) = 1 .. 5
           /\ At(Message(x), 1) = x /\ At(Message(x), 2) = ":" /\ At(Message(x), 3) = "%"
           /\ At(Message(x), 4) = "s" /\ At(Message(x), 5) = "\n"
<1>1. Len(Message(x)) = 5 /\ DOMAIN Message(x) = 1 .. 5
  BY DEF Message
<1>2. /\ Message(x)[1] = x /\ Message(x)[2] = ":" /\ Message(x)[3] = "%"
      /\ Message(x)[4] = "s" /\ Message(x)[5] = "\n"
  BY DEF Message
<1> QED
  BY <1>1, <1>2 DEF At

\* A plain character behind a plain text, and two before one.
LEMMA EndOne ==
    ASSUME NEW S, NEW s \in Seq(S), NEW e \in S
    PROVE  /\ s \o <<e>> \in Seq(S) /\ Len(s \o <<e>>) = Len(s) + 1 /\ (s \o <<e>>)[Len(s) + 1] = e
           /\ (IsPlain(e) /\ \A i \in 1 .. Len(s) : IsPlain(s[i]))
                => \A i \in 1 .. Len(s) + 1 : IsPlain((s \o <<e>>)[i])
<1>1. Len(s) \in Nat /\ s \o <<e>> = Append(s, e)
  BY LenProperties, AppendIsConcat
<1>2. /\ s \o <<e>> \in Seq(S) /\ Len(s \o <<e>>) = Len(s) + 1 /\ (s \o <<e>>)[Len(s) + 1] = e
      /\ \A i \in 1 .. Len(s) : (s \o <<e>>)[i] = s[i]
  BY <1>1, AppendIs
<1>3. \A i \in 1 .. Len(s) + 1 : i \in 1 .. Len(s) \/ i = Len(s) + 1
  BY <1>1
<1> QED
  BY <1>2, <1>3

LEMMA BehindTwo ==
    ASSUME NEW S, NEW s \in Seq(S), NEW h \in Seq(S), Len(h) = 2
    PROVE  /\ h \o s \in Seq(S) /\ Len(h \o s) = Len(s) + 2
           /\ (IsPlain(h[1]) /\ IsPlain(h[2]) /\ \A i \in 1 .. Len(s) : IsPlain(s[i]))
                => \A i \in 1 .. Len(s) + 2 : IsPlain((h \o s)[i])
<1>1. Len(s) \in Nat
  BY LenProperties
<1>2. /\ h \o s \in Seq(S) /\ Len(h \o s) = Len(s) + 2
      /\ \A i \in 1 .. Len(s) + 2 : (h \o s)[i] = IF i <= 2 THEN h[i] ELSE s[i - 2]
  <2>1. h \o s \in Seq(S) /\ Len(h \o s) = Len(h) + Len(s)
    BY ConcatProperties, Zenon
  <2>2. \A i \in 1 .. Len(h) + Len(s) : (h \o s)[i] = IF i <= Len(h) THEN h[i] ELSE s[i - Len(h)]
    BY ConcatProperties, Zenon
  <2>3. Len(h) + Len(s) = Len(s) + 2
    BY <1>1
  <2> QED
    BY <2>1, <2>2, <2>3, Zenon
<1>3. \A i \in 1 .. Len(s) + 2 : i = 1 \/ i = 2 \/ (~ (i <= 2) /\ i - 2 \in 1 .. Len(s))
  BY <1>1
<1> QED
  BY <1>2, <1>3

\* A message with its text is plain, three characters longer, and ends its row.
LEMMA FilledIs ==
    ASSUME NEW x, IsPlain(x), NEW S, NEW t \in Seq(S), x \in S, ":" \in S, "\n" \in S
    PROVE  /\ Filled(x, t) \in Seq(S) /\ Len(Filled(x, t)) = Len(t) + 3
           /\ Filled(x, t)[Len(t) + 3] = "\n"
           /\ (\A i \in 1 .. Len(t) : IsPlain(t[i])) => \A i \in 1 .. Len(t) + 3 : IsPlain(Filled(x, t)[i])
<1> DEFINE h == <<x>> \o <<":">>
           z == "\n"
           s == h \o t
<1>1. Len(t) \in Nat
  BY LenProperties
<1>2. h \in Seq(S) /\ Len(h) = 2 /\ h[1] = x /\ h[2] = ":"
  OBVIOUS
<1>3. IsPlain(h[1]) /\ IsPlain(h[2]) /\ IsPlain(z) /\ z \in S
  BY <1>2, SFacts
<1> HIDE DEF h, z
<1>4. /\ s \in Seq(S) /\ Len(s) = Len(t) + 2
      /\ (\A i \in 1 .. Len(t) : IsPlain(t[i])) => \A i \in 1 .. Len(t) + 2 : IsPlain(s[i])
  BY <1>2, <1>3, BehindTwo
<1> HIDE DEF s
<1>5. Filled(x, t) = s \o <<z>>
  BY DEF Filled, s, h, z
<1>6. /\ s \o <<z>> \in Seq(S) /\ Len(s \o <<z>>) = Len(s) + 1 /\ (s \o <<z>>)[Len(s) + 1] = z
      /\ (IsPlain(z) /\ \A i \in 1 .. Len(s) : IsPlain(s[i]))
            => \A i \in 1 .. Len(s) + 1 : IsPlain((s \o <<z>>)[i])
  BY <1>3, <1>4, EndOne
<1>7. Len(s) + 1 = Len(t) + 3
  BY <1>1, <1>4
<1> QED
  BY <1>3, <1>4, <1>5, <1>6, <1>7 DEF z

\* The shell's messages print their text where %s stands.
LEMMA MessagePrinted ==
    ASSUME NEW x, IsPlain(x), NEW S, NEW t \in Seq(S)
    PROVE  /\ vprintfmt(Message(x), GivenText(t)).out = Filled(x, t)
           /\ vprintfmt(Message(x), GivenText(t)).written \in Nat
<1> DEFINE fmt  == Message(x)
           args == GivenText(t)
<1>1. Len(fmt) = 5 /\ 5 \in Nat
  BY MessageIs
<1>2. PICK f : Runs(f, 5, fmt, args) /\ vprintfmt(fmt, args) = f[5]
  BY <1>1, LoopRun
<1>3. f[0] = Start /\ \A k \in 1 .. 5 : f[k] = Turn(fmt, args, f[k - 1])
  BY <1>1, <1>2, RunFacts
<1>4. /\ f[1] = Turn(fmt, args, f[0]) /\ f[2] = Turn(fmt, args, f[1]) /\ f[3] = Turn(fmt, args, f[2])
      /\ f[4] = Turn(fmt, args, f[3]) /\ f[5] = Turn(fmt, args, f[4])
  BY <1>3
<1>5. /\ At(fmt, 1) = x /\ At(fmt, 2) = ":" /\ At(fmt, 3) = "%" /\ At(fmt, 4) = "s" /\ At(fmt, 5) = "\n"
  BY MessageIs
<1>6. args[0 + 1].text = t /\ args[0 + 1].null = FALSE
  BY DEF GivenText
<1> HIDE DEF fmt, args
<1> DEFINE o == <<>>
<1>7. Stage(f[0], 1, FALSE, o, 0)
  BY <1>3, StartIs DEF Stage, FlagSet
<1> HIDE DEF o
<1>8. 1 + 1 = 2 /\ 2 + 1 = 3 /\ 3 + 1 = 4 /\ 4 + 1 = 5 /\ 5 + 1 = 6
  OBVIOUS
<1> DEFINE o1 == o \o <<x>>
           o2 == o1 \o <<":">>
           o3 == o2 \o t
           o4 == o3 \o <<"\n">>
<1>9. Stage(f[1], 2, FALSE, o1, 0)
  BY <1>4, <1>5, <1>7, <1>8, CharStage
<1> HIDE DEF o1
<1>10. Stage(f[2], 3, FALSE, o2, 0)
  BY <1>4, <1>5, <1>8, <1>9, CharStage, SFacts
<1> HIDE DEF o2
<1>11. Stage(f[3], 4, TRUE, o2, 0)
  BY <1>4, <1>5, <1>8, <1>10, PercentStage
<1>12. Stage(f[4], 5, FALSE, o3, 0 + 1)
  <2>1. Len(t) \in Nat
    BY LenProperties
  <2> QED
    BY <1>4, <1>5, <1>6, <1>8, <1>11, <2>1, StringStage
<1> HIDE DEF o3
<1>13. Stage(f[5], 6, FALSE, o4, 0 + 1)
  BY <1>4, <1>5, <1>8, <1>12, CharStage, SFacts
<1>14. f[5].out = o4 /\ f[5].written \in Nat
  BY <1>13 DEF Stage
<1>15. o1 = <<x>>
  <2>1. <<x>> \in Seq({x})
    OBVIOUS
  <2> QED
    BY <2>1, EmptyFirst DEF o1, o
<1>16. o4 = Filled(x, t)
  BY <1>15 DEF Filled, o2, o3
<1> QED
  BY <1>2, <1>14, <1>16 DEF fmt, args

-----------------------------------------------------------------------------
(* Keys, rows of the terminal, and what a character does to a row.         *)

\* What may stand in the shell's line, in its buffer or on its screen.
Keyset == UNION {Range(chunk) : chunk \in Chunks}
Inks == Keyset \cup {Nul, Junk, "%", "s", "\n", "\r", Back, Yellow, "<red>", "<clear>",
                     " ", "S", ">", "?", "!", ":", "1", "2"}

\* Keys are shown: no mark and no Nul is among them.
LEMMA KeyFacts ==
    /\ \A chunk \in Chunks : chunk \in Seq(Keyset)
    /\ Keyset \cap Marks = {} /\ Keyset \subseteq Inks
<1>1. ASSUME NEW chunk \in Chunks
      PROVE  chunk \in Seq(Keyset) /\ Range(chunk) \cap Marks = {}
  <2>1. chunk \in Seq(Range(chunk) \ Marks)
    BY ShellAssumption
  <2>2. Range(chunk) \subseteq Keyset
    BY DEF Keyset
  <2>3. Range(chunk) \ Marks \subseteq Keyset
    BY <2>2
  <2>4. chunk \in Seq(Keyset)
    BY <2>1, <2>3, SeqMonotonic
  <2>5. Range(chunk) \subseteq Range(chunk) \ Marks
    BY <2>1, RangeOfSeq
  <2> QED
    BY <2>4, <2>5
<1>2. Keyset \cap Marks = {}
  BY <1>1 DEF Keyset
<1>3. Keyset \subseteq Inks
  BY DEF Inks
<1> QED
  BY <1>1, <1>2, <1>3

LEMMA KeyIs ==
    ASSUME NEW key \in Keyset
    PROVE  /\ IsPlain(key) /\ key \in Inks /\ key # Nul
           /\ key # "\n" /\ key # Back /\ key \notin {Yellow, "<red>", "<clear>"}
<1>1. key \notin Marks /\ key \in Inks
  BY KeyFacts
<1> QED
  BY <1>1 DEF Marks, IsPlain, Nul

\* Rows of the terminal, with the cursor within them or behind; the empty one.
Rows == {r \in [text : Seq(Inks), col : Nat] : r.col <= Len(r.text)}
Bottom == [text |-> <<>>, col |-> 0]

LEMMA RowIs ==
    ASSUME NEW text \in Seq(Inks), NEW col \in Nat, col <= Len(text)
    PROVE  [text |-> text, col |-> col] \in Rows
  BY DEF Rows

LEMMA BottomIs == Bottom \in Rows
<1> DEFINE none == <<>>
<1>1. none \in Seq(Inks) /\ 0 <= Len(none)
  OBVIOUS
<1>2. Bottom = [text |-> none, col |-> 0]
  BY DEF Bottom
<1> HIDE DEF none
<1> QED
  BY <1>1, <1>2, RowIs

\* A character that is shown.
Shows(ch) == ch \in Inks /\ ch \notin {Yellow, "<red>", "<clear>", "\n", "\r", Back}
Put(text, col, ch) == IF col < Len(text) THEN [text EXCEPT ![col + 1] = ch] ELSE Append(text, ch)

\* A character is put where the cursor is, and the others stay.
LEMMA PutIs ==
    ASSUME NEW text \in Seq(Inks), NEW col \in Nat, col <= Len(text), NEW ch \in Inks
    PROVE  /\ Put(text, col, ch) \in Seq(Inks) /\ col + 1 <= Len(Put(text, col, ch))
           /\ Len(Put(text, col, ch)) = IF col < Len(text) THEN Len(text) ELSE col + 1
           /\ Put(text, col, ch)[col + 1] = ch
           /\ \A i \in 1 .. col : Put(text, col, ch)[i] = text[i]
           /\ \A i \in col + 2 .. Len(text) : Put(text, col, ch)[i] = text[i]
<1>1. Len(text) \in Nat
  BY LenProperties
<1>2. CASE col < Len(text)
  <2> DEFINE p == [text EXCEPT ![col + 1] = ch]
  <2>1. Put(text, col, ch) = p
    BY <1>2 DEF Put
  <2>2. col + 1 \in 1 .. Len(text)
    BY <1>1, <1>2
  <2>3. p \in Seq(Inks) /\ Len(p) = Len(text) /\ \A j \in 1 .. Len(text) : p[j] = IF j = col + 1 THEN ch ELSE text[j]
    <3> DEFINE k == col + 1
    <3>1. k \in 1 .. Len(text)
      BY <2>2
    <3> HIDE DEF k
    <3> QED
      BY <3>1, ExceptSeq DEF k
  <2> HIDE DEF p
  <2>4. /\ p[col + 1] = ch
        /\ \A i \in 1 .. col : p[i] = text[i]
        /\ \A i \in col + 2 .. Len(text) : p[i] = text[i]
    <3>1. \A i \in 1 .. col : i \in 1 .. Len(text) /\ i # col + 1
      BY <1>1, <1>2
    <3>2. \A i \in col + 2 .. Len(text) : i \in 1 .. Len(text) /\ i # col + 1
      BY <1>1, <1>2
    <3> QED
      BY <2>2, <2>3, <3>1, <3>2, Zenon
  <2> QED
    BY <1>1, <1>2, <2>1, <2>3, <2>4
<1>3. CASE ~ (col < Len(text))
  <2> DEFINE p == Append(text, ch)
  <2>1. Put(text, col, ch) = p /\ col = Len(text)
    BY <1>1, <1>3 DEF Put
  <2>2. /\ p \in Seq(Inks) /\ Len(p) = Len(text) + 1 /\ p[Len(text) + 1] = ch
        /\ \A i \in 1 .. Len(text) : p[i] = text[i]
    BY AppendIs
  <2> HIDE DEF p
  <2> QED
    BY <1>1, <1>3, <2>1, <2>2
<1> QED
  BY <1>2, <1>3

\* Marks differ from one another.
LEMMA MarkFacts ==
    /\ Yellow \notin {"\n", "\r", Back} /\ "<red>" \notin {"\n", "\r", Back}
    /\ "<clear>" \notin {"\n", "\r", Back} /\ "\n" \notin {"\r", Back} /\ "\r" # Back
  BY DEF Yellow, Back

\* What the terminal does with each character.
LEMMA PlaceIs ==
    ASSUME NEW row, NEW ch
    PROVE  /\ ch \in {Yellow, "<red>", "<clear>"} => Place(row, ch) = row
           /\ ch = "\n" => Place(row, ch) = Bottom
           /\ ch = "\r" => Place(row, ch) = [row EXCEPT !.col = 0]
           /\ ch = Back => Place(row, ch) = [row EXCEPT !.col = IF @ > 0 THEN @ - 1 ELSE 0]
           /\ ch \notin {Yellow, "<red>", "<clear>", "\n", "\r", Back} =>
                 Place(row, ch) = [text |-> Put(row.text, row.col, ch), col |-> row.col + 1]
<1> USE MarkFacts
<1>1. ch \in {Yellow, "<red>", "<clear>"} => Place(row, ch) = row
  BY Zenon DEF Place
<1>2. ch = "\n" => Place(row, ch) = Bottom
  BY Zenon DEF Place, Bottom
<1>3. ch = "\r" => Place(row, ch) = [row EXCEPT !.col = 0]
  BY Zenon DEF Place
<1>4. ch = Back => Place(row, ch) = [row EXCEPT !.col = IF @ > 0 THEN @ - 1 ELSE 0]
  BY Zenon DEF Place
<1>5. ch \notin {Yellow, "<red>", "<clear>", "\n", "\r", Back} =>
         Place(row, ch) = [text |-> Put(row.text, row.col, ch), col |-> row.col + 1]
  BY Zenon DEF Place, Put
<1> QED
  BY <1>1, <1>2, <1>3, <1>4, <1>5

\* A row stays a row.
LEMMA PlaceType ==
    ASSUME NEW row \in Rows, NEW ch \in Inks
    PROVE  Place(row, ch) \in Rows
<1>1. /\ row.text \in Seq(Inks) /\ row.col \in Nat /\ row.col <= Len(row.text)
      /\ row = [text |-> row.text, col |-> row.col] /\ Len(row.text) \in Nat
  BY DEF Rows
<1>2. CASE ch \in {Yellow, "<red>", "<clear>"}
  BY <1>2, PlaceIs
<1>3. CASE ch = "\n"
  BY <1>3, PlaceIs, BottomIs
<1>4. CASE ch = "\r"
  <2>1. Place(row, ch) = [text |-> row.text, col |-> 0] /\ 0 <= Len(row.text)
    BY <1>1, <1>4, PlaceIs
  <2> QED
    BY <1>1, <2>1, RowIs
<1>5. CASE ch = Back
  <2> DEFINE c == IF row.col > 0 THEN row.col - 1 ELSE 0
  <2>1. c \in Nat /\ c <= Len(row.text)
    BY <1>1
  <2>2. Place(row, ch) = [row EXCEPT !.col = c]
    BY <1>5, PlaceIs
  <2> HIDE DEF c
  <2>3. Place(row, ch) = [text |-> row.text, col |-> c]
    BY <1>1, <2>2
  <2> QED
    BY <1>1, <2>1, <2>3, RowIs
<1>6. CASE ch \notin {Yellow, "<red>", "<clear>", "\n", "\r", Back}
  <2>1. Place(row, ch) = [text |-> Put(row.text, row.col, ch), col |-> row.col + 1]
    BY <1>6, PlaceIs
  <2>2. Put(row.text, row.col, ch) \in Seq(Inks) /\ row.col + 1 <= Len(Put(row.text, row.col, ch))
    BY <1>1, PutIs
  <2>3. row.col + 1 \in Nat
    BY <1>1
  <2> QED
    BY <2>1, <2>2, <2>3, RowIs
<1> QED
  BY <1>2, <1>3, <1>4, <1>5, <1>6

\* The rows of Placed, from the first to the last.
IsPlaced(f, row, text) ==
    f = [n \in 0 .. Len(text) |-> IF n = 0 THEN row ELSE Place(f[n - 1], text[n])]

\* Placed is the value of such a function, and every row on the way is a row.
LEMMA PlacedFacts ==
    ASSUME NEW row \in Rows, NEW text \in Seq(Inks)
    PROVE  \E f : /\ f[0] = row /\ \A i \in 1 .. Len(text) : f[i] = Place(f[i - 1], text[i])
                  /\ \A i \in 0 .. Len(text) : f[i] \in Rows
                  /\ Placed(row, text) = f[Len(text)]
<1> DEFINE n == Len(text)
           pre == [i \in 1 .. n |-> i - 1]
           G   == [i \in 1 .. n |-> [v \in Rows |-> Place(v, text[i])]]
<1>1. n \in Nat /\ \A i \in 1 .. n : text[i] \in Inks
  BY LenProperties, ElementOfSeq
<1>2. Earlier(pre, n)
  <2> HIDE DEF n
  <2> QED
    BY <1>1 DEF Earlier
<1>3. StaysIn(G, n, Rows)
  <2> SUFFICES ASSUME NEW i \in 1 .. n, NEW v \in Rows PROVE G[i][v] \in Rows
    BY DEF StaysIn
  <2>1. G[i][v] = Place(v, text[i])
    OBVIOUS
  <2> QED
    BY <1>1, <2>1, PlaceType
<1>4. \E f : Recurs(f, n, Rows, row, pre, G)
  <2> HIDE DEF pre, G, n
  <2> QED
    BY <1>1, <1>2, <1>3, Upward
<1>5. PICK f \in [0 .. n -> Rows] :
         f[0] = row /\ \A i \in 1 .. n : f[i] = G[i][f[pre[i]]]
  <2> HIDE DEF pre, G, n
  <2> QED
    BY <1>4 DEF Recurs
<1>6. \A i \in 1 .. n : f[i] = Place(f[i - 1], text[i])
  <2> TAKE i \in 1 .. n
  <2>1. i - 1 \in 0 .. n
    BY <1>1
  <2>2. f[i - 1] \in Rows
    BY <2>1
  <2> QED
    BY <1>5, <2>2
<1>7. IsPlaced(f, row, text)
  BY <1>5, <1>6 DEF IsPlaced
<1>8. PICK p : IsPlaced(p, row, text) /\ Placed(row, text) = p[n]
  <2>1. IsPlaced(CHOOSE g : IsPlaced(g, row, text), row, text)
    <3> HIDE DEF IsPlaced
    <3> QED
      BY <1>7, Zenon
  <2>2. Placed(row, text) = (CHOOSE g : IsPlaced(g, row, text))[n]
    BY Zenon DEF Placed, IsPlaced
  <2> QED
    BY <2>1, <2>2, Zenon
<1>9. p[0] = row /\ \A k \in 1 .. n : p[k] = Place(p[k - 1], text[k])
  <2> HIDE DEF n
  <2>1. \A k \in 0 .. n : p[k] = IF k = 0 THEN row ELSE Place(p[k - 1], text[k])
    BY <1>8 DEF IsPlaced, n
  <2>2. 0 \in 0 .. n /\ \A k \in 1 .. n : k \in 0 .. n /\ k # 0
    BY <1>1
  <2> QED
    BY <2>1, <2>2
<1>10. \A k \in 0 .. n : p[k] \in Rows
  <2> DEFINE T == {k \in 0 .. n : p[k] \notin Rows}
  <2> SUFFICES ASSUME T # {} PROVE FALSE
    OBVIOUS
  <2> HIDE DEF n
  <2>1. PICK k \in T : \A m \in T : k <= m
    <3>1. T \subseteq Nat
      BY <1>1
    <3> HIDE DEF T
    <3> QED
      BY <3>1, LeastElement
  <2>2. k \in 0 .. n /\ p[k] \notin Rows
    OBVIOUS
  <2>3. k \in 1 .. n /\ k - 1 \in 0 .. n /\ ~ (k <= k - 1)
    BY <1>1, <1>9, <2>2
  <2>4. p[k - 1] \in Rows
    BY <2>1, <2>3
  <2>5. p[k] \in Rows
    BY <1>1, <1>9, <2>3, <2>4, PlaceType
  <2> QED
    BY <2>2, <2>5
<1> QED
  BY <1>8, <1>9, <1>10

-----------------------------------------------------------------------------
(* What the shell says, and where it stands.                               *)

\* What the shell prints on, between two of its calls.
Consoles == [buffer : Seq(Inks), tail : {0}, shown : Seq(Inks), ret : Nat]
Terminals == {t \in [console : Consoles, row : Rows] : Len(t.console.buffer) = BufferSize}

\* A console and a row are a terminal,
LEMMA TerminalIs ==
    ASSUME NEW c, IsConsole(c), c.buffer \in Seq(Inks), c.tail = 0, c.shown \in Seq(Inks), c.ret \in Nat,
           Len(c.buffer) = BufferSize, NEW row \in Rows
    PROVE  [console |-> c, row |-> row] \in Terminals
<1>1. c \in Consoles
  <2> DEFINE b == c.buffer
             d == c.tail
             e == c.shown
             r == c.ret
  <2>1. c = [buffer |-> b, tail |-> d, shown |-> e, ret |-> r]
    BY DEF IsConsole
  <2>2. b \in Seq(Inks) /\ d \in {0} /\ e \in Seq(Inks) /\ r \in Nat
    OBVIOUS
  <2> HIDE DEF b, d, e, r
  <2> QED
    BY <2>1, <2>2 DEF Consoles
<1> QED
  BY <1>1 DEF Terminals

\* and a terminal has them.
LEMMA TerminalHas ==
    ASSUME NEW t \in Terminals
    PROVE  /\ t = [console |-> t.console, row |-> t.row] /\ t.row \in Rows
           /\ IsConsole(t.console) /\ t.console.buffer \in Seq(Inks) /\ t.console.tail = 0
           /\ Len(t.console.buffer) = BufferSize
<1>1. t = [console |-> t.console, row |-> t.row] /\ t.row \in Rows /\ t.console \in Consoles
      /\ Len(t.console.buffer) = BufferSize
  BY DEF Terminals
<1> DEFINE c == t.console
<1>2. c \in Consoles
  BY <1>1
<1> HIDE DEF c
<1>3. IsConsole(c) /\ c.buffer \in Seq(Inks) /\ c.tail = 0
  BY <1>2 DEF Consoles, IsConsole
<1> QED
  BY <1>1, <1>3 DEF c

\* A row stays a row under a text.
LEMMA PlacedType ==
    ASSUME NEW row \in Rows, NEW text \in Seq(Inks)
    PROVE  Placed(row, text) \in Rows
<1>1. PICK f : /\ \A i \in 0 .. Len(text) : f[i] \in Rows
               /\ Placed(row, text) = f[Len(text)]
  BY PlacedFacts
<1>2. Len(text) \in 0 .. Len(text)
  <2>1. Len(text) \in Nat
    BY LenProperties
  <2> QED
    BY <2>1
<1> QED
  BY <1>1, <1>2

\* What a call shows is seen on the row.
LEMMA SeenIs ==
    ASSUME NEW t \in Terminals, NEW c, IsConsole(c), c.buffer \in Seq(Inks), c.tail = 0,
           c.shown \in Seq(Inks), c.ret \in Nat, Len(c.buffer) = BufferSize
    PROVE  Seen(t, c) \in Terminals /\ Seen(t, c).row = Placed(t.row, c.shown)
<1>1. t.row \in Rows
  BY TerminalHas
<1>4. Placed(t.row, c.shown) \in Rows
  BY <1>1, PlacedType
<1> DEFINE r == Placed(t.row, c.shown)
<1>5. Seen(t, c) = [console |-> c, row |-> r]
  BY DEF Seen
<1>6. [console |-> c, row |-> r] \in Terminals
  <2>1. r \in Rows
    BY <1>4
  <2> HIDE DEF r
  <2> QED
    BY <2>1, TerminalIs
<1> HIDE DEF r
<1>7. [console |-> c, row |-> r].row = r
  OBVIOUS
<1> QED
  BY <1>5, <1>6, <1>7 DEF r

\* The shell's write of a plain text shows it on the row,
LEMMA SayIs ==
    ASSUME NEW t \in Terminals, NEW text \in Seq(Inks), \A i \in 1 .. Len(text) : IsPlain(text[i])
    PROVE  Say(t, text) \in Terminals /\ Say(t, text).row = Placed(t.row, text)
<1> DEFINE w == write(t.console, 1, text, Len(text))
<1>1. Len(text) \in Nat /\ Len(text) \in 0 .. Len(text) /\ SubSeq(text, 1, Len(text)) = text
  <2>1. Len(text) \in Nat
    BY LenProperties
  <2>2. SubSeq(text, 1, Len(text)) = text
    BY SubSeqFull
  <2> QED
    BY <2>1, <2>2
<1>2. /\ IsConsole(t.console) /\ t.console.buffer \in Seq(Inks) /\ t.console.tail = 0
      /\ Len(t.console.buffer) = BufferSize
  BY TerminalHas
<1>3. IsConsole(w) /\ w.buffer = t.console.buffer /\ w.tail = t.console.tail
  BY <1>2, WriteKeeps
<1>4. w.shown = text /\ w.ret = Len(text)
  <2>1. w.shown = Coloured(1, SubSeq(text, 1, Len(text))) /\ w.ret = Len(text)
    BY <1>1, <1>2, WriteShows
  <2> QED
    BY <1>1, <2>1 DEF Coloured
<1>5. Say(t, text) = Seen(t, w)
  BY DEF Say
<1> HIDE DEF w
<1>6. /\ IsConsole(w) /\ w.buffer \in Seq(Inks) /\ w.tail = 0 /\ w.shown \in Seq(Inks) /\ w.ret \in Nat
      /\ Len(w.buffer) = BufferSize
  BY <1>1, <1>2, <1>3, <1>4
<1>7. Seen(t, w) \in Terminals /\ Seen(t, w).row = Placed(t.row, w.shown)
  BY ONLY <1>6, SeenIs, t \in Terminals
<1> QED
  BY <1>4, <1>5, <1>7

\* and so does its printf.
LEMMA SayfIs ==
    ASSUME NEW t \in Terminals, NEW fmt, NEW arg, NEW o \in Seq(Inks),
           o = vprintfmt(fmt, GivenText(arg)).out, vprintfmt(fmt, GivenText(arg)).written \in Nat,
           Len(o) < BufferSize, \A i \in 1 .. Len(o) : IsPlain(o[i])
    PROVE  Sayf(t, fmt, arg) \in Terminals /\ Sayf(t, fmt, arg).row = Placed(t.row, o)
<1> DEFINE args == GivenText(arg)
           c == t.console
           p == printf(c, fmt, args)
<1>1. /\ IsConsole(c) /\ c.buffer \in Seq(Inks) /\ c.tail = 0
      /\ Len(c.buffer) = BufferSize
  BY TerminalHas
<1>2. Nul \in Inks
  BY DEF Inks
<1>3. Sayf(t, fmt, arg) = Seen(t, p)
  BY DEF Sayf, GivenText
<1>4. /\ vprintfmt(fmt, args).out = o /\ vprintfmt(fmt, args).written \in Nat
      /\ Len(o) < Len(c.buffer)
  BY <1>1
<1> HIDE DEF args, c
<1>5. /\ IsConsole(p) /\ p.tail = 0 /\ p.buffer \in Seq(Inks) /\ Len(p.buffer) = Len(c.buffer)
      /\ p.ret = vprintfmt(fmt, args).written
      /\ (\A i \in 1 .. Len(o) : IsPlain(o[i])) => p.shown = o
  BY <1>1, <1>2, <1>4, PrintfKeeps
<1> HIDE DEF p
<1>6. /\ IsConsole(p) /\ p.buffer \in Seq(Inks) /\ p.tail = 0 /\ p.shown \in Seq(Inks) /\ p.ret \in Nat
      /\ Len(p.buffer) = BufferSize /\ p.shown = o
  BY <1>1, <1>4, <1>5
<1>7. Seen(t, p) \in Terminals /\ Seen(t, p).row = Placed(t.row, p.shown)
  BY ONLY <1>6, SeenIs, t \in Terminals
<1> QED
  BY <1>3, <1>6, <1>7

\* A text that ends in a newline leaves an empty row.
LEMMA NewlineRow ==
    ASSUME NEW row \in Rows, NEW text \in Seq(Inks), Len(text) # 0, text[Len(text)] = "\n"
    PROVE  Placed(row, text) = Bottom
<1>1. PICK f : /\ \A i \in 1 .. Len(text) : f[i] = Place(f[i - 1], text[i])
               /\ Placed(row, text) = f[Len(text)]
  BY PlacedFacts
<1>2. Len(text) \in 1 .. Len(text)
  <2>1. Len(text) \in Nat
    BY LenProperties
  <2> QED
    BY <2>1
<1>3. f[Len(text)] = Place(f[Len(text) - 1], text[Len(text)])
  BY <1>1, <1>2
<1> QED
  BY <1>1, <1>3, PlaceIs

\* A text of one character,
LEMMA OneRow ==
    ASSUME NEW row \in Rows, NEW ch \in Inks
    PROVE  Placed(row, <<ch>>) = Place(row, ch)
<1> DEFINE s == <<ch>>
<1>1. s \in Seq(Inks) /\ Len(s) = 1 /\ s[1] = ch
  OBVIOUS
<1> HIDE DEF s
<1>2. PICK f : /\ f[0] = row /\ \A i \in 1 .. Len(s) : f[i] = Place(f[i - 1], s[i])
               /\ Placed(row, s) = f[Len(s)]
  BY <1>1, PlacedFacts
<1>3. f[1] = Place(f[0], ch)
  <2>1. 1 \in 1 .. 1 /\ 1 - 1 = 0
    OBVIOUS
  <2> QED
    BY <1>1, <1>2, <2>1
<1> QED
  BY <1>1, <1>2, <1>3 DEF s

\* What a rubout writes: back, a blank, back.
ErasingText == <<Back, " ", Back>>

\* It blanks the character before the cursor, and the cursor stands there.
LEMMA EraseRow ==
    ASSUME NEW row \in Rows, row.col > 0
    PROVE  Placed(row, ErasingText) = [text |-> Put(row.text, row.col - 1, " "), col |-> row.col - 1]
<1> DEFINE s == ErasingText
<1>1. s \in Seq(Inks) /\ Len(s) = 3 /\ s[1] = Back /\ s[2] = " " /\ s[3] = Back
  <2>1. Back \in Inks /\ " " \in Inks
    BY DEF Inks
  <2>2. s \in Seq(Inks)
    <3> DEFINE a == Back
               b == " "
    <3>1. a \in Inks /\ b \in Inks
      BY <2>1
    <3> HIDE DEF a, b
    <3>2. <<a, b, a>> \in Seq(Inks)
      BY <3>1
    <3> QED
      BY <3>2 DEF ErasingText, a, b
  <2>3. Len(s) = 3 /\ s[1] = Back /\ s[2] = " " /\ s[3] = Back
    BY DEF ErasingText
  <2> QED
    BY <2>2, <2>3
<1> HIDE DEF s
<1>2. PICK f : /\ f[0] = row /\ \A i \in 1 .. Len(s) : f[i] = Place(f[i - 1], s[i])
               /\ Placed(row, s) = f[Len(s)]
  BY <1>1, PlacedFacts, ZenonT(40)
<1>3. f[1] = Place(row, Back) /\ f[2] = Place(f[1], " ") /\ f[3] = Place(f[2], Back)
  <2>1. /\ 1 \in 1 .. 3 /\ 1 - 1 = 0 /\ 2 \in 1 .. 3 /\ 2 - 1 = 1 /\ 3 \in 1 .. 3 /\ 3 - 1 = 2
    OBVIOUS
  <2> QED
    BY <1>1, <1>2, <2>1
<1>4. row = [text |-> row.text, col |-> row.col] /\ row.col \in Nat
  BY DEF Rows
<1> DEFINE c == row.col - 1
           x == row.text
           q == Put(x, c, " ")
<1>5. c \in Nat /\ row.col = c + 1
  BY <1>4
<1>6. f[1] = [text |-> x, col |-> c]
  <2>1. f[1] = [row EXCEPT !.col = IF @ > 0 THEN @ - 1 ELSE 0]
    BY <1>3, PlaceIs
  <2> QED
    BY <1>4, <2>1
<1>7. f[2] = [text |-> Put(f[1].text, f[1].col, " "), col |-> f[1].col + 1]
  <2>1. " " \notin {Yellow, "<red>", "<clear>", "\n", "\r", Back}
    BY DEF Yellow, Back
  <2> QED
    BY <1>3, <2>1, PlaceIs, ZenonT(40)
<1> HIDE DEF c, x
<1>8. f[2] = [text |-> q, col |-> c + 1]
  <2>1. f[1].text = x /\ f[1].col = c
    BY <1>6
  <2> QED
    BY <1>7, <2>1
<1> HIDE DEF q
<1>9. f[3] = [text |-> q, col |-> c]
  <2>1. f[3] = [f[2] EXCEPT !.col = IF @ > 0 THEN @ - 1 ELSE 0]
    BY <1>3, PlaceIs
  <2>2. f[2].col = c + 1
    BY <1>8
  <2>3. (IF f[2].col > 0 THEN f[2].col - 1 ELSE 0) = c
    BY <1>5, <2>2
  <2>4. f[3] = [f[2] EXCEPT !.col = c]
    BY <2>1, <2>3
  <2> QED
    BY <1>8, <2>4
<1> QED
  BY <1>1, <1>2, <1>9 DEF s, c, x, q

-----------------------------------------------------------------------------
(* The prompt and the line on the screen.                                  *)

\* The prompt and the first n characters of the line are seen, and nothing
\* behind them.
OnScreen(row, buf, n) ==
    /\ row.col = n + 3 /\ row.text[1] = "S" /\ row.text[2] = ">" /\ row.text[3] = " "
    /\ \A i \in 1 .. n : row.text[i + 3] = buf[i]
    /\ \A i \in row.col + 1 .. Len(row.text) : row.text[i] = " "

\* A key is shown behind the line: with it the screen shows the longer line.
LEMMA KeyShown ==
    ASSUME NEW row \in Rows, NEW n \in Nat, NEW buf, OnScreen(row, buf, n), NEW key \in Inks,
           key \notin {Yellow, "<red>", "<clear>", "\n", "\r", Back},
           NEW new, new[n + 1] = key, \A i \in 1 .. n : new[i] = buf[i]
    PROVE  OnScreen(Place(row, key), new, n + 1)
<1> DEFINE x == row.text
           c == row.col
           l == Len(x)
           q == Put(x, c, key)
           r == Place(row, key)
<1>1. x \in Seq(Inks) /\ c \in Nat /\ c <= l /\ l \in Nat /\ l = Len(x)
  BY DEF Rows
<1>2. c = n + 3
  BY DEF OnScreen
<1>3. x[1] = "S" /\ x[2] = ">" /\ x[3] = " "
  BY DEF OnScreen
<1>4. \A i \in 1 .. n : x[i + 3] = buf[i]
  BY DEF OnScreen
<1>5. \A i \in c + 1 .. l : x[i] = " "
  BY DEF OnScreen
<1>6. r = [text |-> q, col |-> c + 1]
  BY PlaceIs
<1> HIDE DEF x, c, r, l
<1>61. x \in Seq(Inks) /\ c \in Nat /\ c <= Len(x) /\ key \in Inks
  BY <1>1
<1>62. /\ Len(q) = IF c < Len(x) THEN Len(x) ELSE c + 1
       /\ q[c + 1] = key /\ \A i \in 1 .. c : q[i] = x[i]
       /\ \A i \in c + 2 .. Len(x) : q[i] = x[i]
  BY ONLY <1>61, PutIs
<1> HIDE DEF q
<1>7. Len(q) = IF c < l THEN l ELSE c + 1
  BY ONLY <1>1, <1>62
<1>8. q[c + 1] = key /\ \A i \in 1 .. c : q[i] = x[i]
  BY ONLY <1>62
<1>9. \A i \in c + 2 .. l : q[i] = x[i]
  BY ONLY <1>1, <1>62
<1>10. q[1] = "S" /\ q[2] = ">" /\ q[3] = " "
  <2>1. 1 \in 1 .. c /\ 2 \in 1 .. c /\ 3 \in 1 .. c
    BY <1>1, <1>2
  <2> QED
    BY <1>3, <1>8, <2>1
<1>11. \A i \in 1 .. n + 1 : q[i + 3] = new[i]
  <2> TAKE i \in 1 .. n + 1
  <2>1. CASE i = n + 1
    <3>1. i + 3 = c + 1
      BY <1>1, <1>2, <2>1
    <3> QED
      BY <1>8, <2>1, <3>1
  <2>2. CASE i # n + 1
    <3>1. i \in 1 .. n /\ i + 3 \in 1 .. c
      BY <1>1, <1>2, <2>2
    <3> QED
      BY <1>4, <1>8, <3>1
  <2> QED
    BY <2>1, <2>2
<1>12. \A i \in (c + 1) + 1 .. Len(q) : q[i] = " "
  <2> TAKE i \in (c + 1) + 1 .. Len(q)
  <2>1. i \in c + 2 .. l /\ i \in c + 1 .. l
    BY <1>1, <1>7
  <2> QED
    BY <1>5, <1>9, <2>1
<1>13. c + 1 = (n + 1) + 3
  BY <1>1, <1>2
<1>14. r.text = q /\ r.col = c + 1
  BY <1>6
<1> QED
  BY <1>10, <1>11, <1>12, <1>13, <1>14 DEF OnScreen, r

\* The positions that a rubout deals with.
LEMMA Ordered ==
    ASSUME NEW n \in Nat, NEW m \in Nat, NEW l \in Nat, m = n + 3, m <= l, n > 0
    PROVE  /\ m - 1 \in Nat /\ m - 1 < l /\ m - 1 <= l /\ m - 1 = (n - 1) + 3 /\ m > 0
           /\ m + 1 = (m - 1) + 2 /\ n - 1 \in Nat /\ m = (m - 1) + 1
  OBVIOUS

\* After a rubout the screen shows the line without its last character.
LEMMA EraseShown ==
    ASSUME NEW row \in Rows, NEW n \in Nat, n > 0, NEW buf, OnScreen(row, buf, n),
           NEW r, r = Placed(row, ErasingText)
    PROVE  OnScreen(r, buf, n - 1)
<1> DEFINE x == row.text
           d == row.col
           c == d - 1
           l == Len(x)
           q == Put(x, c, " ")
<1>1. x \in Seq(Inks) /\ d \in Nat /\ d <= l /\ l \in Nat
  BY DEF Rows
<1>2. d = n + 3 /\ x[1] = "S" /\ x[2] = ">" /\ x[3] = " "
  BY DEF OnScreen
<1>3. \A i \in 1 .. n : x[i + 3] = buf[i]
  BY DEF OnScreen
<1>4. \A i \in d + 1 .. l : x[i] = " "
  BY DEF OnScreen
<1>5. d > 0 => r = [text |-> q, col |-> c]
  BY EraseRow
<1>6. " " \in Inks
  BY DEF Inks
<1>7. l = Len(x)
  OBVIOUS
<1> HIDE DEF x, d, l
<1>8. c \in Nat /\ c < l /\ c <= l /\ c = (n - 1) + 3 /\ d > 0 /\ d + 1 = c + 2
  BY <1>1, <1>2, Ordered, ZenonT(40)
<1>9. r = [text |-> q, col |-> c]
  BY <1>5, <1>8
<1>10. \A i \in c + 2 .. l : x[i] = " "
  BY <1>4, <1>8
<1> HIDE DEF c
<1>17. Len(q) = l
  BY <1>1, <1>6, <1>7, <1>8, PutIs
<1>11. q[c + 1] = " " /\ \A i \in 1 .. c : q[i] = x[i]
  BY <1>1, <1>6, <1>7, <1>8, PutIs, ZenonT(40)
<1>12. \A i \in c + 2 .. l : q[i] = x[i]
  BY <1>1, <1>6, <1>7, <1>8, PutIs, ZenonT(40)
<1> HIDE DEF q
<1>13. q[1] = "S" /\ q[2] = ">" /\ q[3] = " "
  <2>1. 1 \in 1 .. c /\ 2 \in 1 .. c /\ 3 \in 1 .. c
    BY <1>8
  <2> QED
    BY <1>2, <1>11, <2>1
<1>14. \A i \in 1 .. n - 1 : q[i + 3] = buf[i]
  <2> TAKE i \in 1 .. n - 1
  <2>1. i \in 1 .. n /\ i + 3 \in 1 .. c
    BY <1>8
  <2> QED
    BY <1>3, <1>11, <2>1
<1>15. \A i \in c + 1 .. Len(q) : q[i] = " "
  <2> TAKE i \in c + 1 .. Len(q)
  <2>1. i = c + 1 \/ i \in c + 2 .. l
    BY <1>1, <1>8, <1>17
  <2> QED
    BY <1>10, <1>11, <1>12, <2>1
<1>16. r.text = q /\ r.col = c
  BY <1>9
<1> QED
  BY <1>8, <1>13, <1>14, <1>15, <1>16 DEF OnScreen

\* The prompt with its colours.
PromptText == (<<Yellow>> \o Prompt) \o Clear

IsJoin(u, s, t) ==
    /\ Len(u) = Len(s) + Len(t)
    /\ \A i \in 1 .. Len(s) : u[i] = s[i]
    /\ \A i \in 1 .. Len(t) : u[Len(s) + i] = t[i]

\* Two texts one behind the other, and three of lengths 1, 3 and 1.
LEMMA Joins ==
    ASSUME NEW S, NEW s \in Seq(S), NEW t \in Seq(S)
    PROVE  s \o t \in Seq(S) /\ IsJoin(s \o t, s, t)
<1>1. /\ s \o t \in Seq(S) /\ Len(s \o t) = Len(s) + Len(t)
      /\ \A i \in 1 .. Len(s) + Len(t) : (s \o t)[i] = IF i <= Len(s) THEN s[i] ELSE t[i - Len(s)]
  BY ConcatProperties
<1>2. Len(s) \in Nat /\ Len(t) \in Nat
  BY LenProperties
<1> DEFINE u == s \o t
           m == Len(s)
           n == Len(t)
<1>3. /\ Len(u) = m + n
      /\ \A i \in 1 .. m + n : u[i] = IF i <= m THEN s[i] ELSE t[i - m]
  BY <1>1
<1>4. m \in Nat /\ n \in Nat
  BY <1>2
<1> HIDE DEF u, m, n
<1>5. \A i \in 1 .. m : u[i] = s[i]
  BY <1>3, <1>4
<1>6. \A i \in 1 .. n : u[m + i] = t[i]
  <2> TAKE i \in 1 .. n
  <2>1. m + i \in 1 .. m + n /\ ~ (m + i <= m) /\ (m + i) - m = i
    BY <1>4
  <2> QED
    BY <1>3, <2>1
<1> QED
  BY <1>1, <1>3, <1>5, <1>6 DEF IsJoin, u, m, n

IsFive(t, y, a, b, c, d) ==
    Len(t) = 5 /\ t[1] = y /\ t[2] = a /\ t[3] = b /\ t[4] = c /\ t[5] = d

LEMMA FiveText ==
    ASSUME NEW S, NEW p \in Seq(S), Len(p) = 1, NEW q \in Seq(S), Len(q) = 3,
           NEW r \in Seq(S), Len(r) = 1
    PROVE  (p \o q) \o r \in Seq(S) /\ IsFive((p \o q) \o r, p[1], q[1], q[2], q[3], r[1])
<1> DEFINE u == p \o q
           t == u \o r
<1>1. u \in Seq(S) /\ IsJoin(u, p, q)
  BY Joins
<1> HIDE DEF u
<1>2. t \in Seq(S) /\ IsJoin(t, u, r)
  BY <1>1, Joins
<1> HIDE DEF t
<1>3. /\ Len(u) = 4 /\ u[1] = p[1]
      /\ u[1 + 1] = q[1] /\ u[1 + 2] = q[2] /\ u[1 + 3] = q[3]
  <2>1. /\ Len(u) = 1 + 3
        /\ \A i \in 1 .. 1 : u[i] = p[i]
        /\ \A i \in 1 .. 3 : u[1 + i] = q[i]
    BY <1>1 DEF IsJoin
  <2> QED
    BY <2>1
<1>4. u[2] = q[1] /\ u[3] = q[2] /\ u[4] = q[3]
  BY <1>3
<1>5. /\ Len(t) = 4 + 1 /\ t[1] = u[1] /\ t[2] = u[2] /\ t[3] = u[3] /\ t[4] = u[4]
      /\ t[4 + 1] = r[1]
  <2>1. /\ Len(t) = 4 + 1
        /\ \A i \in 1 .. 4 : t[i] = u[i]
        /\ \A i \in 1 .. 1 : t[4 + i] = r[i]
    BY <1>2, <1>3 DEF IsJoin
  <2> QED
    BY <2>1
<1>6. IsFive(t, p[1], q[1], q[2], q[3], r[1])
  BY <1>3, <1>4, <1>5 DEF IsFive
<1> QED
  BY <1>2, <1>6 DEF t, u

\* What the prompt is made of.
LEMMA PromptIs ==
    /\ PromptText \in Seq(Inks) /\ Len(PromptText) = 5
    /\ PromptText[1] = Yellow /\ PromptText[2] = "S" /\ PromptText[3] = ">" /\ PromptText[4] = " "
    /\ PromptText[5] = "<clear>"
    /\ \A i \in 1 .. 5 : IsPlain(PromptText[i])
<1> DEFINE a == "S"
           b == ">"
           c == " "
           d == "<clear>"
           y == Yellow
<1>1. y \in Inks /\ a \in Inks /\ b \in Inks /\ c \in Inks /\ d \in Inks
  BY DEF Inks
<1>2. PromptText = (<<y>> \o <<a, b, c>>) \o <<d>>
  BY DEF PromptText, Prompt, Clear
<1>3. IsPlain(y) /\ IsPlain(a) /\ IsPlain(b) /\ IsPlain(c) /\ IsPlain(d)
  BY DEF IsPlain, Yellow
<1> DEFINE o == PromptText
<1> HIDE DEF a, b, c, d, y
<1>6. o \in Seq(Inks) /\ Len(o) = 5 /\ o[1] = y /\ o[2] = a /\ o[3] = b /\ o[4] = c /\ o[5] = d
  <2> DEFINE p == <<y>>
             q == <<a, b, c>>
             r == <<d>>
  <2>1. o = (p \o q) \o r
    BY <1>2
  <2>2. p \in Seq(Inks) /\ Len(p) = 1 /\ p[1] = y
    BY <1>1
  <2>3. q \in Seq(Inks) /\ Len(q) = 3 /\ q[1] = a /\ q[2] = b /\ q[3] = c
    BY <1>1
  <2>4. r \in Seq(Inks) /\ Len(r) = 1 /\ r[1] = d
    BY <1>1
  <2> HIDE DEF o, p, q, r
  <2> QED
    <3>1. o \in Seq(Inks) /\ IsFive(o, p[1], q[1], q[2], q[3], r[1])
      BY <2>1, <2>2, <2>3, <2>4, FiveText
    <3> QED
      BY <2>2, <2>3, <2>4, <3>1 DEF IsFive
<1>4. /\ PromptText \in Seq(Inks) /\ Len(PromptText) = 5
      /\ PromptText[1] = y /\ PromptText[2] = a /\ PromptText[3] = b /\ PromptText[4] = c
      /\ PromptText[5] = d
  BY <1>6
<1>5. \A i \in 1 .. 5 : IsPlain(PromptText[i])
  <2> TAKE i \in 1 .. 5
  <2>1. i = 1 \/ i = 2 \/ i = 3 \/ i = 4 \/ i = 5
    OBVIOUS
  <2> QED
    BY <1>3, <1>4, <2>1
<1> QED
  BY <1>4, <1>5 DEF a, b, c, d, y

\* A character is shown behind a text.
LEMMA PlaceEnd ==
    ASSUME NEW row \in Rows, row.col = Len(row.text), NEW ch, Shows(ch)
    PROVE  Place(row, ch) = [text |-> Append(row.text, ch), col |-> row.col + 1]
<1>1. Len(row.text) \in Nat
  BY LenProperties DEF Rows
<1>2. Put(row.text, row.col, ch) = Append(row.text, ch)
  <2>1. ~ (row.col < Len(row.text))
    BY <1>1
  <2> QED
    BY <2>1, Zenon DEF Put
<1> QED
  BY <1>2, PlaceIs DEF Shows

\* Three characters behind one another.
Grows(x, y, ch) ==
    Len(y) = Len(x) + 1 /\ y[Len(x) + 1] = ch /\ \A i \in 1 .. Len(x) : y[i] = x[i]

LEMMA GrowsIs ==
    ASSUME NEW S, NEW x \in Seq(S), NEW y \in Seq(S), NEW ch \in S, Grows(x, y, ch)
    PROVE  Append(x, ch) = y
<1>1. Append(x, ch) \in Seq(S) /\ Grows(x, Append(x, ch), ch)
  BY AppendProperties DEF Grows
<1>2. Len(x) \in Nat
  BY LenProperties
<1> DEFINE z == Append(x, ch)
<1> HIDE DEF z
<1>3. z \in Seq(S) /\ Grows(x, z, ch)
  BY <1>1 DEF z
<1>4. Len(z) = Len(y) /\ \A i \in 1 .. Len(z) : z[i] = y[i]
  BY <1>2, <1>3 DEF Grows
<1>5. z = y
  BY <1>3, <1>4, SeqEqual
<1> QED
  BY <1>5 DEF z

\* A row with its cursor at the end.
RowEnd(x) == [text |-> x, col |-> Len(x)]

\* Three characters on an empty row are that row.
LEMMA PlaceBehind ==
    ASSUME NEW x \in Seq(Inks), NEW y \in Seq(Inks), NEW ch \in Inks, Shows(ch), Grows(x, y, ch)
    PROVE  Place(RowEnd(x), ch) = RowEnd(y)
<1> DEFINE row == RowEnd(x)
<1>1. row \in Rows
  <2>1. Len(x) \in Nat /\ Len(x) <= Len(x)
    <3>1. Len(x) \in Nat
      BY LenProperties
    <3> QED
      BY <3>1
  <2> QED
    BY <2>1, RowIs DEF RowEnd
<1>2. row.text = x /\ row.col = Len(x)
  BY DEF RowEnd
<1>3. Append(x, ch) = y
  BY GrowsIs
<1>4. Len(y) = Len(x) + 1
  BY DEF Grows
<1> HIDE DEF row
<1>5. Place(row, ch) = [text |-> Append(row.text, ch), col |-> row.col + 1]
  BY <1>1, <1>2, PlaceEnd
<1> QED
  BY <1>2, <1>3, <1>4, <1>5 DEF RowEnd, row

LEMMA ThreeRow ==
    ASSUME NEW a \in Inks, NEW b \in Inks, NEW c \in Inks, Shows(a), Shows(b), Shows(c),
           NEW f, f[1] = Bottom, f[2] = Place(f[1], a), f[3] = Place(f[2], b), f[4] = Place(f[3], c)
    PROVE  f[4] = RowEnd(<<a, b, c>>)
<1> DEFINE x0 == <<>>
           x1 == <<a>>
           x2 == <<a, b>>
           x3 == <<a, b, c>>
<1>1. /\ x0 \in Seq(Inks) /\ x1 \in Seq(Inks) /\ x2 \in Seq(Inks) /\ x3 \in Seq(Inks)
      /\ Len(x0) = 0 /\ Len(x1) = 1 /\ Len(x2) = 2 /\ Len(x3) = 3
  OBVIOUS
<1>2. x1[1] = a /\ x2[1] = a /\ x2[2] = b /\ x3[1] = a /\ x3[2] = b /\ x3[3] = c
  OBVIOUS
<1>3. Bottom = RowEnd(x0)
  BY <1>1 DEF Bottom, RowEnd
<1> HIDE DEF x0, x1, x2, x3
<1>4. Grows(x0, x1, a) /\ Grows(x1, x2, b) /\ Grows(x2, x3, c)
  BY <1>1, <1>2 DEF Grows
<1>5. f[2] = RowEnd(x1)
  <2>1. Place(RowEnd(x0), a) = RowEnd(x1)
    BY ONLY <1>1, <1>4, PlaceBehind, Shows(a), a \in Inks
  <2> QED
    BY ONLY <1>3, <2>1, f[1] = Bottom, f[2] = Place(f[1], a), Zenon
<1>6. f[3] = RowEnd(x2)
  BY ONLY <1>1, <1>4, <1>5, PlaceBehind, Shows(b), b \in Inks, f[3] = Place(f[2], b)
<1>7. f[4] = RowEnd(x3)
  BY ONLY <1>1, <1>4, <1>6, PlaceBehind, Shows(c), c \in Inks, f[4] = Place(f[3], c)
<1> QED
  BY <1>7 DEF x3

\* The prompt on an empty row.
LEMMA PromptRow == Placed(Bottom, PromptText) = RowEnd(<<"S", ">", " ">>)
<1> DEFINE s == PromptText
           a == "S"
           b == ">"
           c == " "
           d == "<clear>"
<1>1. s \in Seq(Inks) /\ Len(s) = 5 /\ s[1] = Yellow /\ s[2] = a /\ s[3] = b /\ s[4] = c
      /\ s[5] = d /\ Bottom \in Rows
  BY PromptIs, BottomIs
<1>2. Shows(a) /\ Shows(b) /\ Shows(c) /\ d \in {Yellow, "<red>", "<clear>"}
  BY DEF Shows, Inks, Yellow, Back
<1>3. a \in Inks /\ b \in Inks /\ c \in Inks
  BY DEF Inks
<1> HIDE DEF s, a, b, c, d
<1>4. PICK f : /\ f[0] = Bottom /\ \A i \in 1 .. Len(s) : f[i] = Place(f[i - 1], s[i])
               /\ Placed(Bottom, s) = f[Len(s)]
  BY <1>1, PlacedFacts
<1>5. /\ f[1] = Place(f[0], Yellow) /\ f[2] = Place(f[1], a) /\ f[3] = Place(f[2], b)
      /\ f[4] = Place(f[3], c) /\ f[5] = Place(f[4], d)
  <2>1. /\ 1 \in 1 .. 5 /\ 1 - 1 = 0 /\ 2 \in 1 .. 5 /\ 2 - 1 = 1 /\ 3 \in 1 .. 5 /\ 3 - 1 = 2
        /\ 4 \in 1 .. 5 /\ 4 - 1 = 3 /\ 5 \in 1 .. 5 /\ 5 - 1 = 4
    OBVIOUS
  <2> QED
    BY <1>1, <1>4, <2>1
<1>6. f[1] = Bottom
  BY <1>4, <1>5, PlaceIs
<1>7. f[4] = RowEnd(<<a, b, c>>)
  <2>1. f[2] = Place(f[1], a) /\ f[3] = Place(f[2], b) /\ f[4] = Place(f[3], c)
    BY <1>5
  <2> QED
    BY ONLY <1>2, <1>3, <1>6, <2>1, ThreeRow
<1>8. f[5] = f[4]
  BY <1>2, <1>5, PlaceIs
<1> QED
  BY <1>1, <1>4, <1>7, <1>8 DEF s, a, b, c

\* A line of no characters.
LEMMA EmptyRange == (1 .. 0 = {}) /\ (3 + 1 .. 3 = {}) /\ 3 = 0 + 3
  OBVIOUS

\* Asked on an empty row, the screen shows the prompt and the empty line.
LEMMA AskIs ==
    ASSUME NEW t \in Terminals, t.row = Bottom, NEW buf
    PROVE  Ask(t) \in Terminals /\ OnScreen(Ask(t).row, buf, 0)
<1> DEFINE o == PromptText
           none == <<>>
           five == 5
<1>1. Ask(t) = Sayf(t, o, none)
  BY DEF Ask, PromptText
<1>2. o \in Seq(Inks) /\ Len(o) = five /\ \A i \in 1 .. five : IsPlain(o[i])
  BY PromptIs
<1>3. five < BufferSize /\ five \in Nat /\ five + 1 \notin 1 .. five
  BY ShellAssumption
<1>4. Placed(Bottom, o) = RowEnd(<<"S", ">", " ">>)
  BY PromptRow
<1> HIDE DEF o, none, five
<1>5. Plain(o, five)
  <2>1. \A i \in 1 .. five : o[i] \notin {"", "%"}
    BY <1>2, Zenon DEF IsPlain
  <2>2. five + 1 \notin DOMAIN o
    <3>1. DOMAIN o = 1 .. five
      BY <1>2
    <3> QED
      BY <1>3, <3>1
  <2>3. At(o, five + 1) = ""
    BY <2>2, Zenon DEF At
  <2>4. five \in 0 .. Len(o)
    BY <1>2, <1>3
  <2> QED
    BY <2>1, <2>3, <2>4, Zenon DEF Plain
<1>6. vprintfmt(o, GivenText(none)).out = SubSeq(o, 1, five) /\ vprintfmt(o, GivenText(none)).written = five
  BY <1>2, <1>3, <1>5, PlainPrinted
<1>7. SubSeq(o, 1, five) = o
  BY <1>2, SubSeqFull
<1>8. Sayf(t, o, none) \in Terminals /\ Sayf(t, o, none).row = Placed(t.row, o)
  BY <1>2, <1>3, <1>6, <1>7, SayfIs
<1>9. Ask(t).row = RowEnd(<<"S", ">", " ">>)
  BY <1>1, <1>4, <1>8
<1> DEFINE r == Ask(t).row
<1>10. r.text[1] = "S" /\ r.text[2] = ">" /\ r.text[3] = " " /\ Len(r.text) = 3 /\ r.col = 3
  <2> DEFINE x == <<"S", ">", " ">>
  <2>1. x[1] = "S" /\ x[2] = ">" /\ x[3] = " " /\ Len(x) = 3
    OBVIOUS
  <2>2. r.text = x /\ r.col = 3
    <3>1. r = RowEnd(x)
      BY <1>9
    <3> HIDE DEF x, r
    <3> QED
      BY <2>1, <3>1 DEF RowEnd
  <2> HIDE DEF x
  <2> QED
    BY <2>1, <2>2
<1> HIDE DEF r
<1>11. OnScreen(r, buf, 0)
  BY <1>10, EmptyRange DEF OnScreen
<1> QED
  BY <1>1, <1>8, <1>11 DEF r

-----------------------------------------------------------------------------
(* The line, and the parts that commands read from it.                     *)

\* What line_buf holds.
LineSet == Keyset \cup {Nul, Junk}

\* A line that ends at p.
LineTo(mem, p) ==
    mem \in Seq(LineSet) /\ Len(mem) = MaxLine + 1 /\ p \in 1 .. Len(mem) /\ mem[p] = Nul

\* A text of the line that can be printed.
IsShown(t) == t \in Seq(Inks) /\ Len(t) <= MaxLine /\ \A k \in 1 .. Len(t) : IsPlain(t[k])

\* A character of the line is shown or is the Nul.
LEMMA LineChar ==
    ASSUME NEW ch \in LineSet
    PROVE  ch \in Inks /\ (ch # Nul => IsPlain(ch))
<1>1. CASE ch \in Keyset
  BY <1>1, KeyIs
<1>2. CASE ch = Nul
  BY <1>2 DEF Inks
<1>3. CASE ch = Junk
  <2>1. IsPlain(Junk) /\ Junk \in Inks
    BY DEF Junk, IsPlain, Inks
  <2> QED
    BY <1>3, <2>1
<1> QED
  BY <1>1, <1>2, <1>3 DEF LineSet

\* A part of a sequence.
LEMMA Middle ==
    ASSUME NEW S, NEW s \in Seq(S), NEW i \in 1 .. Len(s), NEW m \in i .. Len(s)
    PROVE  /\ SubSeq(s, i, m - 1) \in Seq(S) /\ Len(SubSeq(s, i, m - 1)) = m - i
           /\ \A k \in 1 .. m - i : SubSeq(s, i, m - 1)[k] = s[(i + k) - 1]
  OBVIOUS

\* What is read from a line up to its end can be shown,
LEMMA UpToIs ==
    ASSUME NEW mem, NEW p, LineTo(mem, p), NEW i \in Nat, 1 <= i, i <= p, NEW stops, Nul \in stops
    PROVE  IsShown(UpTo(mem, i, stops))
<1> DEFINE T == {j \in i .. Len(mem) : mem[j] \in stops}
           m == Min(T)
           u == SubSeq(mem, i, m - 1)
<1>1. mem \in Seq(LineSet) /\ Len(mem) = MaxLine + 1 /\ p \in 1 .. Len(mem) /\ mem[p] = Nul
      /\ MaxLine \in Nat
  BY ShellAssumption DEF LineTo
<1>2. p \in T /\ T \subseteq Nat
  BY <1>1
<1>3. m \in T /\ \A y \in T : m <= y
  <2> HIDE DEF T
  <2> QED
    BY <1>2, MinFacts
<1>4. UpTo(mem, i, stops) = u
  BY DEF UpTo
<1>5. \A k \in i .. Len(mem) : k \notin T => mem[k] # Nul
  OBVIOUS
<1>6. m \in i .. Len(mem)
  BY <1>3
<1> HIDE DEF T, m
<1>7. i \in 1 .. Len(mem)
  BY <1>1
<1>8. u \in Seq(LineSet) /\ Len(u) = m - i /\ \A k \in 1 .. m - i : u[k] = mem[(i + k) - 1]
  BY <1>1, <1>6, <1>7, Middle
<1> HIDE DEF u
<1>9. LineSet \subseteq Inks
  BY LineChar
<1>10. u \in Seq(Inks)
  BY <1>8, <1>9, SeqMonotonic
<1>11. m - i <= MaxLine
  BY <1>1, <1>6, <1>7
<1>12. \A k \in 1 .. Len(u) : IsPlain(u[k])
  <2> TAKE k \in 1 .. Len(u)
  <2> DEFINE j == (i + k) - 1
  <2>1. j \in i .. Len(mem) /\ ~ (m <= j) /\ u[k] = mem[j] /\ j \in 1 .. Len(mem)
    BY <1>1, <1>6, <1>7, <1>8
  <2> HIDE DEF j
  <2>2. mem[j] # Nul /\ mem[j] \in LineSet
    BY <1>1, <1>3, <1>5, <2>1, ElementOfSeq
  <2> QED
    BY <2>1, <2>2, LineChar
<1> QED
  BY <1>4, <1>8, <1>10, <1>11, <1>12 DEF IsShown

\* blanks end before the Nul does,
LEMMA SkipBlanksIs ==
    ASSUME NEW mem, NEW p, LineTo(mem, p), NEW i \in Nat, 1 <= i, i <= p
    PROVE  SkipBlanks(mem, i) \in i .. p
<1> DEFINE blank == " "
           T == {j \in i .. Len(mem) : mem[j] # blank}
           m == Min(T)
<1>1. p \in 1 .. Len(mem) /\ mem[p] = Nul /\ Len(mem) \in Nat
  BY ShellAssumption DEF LineTo
<1>2. Nul # blank
  BY DEF Nul
<1>3. SkipBlanks(mem, i) = m
  BY DEF SkipBlanks
<1> HIDE DEF blank
<1>4. p \in T /\ T \subseteq Nat
  BY <1>1, <1>2
<1>5. m \in T /\ \A y \in T : m <= y
  <2> HIDE DEF T
  <2> QED
    BY <1>4, MinFacts
<1>6. m \in i .. Len(mem)
  BY <1>5
<1> HIDE DEF T, m
<1> QED
  BY <1>1, <1>3, <1>4, <1>5, <1>6

\* so every parameter
LEMMA ParamIs ==
    ASSUME NEW mem, NEW p, LineTo(mem, p), NEW i \in Nat, 1 <= i, i <= p
    PROVE  IsShown(get_param(mem, i))
<1> DEFINE b == SkipBlanks(mem, i)
           stops == {" ", Nul}
<1>1. p \in Nat
  BY ShellAssumption DEF LineTo
<1>2. b \in Nat /\ 1 <= b /\ b <= p
  BY <1>1, SkipBlanksIs
<1>3. Nul \in stops
  OBVIOUS
<1>4. get_param(mem, i) = UpTo(mem, b, stops)
  BY DEF get_param
<1> HIDE DEF b, stops
<1> QED
  BY <1>2, <1>3, <1>4, UpToIs

\* and every string of a line can be shown.
LEMMA StringIs ==
    ASSUME NEW mem, NEW p, LineTo(mem, p), NEW i \in Nat, 1 <= i, i <= p
    PROVE  IsShown(get_string(mem, i))
<1> DEFINE b == SkipBlanks(mem, i)
           stops == {Quote, Nul}
<1>1. p \in Nat /\ mem[p] = Nul
  BY ShellAssumption DEF LineTo
<1>2. b \in Nat /\ 1 <= b /\ b <= p
  BY <1>1, SkipBlanksIs
<1>3. Nul \in stops
  OBVIOUS
<1>4. get_string(mem, i) = IF mem[b] = Quote THEN UpTo(mem, b + 1, stops) ELSE get_param(mem, b)
  BY DEF get_string
<1>5. Quote # Nul
  BY DEF Quote, Nul
<1> HIDE DEF b, stops
<1>6. CASE mem[b] = Quote
  <2>1. b # p
    BY <1>1, <1>5, <1>6
  <2>2. b + 1 \in Nat /\ 1 <= b + 1 /\ b + 1 <= p
    BY <1>1, <1>2, <2>1
  <2>3. IsShown(UpTo(mem, b + 1, stops))
    <3> DEFINE d == b + 1
    <3> HIDE DEF d
    <3>1. d \in Nat /\ 1 <= d /\ d <= p
      BY <2>2 DEF d
    <3>2. IsShown(UpTo(mem, d, stops))
      BY <1>3, <3>1, UpToIs
    <3> QED
      BY <3>2 DEF d
  <2> QED
    BY <1>4, <1>6, <2>3
<1>7. CASE mem[b] # Quote
  BY <1>2, <1>4, <1>7, ParamIs
<1> QED
  BY <1>6, <1>7

\* A command's name stands before the end of its line.
LEMMA NameRoom ==
    ASSUME NEW mem, NEW p, LineTo(mem, p), NEW S, NEW name \in Seq(S), NEW n \in Nat, Len(name) = n, IsPrefix(name, mem),
           \A k \in 1 .. n : name[k] # Nul
    PROVE  n + 1 <= p
<1>1. mem \in Seq(LineSet) /\ p \in 1 .. Len(mem) /\ mem[p] = Nul /\ Len(mem) \in Nat
  BY ShellAssumption DEF LineTo
<1>2. SubSeq(name, 1, n) = SubSeq(mem, 1, n) /\ n <= Len(mem)
  BY DEF IsPrefix
<1>3. n \in 0 .. Len(mem)
  BY <1>1, <1>2
<1>4. \A k \in 1 .. n : name[k] = mem[k]
  <2>1. \A k \in 1 .. n : SubSeq(mem, 1, n)[k] = mem[k]
    BY <1>1, <1>3, Prefix
  <2>2. n \in 0 .. Len(name)
    OBVIOUS
  <2>3. \A k \in 1 .. n : SubSeq(name, 1, n)[k] = name[k]
    BY <2>2, Prefix
  <2> QED
    BY <1>2, <2>1, <2>3
<1>5. p \in 1 .. n => FALSE
  BY <1>1, <1>4
<1> QED
  BY <1>1, <1>5

\* The names of the commands hold no Nul.
LEMMA NameFacts ==
    /\ Echo \in Seq({"e", "c", "h", "o", "a", "t"}) /\ Len(Echo) = 4 /\ \A k \in 1 .. 4 : Echo[k] # Nul
    /\ Cat \in Seq({"e", "c", "h", "o", "a", "t"}) /\ Len(Cat) = 3 /\ \A k \in 1 .. 3 : Cat[k] # Nul
<1>1. Len(Echo) = 4 /\ Echo[1] = "e" /\ Echo[2] = "c" /\ Echo[3] = "h" /\ Echo[4] = "o"
  BY DEF Echo
<1>2. Len(Cat) = 3 /\ Cat[1] = "c" /\ Cat[2] = "a" /\ Cat[3] = "t"
  BY DEF Cat
<1>3. Nul \notin {"e", "c", "h", "o", "a", "t"}
  BY DEF Nul
<1>4. \A k \in 1 .. 4 : k = 1 \/ k = 2 \/ k = 3 \/ k = 4
  OBVIOUS
<1>5. \A k \in 1 .. 3 : k = 1 \/ k = 2 \/ k = 3
  OBVIOUS
<1>6. \A k \in 1 .. 4 : Echo[k] # Nul
  BY <1>1, <1>3, <1>4
<1>7. \A k \in 1 .. 3 : Cat[k] # Nul
  BY <1>2, <1>3, <1>5
<1>8. Echo \in Seq({"e", "c", "h", "o", "a", "t"}) /\ Cat \in Seq({"e", "c", "h", "o", "a", "t"})
  <2> DEFINE S == {"e", "c", "h", "o", "a", "t"}
             e == "e"
             c == "c"
             h == "h"
             o == "o"
             a == "a"
             t == "t"
  <2>1. e \in S /\ c \in S /\ h \in S /\ o \in S /\ a \in S /\ t \in S
    OBVIOUS
  <2>2. Echo = <<e, c, h, o>> /\ Cat = <<c, a, t>>
    BY DEF Echo, Cat
  <2> HIDE DEF S, e, c, h, o, a, t
  <2>3. Echo \in Seq(S) /\ Cat \in Seq(S)
    BY <2>1, <2>2
  <2> QED
    BY <2>3 DEF S
<1> QED
  BY <1>1, <1>2, <1>6, <1>7, <1>8

-----------------------------------------------------------------------------
(* What commands print.                                                    *)

\* One character is said and placed.
LEMMA SayChar ==
    ASSUME NEW t \in Terminals, NEW ch \in Inks, IsPlain(ch)
    PROVE  Say(t, <<ch>>) \in Terminals /\ Say(t, <<ch>>).row = Place(t.row, ch)
<1> DEFINE s == <<ch>>
<1>1. s \in Seq(Inks) /\ Len(s) = 1 /\ s[1] = ch
  OBVIOUS
<1>2. t.row \in Rows
  BY TerminalHas
<1>3. Placed(t.row, s) = Place(t.row, ch)
  BY <1>2, OneRow
<1> HIDE DEF s
<1>4. \A i \in 1 .. Len(s) : IsPlain(s[i])
  BY <1>1
<1>5. Say(t, s) \in Terminals /\ Say(t, s).row = Placed(t.row, s)
  BY <1>1, <1>4, SayIs
<1> QED
  BY <1>3, <1>5 DEF s

\* The characters of the shell's own texts.
LEMMA NewlineChars ==
    /\ "\n" \in Inks /\ IsPlain("\n") /\ "\r" \in Inks /\ IsPlain("\r")
    /\ "1" \in Inks /\ IsPlain("1") /\ "2" \in Inks /\ IsPlain("2")
    /\ "?" \in Inks /\ IsPlain("?") /\ "!" \in Inks /\ IsPlain("!") /\ ":" \in Inks
  BY DEF Inks, IsPlain

\* A line break leaves an empty row.
LEMMA BreakIs ==
    ASSUME NEW t \in Terminals
    PROVE  Say(t, <<"\n">>) \in Terminals /\ Say(t, <<"\n">>).row = Bottom
<1> DEFINE n == "\n"
<1>1. n \in Inks /\ IsPlain(n) /\ n = "\n"
  BY NewlineChars
<1> HIDE DEF n
<1>2. Say(t, <<n>>) \in Terminals /\ Say(t, <<n>>).row = Place(t.row, n)
  BY <1>1, SayChar
<1>3. Place(t.row, n) = Bottom
  BY <1>1, PlaceIs
<1> QED
  BY <1>2, <1>3 DEF n

\* A command begins on a terminal,
LEMMA NewRowIs ==
    ASSUME tty \in Terminals
    PROVE  NewRow \in Terminals
<1> DEFINE r == "\r"
           t == Say(tty, <<"\n">>)
<1>1. r \in Inks /\ IsPlain(r)
  BY NewlineChars
<1>2. t \in Terminals
  BY BreakIs
<1>3. NewRow = Say(t, <<r>>)
  BY DEF NewRow
<1> HIDE DEF r, t
<1> QED
  BY <1>1, <1>2, <1>3, SayChar

\* What a command prints stays on its own row.
LEMMA TextLine ==
    ASSUME NEW t \in Terminals, NEW text, IsShown(text)
    PROVE  /\ Say(Say(t, text), <<"\n">>) \in Terminals
           /\ Say(Say(t, text), <<"\n">>).row = Bottom
<1>1. Say(t, text) \in Terminals
  BY SayIs DEF IsShown
<1> DEFINE u == Say(t, text)
<1> HIDE DEF u
<1>2. u \in Terminals
  BY <1>1 DEF u
<1>3. Say(u, <<"\n">>) \in Terminals /\ Say(u, <<"\n">>).row = Bottom
  BY <1>2, BreakIs
<1> QED
  BY <1>3 DEF u

\* and a message with its newline too.
LEMMA MessageLine ==
    ASSUME NEW t \in Terminals, NEW x \in Inks, IsPlain(x), NEW text, IsShown(text)
    PROVE  /\ Sayf(t, Message(x), text) \in Terminals
           /\ Sayf(t, Message(x), text).row = Bottom
<1> DEFINE o == Filled(x, text)
           n == "\n"
<1>1. /\ text \in Seq(Inks) /\ Len(text) <= MaxLine /\ Len(text) \in Nat
      /\ \A i \in 1 .. Len(text) : IsPlain(text[i])
  BY LenProperties DEF IsShown
<1>2. ":" \in Inks /\ "\n" \in Inks
  BY NewlineChars
<1>3. /\ o \in Seq(Inks) /\ Len(o) = Len(text) + 3 /\ o[Len(text) + 3] = n
      /\ (\A i \in 1 .. Len(text) : IsPlain(text[i])) => \A i \in 1 .. Len(text) + 3 : IsPlain(o[i])
  BY <1>1, <1>2, FilledIs
<1>4. /\ vprintfmt(Message(x), GivenText(text)).out = o
      /\ vprintfmt(Message(x), GivenText(text)).written \in Nat
  BY <1>1, MessagePrinted
<1>5. n = "\n"
  OBVIOUS
<1>6. MaxLine \in Nat /\ BufferSize \in Nat /\ MaxLine + 3 < BufferSize
  BY ShellAssumption, ConsoleAssumption
<1>7. t.row \in Rows
  BY TerminalHas
<1> HIDE DEF o, n
<1>8. Len(o) < BufferSize /\ Len(o) # 0 /\ o[Len(o)] = n
  BY <1>1, <1>3, <1>6
<1>9. \A i \in 1 .. Len(o) : IsPlain(o[i])
  BY <1>1, <1>3
<1> DEFINE fmt == Message(x)
<1> HIDE DEF fmt
<1>10. vprintfmt(fmt, GivenText(text)).out = o /\ vprintfmt(fmt, GivenText(text)).written \in Nat
  BY <1>4 DEF fmt
<1>11. Sayf(t, fmt, text) \in Terminals /\ Sayf(t, fmt, text).row = Placed(t.row, o)
  BY <1>3, <1>8, <1>9, <1>10, SayfIs
<1>12. Placed(t.row, o) = Bottom
  BY <1>3, <1>5, <1>7, <1>8, NewlineRow
<1> QED
  BY <1>11, <1>12 DEF fmt

\* Before the greeting nothing is shown.
LEMMA QuietIs == [console |-> Quiet, row |-> Bottom] \in Terminals
<1> DEFINE none == <<>>
           b == Copies(Nul, BufferSize)
           zero == 0
           c == [buffer |-> b, tail |-> zero, shown |-> none, ret |-> zero]
<1>1. none \in Seq(Inks) /\ zero \in Nat /\ zero = 0
  OBVIOUS
<1>2. Nul \in Inks
  BY DEF Inks
<1>3. b \in Seq(Inks) /\ Len(b) = BufferSize
  <2>1. BufferSize \in Int /\ ~ (BufferSize <= 0)
    BY ConsoleAssumption
  <2> QED
    BY <1>2, <2>1, CopiesFacts
<1>4. Quiet = c
  BY DEF Quiet
<1> HIDE DEF none, b, zero
<1>5. /\ IsConsole(c) /\ c.buffer = b /\ c.tail = 0 /\ c.shown = none /\ c.ret = zero
  BY <1>1 DEF IsConsole
<1> HIDE DEF c
<1>6. [console |-> c, row |-> Bottom] \in Terminals
  BY <1>1, <1>3, <1>5, BottomIs, TerminalIs
<1> QED
  BY <1>4, <1>6

\* Each line of the greeting leaves an empty row,
LEMMA GreetingLine ==
    ASSUME NEW t \in Terminals, NEW a \in Inks, IsPlain(a), NEW n, n = "\n"
    PROVE  Say(t, <<a, n>>) \in Terminals /\ Say(t, <<a, n>>).row = Bottom
<1>1. n \in Inks /\ IsPlain(n)
  BY NewlineChars
<1> DEFINE s == <<a, n>>
<1>2. s \in Seq(Inks) /\ Len(s) = 2 /\ s[1] = a /\ s[2] = n
  BY <1>1
<1> HIDE DEF s
<1>3. \A i \in 1 .. Len(s) : IsPlain(s[i])
  BY <1>1, <1>2
<1>4. Say(t, s) \in Terminals /\ Say(t, s).row = Placed(t.row, s)
  BY <1>2, <1>3, SayIs
<1>5. Placed(t.row, s) = Bottom
  <2>1. t.row \in Rows
    BY TerminalHas
  <2>2. Len(s) # 0 /\ s[Len(s)] = "\n"
    BY <1>2
  <2> QED
    BY <1>2, <2>1, <2>2, NewlineRow
<1> QED
  BY <1>4, <1>5 DEF s

\* so the first prompt stands on one.
LEMMA GreetingIs == Greeting \in Terminals /\ Greeting.row = Bottom
<1> DEFINE n == "\n"
           a == "1"
           b == "2"
           t == [console |-> Quiet, row |-> Bottom]
           u == Say(t, <<a, n>>)
<1>1. n = "\n" /\ a \in Inks /\ IsPlain(a) /\ b \in Inks /\ IsPlain(b)
  BY NewlineChars
<1>2. t \in Terminals
  BY QuietIs
<1>3. Greeting = Say(u, <<b, n>>)
  BY DEF Greeting, Bottom
<1> HIDE DEF t, n, a, b
<1>4. u \in Terminals
  BY <1>1, <1>2, GreetingLine
<1> HIDE DEF u
<1> QED
  BY <1>1, <1>3, <1>4, GreetingLine

\* What cat prints, one character after the other.
IsSaid(f, t, text) ==
    f = [n \in 0 .. Len(text) |-> IF n = 0 THEN t ELSE Say(f[n - 1], <<text[n]>>)]

\* cat writes one character after the other, and the terminal stays one.
LEMMA SayEachIs ==
    ASSUME NEW t \in Terminals, NEW text \in Seq(Keyset)
    PROVE  SayEach(t, text) \in Terminals
<1> DEFINE n == Len(text)
           pre == [i \in 1 .. n |-> i - 1]
           G   == [i \in 1 .. n |-> [v \in Terminals |-> Say(v, <<text[i]>>)]]
<1>1. n \in Nat /\ \A i \in 1 .. n : text[i] \in Inks /\ IsPlain(text[i])
  <2>1. n \in Nat /\ \A i \in 1 .. n : text[i] \in Keyset
    BY LenProperties, ElementOfSeq
  <2> QED
    BY <2>1, KeyIs
<1>2. Earlier(pre, n)
  <2> HIDE DEF n
  <2> QED
    BY <1>1 DEF Earlier
<1>3. StaysIn(G, n, Terminals)
  <2> SUFFICES ASSUME NEW i \in 1 .. n, NEW v \in Terminals PROVE G[i][v] \in Terminals
    BY DEF StaysIn
  <2>1. G[i][v] = Say(v, <<text[i]>>)
    OBVIOUS
  <2> QED
    BY <1>1, <2>1, SayChar
<1>4. \E f : Recurs(f, n, Terminals, t, pre, G)
  <2> HIDE DEF pre, G, n
  <2> QED
    BY <1>1, <1>2, <1>3, Upward
<1>5. PICK f \in [0 .. n -> Terminals] :
         f[0] = t /\ \A i \in 1 .. n : f[i] = G[i][f[pre[i]]]
  <2> HIDE DEF pre, G, n
  <2> QED
    BY <1>4 DEF Recurs
<1>6. \A i \in 1 .. n : f[i] = Say(f[i - 1], <<text[i]>>)
  <2> TAKE i \in 1 .. n
  <2>1. i - 1 \in 0 .. n
    BY <1>1
  <2>2. f[i - 1] \in Terminals
    BY <2>1
  <2> QED
    BY <1>5, <2>2
<1>7. IsSaid(f, t, text)
  BY <1>5, <1>6 DEF IsSaid
<1>8. PICK p : IsSaid(p, t, text) /\ SayEach(t, text) = p[n]
  <2>1. IsSaid(CHOOSE g : IsSaid(g, t, text), t, text)
    <3> HIDE DEF IsSaid
    <3> QED
      BY <1>7, Zenon
  <2>2. SayEach(t, text) = (CHOOSE g : IsSaid(g, t, text))[n]
    BY Zenon DEF SayEach, IsSaid
  <2> QED
    BY <2>1, <2>2, Zenon
<1>9. p[0] = t /\ \A k \in 1 .. n : p[k] = Say(p[k - 1], <<text[k]>>)
  <2> HIDE DEF n
  <2>1. \A k \in 0 .. n : p[k] = IF k = 0 THEN t ELSE Say(p[k - 1], <<text[k]>>)
    BY <1>8 DEF IsSaid, n
  <2>2. 0 \in 0 .. n /\ \A k \in 1 .. n : k \in 0 .. n /\ k # 0
    BY <1>1
  <2> QED
    BY <2>1, <2>2
<1>10. \A k \in 0 .. n : p[k] \in Terminals
  <2> DEFINE T == {k \in 0 .. n : p[k] \notin Terminals}
  <2> SUFFICES ASSUME T # {} PROVE FALSE
    OBVIOUS
  <2> HIDE DEF n
  <2>1. PICK k \in T : \A m \in T : k <= m
    <3>1. T \subseteq Nat
      BY <1>1
    <3> HIDE DEF T
    <3> QED
      BY <3>1, LeastElement
  <2>2. k \in 0 .. n /\ p[k] \notin Terminals
    OBVIOUS
  <2>3. k \in 1 .. n /\ k - 1 \in 0 .. n /\ ~ (k <= k - 1)
    BY <1>1, <1>9, <2>2
  <2>4. p[k - 1] \in Terminals
    BY <2>1, <2>3
  <2>5. p[k] \in Terminals
    BY <1>1, <1>9, <2>3, <2>4, SayChar
  <2> QED
    BY <2>2, <2>5
<1>11. n \in 0 .. n
  BY <1>1
<1> QED
  BY <1>8, <1>10, <1>11

-----------------------------------------------------------------------------
(* The invariant of the shell.                                             *)

\* The line, what cat has read and what the user still types.
LineInv ==
    /\ line_buf \in Seq(LineSet) /\ Len(line_buf) = MaxLine + 1 /\ char_in_line \in 0 .. MaxLine
    /\ mode \in {"line", "cat", "halted"}
    /\ cat_buf \in Seq(Keyset) /\ Len(cat_buf) < CatSize
    /\ keys \in Seq(Keyset)

\* The terminal.
ScreenInv ==
    /\ tty \in Terminals
    /\ mode = "line" => OnScreen(tty.row, line_buf, char_in_line)

ShellInv == LineInv /\ ScreenInv

\* The sizes are numbers.
LEMMA SizesNat == MaxLine \in Nat /\ CatSize \in Nat /\ CatSize > 0
  BY ShellAssumption

\* The line with its Nul ends where the cursor stands.
LEMMA EndedIs ==
    ASSUME LineInv
    PROVE  /\ LineTo(Ended, char_in_line + 1)
           /\ Ended \in Seq(LineSet) /\ Len(Ended) = MaxLine + 1
<1> DEFINE k == char_in_line + 1
<1>1. k \in 1 .. Len(line_buf) /\ line_buf \in Seq(LineSet) /\ Len(line_buf) = MaxLine + 1
  BY SizesNat DEF LineInv
<1>2. Nul \in LineSet
  BY DEF LineSet
<1>3. Ended = [line_buf EXCEPT ![k] = Nul]
  BY DEF Ended
<1> HIDE DEF k
<1>4. /\ Ended \in Seq(LineSet) /\ Len(Ended) = Len(line_buf)
      /\ \A j \in 1 .. Len(line_buf) : Ended[j] = IF j = k THEN Nul ELSE line_buf[j]
  BY <1>1, <1>2, <1>3, ExceptSeq
<1>5. LineTo(Ended, k)
  BY <1>1, <1>4 DEF LineTo
<1> QED
  BY <1>1, <1>4, <1>5 DEF k

\* The next key is a key.
LEMMA KeysTail ==
    ASSUME LineInv, keys # <<>>
    PROVE  Head(keys) \in Keyset /\ Tail(keys) \in Seq(Keyset)
<1>1. keys \in Seq(Keyset)
  BY DEF LineInv
<1> QED
  BY <1>1, HeadTailProperties

\* The invariant holds at first.  Each action keeps it: the user types on,
LEMMA ShellStart == ShellInit => ShellInv
<1> SUFFICES ASSUME ShellInit PROVE ShellInv
  OBVIOUS
<1>1. line_buf \in Seq(LineSet) /\ Len(line_buf) = MaxLine + 1
  <2>1. Junk \in LineSet
    BY DEF LineSet
  <2> DEFINE n == MaxLine + 1
  <2>2. n \in Int /\ ~ (n <= 0)
    BY SizesNat
  <2>3. line_buf = Copies(Junk, n)
    BY DEF ShellInit
  <2> HIDE DEF n
  <2>4. line_buf \in Seq(LineSet) /\ Len(line_buf) = n
    BY <2>1, <2>2, <2>3, CopiesFacts
  <2> QED
    BY <2>4 DEF n
<1>2. char_in_line = 0 /\ mode = "line" /\ tty = Ask(Greeting)
  BY DEF ShellInit
<1>3. cat_buf \in Seq(Keyset) /\ Len(cat_buf) = 0 /\ keys \in Seq(Keyset)
  BY DEF ShellInit
<1>4. char_in_line \in 0 .. MaxLine /\ Len(cat_buf) < CatSize
  BY <1>2, <1>3, SizesNat
<1>5. tty \in Terminals /\ OnScreen(tty.row, line_buf, 0)
  BY <1>2, GreetingIs, AskIs
<1> QED
  BY <1>1, <1>2, <1>3, <1>4, <1>5 DEF ShellInv, LineInv, ScreenInv

\* a chunk is taken,
LEMMA HandsKeeps == ASSUME ShellInv, Hands PROVE ShellInv'
<1>1. keys' \in Seq(Keyset)
  BY KeyFacts DEF Hands
<1> QED
  BY <1>1 DEF Hands, ShellInv, LineInv, ScreenInv

\* a character is rubbed out,
LEMMA RuboutKeeps == ASSUME ShellInv, RuboutKey PROVE ShellInv'
<1>1. /\ LineInv /\ tty \in Terminals /\ mode = "line" /\ OnScreen(tty.row, line_buf, char_in_line)
      /\ char_in_line \in 0 .. MaxLine /\ keys # <<>> /\ keys' = Tail(keys)
      /\ UNCHANGED <<line_buf, mode, cat_buf>>
  BY DEF ShellInv, LineInv, ScreenInv, RuboutKey, Press
<1>2. keys' \in Seq(Keyset)
  BY <1>1, KeysTail
<1>3. CASE char_in_line > 0
  <2>1. char_in_line' = char_in_line - 1 /\ tty' = Erase(tty)
    BY <1>3 DEF RuboutKey, Rubout
  <2>2. char_in_line' \in 0 .. MaxLine /\ char_in_line \in Nat
    BY <1>1, <1>3, <2>1, SizesNat
  <2> DEFINE s == ErasingText
  <2>3. s \in Seq(Inks) /\ \A i \in 1 .. Len(s) : IsPlain(s[i])
    <3> DEFINE a == Back
               b == " "
    <3>1. a \in Inks /\ b \in Inks /\ IsPlain(a) /\ IsPlain(b)
      BY DEF Inks, IsPlain, Back
    <3>2. s = <<a, b, a>>
      BY DEF ErasingText
    <3> HIDE DEF a, b, s
    <3>3. s \in Seq(Inks) /\ Len(s) = 3 /\ s[1] = a /\ s[2] = b /\ s[3] = a
      BY <3>1, <3>2
    <3>4. \A i \in 1 .. 3 : i = 1 \/ i = 2 \/ i = 3
      OBVIOUS
    <3> QED
      BY <3>1, <3>3, <3>4
  <2>4. Erase(tty) = Say(tty, s)
    BY DEF Erase, ErasingText
  <2>5. tty.row \in Rows
    BY <1>1, TerminalHas
  <2> HIDE DEF s
  <2>6. tty' \in Terminals /\ tty'.row = Placed(tty.row, s)
    BY <1>1, <2>1, <2>3, <2>4, SayIs
  <2>7. OnScreen(tty'.row, line_buf, char_in_line - 1)
    <3> DEFINE r == tty'.row
    <3>1. r = Placed(tty.row, ErasingText)
      BY <2>6 DEF s
    <3> HIDE DEF r
    <3>2. OnScreen(r, line_buf, char_in_line - 1)
      BY <1>1, <1>3, <2>2, <2>5, <3>1, EraseShown
    <3> QED
      BY <3>2 DEF r
  <2> QED
    BY <1>1, <1>2, <2>1, <2>2, <2>6, <2>7 DEF ShellInv, LineInv, ScreenInv
<1>4. CASE ~ (char_in_line > 0)
  <2>1. UNCHANGED <<char_in_line, tty>>
    BY <1>4 DEF RuboutKey, Rubout
  <2> QED
    BY <1>1, <1>2, <2>1 DEF ShellInv, LineInv, ScreenInv
<1> QED
  BY <1>3, <1>4

\* a key is echoed.
LEMMA CharKeeps == ASSUME ShellInv, CharKey PROVE ShellInv'
<1>1. PICK key \in Range(keys) \ {Del, CR} :
         /\ Press(key) /\ char_in_line < MaxLine
         /\ line_buf' = [line_buf EXCEPT ![char_in_line + 1] = key]
         /\ char_in_line' = char_in_line + 1 /\ tty' = Say(tty, <<key>>)
         /\ UNCHANGED <<mode, cat_buf>>
  BY DEF CharKey
<1>2. /\ LineInv /\ tty \in Terminals /\ mode = "line" /\ OnScreen(tty.row, line_buf, char_in_line)
      /\ char_in_line \in 0 .. MaxLine /\ line_buf \in Seq(LineSet) /\ Len(line_buf) = MaxLine + 1
      /\ keys # <<>> /\ key = Head(keys) /\ keys' = Tail(keys)
  BY <1>1 DEF ShellInv, LineInv, ScreenInv, Press
<1>3. key \in Keyset /\ keys' \in Seq(Keyset)
  BY <1>2, KeysTail
<1>4. /\ IsPlain(key) /\ key \in Inks /\ key # Nul
      /\ key \notin {Yellow, "<red>", "<clear>", "\n", "\r", Back}
  BY <1>1, <1>3, KeyIs DEF CR
<1> DEFINE n == char_in_line
           k == n + 1
           new == [line_buf EXCEPT ![k] = key]
<1>5. n \in Nat /\ k \in 1 .. Len(line_buf) /\ k \in 0 .. MaxLine /\ n < k
  BY <1>1, <1>2, SizesNat
<1>6. key \in LineSet
  BY <1>3 DEF LineSet
<1>7. line_buf' = new /\ char_in_line' = k
  BY <1>1
<1>8. \A i \in 1 .. n : i \in 1 .. Len(line_buf) /\ i # k
  BY <1>5
<1>9. tty.row \in Rows
  BY <1>2, TerminalHas
<1>10. tty' \in Terminals /\ tty'.row = Place(tty.row, key)
  BY <1>1, <1>2, <1>4, SayChar
<1> HIDE DEF k
<1>11. /\ new \in Seq(LineSet) /\ Len(new) = Len(line_buf)
       /\ \A j \in 1 .. Len(line_buf) : new[j] = IF j = k THEN key ELSE line_buf[j]
  BY <1>2, <1>5, <1>6, ExceptSeq
<1> HIDE DEF new
<1>12. new[k] = key /\ \A i \in 1 .. n : new[i] = line_buf[i]
  BY <1>5, <1>8, <1>11
<1>13. OnScreen(Place(tty.row, key), new, n + 1)
  BY <1>2, <1>4, <1>5, <1>9, <1>12, KeyShown DEF k
<1>14. OnScreen(tty'.row, line_buf', char_in_line')
  BY <1>7, <1>10, <1>13 DEF k
<1>15. LineInv'
  <2>1. line_buf' \in Seq(LineSet) /\ Len(line_buf') = MaxLine + 1 /\ char_in_line' \in 0 .. MaxLine
    BY <1>2, <1>5, <1>7, <1>11
  <2> QED
    BY <1>1, <1>2, <1>3, <2>1 DEF LineInv
<1> QED
  BY <1>10, <1>14, <1>15 DEF ShellInv, ScreenInv

\* A command begins on a row of its own, with its line ended.
LEMMA Entered ==
    ASSUME ShellInv, Press(CR), line_buf' = Ended
    PROVE  /\ LineInv /\ LineTo(Ended, char_in_line + 1) /\ char_in_line \in 0 .. MaxLine
           /\ line_buf' \in Seq(LineSet) /\ Len(line_buf') = MaxLine + 1
           /\ keys' \in Seq(Keyset) /\ NewRow \in Terminals
           /\ cat_buf \in Seq(Keyset) /\ Len(cat_buf) < CatSize /\ mode = "line"
<1>1. LineInv /\ tty \in Terminals
  BY DEF ShellInv, ScreenInv
<1>2. keys # <<>> /\ keys' = Tail(keys) /\ mode = "line"
  BY DEF Press
<1>3. keys' \in Seq(Keyset)
  BY <1>1, <1>2, KeysTail
<1>4. LineTo(Ended, char_in_line + 1) /\ Ended \in Seq(LineSet) /\ Len(Ended) = MaxLine + 1
  BY <1>1, EndedIs
<1>5. NewRow \in Terminals
  BY <1>1, NewRowIs
<1>6. cat_buf \in Seq(Keyset) /\ Len(cat_buf) < CatSize /\ char_in_line \in 0 .. MaxLine
  BY <1>1 DEF LineInv
<1> QED
  BY <1>1, <1>2, <1>3, <1>4, <1>5, <1>6

\* A command that returns leaves the prompt and nothing else.
LEMMA ReturnsKeeps ==
    ASSUME ShellInv, Press(CR), line_buf' = Ended, NEW t \in Terminals, t.row = Bottom, Returns(t)
    PROVE  ShellInv'
<1>1. /\ line_buf' \in Seq(LineSet) /\ Len(line_buf') = MaxLine + 1
      /\ keys' \in Seq(Keyset) /\ cat_buf \in Seq(Keyset) /\ Len(cat_buf) < CatSize /\ mode = "line"
  BY Entered
<1>2. tty' = Ask(t) /\ char_in_line' = 0 /\ cat_buf' = cat_buf /\ mode' = mode
  BY DEF Returns
<1>3. tty' \in Terminals /\ OnScreen(tty'.row, line_buf', 0)
  BY <1>2, AskIs
<1>4. 0 \in 0 .. MaxLine
  BY SizesNat
<1> QED
  BY <1>1, <1>2, <1>3, <1>4 DEF ShellInv, LineInv, ScreenInv

\* Nor need it be shown when the command never returns.
LEMMA StopsKeeps ==
    ASSUME ShellInv, Press(CR), line_buf' = Ended, NEW m \in {"cat", "halted"}, Stops(m, NewRow)
    PROVE  ShellInv'
<1>1. /\ line_buf' \in Seq(LineSet) /\ Len(line_buf') = MaxLine + 1 /\ char_in_line \in 0 .. MaxLine
      /\ keys' \in Seq(Keyset) /\ NewRow \in Terminals
  BY Entered
<1>2. mode' = m /\ tty' = NewRow /\ cat_buf' = <<>> /\ char_in_line' = char_in_line
  BY DEF Stops
<1>3. cat_buf' \in Seq(Keyset) /\ Len(cat_buf') = 0
  BY <1>2
<1>4. Len(cat_buf') < CatSize
  BY <1>3, SizesNat
<1>5. mode' \in {"line", "cat", "halted"} /\ mode' # "line"
  BY <1>2
<1> QED
  BY <1>1, <1>2, <1>3, <1>4, <1>5 DEF ShellInv, LineInv, ScreenInv

\* So every command keeps it: echo,
LEMMA EchoKeeps == ASSUME ShellInv, EchoCommand PROVE ShellInv'
<1> DEFINE text == get_string(Ended, 5)
           t == Say(Say(NewRow, text), <<"\n">>)
           p == char_in_line + 1
<1>1. IsPrefix(Echo, Ended) /\ Press(CR) /\ line_buf' = Ended /\ Returns(t)
  BY DEF EchoCommand, EnterKey
<1>2. LineTo(Ended, p) /\ NewRow \in Terminals
  BY <1>1, Entered
<1> HIDE DEF p
<1>3. 4 + 1 <= p
  BY <1>1, <1>2, NameRoom, NameFacts
<1>4. IsShown(text)
  <2> DEFINE five == 5
  <2>1. five \in Nat /\ 1 <= five /\ five <= p
    BY <1>3
  <2> HIDE DEF five
  <2>2. IsShown(get_string(Ended, five))
    BY <1>2, <2>1, StringIs
  <2> QED
    BY <2>2 DEF five
<1> HIDE DEF text
<1>5. t \in Terminals /\ t.row = Bottom
  BY <1>2, <1>4, TextLine
<1> HIDE DEF t
<1> QED
  BY <1>1, <1>5, ReturnsKeeps

\* echo of a quote that nothing closes,
LEMMA QuoteKeeps == ASSUME ShellInv, QuoteLost PROVE ShellInv'
<1>1. Press(CR) /\ line_buf' = Ended /\ Stops("halted", NewRow)
  BY DEF QuoteLost
<1> QED
  BY <1>1, StopsKeeps

\* cat, which stays in its loop or prints that it cannot open,
LEMMA CatKeeps == ASSUME ShellInv, CatCommand PROVE ShellInv'
<1> DEFINE filename == get_param(Ended, 4)
           t == Sayf(NewRow, CantOpen, filename)
           p == char_in_line + 1
<1>1. /\ IsPrefix(Cat, Ended) /\ Press(CR) /\ line_buf' = Ended
      /\ Stops("cat", NewRow) \/ Returns(t)
  BY DEF CatCommand, EnterKey
<1>2. LineTo(Ended, p) /\ NewRow \in Terminals
  BY <1>1, Entered
<1> HIDE DEF p
<1>3. 3 + 1 <= p
  BY <1>1, <1>2, NameRoom, NameFacts
<1>4. IsShown(filename)
  <2> DEFINE four == 4
  <2>1. four \in Nat /\ 1 <= four /\ four <= p
    BY <1>3
  <2> HIDE DEF four
  <2>2. IsShown(get_param(Ended, four))
    BY <1>2, <2>1, ParamIs
  <2> QED
    BY <2>2 DEF four
<1> HIDE DEF filename
<1>5. t \in Terminals /\ t.row = Bottom
  <2> DEFINE x == "?"
  <2>1. x \in Inks /\ IsPlain(x)
    BY NewlineChars
  <2>2. t = Sayf(NewRow, Message(x), filename)
    BY DEF CantOpen, Message
  <2> HIDE DEF x, t
  <2> QED
    BY <1>2, <1>4, <2>1, <2>2, MessageLine
<1> HIDE DEF t
<1> QED
  BY <1>1, <1>5, ReturnsKeeps, StopsKeeps

\* edit
LEMMA EditKeeps == ASSUME ShellInv, EditCommand PROVE ShellInv'
<1>1. Press(CR) /\ line_buf' = Ended /\ Stops("halted", NewRow)
  BY DEF EditCommand, EnterKey
<1> QED
  BY <1>1, StopsKeeps

\* and an unknown command.
LEMMA UnknownKeeps == ASSUME ShellInv, UnknownCommand PROVE ShellInv'
<1> DEFINE text == UpTo(Ended, 1, {Nul})
           t == Sayf(NewRow, NotFound, text)
           p == char_in_line + 1
<1>1. Press(CR) /\ line_buf' = Ended /\ Returns(t)
  BY DEF UnknownCommand, EnterKey
<1>2. LineTo(Ended, p) /\ NewRow \in Terminals /\ char_in_line \in 0 .. MaxLine
  BY <1>1, Entered
<1>3. 1 <= p
  BY <1>2, SizesNat
<1> HIDE DEF p
<1>4. IsShown(text)
  <2> DEFINE one == 1
             stops == {Nul}
  <2>1. one \in Nat /\ 1 <= one /\ one <= p /\ Nul \in stops
    BY <1>3
  <2> HIDE DEF one, stops
  <2>2. IsShown(UpTo(Ended, one, stops))
    BY <1>2, <2>1, UpToIs
  <2> QED
    BY <2>2 DEF one, stops
<1> HIDE DEF text
<1>5. t \in Terminals /\ t.row = Bottom
  <2> DEFINE x == "!"
  <2>1. x \in Inks /\ IsPlain(x)
    BY NewlineChars
  <2>2. t = Sayf(NewRow, Message(x), text)
    BY DEF NotFound, Message
  <2> HIDE DEF x, t
  <2> QED
    BY <1>2, <1>4, <2>1, <2>2, MessageLine
<1> HIDE DEF t
<1> QED
  BY <1>1, <1>5, ReturnsKeeps

\* The loop of cat fills its buffer and writes it out.
LEMMA CatReadsKeeps == ASSUME ShellInv, CatReads PROVE ShellInv'
<1>1. /\ LineInv /\ tty \in Terminals /\ mode = "cat" /\ keys # <<>> /\ keys' = Tail(keys)
      /\ UNCHANGED <<line_buf, char_in_line, mode>>
      /\ cat_buf \in Seq(Keyset) /\ Len(cat_buf) < CatSize
  BY DEF CatReads, ShellInv, LineInv, ScreenInv
<1>2. Head(keys) \in Keyset /\ keys' \in Seq(Keyset)
  BY <1>1, KeysTail
<1> DEFINE more == Append(cat_buf, Head(keys))
<1>3. more \in Seq(Keyset) /\ Len(more) = Len(cat_buf) + 1
  BY <1>1, <1>2, AppendIs
<1>4. CASE Len(cat_buf) + 1 = CatSize
  <2>1. tty' = SayEach(tty, more) /\ cat_buf' = <<>>
    BY <1>4 DEF CatReads
  <2> HIDE DEF more
  <2>2. tty' \in Terminals
    BY <1>1, <1>3, <2>1, SayEachIs
  <2>3. cat_buf' \in Seq(Keyset) /\ Len(cat_buf') = 0
    BY <2>1
  <2>4. Len(cat_buf') < CatSize
    BY <2>3, SizesNat
  <2> QED
    BY <1>1, <1>2, <2>2, <2>3, <2>4 DEF ShellInv, LineInv, ScreenInv
<1>5. CASE Len(cat_buf) + 1 # CatSize
  <2>1. tty' = tty /\ cat_buf' = more
    BY <1>5 DEF CatReads
  <2> HIDE DEF more
  <2>2. Len(cat_buf) \in Nat
    BY <1>1, LenProperties
  <2>3. cat_buf' \in Seq(Keyset) /\ Len(cat_buf') < CatSize
    BY <1>1, <1>3, <1>5, <2>1, <2>2, SizesNat
  <2> QED
    BY <1>1, <1>2, <2>1, <2>3 DEF ShellInv, LineInv, ScreenInv
<1> QED
  BY <1>4, <1>5

\* Every step of the shell keeps the invariant.
LEMMA ShellInductive == ShellInv /\ [ShellNext]_shellVars => ShellInv'
<1> SUFFICES ASSUME ShellInv, [ShellNext]_shellVars PROVE ShellInv'
  OBVIOUS
<1>1. CASE UNCHANGED shellVars
  BY <1>1 DEF shellVars, ShellInv, LineInv, ScreenInv
<1>2. CASE Rest
  BY <1>2 DEF Rest, shellVars, ShellInv, LineInv, ScreenInv
<1> QED
  BY <1>1, <1>2, HandsKeeps, RuboutKeeps, CharKeeps, EchoKeeps, QuoteKeeps, CatKeeps, CatReadsKeeps,
     EditKeeps, UnknownKeeps DEF ShellNext

\* The invariant says what the row shows
LEMMA ScreenIs ==
    ASSUME ShellInv
    PROVE  ScreenShowsLine
<1> SUFFICES ASSUME mode = "line" PROVE ScreenShowsLine
  BY DEF ScreenShowsLine
<1> DEFINE x == tty.row.text
           c == tty.row.col
           n == char_in_line
<1>1. /\ tty \in Terminals /\ OnScreen(tty.row, line_buf, n) /\ line_buf \in Seq(LineSet)
      /\ Len(line_buf) = MaxLine + 1 /\ n \in 0 .. MaxLine
  BY DEF ShellInv, LineInv, ScreenInv
<1>2. x \in Seq(Inks) /\ c \in Nat /\ c <= Len(x)
  <2>1. tty.row \in Rows
    BY <1>1, TerminalHas
  <2> QED
    BY <2>1 DEF Rows
<1>3. c = n + 3 /\ n \in Nat
  <2>1. c = n + 3
    BY <1>1 DEF OnScreen
  <2>2. n \in Nat
    BY <1>1, SizesNat
  <2> QED
    BY <2>1, <2>2
<1>4. x[1] = "S" /\ x[2] = ">" /\ x[3] = " "
  BY <1>1 DEF OnScreen
<1>5. \A i \in 1 .. n : x[i + 3] = line_buf[i]
  BY <1>1 DEF OnScreen
<1>6. \A i \in c + 1 .. Len(x) : x[i] = " "
  BY <1>1 DEF OnScreen
<1>7. Prompt \in Seq(Inks) /\ Len(Prompt) = 3 /\ Prompt[1] = x[1] /\ Prompt[2] = x[2] /\ Prompt[3] = x[3]
  <2> DEFINE a == "S"
             b == ">"
             d == " "
  <2>1. a \in Inks /\ b \in Inks /\ d \in Inks
    BY DEF Inks
  <2>2. Prompt = <<a, b, d>> /\ x[1] = a /\ x[2] = b /\ x[3] = d
    BY <1>4 DEF Prompt
  <2> HIDE DEF a, b, d, x
  <2> QED
    BY <2>1, <2>2
<1>8. Typed = SubSeq(line_buf, 1, n)
  BY DEF Typed
<1>9. n \in 0 .. Len(line_buf)
  BY <1>1, SizesNat
<1>10. /\ Typed \in Seq(LineSet) /\ Len(Typed) = n /\ \A i \in 1 .. n : Typed[i] = line_buf[i]
  BY <1>1, <1>8, <1>9, Prefix
<1>11. Typed \in Seq(Inks)
  <2>1. LineSet \subseteq Inks
    BY LineChar
  <2> QED
    BY <1>10, <2>1, SeqMonotonic
<1> HIDE DEF x, c, n
<1> DEFINE u == SubSeq(x, 1, c)
           w == Prompt \o Typed
<1>12. u \in Seq(Inks) /\ Len(u) = c /\ \A i \in 1 .. c : u[i] = x[i]
  <2>1. c \in 0 .. Len(x)
    BY <1>2
  <2> QED
    BY <1>2, <2>1, Prefix
<1>13. w \in Seq(Inks) /\ IsJoin(w, Prompt, Typed)
  BY <1>7, <1>11, Joins
<1> HIDE DEF u, w
<1>14. /\ Len(w) = 3 + n
       /\ \A i \in 1 .. 3 : w[i] = Prompt[i]
       /\ \A i \in 1 .. n : w[3 + i] = Typed[i]
  BY <1>7, <1>10, <1>13 DEF IsJoin
<1>15. \A i \in 1 .. c : u[i] = w[i]
  <2> TAKE i \in 1 .. c
  <2>1. CASE i \in 1 .. 3
    <3>1. i = 1 \/ i = 2 \/ i = 3
      BY <2>1
    <3> QED
      BY <1>7, <1>12, <1>14, <2>1, <3>1
  <2>2. CASE i \notin 1 .. 3
    <3>1. i - 3 \in 1 .. n /\ 3 + (i - 3) = i /\ (i - 3) + 3 = i
      BY <1>2, <1>3, <2>2
    <3> DEFINE j == i - 3
    <3>2. j \in 1 .. n /\ 3 + j = i /\ j + 3 = i
      BY <3>1
    <3> HIDE DEF j
    <3>3. w[i] = Typed[j] /\ Typed[j] = line_buf[j] /\ x[i] = line_buf[j]
      BY <1>5, <1>10, <1>14, <3>2
    <3> QED
      BY <1>12, <3>3
  <2> QED
    BY <2>1, <2>2
<1>16. Len(u) = Len(w)
  BY <1>3, <1>12, <1>14
<1>17. u = w
  BY <1>12, <1>13, <1>15, <1>16, SeqEqual
<1> QED
  BY <1>6, <1>17 DEF ScreenShowsLine, u, w, x, c

\* and so implies that line and screen are sound.
LEMMA ShellSound == ShellInv => LineSound
<1> SUFFICES ASSUME ShellInv PROVE LineSound
  OBVIOUS
<1>1. ScreenShowsLine
  BY ScreenIs
<1>2. tty.row.col \in 0 .. Len(tty.row.text)
  <2>1. tty.row \in Rows
    BY TerminalHas DEF ShellInv, ScreenInv
  <2> QED
    BY <2>1 DEF Rows
<1>3. LineTypeOK
  BY <1>2 DEF LineTypeOK, ShellInv, LineInv
<1> QED
  BY <1>1, <1>3 DEF LineSound

\* Between two keys the row of the terminal is the prompt and the line typed,
\* with the cursor behind it and blanks after it, and line_buf has room for
\* the Nul: main's loop, its rubout and its commands.
THEOREM LineShown == ShellSpec => []LineSound
<1>1. ShellInit => ShellInv
  BY ShellStart
<1>2. ShellInv /\ [ShellNext]_shellVars => ShellInv'
  BY ShellInductive
<1>3. ShellInv => LineSound
  BY ShellSound
<1> QED
  BY <1>1, <1>2, <1>3, PTL DEF ShellSpec

-----------------------------------------------------------------------------
(* Where the parts of a line stand, and how they are found.                *)

\* x stands in s behind a characters.
Stands(s, a, x) == a + Len(x) <= Len(s) /\ \A k \in 1 .. Len(x) : s[a + k] = x[k]

\* Each of two texts stands in the two together,
LEMMA JoinStands ==
    ASSUME NEW S, NEW s \in Seq(S), NEW x \in Seq(S)
    PROVE  /\ s \o x \in Seq(S) /\ Len(s \o x) = Len(s) + Len(x)
           /\ Stands(s \o x, 0, s) /\ Stands(s \o x, Len(s), x)
<1> DEFINE u == s \o x
           m == Len(s)
           n == Len(x)
<1>1. u \in Seq(S) /\ IsJoin(u, s, x)
  BY Joins
<1>2. m \in Nat /\ n \in Nat
  BY LenProperties
<1>3. u \in Seq(S) /\ Len(u) = m + n /\ (\A i \in 1 .. m : u[i] = s[i]) /\ \A i \in 1 .. n : u[m + i] = x[i]
  BY <1>1 DEF IsJoin
<1> HIDE DEF u
<1>4. 0 + Len(s) <= Len(u) /\ \A k \in 1 .. Len(s) : u[0 + k] = s[k]
  BY <1>2, <1>3
<1>5. m + Len(x) <= Len(u) /\ \A k \in 1 .. Len(x) : u[m + k] = x[k]
  BY <1>2, <1>3
<1> QED
  BY <1>3, <1>4, <1>5 DEF Stands, u

\* a part of a part is a part,
LEMMA StandsIn ==
    ASSUME NEW s, NEW t, NEW x, NEW a \in Nat, NEW b \in Nat, Len(x) \in Nat, Len(t) \in Nat, Len(s) \in Nat,
           Stands(s, a, t), Stands(t, b, x)
    PROVE  Stands(s, a + b, x)
<1>1. a + Len(t) <= Len(s) /\ \A k \in 1 .. Len(t) : s[a + k] = t[k]
  BY DEF Stands
<1>2. b + Len(x) <= Len(t) /\ \A k \in 1 .. Len(x) : t[b + k] = x[k]
  BY DEF Stands
<1>3. (a + b) + Len(x) <= Len(s)
  BY <1>1, <1>2
<1>4. ASSUME NEW k \in 1 .. Len(x) PROVE s[(a + b) + k] = x[k]
  <2>1. b + k \in 1 .. Len(t) /\ (a + b) + k = a + (b + k)
    BY <1>2
  <2>2. s[a + (b + k)] = t[b + k]
    BY <1>1, <2>1
  <2> QED
    BY <1>2, <2>1, <2>2
<1> QED
  BY <1>3, <1>4 DEF Stands

\* Four texts behind one another.
Parts(t, a, b, c, d) ==
    /\ Len(t) = ((Len(a) + Len(b)) + Len(c)) + Len(d)
    /\ Stands(t, 0, a) /\ Stands(t, Len(a), b) /\ Stands(t, Len(a) + Len(b), c)
    /\ Stands(t, (Len(a) + Len(b)) + Len(c), d)

\* and so is each of four.
LEMMA FourParts ==
    ASSUME NEW S, NEW a \in Seq(S), NEW b \in Seq(S), NEW c \in Seq(S), NEW d \in Seq(S)
    PROVE  ((a \o b) \o c) \o d \in Seq(S) /\ Parts(((a \o b) \o c) \o d, a, b, c, d)
<1> DEFINE u == a \o b
           v == u \o c
           t == v \o d
<1>1. Len(a) \in Nat /\ Len(b) \in Nat /\ Len(c) \in Nat /\ Len(d) \in Nat
  BY LenProperties
<1>2. u \in Seq(S) /\ Len(u) = Len(a) + Len(b) /\ Stands(u, 0, a) /\ Stands(u, Len(a), b)
  BY JoinStands
<1> HIDE DEF u
<1>3. v \in Seq(S) /\ Len(v) = Len(u) + Len(c) /\ Stands(v, 0, u) /\ Stands(v, Len(u), c)
  BY <1>2, JoinStands
<1> HIDE DEF v
<1>4. t \in Seq(S) /\ Len(t) = Len(v) + Len(d) /\ Stands(t, 0, v) /\ Stands(t, Len(v), d)
  BY <1>3, JoinStands
<1> HIDE DEF t
<1>5. Len(u) \in Nat /\ Len(v) \in Nat /\ Len(t) \in Nat
  BY <1>2, <1>3, <1>4, LenProperties
<1> DEFINE la == Len(a)
           lb == Len(b)
           lc == Len(c)
<1>6. la \in Nat /\ lb \in Nat /\ lc \in Nat /\ 0 \in Nat /\ Len(u) = la + lb /\ Len(v) = Len(u) + lc
  BY <1>1, <1>2, <1>3
<1>7. Stands(t, 0 + 0, u) /\ Stands(t, 0 + Len(u), c)
  <2>1. Stands(t, 0 + 0, u)
    BY <1>1, <1>3, <1>4, <1>5, <1>6, StandsIn
  <2>2. Stands(t, 0 + Len(u), c)
    BY <1>1, <1>3, <1>4, <1>5, <1>6, StandsIn
  <2> QED
    BY <2>1, <2>2
<1>8. Stands(t, 0, u) /\ Stands(t, Len(u), c)
  BY <1>5, <1>7
<1>9. Stands(t, 0 + 0, a)
  BY <1>1, <1>2, <1>5, <1>6, <1>8, StandsIn
<1>10. Stands(t, 0 + la, b)
  <2>1. Stands(u, la, b)
    BY <1>2
  <2> HIDE DEF la
  <2> QED
    BY <1>1, <1>5, <1>6, <1>8, <2>1, StandsIn
<1>11. 0 + la = la /\ 0 + 0 = 0
  BY <1>6
<1>12. Stands(t, 0, a) /\ Stands(t, la, b)
  BY <1>9, <1>10, <1>11
<1>13. Stands(t, la + lb, c) /\ Stands(t, (la + lb) + lc, d) /\ Len(t) = ((la + lb) + lc) + Len(d)
  BY <1>4, <1>6, <1>8
<1>14. Parts(t, a, b, c, d)
  BY <1>12, <1>13 DEF Parts
<1> QED
  BY <1>4, <1>14 DEF t, v, u

\* The least element of a set of numbers.
LEMMA MinIs ==
    ASSUME NEW T, T \subseteq Nat, NEW j \in T, \A y \in T : j <= y
    PROVE  Min(T) = j
<1> DEFINE m == Min(T)
<1>1. m \in T /\ \A y \in T : m <= y
  BY MinFacts
<1> HIDE DEF m
<1>2. m <= j /\ j <= m /\ m \in Nat /\ j \in Nat
  BY <1>1
<1>3. m = j
  BY <1>2
<1> QED
  BY <1>3 DEF m

\* Blanks in mem from i to before j.
Blanks(mem, i, j) == \A k \in i .. j - 1 : mem[k] = " "

Others(mem, i, blank) == {k \in i .. Len(mem) : mem[k] # blank}
Same(mem, i, j, blank) == \A k \in i .. j - 1 : mem[k] = blank

\* The first character that is no blank.
LEMMA FirstOther ==
    ASSUME NEW mem, Len(mem) \in Nat, NEW i \in Nat, NEW j \in i .. Len(mem), NEW blank,
           Same(mem, i, j, blank), mem[j] # blank
    PROVE  Min(Others(mem, i, blank)) = j
<1> DEFINE T == {k \in i .. Len(mem) : mem[k] # blank}
<1> USE DEF Same
<1>1. j \in T /\ T \subseteq Nat
  OBVIOUS
<1>2. ASSUME NEW y \in T PROVE j <= y
  <2>1. y \in i .. Len(mem) /\ y \notin i .. j - 1
    OBVIOUS
  <2> HIDE DEF T
  <2> QED
    BY <2>1
<1> HIDE DEF T
<1>3. Min(T) = j
  BY <1>1, <1>2, MinIs
<1> QED
  BY <1>3 DEF T, Others

\* Blanks are skipped to the first character that is none.
LEMMA SkipTo ==
    ASSUME NEW mem, Len(mem) \in Nat, NEW i \in Nat, NEW j \in i .. Len(mem), Blanks(mem, i, j), mem[j] # " "
    PROVE  SkipBlanks(mem, i) = j
<1> DEFINE blank == " "
<1>1. Same(mem, i, j, blank)
  BY DEF Blanks, Same
<1>2. mem[j] # blank
  OBVIOUS
<1>3. SkipBlanks(mem, i) = Min(Others(mem, i, blank))
  BY DEF SkipBlanks, Others
<1> HIDE DEF blank
<1>4. Min(Others(mem, i, blank)) = j
  BY <1>1, <1>2, FirstOther
<1> QED
  BY <1>3, <1>4, Zenon

\* A text without stops that a stop follows is what UpTo reads.
LEMMA UpToText ==
    ASSUME NEW S, NEW mem \in Seq(S), NEW x \in Seq(S), NEW a \in Nat, Stands(mem, a, x), NEW stops,
           NEW j, j = (a + Len(x)) + 1, j <= Len(mem), mem[j] \in stops,
           \A k \in 1 .. Len(x) : x[k] \notin stops
    PROVE  UpTo(mem, a + 1, stops) = x
<1> DEFINE i == a + 1
           T == {k \in i .. Len(mem) : mem[k] \in stops}
           l == Len(x)
<1>1. l \in Nat /\ Len(mem) \in Nat /\ l = Len(x)
  BY LenProperties
<1>2. \A k \in 1 .. l : mem[a + k] = x[k]
  BY DEF Stands
<1>3. UpTo(mem, i, stops) = SubSeq(mem, i, Min(T) - 1)
  BY DEF UpTo
<1>4. i \in 1 .. Len(mem) /\ j \in i .. Len(mem) /\ j - i = l /\ j = (a + l) + 1
  BY <1>1
<1>5. j \in T /\ T \subseteq Nat
  BY <1>4
<1>6. ASSUME NEW y \in T PROVE j <= y
  <2> SUFFICES ASSUME ~ (j <= y) PROVE FALSE
    OBVIOUS
  <2> DEFINE k == y - a
  <2>1. y \in i .. Len(mem) /\ mem[y] \in stops
    OBVIOUS
  <2> HIDE DEF T, l
  <2>2. k \in 1 .. l /\ a + k = y
    BY <1>4, <2>1, <1>1
  <2> HIDE DEF k
  <2> QED
    BY <1>1, <1>2, <2>1, <2>2
<1>7. Min(T) = j
  <2> HIDE DEF T
  <2> QED
    BY <1>5, <1>6, MinIs
<1> HIDE DEF T
<1> DEFINE u == SubSeq(mem, i, j - 1)
<1>8. u \in Seq(S) /\ Len(u) = j - i /\ \A k \in 1 .. j - i : u[k] = mem[(i + k) - 1]
  <2> HIDE DEF i
  <2> QED
    BY <1>4, Middle
<1> HIDE DEF u, l
<1>9. \A k \in 1 .. Len(x) : u[k] = x[k]
  <2> TAKE k \in 1 .. Len(x)
  <2>1. k \in 1 .. j - i /\ k \in 1 .. l /\ k \in Nat
    BY <1>1, <1>4
  <2>3. (i + k) - 1 = a + k
    BY <2>1
  <2> QED
    BY <1>2, <1>8, <2>1, <2>3
<1>10. Len(u) = Len(x)
  BY <1>1, <1>4, <1>8
<1>11. u = x
  BY <1>8, <1>9, <1>10, SeqEqual
<1> QED
  BY <1>3, <1>7, <1>11 DEF u

-----------------------------------------------------------------------------
(* Decimal numbers.                                                        *)

\* The ten digits.
Decimals == {Digits[d + 1] : d \in 0 .. 9}

\* None of them is a blank, a quote or a Nul.
LEMMA DecimalsAre ==
    /\ Decimals = {"0", "1", "2", "3", "4", "5", "6", "7", "8", "9"}
    /\ \A ch \in Decimals : ch # " " /\ ch # Nul /\ ch # Quote
<1>1. /\ Digits[0 + 1] = "0" /\ Digits[1 + 1] = "1" /\ Digits[2 + 1] = "2" /\ Digits[3 + 1] = "3"
      /\ Digits[4 + 1] = "4" /\ Digits[5 + 1] = "5" /\ Digits[6 + 1] = "6" /\ Digits[7 + 1] = "7"
      /\ Digits[8 + 1] = "8" /\ Digits[9 + 1] = "9"
  BY DEF Digits
<1>2. 0 .. 9 = {0, 1, 2, 3, 4, 5, 6, 7, 8, 9}
  OBVIOUS
<1>3. Decimals = {"0", "1", "2", "3", "4", "5", "6", "7", "8", "9"}
  BY <1>1, <1>2, ZenonT(40) DEF Decimals
<1>4. /\ " " \notin {"0", "1", "2", "3", "4", "5", "6", "7", "8", "9"}
      /\ Nul \notin {"0", "1", "2", "3", "4", "5", "6", "7", "8", "9"}
      /\ Quote \notin {"0", "1", "2", "3", "4", "5", "6", "7", "8", "9"}
  BY DEF Nul, Quote
<1> QED
  BY <1>3, <1>4

\* What a digit is worth to atoi.
Worth(ch) == Ascii[ch] - Ascii["0"]

\* Since the codes of digits follow one another, its own value.
LEMMA WorthIs ==
    /\ Ascii["0"] \in Int /\ \A ch \in Decimals : Ascii[ch] \in Int /\ Worth(ch) \in Int
    /\ \A d \in 0 .. 9 : Digits[d + 1] \in Decimals /\ Worth(Digits[d + 1]) = d
<1> DEFINE z == Ascii["0"]
<1>1. z \in Int /\ \A d \in 0 .. 9 : Ascii[Digits[d + 1]] = z + d
  BY CommandsAssumption
<1>2. \A ch : Worth(ch) = Ascii[ch] - z
  BY DEF Worth
<1> HIDE DEF z
<1>3. \A d \in 0 .. 9 : Digits[d + 1] \in Decimals
  BY DEF Decimals
<1>4. ASSUME NEW d \in 0 .. 9
      PROVE  Ascii[Digits[d + 1]] \in Int /\ Worth(Digits[d + 1]) = d
  <2> DEFINE a == Ascii[Digits[d + 1]]
  <2>1. a = z + d /\ Worth(Digits[d + 1]) = a - z
    BY <1>1, <1>2
  <2> HIDE DEF a
  <2>2. a \in Int /\ a - z = d
    BY <1>1, <2>1
  <2> QED
    BY <2>1, <2>2 DEF a
<1>5. ASSUME NEW ch \in Decimals PROVE Ascii[ch] \in Int /\ Worth(ch) \in Int
  <2>1. PICK d \in 0 .. 9 : ch = Digits[d + 1]
    BY DEF Decimals
  <2> QED
    BY <1>4, <2>1
<1> QED
  BY <1>1, <1>3, <1>4, <1>5 DEF z

\* The values of atoi, from the first character to the last.
IsAtoi(ret, str) ==
    ret = [n \in 0 .. Len(str) |-> IF n = 0 THEN 0 ELSE (ret[n - 1] * 10 + Ascii[str[n]]) - Ascii["0"]]
Reads(ret, str, l) ==
    /\ ret[0] = 0
    /\ \A k \in 1 .. l : ret[k] = ret[k - 1] * 10 + Worth(str[k])

\* One digit more.
LEMMA StepIs ==
    ASSUME NEW v \in Int, NEW ch \in Decimals
    PROVE  /\ (v * 10 + Ascii[ch]) - Ascii["0"] = v * 10 + Worth(ch)
           /\ v * 10 + Worth(ch) \in Int
<1> DEFINE a == Ascii[ch]
           z == Ascii["0"]
<1>1. a \in Int /\ z \in Int /\ Worth(ch) = a - z
  BY WorthIs DEF Worth
<1> HIDE DEF a, z
<1>2. (v * 10 + a) - z = v * 10 + Worth(ch) /\ v * 10 + Worth(ch) \in Int
  BY <1>1
<1> QED
  BY <1>2 DEF a, z

\* atoi is the value of such a function.
LEMMA AtoiRun ==
    ASSUME NEW str \in Seq(Decimals)
    PROVE  \E ret : /\ Reads(ret, str, Len(str)) /\ \A k \in 0 .. Len(str) : ret[k] \in Int
                    /\ atoi(str) = ret[Len(str)]
<1> DEFINE n == Len(str)
           pre == [i \in 1 .. n |-> i - 1]
           G   == [i \in 1 .. n |-> [v \in Int |-> v * 10 + Worth(str[i])]]
<1>1. n \in Nat /\ \A i \in 1 .. n : str[i] \in Decimals
  BY LenProperties, ElementOfSeq
<1>2. Earlier(pre, n)
  <2> HIDE DEF n
  <2> QED
    BY <1>1 DEF Earlier
<1>3. StaysIn(G, n, Int)
  <2> SUFFICES ASSUME NEW i \in 1 .. n, NEW v \in Int PROVE G[i][v] \in Int
    BY DEF StaysIn
  <2>1. G[i][v] = v * 10 + Worth(str[i])
    OBVIOUS
  <2>2. v * 10 + Worth(str[i]) \in Int
    BY <1>1, StepIs
  <2> QED
    BY <2>1, <2>2, Zenon
<1>4. \E f : Recurs(f, n, Int, 0, pre, G)
  <2> DEFINE zero == 0
  <2>1. zero \in Int
    OBVIOUS
  <2> HIDE DEF pre, G, n, zero
  <2>2. \E f : Recurs(f, n, Int, zero, pre, G)
    BY <1>1, <1>2, <1>3, <2>1, Upward
  <2> QED
    BY <2>2 DEF zero
<1>5. PICK f \in [0 .. n -> Int] :
         f[0] = 0 /\ \A i \in 1 .. n : f[i] = G[i][f[pre[i]]]
  <2> HIDE DEF pre, G, n
  <2> QED
    BY <1>4 DEF Recurs
<1>6. ASSUME NEW i \in 1 .. n
      PROVE  f[i] = f[i - 1] * 10 + Worth(str[i]) /\ f[i - 1] \in Int
  <2>1. i - 1 \in 0 .. n
    BY <1>1
  <2>2. f[i - 1] \in Int
    BY <2>1
  <2> QED
    BY <1>5, <2>2
<1>7. IsAtoi(f, str)
  <2>1. ASSUME NEW i \in 0 .. n
        PROVE  f[i] = IF i = 0 THEN 0 ELSE (f[i - 1] * 10 + Ascii[str[i]]) - Ascii["0"]
    <3>1. CASE i = 0
      BY <1>5, <3>1
    <3>2. CASE i # 0
      <4>1. i \in 1 .. n
        BY <3>2
      <4>2. f[i] = f[i - 1] * 10 + Worth(str[i]) /\ f[i - 1] \in Int
        BY <1>6, <4>1
      <4>3. (f[i - 1] * 10 + Ascii[str[i]]) - Ascii["0"] = f[i - 1] * 10 + Worth(str[i])
        BY <1>1, <4>1, <4>2, StepIs
      <4> QED
        BY <3>2, <4>2, <4>3, Zenon
    <3> QED
      BY <3>1, <3>2
  <2> QED
    BY <2>1, Zenon DEF IsAtoi
<1>8. PICK p : IsAtoi(p, str) /\ atoi(str) = p[n]
  <2>1. IsAtoi(CHOOSE g : IsAtoi(g, str), str)
    <3> HIDE DEF IsAtoi
    <3> QED
      BY <1>7, Zenon
  <2>2. atoi(str) = (CHOOSE g : IsAtoi(g, str))[n]
    BY Zenon DEF atoi, IsAtoi
  <2> QED
    BY <2>1, <2>2, Zenon
<1> HIDE DEF n
<1>9. \A k \in 0 .. n : p[k] = IF k = 0 THEN 0 ELSE (p[k - 1] * 10 + Ascii[str[k]]) - Ascii["0"]
  BY <1>8, Zenon DEF IsAtoi, n
<1>10. \A k \in 0 .. n : p[k] = f[k]
  <2> DEFINE T == {k \in 0 .. n : p[k] # f[k]}
  <2> SUFFICES ASSUME T # {} PROVE FALSE
    OBVIOUS
  <2>1. PICK k \in T : \A m \in T : k <= m
    <3>1. T \subseteq Nat
      BY <1>1
    <3> HIDE DEF T
    <3> QED
      BY <3>1, LeastElement
  <2>2. k \in 0 .. n /\ p[k] # f[k]
    OBVIOUS
  <2>3. k # 0
    BY <1>5, <1>9, <2>2
  <2>4. k \in 1 .. n /\ k - 1 \in 0 .. n /\ ~ (k <= k - 1)
    BY <1>1, <2>2, <2>3
  <2>5. p[k - 1] = f[k - 1]
    BY <2>1, <2>4
  <2>6. p[k] = (f[k - 1] * 10 + Ascii[str[k]]) - Ascii["0"]
    BY <1>9, <2>2, <2>3, <2>5, Zenon
  <2>7. p[k] = f[k]
    BY <1>1, <1>6, <2>4, <2>6, StepIs
  <2> QED
    BY <2>2, <2>7
<1>11. n \in 0 .. n
  BY <1>1
<1>12. Reads(f, str, n)
  BY <1>5, <1>6 DEF Reads
<1>13. atoi(str) = f[n] /\ \A k \in 0 .. n : f[k] \in Int
  BY <1>8, <1>10, <1>11
<1> QED
  BY <1>12, <1>13 DEF n

\* Two runs over the same characters agree.
LEMMA ReadsSame ==
    ASSUME NEW l \in Nat, NEW f, NEW g, NEW s, NEW t, Reads(f, s, l), Reads(g, t, l),
           \A k \in 1 .. l : s[k] = t[k]
    PROVE  f[l] = g[l]
<1> DEFINE T == {k \in 0 .. l : f[k] # g[k]}
<1> SUFFICES ASSUME T # {} PROVE FALSE
  <2>1. l \in 0 .. l
    OBVIOUS
  <2> QED
    BY <2>1
<1>1. PICK k \in T : \A m \in T : k <= m
  <2>1. T \subseteq Nat
    OBVIOUS
  <2> HIDE DEF T
  <2> QED
    BY <2>1, LeastElement
<1>2. k \in 0 .. l /\ f[k] # g[k]
  OBVIOUS
<1>3. f[0] = g[0]
  BY DEF Reads
<1>4. k \in 1 .. l /\ k - 1 \in 0 .. l /\ ~ (k <= k - 1)
  BY <1>2, <1>3
<1>5. f[k - 1] = g[k - 1]
  BY <1>1, <1>4
<1>6. f[k] = f[k - 1] * 10 + Worth(s[k]) /\ g[k] = g[k - 1] * 10 + Worth(t[k]) /\ s[k] = t[k]
  BY <1>4 DEF Reads
<1>7. f[k] = g[k]
  BY <1>5, <1>6, Zenon
<1> QED
  BY <1>2, <1>7

\* No digits are 0,
LEMMA AtoiEmpty == atoi(<<>>) = 0
<1> DEFINE none == <<>>
<1>1. none \in Seq(Decimals) /\ Len(none) = 0
  OBVIOUS
<1> HIDE DEF none
<1>2. PICK f : Reads(f, none, Len(none)) /\ atoi(none) = f[Len(none)]
  BY <1>1, AtoiRun
<1>3. f[0] = 0
  BY <1>2 DEF Reads
<1>4. atoi(none) = 0
  BY <1>1, <1>2, <1>3
<1> QED
  BY <1>4 DEF none

\* and one digit more is ten times the number and the digit.
LEMMA AtoiAppend ==
    ASSUME NEW s \in Seq(Decimals), NEW ch \in Decimals
    PROVE  atoi(Append(s, ch)) = atoi(s) * 10 + Worth(ch) /\ atoi(s) \in Int
<1> DEFINE t == Append(s, ch)
           l == Len(s)
<1>1. l \in Nat
  BY LenProperties
<1>2. t \in Seq(Decimals) /\ Len(t) = l + 1 /\ t[l + 1] = ch /\ \A i \in 1 .. l : t[i] = s[i]
  BY AppendIs
<1> HIDE DEF t
<1>3. PICK f : Reads(f, s, l) /\ (\A k \in 0 .. l : f[k] \in Int) /\ atoi(s) = f[l]
  BY AtoiRun
<1>4. PICK g : Reads(g, t, Len(t)) /\ atoi(t) = g[Len(t)]
  BY <1>2, AtoiRun
<1> HIDE DEF l
<1>5. Reads(g, t, l) /\ g[l + 1] = g[(l + 1) - 1] * 10 + Worth(t[l + 1])
  <2>1. Reads(g, t, l + 1)
    BY <1>2, <1>4
  <2>2. l + 1 \in 1 .. l + 1 /\ \A k \in 1 .. l : k \in 1 .. l + 1
    BY <1>1
  <2> QED
    BY <2>1, <2>2 DEF Reads
<1>6. f[l] = g[l]
  BY <1>1, <1>2, <1>3, <1>5, ReadsSame
<1>7. (l + 1) - 1 = l /\ l \in 0 .. l
  BY <1>1
<1>8. atoi(t) = atoi(s) * 10 + Worth(ch)
  BY <1>2, <1>3, <1>4, <1>5, <1>6, <1>7, Zenon
<1>9. atoi(s) \in Int
  BY <1>3, <1>7
<1> QED
  BY <1>8, <1>9 DEF t

\* A sequence whose elements are in S is one over S.
LEMMA FromElements ==
    ASSUME NEW T, NEW s \in Seq(T), NEW S, \A i \in 1 .. Len(s) : s[i] \in S
    PROVE  s \in Seq(S)
  OBVIOUS

\* A number is ten times its tenth and its last digit.
LEMMA TenParts ==
    ASSUME NEW k \in Nat, ~ (k < 10)
    PROVE  /\ k \div 10 \in 0 .. k - 1 /\ k % 10 \in 0 .. 9 /\ (k \div 10) * 10 + (k % 10) = k
  OBVIOUS

\* A number spelled in decimal is read back.
LEMMA DecimalIs ==
    ASSUME NEW n \in Nat
    PROVE  /\ InBase(n, 10, Digits) \in Seq(Decimals) /\ Len(InBase(n, 10, Digits)) > 0
           /\ atoi(InBase(n, 10, Digits)) = n
<1> DEFINE S == {Digits[i] : i \in 1 .. 16}
           ten == 10
<1>1. Digits \in Seq(S) /\ Len(Digits) = 16
  <2>1. Len(Digits) = 16 /\ Digits \in Seq(Chars)
    BY DigitsFacts
  <2>2. \A i \in 1 .. Len(Digits) : Digits[i] \in S
    BY <2>1
  <2> HIDE DEF S
  <2>3. Digits \in Seq(S)
    BY <2>1, <2>2, FromElements
  <2> QED
    BY <2>1, <2>3
<1>2. ten \in {10, 16} /\ ten = 10
  OBVIOUS
<1> HIDE DEF S, ten
<1>3. PICK buf \in [0 .. n -> Seq(S)] :
         InBase(n, ten, Digits) = buf[n] /\ Puts(buf, n, ten, Digits)
  BY <1>1, <1>2, InBaseRun, Zenon
<1>4. \A k \in 0 .. n : buf[k] = IF k < 10 THEN <<Digits[k + 1]>>
                                 ELSE Append(buf[k \div 10], Digits[(k % 10) + 1])
  BY <1>2, <1>3, Zenon DEF Puts
<1> DEFINE Good(s, k) == s \in Seq(Decimals) /\ Len(s) > 0 /\ atoi(s) = k
<1>5. \A k \in 0 .. n : Good(buf[k], k)
  <2> DEFINE T == {k \in 0 .. n : ~ Good(buf[k], k)}
  <2> SUFFICES ASSUME T # {} PROVE FALSE
    OBVIOUS
  <2>1. PICK k \in T : \A m \in T : k <= m
    <3>1. T \subseteq Nat
      OBVIOUS
    <3> HIDE DEF T
    <3> QED
      BY <3>1, LeastElement
  <2>2. k \in 0 .. n /\ ~ Good(buf[k], k)
    OBVIOUS
  <2>3. CASE k < 10
    <3> DEFINE d == Digits[k + 1]
               none == <<>>
    <3>1. k \in 0 .. 9
      BY <2>2, <2>3
    <3>2. d \in Decimals /\ Worth(d) = k
      BY <3>1, WorthIs
    <3>3. buf[k] = <<d>>
      BY <1>4, <2>2, <2>3
    <3>4. <<d>> = Append(none, d) /\ none \in Seq(Decimals) /\ Len(<<d>>) = 1
      OBVIOUS
    <3>5. atoi(none) = 0
      BY AtoiEmpty
    <3> HIDE DEF d, none
    <3>6. <<d>> \in Seq(Decimals)
      BY <3>2, OneOf
    <3>7. atoi(<<d>>) = 0 * 10 + k
      BY <3>2, <3>4, <3>5, AtoiAppend
    <3>8. atoi(<<d>>) = k /\ Len(<<d>>) > 0
      BY <3>1, <3>4, <3>7
    <3> QED
      BY <2>2, <3>3, <3>6, <3>8
  <2>4. CASE ~ (k < 10)
    <3> DEFINE q == k \div 10
               r == k % 10
               d == Digits[r + 1]
               s == buf[q]
    <3>1. q \in 0 .. k - 1 /\ r \in 0 .. 9 /\ q * 10 + r = k
      BY <2>2, <2>4, TenParts
    <3>2. buf[k] = Append(s, d)
      BY <1>4, <2>2, <2>4
    <3> HIDE DEF q, r
    <3>3. q \in 0 .. n /\ ~ (k <= q)
      BY <2>2, <3>1
    <3>4. Good(s, q)
      BY <2>1, <3>3
    <3>5. d \in Decimals /\ Worth(d) = r
      BY <3>1, WorthIs
    <3> HIDE DEF s, d
    <3>6. atoi(Append(s, d)) = q * 10 + r
      BY <3>4, <3>5, AtoiAppend
    <3>7. Append(s, d) \in Seq(Decimals) /\ Len(Append(s, d)) = Len(s) + 1 /\ Len(s) \in Nat
      BY <3>4, <3>5, AppendIs, LenProperties
    <3>8. Good(Append(s, d), k)
      BY <3>1, <3>6, <3>7
    <3> QED
      BY <2>2, <3>2, <3>8
  <2> QED
    BY <2>3, <2>4
<1>6. n \in 0 .. n
  OBVIOUS
<1>7. Good(InBase(n, ten, Digits), n)
  BY <1>3, <1>5, <1>6
<1> QED
  BY <1>2, <1>7

-----------------------------------------------------------------------------
(* Parameters and strings behind a gap.                                    *)

\* What a line may be spelled with.
Letters ==
    LineSet \cup (UNION {Range(x) : x \in Names \cup Strings}) \cup Decimals
        \cup {"e", "c", "h", "o", "a", "t", "d", "i", " ", Quote}

\* What ends a parameter, and a quoted text.
Blank      == " "
Separators == {Blank, Nul}
Closers    == {Quote, Nul}

\* A text without stops, and one of blanks.
Apart(x, stops) == \A k \in 1 .. Len(x) : x[k] \notin stops
AllBlank(x) == \A k \in 1 .. Len(x) : x[k] = Blank

\* What lines are spelled with, part by part.
LEMMA LettersHave ==
    /\ LineSet \subseteq Letters /\ Decimals \subseteq Letters /\ Quote \in Letters /\ Blank \in Letters
    /\ {"e", "c", "h", "o", "a", "t", "d", "i"} \subseteq Letters
    /\ \A x \in Names \cup Strings : Range(x) \subseteq Letters
  BY Zenon DEF Letters, Blank

\* A text that is not empty has a length.
LEMMA NotEmpty ==
    ASSUME NEW S, NEW x \in Seq(S), x # <<>>
    PROVE  Len(x) \in Nat /\ Len(x) > 0
<1>1. Len(x) \in Nat /\ Len(x) # 0
  BY EmptySeq, LenProperties
<1> QED
  BY <1>1

\* Positions behind a gap.
LEMMA Between ==
    ASSUME NEW a \in Nat, NEW i \in Nat, i <= a + 1, NEW l \in Nat, NEW m \in Nat, a + 1 <= m
    PROVE  a + 1 \in i .. m /\ a + 1 \in Nat /\ (a + l) + 1 = (a + 1) + l
  OBVIOUS

\* There may be no blanks at all.
LEMMA NoBlanks ==
    ASSUME NEW mem, NEW b \in Nat
    PROVE  Blanks(mem, b, b)
<1>1. b .. b - 1 = {}
  OBVIOUS
<1> QED
  BY <1>1, Zenon DEF Blanks

\* A sequence over other characters has no stop.
LEMMA RangeApart ==
    ASSUME NEW x, NEW stops, x \in Seq(Range(x) \ stops)
    PROVE  x \in Seq(Range(x)) /\ Apart(x, stops)
<1> DEFINE R == Range(x) \ stops
<1>1. x \in Seq(R)
  OBVIOUS
<1>2. R \subseteq Range(x)
  OBVIOUS
<1>3. \A ch \in R : ch \notin stops
  OBVIOUS
<1> HIDE DEF R
<1>4. \A k \in 1 .. Len(x) : x[k] \in R
  BY <1>1, ElementOfSeq
<1> QED
  BY <1>1, <1>2, <1>3, <1>4, SeqMonotonic DEF Apart

\* Names have no separator, texts no quote,
LEMMA NameIs ==
    ASSUME NEW x \in Names
    PROVE  x \in Seq(Letters) /\ Len(x) > 0 /\ Apart(x, Separators)
<1> DEFINE stops == Separators
<1>1. x # <<>> /\ x \in Seq(Range(x) \ stops)
  BY CommandsAssumption, Zenon DEF Separators, Blank
<1>2. Range(x) \subseteq Letters
  BY LettersHave
<1> HIDE DEF stops
<1>3. x \in Seq(Range(x)) /\ Apart(x, stops)
  BY <1>1, RangeApart
<1>4. x \in Seq(Letters)
  BY <1>2, <1>3, SeqMonotonic
<1>6. Len(x) > 0
  BY <1>1, <1>4, NotEmpty
<1> QED
  BY <1>3, <1>4, <1>6 DEF stops

\* and gaps are blanks.
LEMMA TextIs ==
    ASSUME NEW x \in Strings
    PROVE  x \in Seq(Letters) /\ Apart(x, Closers)
<1> DEFINE stops == Closers
<1>1. x \in Seq(Range(x) \ stops)
  BY CommandsAssumption, Zenon DEF Closers
<1>2. Range(x) \subseteq Letters
  BY LettersHave
<1> HIDE DEF stops
<1>3. x \in Seq(Range(x)) /\ Apart(x, stops)
  BY <1>1, RangeApart
<1>4. x \in Seq(Letters)
  BY <1>2, <1>3, SeqMonotonic
<1> QED
  BY <1>3, <1>4 DEF stops

\* A gap is blanks, one at least; an end may be none.
LEMMA GapIs ==
    /\ \A g \in Gaps : g \in Seq(Letters) /\ AllBlank(g) /\ Len(g) > 0
    /\ \A e \in Ends : e \in Seq(Letters) /\ AllBlank(e)
<1> DEFINE b == Blank
           g0 == <<>>
           g1 == <<b>>
           g2 == <<b, b>>
<1>1. b \in Letters
  BY LettersHave
<1>2. Gaps = {g1, g2} /\ Ends = {g0, g1}
  BY DEF Gaps, Ends, Blank
<1>3. \A x : AllBlank(x) <=> \A k \in 1 .. Len(x) : x[k] = b
  BY DEF AllBlank
<1> HIDE DEF b
<1>4. g0 \in Seq(Letters) /\ Len(g0) = 0
  OBVIOUS
<1>5. g1 \in Seq(Letters) /\ Len(g1) = 1 /\ g1[1] = b
  BY <1>1
<1>6. g2 \in Seq(Letters) /\ Len(g2) = 2 /\ g2[1] = b /\ g2[2] = b
  BY <1>1
<1> HIDE DEF g0, g1, g2
<1>7. AllBlank(g0)
  BY <1>3, <1>4
<1>8. AllBlank(g1)
  BY <1>3, <1>5
<1>9. AllBlank(g2)
  <2>1. \A k \in 1 .. 2 : k = 1 \/ k = 2
    OBVIOUS
  <2> QED
    BY <1>3, <1>6, <2>1
<1> QED
  BY <1>2, <1>4, <1>5, <1>6, <1>7, <1>8, <1>9

\* The names of the commands, told apart by their first two characters.
LEMMA CommandNames ==
    /\ Echo \in Seq(Letters) /\ Len(Echo) = 4 /\ Echo[1] = "e" /\ Echo[2] = "c"
    /\ Cat \in Seq(Letters) /\ Len(Cat) = 3 /\ Cat[1] = "c"
    /\ Edit \in Seq(Letters) /\ Len(Edit) = 4 /\ Edit[1] = "e" /\ Edit[2] = "d"
<1> DEFINE e == "e"
           c == "c"
           h == "h"
           o == "o"
           a == "a"
           t == "t"
           d == "d"
           i == "i"
<1>1. /\ e \in Letters /\ c \in Letters /\ h \in Letters /\ o \in Letters
      /\ a \in Letters /\ t \in Letters /\ d \in Letters /\ i \in Letters
  BY LettersHave
<1>2. Echo = <<e, c, h, o>> /\ Cat = <<c, a, t>> /\ Edit = <<e, d, i, t>>
  BY DEF Echo, Cat, Edit
<1> HIDE DEF e, c, h, o, a, t, d, i
<1>3. Echo \in Seq(Letters) /\ Len(Echo) = 4 /\ Echo[1] = e /\ Echo[2] = c
  BY <1>1, <1>2
<1>4. Cat \in Seq(Letters) /\ Len(Cat) = 3 /\ Cat[1] = c
  BY <1>1, <1>2
<1>5. Edit \in Seq(Letters) /\ Len(Edit) = 4 /\ Edit[1] = e /\ Edit[2] = d
  BY <1>1, <1>2
<1> QED
  BY <1>3, <1>4, <1>5 DEF e, c, d

\* mem holds the line t and its Nul.
Spelled(mem, t) ==
    /\ mem \in Seq(Letters) /\ t \in Seq(Letters)
    /\ Stands(mem, 0, t) /\ Len(t) < Len(mem) /\ mem[Len(t) + 1] = Nul

\* What stands in a line stands in the shell's buffer.
LEMMA SpelledPart ==
    ASSUME NEW mem, NEW t, Spelled(mem, t), NEW a \in Nat, NEW x \in Seq(Letters), Stands(t, a, x)
    PROVE  Stands(mem, a, x)
<1>1. mem \in Seq(Letters) /\ t \in Seq(Letters) /\ Stands(mem, 0, t)
  BY DEF Spelled
<1>2. Len(mem) \in Nat /\ Len(t) \in Nat /\ Len(x) \in Nat
  BY <1>1, LenProperties
<1> DEFINE zero == 0
<1>3. zero \in Nat /\ Stands(mem, zero, t) /\ zero + a = a
  BY <1>1
<1> HIDE DEF zero
<1>4. Stands(mem, zero + a, x)
  BY <1>2, <1>3, StandsIn
<1> QED
  BY <1>3, <1>4

\* Behind the last parameter.
LEMMA LastChar ==
    ASSUME NEW mem, NEW t, Spelled(mem, t), NEW l \in Nat, NEW e \in Ends, Stands(t, l, e),
           Len(t) = l + Len(e)
    PROVE  l + 1 <= Len(mem) /\ mem[l + 1] \in Separators
<1>1. mem \in Seq(Letters) /\ t \in Seq(Letters) /\ Len(t) < Len(mem) /\ mem[Len(t) + 1] = Nul
  BY DEF Spelled
<1>2. e \in Seq(Letters) /\ AllBlank(e)
  BY GapIs
<1>3. Len(mem) \in Nat /\ Len(e) \in Nat
  BY <1>1, <1>2, LenProperties
<1>4. CASE Len(e) = 0
  <2>1. Len(t) + 1 = l + 1 /\ l + 1 <= Len(mem)
    BY <1>1, <1>3, <1>4
  <2> QED
    BY <1>1, <2>1 DEF Separators
<1>5. CASE Len(e) # 0
  <2>1. 1 \in 1 .. Len(e) /\ l + 1 <= Len(mem)
    BY <1>1, <1>3, <1>5
  <2>2. Stands(mem, l, e)
    BY <1>2, SpelledPart
  <2>3. mem[l + 1] = e[1]
    BY <2>1, <2>2 DEF Stands
  <2>4. e[1] = Blank
    BY <1>2, <2>1 DEF AllBlank
  <2> QED
    BY <2>1, <2>3, <2>4 DEF Separators
<1> QED
  BY <1>4, <1>5

\* A gap in the buffer is blanks.
LEMMA BlanksStand ==
    ASSUME NEW mem, NEW a \in Nat, NEW g, Len(g) \in Nat, AllBlank(g), Stands(mem, a, g)
    PROVE  Blanks(mem, a + 1, (a + Len(g)) + 1)
<1> DEFINE b == Blank
           l == Len(g)
<1>1. \A k \in 1 .. l : g[k] = b /\ mem[a + k] = g[k]
  BY DEF AllBlank, Stands
<1>2. l \in Nat
  OBVIOUS
<1> HIDE DEF b, l
<1>3. ASSUME NEW k \in a + 1 .. ((a + l) + 1) - 1 PROVE mem[k] = b
  <2> DEFINE m == k - a
  <2>1. m \in 1 .. l /\ a + m = k
    BY <1>2
  <2> HIDE DEF m
  <2> QED
    BY <1>1, <2>1
<1>4. \A k \in a + 1 .. ((a + l) + 1) - 1 : mem[k] = b
  BY <1>3
<1> QED
  BY <1>4, Zenon DEF Blanks, b, l, Blank

\* A parameter begins with no stop.
LEMMA FirstOf ==
    ASSUME NEW x, NEW stops, Apart(x, stops), Len(x) \in Nat, Len(x) > 0, NEW mem, NEW a \in Nat,
           Stands(mem, a, x)
    PROVE  mem[a + 1] = x[1] /\ x[1] \notin stops /\ a + 1 <= Len(mem)
<1>1. 1 \in 1 .. Len(x)
  OBVIOUS
<1>2. a + Len(x) <= Len(mem)
  BY DEF Stands
<1>3. mem[a + 1] = x[1] /\ x[1] \notin stops
  BY <1>1 DEF Stands, Apart
<1> QED
  BY <1>2, <1>3

\* get_param reads a parameter behind blanks, and Behind is where it ends.
LEMMA ParamParsed ==
    ASSUME NEW mem \in Seq(Letters), NEW i \in Nat, NEW a \in Nat, i <= a + 1, Blanks(mem, i, a + 1),
           NEW x \in Seq(Letters), Len(x) > 0, Stands(mem, a, x), Apart(x, Separators),
           NEW j, j = (a + Len(x)) + 1, j <= Len(mem), mem[j] \in Separators
    PROVE  SkipBlanks(mem, i) = a + 1 /\ get_param(mem, i) = x /\ Behind(mem, i) = j
<1>1. Len(x) \in Nat /\ Len(mem) \in Nat
  BY LenProperties
<1>2. mem[a + 1] = x[1] /\ x[1] \notin Separators /\ a + 1 <= Len(mem)
  BY <1>1, FirstOf
<1>3. a + 1 \in i .. Len(mem) /\ j = (a + 1) + Len(x)
  BY <1>1, <1>2, Between
<1>4. SkipBlanks(mem, i) = a + 1
  <2>1. mem[a + 1] # " "
    BY <1>2, Zenon DEF Separators, Blank
  <2> QED
    BY <1>1, <1>3, <2>1, SkipTo
<1>5. \A k \in 1 .. Len(x) : x[k] \notin Separators
  BY DEF Apart
<1>6. get_param(mem, i) = UpTo(mem, a + 1, Separators)
  BY <1>4, Zenon DEF get_param, Separators, Blank
<1>7. UpTo(mem, a + 1, Separators) = x
  BY <1>5, UpToText
<1> QED
  BY <1>3, <1>4, <1>6, <1>7, Zenon DEF Behind

\* A text within quotes, and one that needs none.
IsQuoted(s, text) == s = (<<Quote>> \o text) \o <<Quote>>
IsBare(s, text)   == s = text /\ text # <<>> /\ Apart(text, {Blank, Quote})

\* A quoted text, and one that needs no quotes.
LEMMA QuotedParsed ==
    ASSUME NEW mem \in Seq(Letters), NEW i \in Nat, NEW a \in Nat, i <= a + 1, Blanks(mem, i, a + 1),
           NEW text \in Strings, NEW s, IsQuoted(s, text), Stands(mem, a, s)
    PROVE  get_string(mem, i) = text /\ Closed(mem, i)
<1> DEFINE q == <<Quote>>
           u == q \o text
           stops == Closers
<1>1. text \in Seq(Letters) /\ Apart(text, stops)
  BY TextIs
<1>2. q \in Seq(Letters) /\ Len(q) = 1 /\ q[1] = Quote
  BY LettersHave, OneOf
<1>3. s = u \o q /\ Quote \in stops
  BY Zenon DEF Closers, IsQuoted
<1> HIDE DEF q, stops
<1>4. u \in Seq(Letters) /\ Len(u) = Len(q) + Len(text) /\ Stands(u, 0, q) /\ Stands(u, Len(q), text)
  BY <1>1, <1>2, JoinStands
<1> HIDE DEF u
<1>5. s \in Seq(Letters) /\ Len(s) = Len(u) + Len(q) /\ Stands(s, 0, u) /\ Stands(s, Len(u), q)
  BY <1>2, <1>3, <1>4, JoinStands
<1> DEFINE l == Len(text)
           one == 1
           d == 1 + l
<1>6. l \in Nat /\ Len(mem) \in Nat /\ Len(u) = d /\ Len(s) = d + 1 /\ d \in Nat /\ one \in Nat /\ one = 1
  BY <1>1, <1>2, <1>4, <1>5, LenProperties
<1>7. \A k \in 1 .. Len(s) : mem[a + k] = s[k]
  BY DEF Stands
<1>8. a + Len(s) <= Len(mem)
  BY DEF Stands
<1>9. (\A k \in 1 .. d : s[0 + k] = u[k]) /\ s[d + 1] = q[1]
  <2>1. \A k \in 1 .. Len(u) : s[0 + k] = u[k]
    BY <1>5 DEF Stands
  <2>2. \A k \in 1 .. Len(q) : s[Len(u) + k] = q[k]
    BY <1>5 DEF Stands
  <2> HIDE DEF d
  <2> QED
    BY <1>2, <1>6, <2>1, <2>2
<1>10. u[0 + 1] = q[1] /\ \A k \in 1 .. l : u[1 + k] = text[k]
  <2>1. \A k \in 1 .. Len(q) : u[0 + k] = q[k]
    BY <1>4 DEF Stands
  <2>2. \A k \in 1 .. Len(text) : u[Len(q) + k] = text[k]
    BY <1>4 DEF Stands
  <2> QED
    BY <1>2, <2>1, <2>2
<1>11. mem[a + 1] = Quote
  <2>1. 1 \in 1 .. Len(s) /\ 1 \in 1 .. d /\ 0 + 1 = 1
    BY <1>6
  <2>2. mem[a + 1] = s[1] /\ s[0 + 1] = u[1] /\ u[0 + 1] = q[1]
    BY <1>7, <1>9, <1>10, <2>1
  <2> QED
    BY <1>2, <2>1, <2>2, Zenon
<1> DEFINE j == ((a + 1) + l) + 1
<1>12. mem[j] = Quote /\ j <= Len(mem) /\ j \in (a + 1) + 1 .. Len(mem)
  <2>1. d + 1 \in 1 .. Len(s) /\ a + (d + 1) = j
    BY <1>6
  <2>2. j <= Len(mem) /\ j \in (a + 1) + 1 .. Len(mem)
    BY <1>6, <1>8
  <2> HIDE DEF j, d
  <2>3. mem[j] = s[d + 1]
    BY <1>7, <2>1
  <2> QED
    BY <1>2, <1>9, <2>2, <2>3
<1>13. Stands(mem, a + 1, text)
  <2>1. (a + 1) + Len(text) <= Len(mem)
    BY <1>6, <1>8
  <2>2. ASSUME NEW k \in 1 .. Len(text) PROVE mem[(a + 1) + k] = text[k]
    <3>1. 1 + k \in 1 .. Len(s) /\ 1 + k \in 1 .. d /\ a + (1 + k) = (a + 1) + k /\ 0 + (1 + k) = 1 + k
      BY <1>6
    <3>2. mem[a + (1 + k)] = s[1 + k]
      BY <1>7, <3>1
    <3>3. s[0 + (1 + k)] = u[1 + k]
      BY <1>9, <3>1
    <3>4. u[1 + k] = text[k]
      BY <1>10
    <3> QED
      BY <3>1, <3>2, <3>3, <3>4
  <2> QED
    BY <2>1, <2>2 DEF Stands
<1>14. Quote # " "
  BY DEF Quote
<1> DEFINE b == a + 1
<1>15. SkipBlanks(mem, i) = b
  <2>1. b <= Len(mem)
    BY <1>6, <1>8
  <2>2. b \in i .. Len(mem)
    BY <1>6, <2>1, Between
  <2>3. mem[b] # " "
    BY <1>11, <1>14
  <2> QED
    BY <1>6, <2>2, <2>3, SkipTo
<1>16. b \in Nat /\ mem[b] = Quote /\ Stands(mem, b, text)
  BY <1>11, <1>13
<1>17. j = (b + Len(text)) + 1
  OBVIOUS
<1> HIDE DEF b, j, l
<1>18. UpTo(mem, b + 1, stops) = text
  BY <1>1, <1>3, <1>12, <1>16, <1>17, UpToText DEF Apart
<1>19. get_string(mem, i) = text
  BY <1>15, <1>16, <1>18, Zenon DEF get_string, stops, Closers
<1>20. Closed(mem, i)
  <2>1. j \in b + 1 .. Len(mem)
    BY <1>12 DEF b
  <2> QED
    BY <1>12, <1>15, <2>1, Zenon DEF Closed
<1> QED
  BY <1>19, <1>20

\* and so does a text without quotes.
LEMMA PlainParsed ==
    ASSUME NEW mem \in Seq(Letters), NEW i \in Nat, NEW a \in Nat, i <= a + 1, Blanks(mem, i, a + 1),
           NEW text \in Strings, IsBare(text, text), Stands(mem, a, text),
           NEW j, j = (a + Len(text)) + 1, j <= Len(mem), mem[j] \in Separators
    PROVE  get_string(mem, i) = text /\ Closed(mem, i)
<1>0. text # <<>> /\ Apart(text, {Blank, Quote})
  BY DEF IsBare
<1>1. text \in Seq(Letters) /\ Apart(text, Closers)
  BY TextIs
<1>2. Len(text) \in Nat /\ Len(text) > 0 /\ Len(mem) \in Nat
  BY <1>0, <1>1, NotEmpty, LenProperties
<1>3. Apart(text, Separators)
  BY <1>0, <1>1 DEF Apart, Separators, Closers
<1>4. mem[a + 1] = text[1] /\ text[1] \notin {Blank, Quote} /\ a + 1 <= Len(mem)
  BY <1>0, <1>2, FirstOf
<1> DEFINE b == a + 1
<1>5. mem[b] # Quote /\ mem[b] # " "
  BY <1>4 DEF Blank
<1>6. b \in i .. Len(mem) /\ b \in Nat
  BY <1>2, <1>4, Between
<1>7. SkipBlanks(mem, i) = b
  BY <1>2, <1>5, <1>6, SkipTo
<1>8. b <= a + 1 /\ Blanks(mem, b, a + 1)
  BY <1>6, NoBlanks
<1> HIDE DEF b
<1>9. get_param(mem, b) = text
  BY <1>1, <1>2, <1>3, <1>6, <1>8, ParamParsed
<1> QED
  BY <1>5, <1>7, <1>9, Zenon DEF get_string, Closed

\* A text as a command spells it.
LEMMA StringForms ==
    ASSUME NEW text \in Strings, NEW s \in AsString(text)
    PROVE  IsQuoted(s, text) \/ (s = text /\ IsBare(text, text))
<1> DEFINE R == {Blank, Quote}
<1>1. IsQuoted(s, text) \/ (s = text /\ text # <<>> /\ R \cap Range(text) = {})
  BY Zenon DEF AsString, Blank, IsQuoted
<1>2. ASSUME R \cap Range(text) = {} PROVE Apart(text, R)
  <2>1. text \in Seq(Letters)
    BY TextIs
  <2>2. \A k \in 1 .. Len(text) : text[k] \in Range(text)
    BY <2>1, RangeEquality
  <2> HIDE DEF R
  <2> QED
    BY <1>2, <2>2 DEF Apart
<1> QED
  BY <1>1, <1>2, Zenon DEF IsBare

\* get_string reads a text in either form, and its quote is closed.
LEMMA StringParsed ==
    ASSUME NEW mem \in Seq(Letters), NEW i \in Nat, NEW a \in Nat, i <= a + 1, Blanks(mem, i, a + 1),
           NEW text \in Strings, NEW s \in AsString(text), Stands(mem, a, s),
           NEW j, j = (a + Len(s)) + 1, j <= Len(mem), mem[j] \in Separators
    PROVE  get_string(mem, i) = text /\ Closed(mem, i)
<1>1. CASE IsQuoted(s, text)
  BY <1>1, QuotedParsed
<1>2. CASE s = text /\ IsBare(text, text)
  BY <1>2, PlainParsed
<1> QED
  BY <1>1, <1>2, StringForms

\* Either form is spelled with letters.
LEMMA StringLetters ==
    ASSUME NEW text \in Strings, NEW s \in AsString(text)
    PROVE  s \in Seq(Letters)
<1> DEFINE q == <<Quote>>
<1>1. s = (q \o text) \o q \/ s = text
  BY StringForms, Zenon DEF IsQuoted
<1>2. text \in Seq(Letters)
  BY TextIs
<1>3. q \in Seq(Letters)
  BY LettersHave, OneOf
<1> HIDE DEF q
<1>4. q \o text \in Seq(Letters)
  BY <1>2, <1>3, JoinStands
<1>5. (q \o text) \o q \in Seq(Letters)
  BY <1>3, <1>4, JoinStands
<1> QED
  BY <1>1, <1>2, <1>5

-----------------------------------------------------------------------------
(* echo and cat.                                                           *)

\* A name and one parameter: where they stand in the line's buffer.
LEMMA OneParam ==
    ASSUME NEW mem, NEW t, Spelled(mem, t), NEW w \in Seq(Letters), NEW g \in Gaps,
           NEW s \in Seq(Letters), NEW e \in Ends, t = ((w \o g) \o s) \o e,
           NEW a, a = Len(w) + Len(g), NEW j, j = (a + Len(s)) + 1
    PROVE  /\ mem \in Seq(Letters) /\ a \in Nat /\ Len(w) \in Nat /\ Len(w) + 1 <= a + 1
           /\ Stands(mem, 0, w) /\ Stands(mem, Len(w), g)
           /\ Blanks(mem, Len(w) + 1, a + 1) /\ Stands(mem, a, s)
           /\ j <= Len(mem) /\ mem[j] \in Separators
<1>1. g \in Seq(Letters) /\ AllBlank(g) /\ e \in Seq(Letters)
  BY GapIs
<1>2. Parts(t, w, g, s, e)
  BY <1>1, FourParts
<1>3. mem \in Seq(Letters)
  BY DEF Spelled
<1>4. Len(w) \in Nat /\ Len(g) \in Nat /\ Len(s) \in Nat
  BY <1>1, LenProperties
<1>5. a \in Nat /\ Len(w) + 1 <= a + 1 /\ a + Len(s) \in Nat /\ 0 \in Nat
  BY <1>4
<1>6. /\ Len(t) = (a + Len(s)) + Len(e)
      /\ Stands(t, 0, w) /\ Stands(t, Len(w), g) /\ Stands(t, a, s) /\ Stands(t, a + Len(s), e)
  BY <1>2 DEF Parts
<1>7. Stands(mem, 0, w) /\ Stands(mem, Len(w), g) /\ Stands(mem, a, s)
  BY <1>1, <1>4, <1>5, <1>6, SpelledPart
<1>8. j <= Len(mem) /\ mem[j] \in Separators
  BY <1>5, <1>6, LastChar
<1>9. Blanks(mem, Len(w) + 1, a + 1)
  BY <1>1, <1>4, <1>7, BlanksStand
<1> QED
  BY <1>3, <1>4, <1>5, <1>7, <1>8, <1>9

\* A line that spells echo is read as echo with its text,
LEMMA EchoParsed ==
    ASSUME NEW mem, NEW t, Spelled(mem, t), NEW text \in Strings, NEW g \in Gaps,
           NEW s \in AsString(text), NEW e \in Ends, t = ((Echo \o g) \o s) \o e
    PROVE  Stands(mem, 0, Echo) /\ Closed(mem, 5) /\ get_string(mem, 5) = text
<1> DEFINE w == Echo
           a == Len(w) + Len(g)
           j == (a + Len(s)) + 1
           i == Len(w) + 1
<1>1. w \in Seq(Letters) /\ i = 5
  BY CommandNames
<1>2. s \in Seq(Letters)
  BY StringLetters
<1> HIDE DEF w
<1>3. t = ((w \o g) \o s) \o e
  BY DEF w
<1> HIDE DEF a, j
<1>4. /\ mem \in Seq(Letters) /\ a \in Nat /\ Len(w) \in Nat /\ i <= a + 1
      /\ Stands(mem, 0, w) /\ Blanks(mem, i, a + 1) /\ Stands(mem, a, s)
      /\ j <= Len(mem) /\ mem[j] \in Separators
  BY <1>1, <1>2, <1>3, OneParam DEF a, j
<1>5. i \in Nat /\ j = (a + Len(s)) + 1
  BY <1>4 DEF j
<1> HIDE DEF i
<1>6. get_string(mem, i) = text /\ Closed(mem, i)
  BY <1>4, <1>5, StringParsed
<1> QED
  BY <1>1, <1>4, <1>6 DEF w

\* and one that spells cat with its name.
LEMMA CatParsed ==
    ASSUME NEW mem, NEW t, Spelled(mem, t), NEW name \in Names, NEW g \in Gaps,
           NEW e \in Ends, t = ((Cat \o g) \o name) \o e
    PROVE  Stands(mem, 0, Cat) /\ get_param(mem, 4) = name
<1> DEFINE w == Cat
           a == Len(w) + Len(g)
           j == (a + Len(name)) + 1
           i == Len(w) + 1
<1>1. w \in Seq(Letters) /\ i = 4
  BY CommandNames
<1>2. name \in Seq(Letters) /\ Len(name) > 0 /\ Apart(name, Separators)
  BY NameIs
<1> HIDE DEF w
<1>3. t = ((w \o g) \o name) \o e
  BY DEF w
<1> HIDE DEF a, j
<1>4. /\ mem \in Seq(Letters) /\ a \in Nat /\ Len(w) \in Nat /\ i <= a + 1
      /\ Stands(mem, 0, w) /\ Blanks(mem, i, a + 1) /\ Stands(mem, a, name)
      /\ j <= Len(mem) /\ mem[j] \in Separators
  BY <1>1, <1>2, <1>3, OneParam DEF a, j
<1>5. i \in Nat /\ j = (a + Len(name)) + 1
  BY <1>4 DEF j
<1> HIDE DEF i
<1>6. get_param(mem, i) = name
  BY <1>2, <1>4, <1>5, ParamParsed
<1> QED
  BY <1>1, <1>4, <1>6 DEF w

\* A gap between two parameters.
LEMMA Gapped ==
    ASSUME NEW mem \in Seq(Letters), NEW b \in Nat, NEW g \in Gaps, Stands(mem, b, g)
    PROVE  /\ Blanks(mem, b + 1, (b + Len(g)) + 1) /\ b + 1 <= (b + Len(g)) + 1
           /\ b + 1 <= Len(mem) /\ mem[b + 1] \in Separators /\ b + Len(g) \in Nat /\ b + 1 \in Nat
<1>1. g \in Seq(Letters) /\ AllBlank(g) /\ Len(g) > 0
  BY GapIs
<1>2. Len(g) \in Nat /\ Len(mem) \in Nat /\ b + Len(g) <= Len(mem)
  BY <1>1, LenProperties DEF Stands
<1>3. 1 \in 1 .. Len(g)
  BY <1>1, <1>2
<1>4. mem[b + 1] = g[1] /\ g[1] = Blank
  BY <1>1, <1>3 DEF Stands, AllBlank
<1>5. mem[b + 1] \in Separators
  BY <1>4 DEF Separators
<1>6. Blanks(mem, b + 1, (b + Len(g)) + 1)
  BY <1>1, <1>2, BlanksStand
<1>7. b + 1 <= (b + Len(g)) + 1 /\ b + 1 <= Len(mem) /\ b + Len(g) \in Nat /\ b + 1 \in Nat
  BY <1>1, <1>2
<1> QED
  BY <1>5, <1>6, <1>7

\* The number of a command as it stands in the line.
LEMMA NumberIs ==
    ASSUME NEW n \in Nat
    PROVE  /\ InBase(n, 10, Digits) \in Seq(Letters) /\ Len(InBase(n, 10, Digits)) > 0
           /\ Apart(InBase(n, 10, Digits), Separators) /\ atoi(InBase(n, 10, Digits)) = n
<1> DEFINE x == InBase(n, 10, Digits)
<1>1. x \in Seq(Decimals) /\ Len(x) > 0 /\ atoi(x) = n
  BY DecimalIs
<1> HIDE DEF x
<1>2. Decimals \subseteq Letters
  BY LettersHave
<1>3. x \in Seq(Letters)
  BY <1>1, <1>2, SeqMonotonic
<1>4. \A ch \in Decimals : ch \notin Separators
  BY DecimalsAre DEF Separators, Blank
<1>5. \A k \in 1 .. Len(x) : x[k] \in Decimals
  BY <1>1, ElementOfSeq
<1>6. Apart(x, Separators)
  BY <1>4, <1>5 DEF Apart
<1> QED
  BY <1>1, <1>3, <1>6 DEF x

-----------------------------------------------------------------------------
(* edit; no line is two commands.                                          *)

\* t spells edit with these parameters, gaps and end.
EditLine(t, name, n, s, g, h, i, e) ==
    t = ((((((Edit \o g) \o name) \o h) \o InBase(n, 10, Digits)) \o i) \o s) \o e

\* A line that spells edit is read with its name, offset and text.
LEMMA EditParsed ==
    ASSUME NEW mem, NEW t, Spelled(mem, t), NEW name \in Names, NEW n \in Nat, NEW text \in Strings,
           NEW g \in Gaps, NEW h \in Gaps, NEW i \in Gaps, NEW s \in AsString(text), NEW e \in Ends,
           EditLine(t, name, n, s, g, h, i, e),
           NEW offset, offset = Behind(mem, 5), NEW content, content = Behind(mem, offset)
    PROVE  /\ Stands(mem, 0, Edit) /\ get_param(mem, 5) = name
           /\ atoi(get_param(mem, offset)) = n /\ get_string(mem, content) = text
<1> DEFINE num == InBase(n, 10, Digits)
<1>1. num \in Seq(Letters) /\ Len(num) > 0 /\ Apart(num, Separators) /\ atoi(num) = n
  BY NumberIs
<1> HIDE DEF num
<1> DEFINE v == Edit
           w == ((v \o g) \o name) \o h
           x == w \o num
<1>2. v \in Seq(Letters) /\ Len(v) = 4
  BY CommandNames
<1> HIDE DEF v
<1>3. name \in Seq(Letters) /\ Len(name) > 0 /\ Apart(name, Separators)
  BY NameIs
<1>4. g \in Seq(Letters) /\ h \in Seq(Letters) /\ s \in Seq(Letters)
  BY GapIs, StringLetters
<1>5. w \in Seq(Letters) /\ Parts(w, v, g, name, h)
  BY <1>2, <1>3, <1>4, FourParts
<1>6. t = ((x \o i) \o s) \o e
  BY Zenon DEF x, w, v, num, EditLine
<1> HIDE DEF w
<1>7. /\ x \in Seq(Letters) /\ Len(x) = Len(w) + Len(num)
      /\ Stands(x, 0, w) /\ Stands(x, Len(w), num)
  BY <1>1, <1>5, JoinStands
<1> HIDE DEF x
<1> DEFINE a3 == Len(x) + Len(i)
           j3 == (a3 + Len(s)) + 1
<1>8. /\ mem \in Seq(Letters) /\ a3 \in Nat /\ Len(x) \in Nat /\ Len(x) + 1 <= a3 + 1
      /\ Stands(mem, 0, x) /\ Stands(mem, Len(x), i)
      /\ Blanks(mem, Len(x) + 1, a3 + 1) /\ Stands(mem, a3, s)
      /\ j3 <= Len(mem) /\ mem[j3] \in Separators
  BY <1>4, <1>6, <1>7, OneParam
<1>9. Len(mem) \in Nat /\ Len(w) \in Nat /\ Len(num) \in Nat /\ Len(v) \in Nat /\ Len(g) \in Nat
      /\ Len(name) \in Nat /\ Len(h) \in Nat /\ Len(s) \in Nat
  BY <1>1, <1>2, <1>3, <1>4, <1>5, <1>8, LenProperties
\* What stands in the line stands in the buffer.
<1>10. Stands(mem, 0, w) /\ Stands(mem, Len(w), num)
  <2> DEFINE zero == 0
  <2>1. zero \in Nat /\ zero + zero = zero /\ zero + Len(w) = Len(w)
    BY <1>9
  <2>2. Stands(mem, zero, x) /\ Stands(x, zero, w)
    BY <1>7, <1>8
  <2> HIDE DEF zero
  <2>3. Stands(mem, zero + zero, w)
    BY <1>8, <1>9, <2>1, <2>2, StandsIn
  <2>4. Stands(mem, zero + Len(w), num)
    BY <1>7, <1>8, <1>9, <2>1, <2>2, StandsIn
  <2> QED
    BY <2>1, <2>3, <2>4 DEF zero
<1> DEFINE a1 == Len(v) + Len(g)
           b1 == a1 + Len(name)
<1>11. /\ Stands(mem, 0, v) /\ Stands(mem, Len(v), g) /\ Stands(mem, a1, name) /\ Stands(mem, b1, h)
       /\ Len(w) = b1 + Len(h) /\ a1 \in Nat /\ b1 \in Nat
  <2>1. /\ Stands(w, 0, v) /\ Stands(w, Len(v), g) /\ Stands(w, a1, name) /\ Stands(w, b1, h)
        /\ Len(w) = b1 + Len(h)
    BY <1>5 DEF Parts
  <2>2. a1 \in Nat /\ b1 \in Nat
    BY <1>9
  <2> DEFINE zero == 0
  <2>3. zero \in Nat /\ zero + zero = zero /\ zero + Len(v) = Len(v) /\ zero + a1 = a1 /\ zero + b1 = b1
    BY <1>9, <2>2
  <2>4. Stands(mem, zero, w) /\ Stands(w, zero, v)
    BY <1>10, <2>1
  <2> HIDE DEF zero, a1, b1
  <2>5. Stands(mem, zero + zero, v)
    BY <1>9, <2>3, <2>4, StandsIn
  <2>6. Stands(mem, zero + Len(v), g)
    BY <1>9, <2>1, <2>3, <2>4, StandsIn
  <2>7. Stands(mem, zero + a1, name)
    BY <1>9, <2>1, <2>2, <2>3, <2>4, StandsIn
  <2>8. Stands(mem, zero + b1, h)
    BY <1>9, <2>1, <2>2, <2>3, <2>4, StandsIn
  <2> QED
    BY <2>1, <2>2, <2>3, <2>5, <2>6, <2>7, <2>8 DEF zero
\* The name.
<1> DEFINE five == Len(v) + 1
<1>12. five = 5 /\ five \in Nat /\ five <= a1 + 1 /\ Blanks(mem, five, a1 + 1)
  <2>1. Blanks(mem, five, a1 + 1) /\ five <= a1 + 1 /\ five \in Nat
    BY <1>8, <1>9, <1>11, Gapped
  <2> QED
    BY <1>2, <2>1
<1> DEFINE j1 == b1 + 1
           a2 == b1 + Len(h)
<1>13. j1 <= Len(mem) /\ mem[j1] \in Separators /\ Blanks(mem, j1, a2 + 1) /\ j1 <= a2 + 1 /\ a2 \in Nat
       /\ j1 \in Nat
  BY <1>8, <1>11, Gapped
<1>14. get_param(mem, five) = name /\ Behind(mem, five) = j1
  <2>1. j1 = (a1 + Len(name)) + 1 /\ a1 \in Nat /\ mem \in Seq(Letters)
    BY <1>8, <1>11
  <2>2. five \in Nat /\ five <= a1 + 1 /\ Blanks(mem, five, a1 + 1)
    BY <1>12
  <2>3. Stands(mem, a1, name)
    BY <1>11
  <2>4. j1 <= Len(mem) /\ mem[j1] \in Separators
    BY <1>13
  <2> HIDE DEF j1, a1, b1, a2, a3, j3, five
  <2> QED
    BY <1>3, <2>1, <2>2, <2>3, <2>4, ParamParsed
\* The number.
<1> DEFINE j2 == Len(x) + 1
<1>15. j2 <= Len(mem) /\ mem[j2] \in Separators /\ j2 \in Nat
  BY <1>8, Gapped
<1>16. j2 = (a2 + Len(num)) + 1 /\ Stands(mem, a2, num)
  BY <1>7, <1>10, <1>11
<1>17. get_param(mem, j1) = num /\ Behind(mem, j1) = j2
  <2> HIDE DEF j1, a2, j2
  <2> QED
    BY <1>1, <1>8, <1>13, <1>15, <1>16, ParamParsed
\* The text.
<1>18. get_string(mem, j2) = text
  <2>1. j3 = (a3 + Len(s)) + 1
    OBVIOUS
  <2>2. j2 <= a3 + 1 /\ Blanks(mem, j2, a3 + 1)
    BY <1>8
  <2> HIDE DEF j2, j3, a3
  <2> QED
    BY <1>8, <1>15, <2>1, <2>2, StringParsed
<1> HIDE DEF j1, j2, five, a1, a2, a3, b1, j3
<1>19. offset = j1 /\ content = j2
  BY <1>12, <1>14, <1>17, Zenon
<1> QED
  BY <1>1, <1>11, <1>12, <1>14, <1>17, <1>18, <1>19, Zenon DEF v

\* A command's name is a prefix of the line just when it stands there.
LEMMA PrefixStands ==
    ASSUME NEW S, NEW mem \in Seq(S), NEW w \in Seq(S)
    PROVE  IsPrefix(w, mem) <=> Stands(mem, 0, w)
<1> DEFINE n == Len(w)
<1>1. n \in Nat /\ Len(mem) \in Nat
  BY LenProperties
<1>2. ASSUME n <= Len(mem)
      PROVE  SubSeq(w, 1, n) = SubSeq(mem, 1, n) <=> \A k \in 1 .. n : mem[k] = w[k]
  <2> DEFINE u == SubSeq(w, 1, n)
             x == SubSeq(mem, 1, n)
  <2>1. n \in 0 .. Len(mem) /\ n \in 0 .. Len(w)
    BY <1>1, <1>2
  <2>2. u \in Seq(S) /\ Len(u) = n /\ \A k \in 1 .. n : u[k] = w[k]
    BY <2>1, Prefix
  <2>3. x \in Seq(S) /\ Len(x) = n /\ \A k \in 1 .. n : x[k] = mem[k]
    BY <2>1, Prefix
  <2> HIDE DEF u, x, n
  <2>4. ASSUME \A k \in 1 .. n : mem[k] = w[k] PROVE u = x
    <3>1. \A k \in 1 .. n : u[k] = x[k]
      BY <2>2, <2>3, <2>4
    <3> QED
      BY <2>2, <2>3, <3>1, SeqEqual
  <2>5. ASSUME u = x PROVE \A k \in 1 .. n : mem[k] = w[k]
    BY <2>2, <2>3, <2>5
  <2> QED
    BY <2>4, <2>5 DEF u, x
<1>3. IsPrefix(w, mem) <=> n <= Len(mem) /\ SubSeq(w, 1, n) = SubSeq(mem, 1, n)
  BY Zenon DEF IsPrefix
<1>4. Stands(mem, 0, w) <=> 0 + n <= Len(mem) /\ \A k \in 1 .. n : mem[0 + k] = w[k]
  BY Zenon DEF Stands
<1>5. 0 + n = n /\ \A k \in 1 .. n : 0 + k = k
  BY <1>1
<1> HIDE DEF n
<1>6. (0 + n <= Len(mem) <=> n <= Len(mem))
      /\ ((\A k \in 1 .. n : mem[0 + k] = w[k]) <=> (\A k \in 1 .. n : mem[k] = w[k]))
  BY <1>5
<1> QED
  BY <1>2, <1>3, <1>4, <1>6, Zenon

\* No two commands have the same name.
LEMMA OneName ==
    ASSUME NEW mem
    PROVE  /\ ~ (Stands(mem, 0, Echo) /\ Stands(mem, 0, Cat))
           /\ ~ (Stands(mem, 0, Echo) /\ Stands(mem, 0, Edit))
           /\ ~ (Stands(mem, 0, Cat) /\ Stands(mem, 0, Edit))
<1> DEFINE one == 1
           two == 2
<1>1. /\ one \in 1 .. 4 /\ one \in 1 .. 3 /\ two \in 1 .. 4
      /\ 0 + one = one /\ 0 + two = two
  OBVIOUS
<1>2. /\ Len(Echo) = 4 /\ Echo[one] = "e" /\ Echo[two] = "c" /\ Len(Cat) = 3 /\ Cat[one] = "c"
      /\ Len(Edit) = 4 /\ Edit[one] = "e" /\ Edit[two] = "d"
  BY CommandNames
<1> HIDE DEF one, two
<1>3. Stands(mem, 0, Echo) => mem[one] = Echo[one] /\ mem[two] = Echo[two]
  BY <1>1, <1>2 DEF Stands
<1>4. Stands(mem, 0, Cat) => mem[one] = Cat[one]
  BY <1>1, <1>2 DEF Stands
<1>5. Stands(mem, 0, Edit) => mem[one] = Edit[one] /\ mem[two] = Edit[two]
  BY <1>1, <1>2 DEF Stands
<1>6. "e" # "c" /\ "c" # "d"
  OBVIOUS
<1> QED
  BY <1>2, <1>3, <1>4, <1>5, <1>6, Zenon

-----------------------------------------------------------------------------
(* A line that spells a command bids it.                                   *)

\* What the shell makes of the buffer mem for each command.
EchoOf(mem) == <<"echo", get_string(mem, 5)>>
CatOf(mem)  == <<"cat", get_param(mem, 4)>>
EditOf(mem) ==
    <<"edit", get_param(mem, 5), atoi(get_param(mem, Behind(mem, 5))),
      get_string(mem, Behind(mem, Behind(mem, 5)))>>

\* c is what the line in mem spells.
Bids(mem, c) ==
    \/ IsPrefix(Echo, mem) /\ Closed(mem, 5) /\ c = EchoOf(mem)
    \/ IsPrefix(Cat, mem) /\ c = CatOf(mem)
    \/ IsPrefix(Edit, mem) /\ c = EditOf(mem)

\* So it is with the three commands.
LEMMA NamesStand ==
    ASSUME NEW mem \in Seq(Letters)
    PROVE  /\ IsPrefix(Echo, mem) <=> Stands(mem, 0, Echo)
           /\ IsPrefix(Cat, mem) <=> Stands(mem, 0, Cat)
           /\ IsPrefix(Edit, mem) <=> Stands(mem, 0, Edit)
<1>1. \A w \in Seq(Letters) : IsPrefix(w, mem) <=> Stands(mem, 0, w)
  BY PrefixStands
<1>2. Echo \in Seq(Letters) /\ Cat \in Seq(Letters) /\ Edit \in Seq(Letters)
  BY CommandNames
<1> QED
  BY <1>1, <1>2, Zenon

\* How a command is spelled.
IsThen(t, lines, params) == \E l \in lines, g \in Gaps, x \in params : t = (l \o g) \o x
IsWhole(t, lines) == \E l \in lines, e \in Ends : t = l \o e

\* A spelling is a line, a gap and a parameter; and an end behind.
LEMMA ThenIs ==
    ASSUME NEW lines, NEW params, NEW t \in Then(lines, params)
    PROVE  IsThen(t, lines, params)
  BY DEF Then, IsThen

LEMMA WholeIs ==
    ASSUME NEW lines, NEW t \in Whole(lines)
    PROVE  IsWhole(t, lines)
  BY DEF Whole, IsWhole

\* The spellings of each command are read as that command.
LEMMA EchoLineReads ==
    ASSUME NEW mem, NEW t, Spelled(mem, t), NEW text \in Strings,
           t \in Whole(Then({Echo}, AsString(text)))
    PROVE  Stands(mem, 0, Echo) /\ Closed(mem, 5) /\ get_string(mem, 5) = text
<1> DEFINE params == AsString(text)
           w == Echo
           lines == Then({w}, params)
<1>1. t \in Whole(lines)
  OBVIOUS
<1> HIDE DEF lines
<1>2. PICK l \in lines, e \in Ends : t = l \o e
  <2>1. IsWhole(t, lines)
    BY <1>1, WholeIs
  <2> QED
    BY <2>1, Zenon DEF IsWhole
<1>3. l \in Then({w}, params)
  BY DEF lines
<1> HIDE DEF w, params
<1>4. PICK k \in {w}, g \in Gaps, s \in params : l = (k \o g) \o s
  <2>1. IsThen(l, {w}, params)
    BY <1>3, ThenIs
  <2> QED
    BY <2>1, Zenon DEF IsThen
<1>5. s \in AsString(text) /\ t = ((Echo \o g) \o s) \o e
  <2>1. k = w
    OBVIOUS
  <2> QED
    BY <1>2, <1>4, <2>1, Zenon DEF w, params
<1> QED
  BY <1>5, EchoParsed

LEMMA CatLineReads ==
    ASSUME NEW mem, NEW t, Spelled(mem, t), NEW name \in Names, t \in Whole(Then({Cat}, {name}))
    PROVE  Stands(mem, 0, Cat) /\ get_param(mem, 4) = name
<1> DEFINE w == Cat
           lines == Then({w}, {name})
<1>1. t \in Whole(lines)
  OBVIOUS
<1> HIDE DEF lines
<1>2. PICK l \in lines, e \in Ends : t = l \o e
  <2>1. IsWhole(t, lines)
    BY <1>1, WholeIs
  <2> QED
    BY <2>1, Zenon DEF IsWhole
<1>3. l \in Then({w}, {name})
  BY DEF lines
<1> HIDE DEF w
<1>4. PICK k \in {w}, g \in Gaps, x \in {name} : l = (k \o g) \o x
  <2>1. IsThen(l, {w}, {name})
    BY <1>3, ThenIs
  <2> QED
    BY <2>1, Zenon DEF IsThen
<1>5. t = ((Cat \o g) \o name) \o e
  <2>1. k = w /\ x = name
    OBVIOUS
  <2> QED
    BY <1>2, <1>4, <2>1, Zenon DEF w
<1> QED
  BY <1>5, CatParsed

LEMMA EditLineReads ==
    ASSUME NEW mem, NEW t, Spelled(mem, t), NEW name \in Names, NEW n \in Nat, NEW text \in Strings,
           t \in Whole(Then(Then(Then({Edit}, {name}), {InBase(n, 10, Digits)}), AsString(text)))
    PROVE  /\ Stands(mem, 0, Edit) /\ get_param(mem, 5) = name
           /\ atoi(get_param(mem, Behind(mem, 5))) = n
           /\ get_string(mem, Behind(mem, Behind(mem, 5))) = text
<1> DEFINE num == InBase(n, 10, Digits)
           params == AsString(text)
           w == Edit
           named == Then({w}, {name})
           placed == Then(named, {num})
           lines == Then(placed, params)
<1>1. t \in Whole(lines)
  OBVIOUS
<1> HIDE DEF lines
<1>2. PICK l \in lines, e \in Ends : t = l \o e
  <2>1. IsWhole(t, lines)
    BY <1>1, WholeIs
  <2> QED
    BY <2>1, Zenon DEF IsWhole
<1>3. l \in Then(placed, params)
  BY DEF lines
<1> HIDE DEF placed, params
<1>4. PICK m \in placed, i \in Gaps, s \in params : l = (m \o i) \o s
  <2>1. IsThen(l, placed, params)
    BY <1>3, ThenIs
  <2> QED
    BY <2>1, Zenon DEF IsThen
<1>5. m \in Then(named, {num})
  BY DEF placed
<1> HIDE DEF named, num
<1>6. PICK k \in named, h \in Gaps, y \in {num} : m = (k \o h) \o y
  <2>1. IsThen(m, named, {num})
    BY <1>5, ThenIs
  <2> QED
    BY <2>1, Zenon DEF IsThen
<1>7. k \in Then({w}, {name})
  BY DEF named
<1> HIDE DEF w
<1>8. PICK v \in {w}, g \in Gaps, x \in {name} : k = (v \o g) \o x
  <2>1. IsThen(k, {w}, {name})
    BY <1>7, ThenIs
  <2> QED
    BY <2>1, Zenon DEF IsThen
<1>9. s \in AsString(text)
  BY <1>4, Zenon DEF params
<1>10. x = name /\ y = num /\ v = w
  OBVIOUS
<1>11. t = ((((((w \o g) \o name) \o h) \o num) \o i) \o s) \o e
  BY <1>2, <1>4, <1>6, <1>8, <1>10, Zenon
<1>12. EditLine(t, name, n, s, g, h, i, e)
  BY <1>11, Zenon DEF w, num, EditLine
<1> QED
  BY <1>9, <1>12, EditParsed

\* So they bid it: echo,
LEMMA EchoBids ==
    ASSUME NEW mem, NEW t, Spelled(mem, t), NEW text \in Strings, NEW c, c = <<"echo", text>>,
           t \in Spellings(c)
    PROVE  Bids(mem, c)
<1>1. mem \in Seq(Letters)
  BY DEF Spelled
<1>2. c[1] = "echo" /\ c[2] = text
  OBVIOUS
<1>3. Spellings(c) = Whole(Then({Echo}, AsString(text)))
  BY <1>2 DEF Spellings
<1>4. Stands(mem, 0, Echo) /\ Closed(mem, 5) /\ get_string(mem, 5) = text
  BY <1>3, EchoLineReads
<1> QED
  BY <1>1, <1>4, NamesStand, Zenon DEF Bids, EchoOf

\* cat,
LEMMA CatBids ==
    ASSUME NEW mem, NEW t, Spelled(mem, t), NEW name \in Names, NEW c, c = <<"cat", name>>,
           t \in Spellings(c)
    PROVE  Bids(mem, c)
<1>1. mem \in Seq(Letters)
  BY DEF Spelled
<1>2. c[1] = "cat" /\ c[2] = name /\ c[1] # "echo"
  OBVIOUS
<1>3. Spellings(c) = Whole(Then({Cat}, {name}))
  BY <1>2 DEF Spellings
<1>4. Stands(mem, 0, Cat) /\ get_param(mem, 4) = name
  BY <1>3, CatLineReads
<1> QED
  BY <1>1, <1>4, NamesStand, Zenon DEF Bids, CatOf

\* edit,
LEMMA EditBids ==
    ASSUME NEW mem, NEW t, Spelled(mem, t), NEW name \in Names, NEW n \in Offsets, NEW text \in Strings,
           NEW c, c = <<"edit", name, n, text>>, t \in Spellings(c)
    PROVE  Bids(mem, c)
<1>1. mem \in Seq(Letters) /\ n \in Nat
  BY CommandsAssumption DEF Spelled
<1>2. c[1] = "edit" /\ c[2] = name /\ c[3] = n /\ c[4] = text /\ c[1] # "echo" /\ c[1] # "cat"
  OBVIOUS
<1>3. Spellings(c) = Whole(Then(Then(Then({Edit}, {name}), {InBase(n, 10, Digits)}), AsString(text)))
  BY <1>2 DEF Spellings
<1>4. /\ Stands(mem, 0, Edit) /\ get_param(mem, 5) = name
      /\ atoi(get_param(mem, Behind(mem, 5))) = n
      /\ get_string(mem, Behind(mem, Behind(mem, 5))) = text
  BY <1>1, <1>3, EditLineReads
<1>5. c = EditOf(mem)
  BY <1>4, Zenon DEF EditOf
<1> QED
  BY <1>1, <1>4, <1>5, NamesStand, Zenon DEF Bids

\* every command.
LEMMA CommandBids ==
    ASSUME NEW mem, NEW t, Spelled(mem, t), NEW c \in Commands, t \in Spellings(c)
    PROVE  Bids(mem, c)
<1>1. \/ c \in {"echo"} \X Strings
      \/ c \in {"cat"} \X Names
      \/ c \in {"edit"} \X Names \X Offsets \X Strings
  BY Zenon DEF Commands
<1>2. CASE c \in {"echo"} \X Strings
  <2>1. PICK text \in Strings : c = <<"echo", text>>
    BY <1>2
  <2> QED
    BY <2>1, EchoBids
<1>3. CASE c \in {"cat"} \X Names
  <2>1. PICK name \in Names : c = <<"cat", name>>
    BY <1>3
  <2> QED
    BY <2>1, CatBids
<1>4. CASE c \in {"edit"} \X Names \X Offsets \X Strings
  <2>1. PICK name \in Names, n \in Offsets, text \in Strings : c = <<"edit", name, n, text>>
    BY <1>4
  <2> QED
    BY <2>1, EditBids
<1> QED
  BY <1>1, <1>2, <1>3, <1>4

\* The line as it is typed, and its Nul.
LEMMA TypedIs ==
    ASSUME LineInv, mode = "line"
    PROVE  /\ Typed \in Seq(LineSet) /\ Len(Typed) = char_in_line
           /\ Typed = SubSeq(line_buf, 1, char_in_line) /\ char_in_line \in 0 .. Len(line_buf)
           /\ \A k \in 1 .. char_in_line : Typed[k] = line_buf[k]
<1>1. /\ line_buf \in Seq(LineSet) /\ Len(line_buf) = MaxLine + 1 /\ char_in_line \in 0 .. MaxLine
  BY DEF LineInv
<1>2. Typed = SubSeq(line_buf, 1, char_in_line)
  BY DEF Typed
<1>3. char_in_line \in 0 .. Len(line_buf)
  BY <1>1, SizesNat
<1> QED
  BY <1>1, <1>2, <1>3, Prefix

\* The ended line spells what was typed.
LEMMA EndedSpelled ==
    ASSUME LineInv, mode = "line"
    PROVE  Spelled(Ended, Typed)
<1> DEFINE n == char_in_line
<1>1. /\ line_buf \in Seq(LineSet) /\ Len(line_buf) = MaxLine + 1 /\ n \in 0 .. MaxLine
  BY DEF LineInv
<1>2. /\ Typed \in Seq(LineSet) /\ Len(Typed) = n /\ \A k \in 1 .. n : Typed[k] = line_buf[k]
  BY TypedIs
<1>3. LineSet \subseteq Letters
  BY LettersHave
<1>4. n \in Nat /\ n + 1 \in 1 .. Len(line_buf) /\ 0 + n <= Len(line_buf) /\ n < Len(line_buf)
      /\ \A k \in 1 .. n : k \in 1 .. Len(line_buf) /\ k # n + 1 /\ 0 + k = k
  BY <1>1, SizesNat
<1> DEFINE m == n + 1
<1>5. Nul \in LineSet
  BY DEF LineSet
<1>6. Ended = [line_buf EXCEPT ![m] = Nul]
  BY DEF Ended
<1> HIDE DEF m
<1>7. m \in 1 .. Len(line_buf)
  BY <1>4 DEF m
<1>8. /\ Ended \in Seq(LineSet) /\ Len(Ended) = Len(line_buf)
      /\ \A j \in 1 .. Len(line_buf) : Ended[j] = IF j = m THEN Nul ELSE line_buf[j]
  BY <1>1, <1>5, <1>6, <1>7, ExceptSeq
<1> HIDE DEF n
<1>9. \A k \in 1 .. Len(Typed) : Ended[0 + k] = Typed[k]
  BY <1>2, <1>4, <1>8 DEF m
<1>10. Stands(Ended, 0, Typed)
  BY <1>2, <1>4, <1>8, <1>9 DEF Stands
<1>11. Ended[n + 1] = Nul
  BY <1>4, <1>8 DEF m
<1> QED
  BY <1>2, <1>3, <1>4, <1>8, <1>10, <1>11, SeqMonotonic DEF Spelled

-----------------------------------------------------------------------------
(* Shell implements CommandLine.                                           *)

\* The command done is the one the line spells.
LEMMA OneCommand ==
    ASSUME ShellInv, mode = "line", NEW cmd,
           \/ IsPrefix(Echo, Ended) /\ cmd = EchoOf(Ended)
           \/ IsPrefix(Cat, Ended) /\ cmd = CatOf(Ended)
           \/ IsPrefix(Edit, Ended) /\ cmd = EditOf(Ended)
           \/ /\ ~ IsPrefix(Echo, Ended) /\ ~ IsPrefix(Cat, Ended) /\ ~ IsPrefix(Edit, Ended)
           \/ IsPrefix(Echo, Ended) /\ ~ Closed(Ended, 5)
    PROVE  \A c \in Commands : Typed \in Spellings(c) => cmd = c
<1>1. Spelled(Ended, Typed)
  BY EndedSpelled DEF ShellInv
<1>2. Ended \in Seq(Letters)
  BY <1>1 DEF Spelled
<1> SUFFICES ASSUME NEW c \in Commands, Typed \in Spellings(c) PROVE cmd = c
  OBVIOUS
<1>3. Bids(Ended, c)
  BY <1>1, CommandBids
<1> DEFINE e == IsPrefix(Echo, Ended)
           k == IsPrefix(Cat, Ended)
           d == IsPrefix(Edit, Ended)
           p == EchoOf(Ended)
           q == CatOf(Ended)
           r == EditOf(Ended)
           z == Closed(Ended, 5)
<1>4. ~ (e /\ k) /\ ~ (e /\ d) /\ ~ (k /\ d)
  <2>1. /\ e <=> Stands(Ended, 0, Echo)
        /\ k <=> Stands(Ended, 0, Cat)
        /\ d <=> Stands(Ended, 0, Edit)
    BY <1>2, NamesStand
  <2> QED
    BY <2>1, OneName, Zenon
<1>5. (e /\ z /\ c = p) \/ (k /\ c = q) \/ (d /\ c = r)
  BY <1>3, Zenon DEF Bids
<1>6. (e /\ cmd = p) \/ (k /\ cmd = q) \/ (d /\ cmd = r) \/ (~ e /\ ~ k /\ ~ d) \/ (e /\ ~ z)
  OBVIOUS
<1> HIDE DEF e, k, d, p, q, r, z
<1>7. CASE e /\ z /\ c = p
  BY ONLY <1>4, <1>6, <1>7
<1>8. CASE k /\ c = q
  BY ONLY <1>4, <1>6, <1>8
<1>9. CASE d /\ c = r
  BY ONLY <1>4, <1>6, <1>9
<1> QED
  BY ONLY <1>5, <1>7, <1>8, <1>9

\* A return that does the command spelled is a step of CommandLine.
LEMMA EnterIs ==
    ASSUME Press(CR), Typed' = <<>>,
           \A c \in Commands : Typed \in Spellings(c) => done' = c
    PROVE  CL!Next
<1>1. mode = "line" /\ CL!Press(CR)
  BY DEF Press, CL!Press
<1>2. (mode # "line")' \in BOOLEAN
  OBVIOUS
<1>3. CL!Enter
  BY <1>1, <1>2, Zenon DEF CL!Enter
<1> QED
  BY <1>3 DEF CL!Next

\* A command leaves no line behind.
LEMMA ReturnsEmpty ==
    ASSUME ShellInv, Press(CR), line_buf' = Ended, NEW t, Returns(t)
    PROVE  Typed' = <<>> /\ mode = "line"
<1>1. line_buf' \in Seq(LineSet) /\ mode = "line"
  BY Entered
<1>2. char_in_line' = 0
  BY DEF Returns
<1>3. Typed' = IF mode' = "line" THEN SubSeq(line_buf', 1, char_in_line') ELSE <<>>
  BY DEF Typed
<1>4. SubSeq(line_buf', 1, 0) = <<>>
  BY <1>1
<1> QED
  BY <1>1, <1>2, <1>3, <1>4, Zenon

\* A command that never returns leaves no line being typed.
LEMMA StopsEmpty ==
    ASSUME ShellInv, Press(CR), NEW m \in {"cat", "halted"}, NEW t, Stops(m, t)
    PROVE  Typed' = <<>> /\ mode = "line"
<1>1. mode = "line"
  BY DEF Press
<1>2. mode' = m /\ m # "line"
  BY DEF Stops
<1>3. Typed' = IF mode' = "line" THEN SubSeq(line_buf', 1, char_in_line') ELSE <<>>
  BY DEF Typed
<1> QED
  BY <1>1, <1>2, <1>3, Zenon

\* A prefix of a prefix, and equal prefixes.
LEMMA PrefixOfPrefix ==
    ASSUME NEW S, NEW s \in Seq(S), NEW n \in 0 .. Len(s), n \in Nat, ~ (n = 0)
    PROVE  /\ Len(SubSeq(s, 1, n)) = n
           /\ SubSeq(SubSeq(s, 1, n), 1, n - 1) = SubSeq(s, 1, n - 1)
<1> DEFINE u == SubSeq(s, 1, n)
           m == n - 1
           v == SubSeq(u, 1, m)
           w == SubSeq(s, 1, m)
<1>1. u \in Seq(S) /\ Len(u) = n /\ \A k \in 1 .. n : u[k] = s[k]
  BY Prefix
<1>2. m \in 0 .. Len(u) /\ m \in 0 .. Len(s) /\ \A k \in 1 .. m : k \in 1 .. n
  BY <1>1
<1> HIDE DEF u, m
<1>3. v \in Seq(S) /\ Len(v) = m /\ \A k \in 1 .. m : v[k] = u[k]
  BY <1>1, <1>2, Prefix
<1>4. w \in Seq(S) /\ Len(w) = m /\ \A k \in 1 .. m : w[k] = s[k]
  BY <1>2, Prefix
<1> HIDE DEF v, w
<1>5. v = w
  BY <1>1, <1>2, <1>3, <1>4, SeqEqual
<1> QED
  BY <1>1, <1>5 DEF v, w, u, m

LEMMA SamePrefix ==
    ASSUME NEW S, NEW s \in Seq(S), NEW t \in Seq(S), NEW n, n \in 0 .. Len(s), n \in 0 .. Len(t),
           \A k \in 1 .. n : s[k] = t[k]
    PROVE  SubSeq(s, 1, n) = SubSeq(t, 1, n)
<1> DEFINE u == SubSeq(s, 1, n)
           v == SubSeq(t, 1, n)
<1>1. u \in Seq(S) /\ Len(u) = n /\ \A k \in 1 .. n : u[k] = s[k]
  BY Prefix
<1>2. v \in Seq(S) /\ Len(v) = n /\ \A k \in 1 .. n : v[k] = t[k]
  BY Prefix
<1> HIDE DEF u, v
<1>3. u = v
  BY <1>1, <1>2, SeqEqual
<1> QED
  BY <1>3 DEF u, v

\* What CommandLine sees of the shell.
LEMMA SameLine ==
    ASSUME UNCHANGED <<line_buf, char_in_line, mode, done>>
    PROVE  UNCHANGED <<Typed, mode # "line", done>>
  BY DEF Typed

\* A rubout takes the last character from the line, if there is one,
LEMMA RuboutLine == ASSUME ShellInv, RuboutKey PROVE CL!Next
<1>1. LineInv /\ mode = "line" /\ UNCHANGED <<line_buf, mode, done>> /\ Rubout /\ Press(Del)
  BY DEF ShellInv, RuboutKey, Press
<1> DEFINE n == char_in_line
           m == char_in_line'
<1>2. /\ Typed \in Seq(LineSet) /\ Len(Typed) = n /\ n \in 0 .. Len(line_buf)
      /\ Typed = SubSeq(line_buf, 1, n)
  BY <1>1, TypedIs
<1>3. Typed' = IF Typed = <<>> THEN <<>> ELSE Front(Typed)
  <2>1. CASE n > 0
    <3>1. m = n - 1 /\ n \in Nat /\ ~ (n = 0) /\ line_buf \in Seq(LineSet)
      BY <1>1, <1>2, <2>1 DEF Rubout, LineInv
    <3>2. Typed' = SubSeq(line_buf, 1, m)
      BY <1>1 DEF Typed
    <3> HIDE DEF n, m
    <3>3. SubSeq(SubSeq(line_buf, 1, n), 1, n - 1) = SubSeq(line_buf, 1, n - 1)
      BY <1>2, <3>1, PrefixOfPrefix
    <3>4. Typed # <<>> /\ Front(Typed) = SubSeq(Typed, 1, n - 1)
      BY ONLY <1>2, <3>1 DEF Front
    <3> QED
      BY <1>2, <3>1, <3>2, <3>3, <3>4, Zenon
  <2>2. CASE ~ (n > 0)
    <3>1. Typed' = Typed
      BY <1>1, <2>2 DEF Rubout, Typed
    <3>2. Typed = <<>>
      BY <1>2, <2>2
    <3> QED
      BY <3>1, <3>2, Zenon
  <2> QED
    BY <2>1, <2>2
<1>4. CL!Press(Del) /\ UNCHANGED <<mode # "line", done>>
  BY <1>1 DEF Press, CL!Press
<1>5. CL!Rubout
  BY <1>1, <1>3, <1>4, Zenon DEF CL!Rubout, CL!Front, Front
<1> QED
  BY <1>5 DEF CL!Next

\* a key is put behind the line,
LEMMA CharLine == ASSUME ShellInv, CharKey PROVE CL!Next
<1>1. PICK key \in Range(keys) \ {Del, CR} :
         /\ Press(key) /\ char_in_line < MaxLine
         /\ line_buf' = [line_buf EXCEPT ![char_in_line + 1] = key]
         /\ char_in_line' = char_in_line + 1
         /\ UNCHANGED <<mode, done>>
  BY DEF CharKey
<1> DEFINE n == char_in_line
           k == n + 1
           new == [line_buf EXCEPT ![k] = key]
<1>2. LineInv /\ mode = "line" /\ keys # <<>> /\ key = Head(keys)
  BY <1>1 DEF ShellInv, Press
<1>3. key \in LineSet
  BY <1>2, KeysTail DEF LineSet
<1>4. /\ line_buf \in Seq(LineSet) /\ n \in 0 .. Len(line_buf) /\ Typed = SubSeq(line_buf, 1, n)
  BY <1>2, TypedIs DEF LineInv
<1>5. n \in Nat /\ k \in 1 .. Len(line_buf) /\ Len(line_buf) \in Nat
  BY <1>1, <1>2, SizesNat DEF LineInv
<1>6. Typed' = SubSeq(new, 1, k)
  BY <1>1, <1>2 DEF Typed
<1>7. /\ new \in Seq(LineSet) /\ Len(new) = Len(line_buf)
      /\ \A j \in 1 .. Len(line_buf) : new[j] = IF j = k THEN key ELSE line_buf[j]
  <2> HIDE DEF k
  <2> QED
    BY <1>3, <1>4, <1>5, ExceptSeq
<1> HIDE DEF new
<1> DEFINE u == SubSeq(new, 1, k)
           v == SubSeq(line_buf, 1, n)
           w == Append(v, key)
<1>8. k \in 0 .. Len(new) /\ k = n + 1
  BY <1>5, <1>7
<1> HIDE DEF k, n
<1>9. u \in Seq(LineSet) /\ Len(u) = k /\ \A j \in 1 .. k : u[j] = new[j]
  BY <1>7, <1>8, Prefix
<1>10. v \in Seq(LineSet) /\ Len(v) = n /\ \A j \in 1 .. n : v[j] = line_buf[j]
  BY <1>4, Prefix
<1> HIDE DEF u, v
<1>11. /\ w \in Seq(LineSet) /\ Len(w) = k
       /\ \A j \in 1 .. k : w[j] = IF j = k THEN key ELSE v[j]
  BY <1>3, <1>5, <1>8, <1>10
<1> HIDE DEF w
<1>12. \A j \in 1 .. k : u[j] = w[j]
  <2> SUFFICES ASSUME NEW j \in 1 .. k PROVE u[j] = w[j]
    OBVIOUS
  <2>1. j \in 1 .. Len(line_buf) /\ (j = k \/ j \in 1 .. n)
    BY <1>5, <1>8
  <2> QED
    BY <1>7, <1>9, <1>10, <1>11, <2>1
<1>13. u = w
  BY <1>9, <1>11, <1>12, SeqEqual
<1>14. Typed' = Append(Typed, key)
  BY <1>4, <1>6, <1>13, Zenon DEF u, v, w
<1>15. /\ ~ (mode # "line") /\ CL!Press(key) /\ key \notin {Del, CR} /\ key \in Range(keys)
       /\ UNCHANGED <<mode # "line", done>>
  BY <1>1, <1>2 DEF Press, CL!Press
<1>16. CL!Type(key)
  BY <1>14, <1>15, Zenon DEF CL!Type
<1> QED
  BY <1>15, <1>16, Zenon DEF CL!Next, CL!Range, Range

\* and each command is the one spelled: echo,
LEMMA EchoLine == ASSUME ShellInv, EchoCommand PROVE CL!Next
<1> DEFINE t == Say(Say(NewRow, get_string(Ended, 5)), <<"\n">>)
<1>1. IsPrefix(Echo, Ended) /\ Press(CR) /\ line_buf' = Ended /\ done' = EchoOf(Ended) /\ Returns(t)
  BY DEF EchoCommand, EnterKey, EchoOf
<1> HIDE DEF t
<1>2. Typed' = <<>> /\ mode = "line"
  BY <1>1, ReturnsEmpty
<1>3. \A c \in Commands : Typed \in Spellings(c) => EchoOf(Ended) = c
  BY <1>1, <1>2, OneCommand
<1> QED
  BY <1>1, <1>2, <1>3, EnterIs

\* echo without a closing quote, which nothing spells,
LEMMA QuoteLine == ASSUME ShellInv, QuoteLost PROVE CL!Next
<1>1. IsPrefix(Echo, Ended) /\ ~ Closed(Ended, 5) /\ Press(CR) /\ Stops("halted", NewRow) /\ done' = done
  BY DEF QuoteLost
<1>2. Typed' = <<>> /\ mode = "line"
  BY <1>1, StopsEmpty
<1>3. \A c \in Commands : Typed \in Spellings(c) => done = c
  BY <1>1, <1>2, OneCommand
<1> QED
  BY <1>1, <1>2, <1>3, EnterIs

\* cat,
LEMMA CatLine == ASSUME ShellInv, CatCommand PROVE CL!Next
<1> DEFINE t == Sayf(NewRow, CantOpen, get_param(Ended, 4))
<1>1. /\ IsPrefix(Cat, Ended) /\ Press(CR) /\ line_buf' = Ended /\ done' = CatOf(Ended)
      /\ Stops("cat", NewRow) \/ Returns(t)
  BY DEF CatCommand, EnterKey, CatOf
<1> HIDE DEF t
<1>2. Typed' = <<>> /\ mode = "line"
  BY <1>1, ReturnsEmpty, StopsEmpty
<1>3. \A c \in Commands : Typed \in Spellings(c) => CatOf(Ended) = c
  BY <1>1, <1>2, OneCommand
<1> QED
  BY <1>1, <1>2, <1>3, EnterIs

\* edit,
LEMMA EditCommandLine == ASSUME ShellInv, EditCommand PROVE CL!Next
<1>1. /\ IsPrefix(Edit, Ended) /\ Press(CR) /\ done' = EditOf(Ended) /\ Stops("halted", NewRow)
  BY DEF EditCommand, EnterKey, EditOf
<1>2. Typed' = <<>> /\ mode = "line"
  BY <1>1, StopsEmpty
<1>3. \A c \in Commands : Typed \in Spellings(c) => EditOf(Ended) = c
  BY <1>1, <1>2, OneCommand
<1> QED
  BY <1>1, <1>2, <1>3, EnterIs

\* and a line that is none of them.
LEMMA UnknownLine == ASSUME ShellInv, UnknownCommand PROVE CL!Next
<1> DEFINE t == Sayf(NewRow, NotFound, UpTo(Ended, 1, {Nul}))
<1>1. /\ ~ IsPrefix(Echo, Ended) /\ ~ IsPrefix(Cat, Ended) /\ ~ IsPrefix(Edit, Ended)
      /\ Press(CR) /\ line_buf' = Ended /\ Returns(t)
  BY DEF UnknownCommand, EnterKey
<1> HIDE DEF t
<1>2. Typed' = <<>> /\ mode = "line"
  BY <1>1, ReturnsEmpty
<1>3. ASSUME NEW cmd PROVE \A c \in Commands : Typed \in Spellings(c) => cmd = c
  BY <1>1, <1>2, OneCommand
<1>4. \A c \in Commands : Typed \in Spellings(c) => done' = c
  BY <1>3
<1> QED
  BY <1>1, <1>2, <1>4, EnterIs

\* What cat reads is no line.
LEMMA CatReadsLine == ASSUME CatReads PROVE CL!Next
<1>1. UNCHANGED <<Typed, mode # "line", done>>
  BY SameLine DEF CatReads
<1>2. (mode # "line") /\ CL!Press(Head(keys))
  BY DEF CatReads, CL!Press
<1>3. CL!Read
  BY <1>1, <1>2, Zenon DEF CL!Read
<1> QED
  BY <1>3 DEF CL!Next

\* Taking a chunk is reaching for some keys.
LEMMA HandsLine == ASSUME Hands PROVE CL!Next
<1>1. UNCHANGED <<Typed, mode # "line", done>> /\ keys = <<>>
  BY SameLine DEF Hands
<1> QED
  BY <1>1, Zenon DEF CL!Next, CL!Hands

\* Every step of the shell is one of CommandLine's or none.
LEMMA StepConforms == ShellInv /\ [ShellNext]_shellVars => [CL!Next]_CL!vars
<1> SUFFICES ASSUME ShellInv, [ShellNext]_shellVars PROVE [CL!Next]_CL!vars
  OBVIOUS
<1>1. CASE UNCHANGED shellVars \/ Rest
  <2>1. UNCHANGED <<line_buf, char_in_line, mode, done>> /\ keys' = keys
    BY <1>1 DEF Rest, shellVars
  <2>2. UNCHANGED <<Typed, mode # "line", done>>
    BY <2>1, SameLine
  <2> QED
    BY <2>1, <2>2, Zenon DEF CL!vars
<1> QED
  BY <1>1, HandsLine, RuboutLine, CharLine, EchoLine, QuoteLine, CatLine, CatReadsLine,
     EditCommandLine, UnknownLine DEF ShellNext

\* Its first state is one too.
LEMMA StartConforms == ShellInit => CL!Init
<1> SUFFICES ASSUME ShellInit PROVE CL!Init
  OBVIOUS
<1>1. LineInv
  BY ShellStart DEF ShellInv
<1>2. char_in_line = 0 /\ mode = "line" /\ done = <<"none">> /\ keys = <<>>
  BY DEF ShellInit
<1>3. Typed = SubSeq(line_buf, 1, char_in_line) /\ line_buf \in Seq(LineSet)
  BY <1>1, <1>2, TypedIs DEF LineInv
<1>4. SubSeq(line_buf, 1, 0) = <<>>
  BY <1>3
<1> QED
  BY <1>2, <1>3, <1>4 DEF CL!Init

\* The line is what was typed and not rubbed out, and the command that main's
\* loop does is the one the line spells, with its own parameters: get_param,
\* get_string and atoi read from the buffer what was typed, though longer lines
\* stood there before.
THEOREM CommandsDone == ShellSpec => CommandLineSpec
<1>1. ShellInit => ShellInv
  BY ShellStart
<1>2. ShellInv /\ [ShellNext]_shellVars => ShellInv'
  BY ShellInductive
<1>3. ShellInit => CL!Init
  BY StartConforms
<1>4. ShellInv /\ [ShellNext]_shellVars => [CL!Next]_CL!vars
  BY StepConforms
<1> QED
  BY <1>1, <1>2, <1>3, <1>4, PTL DEF ShellSpec, CommandLineSpec, CL!Spec
=============================================================================
