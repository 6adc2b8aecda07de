------------------------------ MODULE MCPageTable ------------------------------
(***************************************************************************)
(* PageTable with tables of eight entries, pages of two bytes and a memory *)
(* of 32 frames.  The firmware has frame 0, the kernel image frames 1-6    *)
(* (text 1, rodata 2, data 3, ramdisk 4, bss 5-6) and ends inside the last *)
(* one, as _ekernel may; the device registers are numbered after the       *)
(* memory.  Some more frames are in use from the start, so that the last   *)
(* ones run out.                                                           *)
(***************************************************************************)
EXTENDS PageTable, TLC

Start      == 256 * 2

MCSections == <<
    [start |-> Start + 2,  pa |-> 2,  size |-> 1,  bits |-> {"X", "R"}],
    [start |-> Start + 4,  pa |-> 4,  size |-> 2,  bits |-> {"R"}],
    [start |-> Start + 6,  pa |-> 6,  size |-> 1,  bits |-> {"W", "R"}],
    [start |-> Start + 10, pa |-> 10, size |-> 3,  bits |-> {"W", "R"}],
    [start |-> Start + 13, pa |-> 13, size |-> 51, bits |-> {"W", "R"}],
    [start |-> Start + 8,  pa |-> 8,  size |-> 2,  bits |-> {"R", "W", "X"}],
    [start |-> Start + 128, pa |-> 64, size |-> 4,  bits |-> {"R", "W"}] >>

MCDevice == {32, 33}
MCImage  == 0 .. 13

\* Two pages under one last-level table and one under the next.
MCVma == (0 :> {"R", "W"}) @@ (1 :> {"R", "X"}) @@ (8 :> {"R", "W"})

\* The list of VMAs as task_init makes it, and turned round by a fork.
MCOrders == {<<0, 1, 8>>, <<8, 1, 0>>}

\* A word of user data that has the V bit, and the bits of a user page.
ValidWords == {[ppn |-> 9, bits |-> {"V", "R", "U"}]}

\* The hypotheses of the theorems in KernelProofs about the kernel's map.
ASSUME EnoughForKernel /\ KernelLinear
=============================================================================
