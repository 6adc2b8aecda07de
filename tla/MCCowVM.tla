------------------------------ MODULE MCCowVM ------------------------------
(***************************************************************************)
(* A small instance of CowVM: a data page of the ELF image, the anonymous  *)
(* stack page, and a hole that no VMA covers.  A program, its child and    *)
(* its grandchild share both pages; the frames do for two forks and run    *)
(* out in the copies.                                                      *)
(***************************************************************************)
EXTENDS CowVM

MCPages == {"data", "stack", "hole"}

MCVmas ==
    {[pages |-> {"data"},  flags |-> {"R", "W"}],
     [pages |-> {"stack"}, flags |-> {"R", "W", "ANON"}]}

\* The stack is at the top of user space and has tables of its own.
MCRegion   == [v \in MCPages |-> IF v = "stack" THEN "high" ELSE "low"]
MCFileData == [v \in MCPages |-> 0]
=============================================================================
