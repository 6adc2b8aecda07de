---------------------------- MODULE AddressSpaces ----------------------------
(***************************************************************************)
(* What page tables promise: every task has a map of its own from pages to *)
(* frames and permissions.  A mapping made for one task changes one page   *)
(* of that task and nothing else; the kernel's pages are mapped alike for  *)
(* everyone, for ever.                                                     *)
(***************************************************************************)
EXTENDS Integers

CONSTANTS
    Tasks,     \* tasks that may come to exist
    UserPages, \* pages of the user half
    Kernel,    \* [kernel pages -> leaf]: what setup_vm_final maps
    Leaves,    \* [frame, bits]
    None       \* not mapped, or no address space yet

VARIABLE space  \* space[t]: None, or [pages -> Leaves \cup {None}]

Pages    == UserPages \cup DOMAIN Kernel
Fresh    == [v \in Pages |-> IF v \in DOMAIN Kernel THEN Kernel[v] ELSE None]
Live     == {t \in Tasks : space[t] # None}
Maps(t)  == {v \in UserPages : space[t][v] # None}
NoWrite(e) == [e EXCEPT !.bits = @ \ {"W"}]

Init == space = [t \in Tasks |-> None]

Create(t) ==
    /\ t \notin Live
    /\ space' = [space EXCEPT ![t] = Fresh]

\* A page gets a frame that is mapped nowhere else.
Map(t, v) ==
    /\ t \in Live
    /\ space'[t][v] \in Leaves
    /\ \A u \in Live, w \in UserPages :
          space[u][w] # None /\ <<u, w>> # <<t, v>>
          => space[u][w].frame # space'[t][v].frame
    /\ space' = [space EXCEPT ![t][v] = space'[t][v]]

\* The copy loses the write permission on both sides.  It may lack pages,
\* when memory for tables runs out.
Fork(t, u) ==
    /\ t \in Live /\ u \notin Live /\ space'[u] # None
    /\ LET copied == {v \in Maps(t) : space'[u][v] # None} IN
       space' = [space EXCEPT
           ![t] = [v \in Pages |->
               IF v \in Maps(t) THEN NoWrite(space[t][v]) ELSE space[t][v]],
           ![u] = [v \in Pages |->
               IF v \in copied THEN NoWrite(space[t][v]) ELSE Fresh[v]]]

Next ==
    \/ \E t \in Tasks : Create(t)
    \/ \E t \in Tasks, v \in UserPages : Map(t, v)
    \/ \E t, u \in Tasks : Fork(t, u)

Spec == Init /\ [][Next]_space
=============================================================================
