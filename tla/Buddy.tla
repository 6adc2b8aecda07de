------------------------------- MODULE Buddy -------------------------------
(***************************************************************************)
(* The page allocator of arch/riscv/kernel/mm.c: a buddy tree kept in one  *)
(* array, and the reference counts that copy on write needs.               *)
(*                                                                         *)
(* bitmap[i] is the size of the largest free block under node i, 0 if      *)
(* there is none.  The allocator does not record the size of a block it    *)
(* hands out: buddy_free climbs from the leaf to the first zero.           *)
(*                                                                         *)
(* The callers follow the contract of the reference counts: get_page and   *)
(* put_page are called for the first page of a block in use, once for each *)
(* reference.  CowVM shows that the page fault handler and do_fork do.     *)
(***************************************************************************)
EXTENDS Integers, FiniteSetsExt

CONSTANTS
    Depth,      \* the tree has 2^Depth pages
    Reserved,   \* pages below free_page_start: kernel image, bitmap, counts
    Requests,   \* numbers of pages callers ask for
    MaxRef      \* bound on the references callers keep to one block

\* The powers of two, which node_size and nrpages run through.
Pow[k \in 0 .. Depth] == IF k = 0 THEN 1 ELSE 2 * Pow[k - 1]

Size   == Pow[Depth]
Orders == {Pow[k] : k \in 0 .. Depth}

ASSUME BuddyAssumption ==
    /\ Depth \in Nat /\ Reserved \in 1 .. Size
    /\ Requests \subseteq Nat /\ MaxRef \in Nat \ {0}

VARIABLES
    bitmap,     \* buddy.bitmap
    ref_cnt,    \* buddy.ref_cnt
    ret         \* the pfn the last buddy_alloc returned; 0 is failure

pool == <<bitmap, ref_cnt, ret>>

Nodes  == 0 .. 2 * Size - 2
Pfns   == 0 .. Size - 1

LEFT_LEAF(i)  == 2 * i + 1
RIGHT_LEAF(i) == 2 * i + 2
PARENT(i)     == (i + 1) \div 2 - 1
Leaf(pfn)     == pfn + Size - 1

\* node_size at node i.
NodeSize[i \in Nodes] == IF i = 0 THEN Size ELSE NodeSize[PARENT(i)] \div 2

\* The node and its ancestors.
Path[i \in Nodes] == IF i = 0 THEN {0} ELSE {i} \cup Path[PARENT(i)]

BuddyTypeOK ==
    /\ bitmap \in [Nodes -> {0} \cup Orders]
    /\ ref_cnt \in [Pfns -> 0 .. MaxRef]
    /\ ret \in Pfns

-----------------------------------------------------------------------------
(* The operations on the tree.                                             *)

\* The smallest power of two that is not smaller; 2 * Size stands for all that
\* are larger than the tree.
fixsize(n) == Min({s \in Orders : n <= s} \cup {2 * Size})

MAX(a, b) == IF a > b THEN a ELSE b

\* Mutant: two free halves are not merged.
Unmerged(merge, size, l, r) == MAX(l, r)

\* The size at a node over children l and r: buddy_free makes a free whole of
\* two free halves, buddy_alloc need not look.
Join(merge, size, l, r) ==
    IF merge /\ l + r = size THEN size ELSE MAX(l, r)

\* Write s at node i, then recompute its ancestors from their children.
Update(bm, i, s, merge) ==
    LET new[j \in Nodes] ==
            IF j = i THEN s
            ELSE IF j \in Path[i]
                 THEN Join(merge, NodeSize[j], new[LEFT_LEAF(j)], new[RIGHT_LEAF(j)])
                 ELSE bm[j]
    IN new

\* Mutant: the free half with the larger block is preferred to the left one.
DescendLargest(bm, n) ==
    LET at[i \in {j \in Nodes : NodeSize[j] >= n}] ==
            IF NodeSize[i] = n THEN i
            ELSE IF bm[LEFT_LEAF(i)] >= bm[RIGHT_LEAF(i)]
                 THEN at[LEFT_LEAF(i)] ELSE at[RIGHT_LEAF(i)]
    IN at[0]

\* The node buddy_alloc reaches: left whenever the left half has the room.
Descend(bm, n) ==
    LET at[i \in {j \in Nodes : NodeSize[j] >= n}] ==
            IF NodeSize[i] = n THEN i
            ELSE IF bm[LEFT_LEAF(i)] >= n
                 THEN at[LEFT_LEAF(i)] ELSE at[RIGHT_LEAF(i)]
    IN at[0]

FirstPfn(i) == (i + 1) * NodeSize[i] - Size

\* The node buddy_free stops at: the first zero on the way up, or the root.
Climb(bm, pfn) == Max({i \in Path[Leaf(pfn)] : bm[i] = 0 \/ i = 0})

\* buddy_free once the count is zero.  node_size is doubled at every nonzero
\* node, the root included: freeing a free page would leave 2 * Size there.
Freed(bm, pfn) ==
    LET i == Climb(bm, pfn) IN
    Update(bm, i, IF bm[i] = 0 THEN NodeSize[i] ELSE 2 * Size, TRUE)

\* buddy_alloc(n), in a tree that has the room.
Taken(bm, n) == Update(bm, Descend(bm, n), 0, FALSE)

\* The tree that buddy_init makes: an empty tree, from which the first pages are then taken.
Untouched == NodeSize
BootTree ==
    LET bm[k \in 0 .. Reserved] == IF k = 0 THEN Untouched ELSE Taken(bm[k - 1], 1)
    IN bm[Reserved]

-----------------------------------------------------------------------------
(* The calls.                                                              *)

buddy_init ==
    /\ bitmap = BootTree
    /\ ref_cnt = [p \in Pfns |-> IF p < Reserved THEN 1 ELSE 0]
    /\ ret = 0

\* alloc_pages(n), alloc_page() and kalloc() with n = 1: NULL if pfn is 0.
Alloc(n) ==
    LET size == fixsize(n) IN
    /\ bitmap[0] >= size
    /\ LET i == Descend(bitmap, size) IN
       /\ bitmap' = Taken(bitmap, size)
       /\ ref_cnt' = [ref_cnt EXCEPT ![FirstPfn(i)] = 1]
       /\ ret' = FirstPfn(i)

AllocFails(n) ==
    /\ bitmap[0] < fixsize(n)
    /\ ret' = 0
    /\ UNCHANGED <<bitmap, ref_cnt>>

\* The pages a caller holds a reference to.
Held == {p \in Pfns : p >= Reserved /\ ref_cnt[p] > 0}

\* get_page: returns 1 and counts nothing for a page without references.
GetPage(p) ==
    /\ ref_cnt[p] < MaxRef
    /\ ref_cnt' = [ref_cnt EXCEPT ![p] = @ + 1]
    /\ UNCHANGED <<bitmap, ret>>

\* Mutant: the page is freed while one reference is left.
LastButOne(p) == ref_cnt[p] <= 2

\* page_ref_dec calls buddy_free when the count it has decremented is zero.
LastReference(p) == ref_cnt[p] = 1

\* put_page
PutPage(p) ==
    /\ ref_cnt' = [ref_cnt EXCEPT ![p] = @ - 1]
    /\ bitmap' = IF LastReference(p) THEN Freed(bitmap, p) ELSE bitmap
    /\ UNCHANGED ret

BuddyNext ==
    \/ \E n \in Requests : Alloc(n)
    \/ \E n \in Requests : AllocFails(n)
    \/ \E p \in Held : GetPage(p)
    \/ \E p \in Held : PutPage(p)

BuddySpec == buddy_init /\ [][BuddyNext]_pool

-----------------------------------------------------------------------------
(* Properties.                                                             *)

\* A node handed out as a block is zero over children that still look free;
\* any other zero node is zero on both sides.
IsBlock(bm, i) == bm[i] = 0 /\ (NodeSize[i] > 1 => bm[LEFT_LEAF(i)] # 0)

Blocks ==
    {[pfn |-> FirstPfn(i), size |-> NodeSize[i]] : i \in {j \in Nodes : IsBlock(bitmap, j)}}

\* A page is free if there is no zero between its leaf and the root.
FreePages == {p \in Pfns : \A i \in Path[Leaf(p)] : bitmap[i] # 0}

PagesUnder(i) == FirstPfn(i) .. FirstPfn(i) + NodeSize[i] - 1

\* Every node that buddy_alloc can reach holds the size of the largest free
\* block under it: halves are merged as soon as both are free, whatever the
\* order of the calls, so a request that could be served is served.
LargestFree ==
    LET free == FreePages
        FreeNodes == {k \in Nodes : PagesUnder(k) \subseteq free}
    IN
    \A i \in Nodes :
        (\A j \in Path[i] \ {i} : bitmap[j] # 0) =>
            bitmap[i] = Max({0} \cup {NodeSize[k] : k \in {j \in FreeNodes : i \in Path[j]}})

\* What a node says follows from its children, but for a block: its children
\* are as they were when it was taken, whole.
Whole(bm, i) == bm[i] = NodeSize[i]
NodeSound(bm, i) ==
    \/ bm[i] = Join(TRUE, NodeSize[i], bm[LEFT_LEAF(i)], bm[RIGHT_LEAF(i)])
    \/ bm[i] = 0 /\ Whole(bm, LEFT_LEAF(i)) /\ Whole(bm, RIGHT_LEAF(i))

TreeSound(bm) ==
    \A i \in Nodes : bm[i] <= NodeSize[i] /\ (NodeSize[i] > 1 => NodeSound(bm, i))

\* page_ref_dec calls buddy_free exactly when it should: a page has references
\* exactly if it is the first page of a block, so that
\* the size buddy_free finds by climbing is the size that was handed out.
CountedBlocks == {p \in Pfns : ref_cnt[p] > 0} = {b.pfn : b \in Blocks}

\* The tree and the counts as buddy_alloc, buddy_free and put_page keep them.
BlocksSound == BuddyTypeOK /\ TreeSound(bitmap) /\ CountedBlocks

Frames == INSTANCE PageFrames WITH blocks <- Blocks, refs <- ref_cnt

\* The tree implements the allocation of whole blocks of pages.
PageFramesSpec == Frames!Spec
=============================================================================
