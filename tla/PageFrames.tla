----------------------------- MODULE PageFrames -----------------------------
(***************************************************************************)
(* What the page allocator promises its callers: a page is free or belongs *)
(* to exactly one block; a request takes the lowest aligned block of free  *)
(* pages that is large enough and fails only if there is none; a block     *)
(* goes back whole when its last reference is dropped.  Nothing here       *)
(* mentions the tree of sizes that implements it, nor how the size of a    *)
(* block is found again when it is freed.                                  *)
(***************************************************************************)
EXTENDS Integers

CONSTANTS
    Pfns,       \* 0 .. size-1
    Reserved,   \* pages 0 .. Reserved-1 hold the kernel image
    Orders,     \* the block sizes: powers of two
    Requests,   \* numbers of pages callers ask for
    MaxRef      \* bound on the references to one block

VARIABLES
    blocks,     \* blocks in use: [pfn, size]
    refs,       \* refs[p]: references to the block that starts at page p
    ret         \* what the last request returned: a pfn, or 0 for NULL

vars == <<blocks, refs, ret>>

PagesOf(b) == b.pfn .. b.pfn + b.size - 1
Free == Pfns \ UNION {PagesOf(b) : b \in blocks}

Init ==
    /\ blocks = [pfn : 0 .. Reserved - 1, size : {1}]
    /\ refs = [p \in Pfns |-> IF p < Reserved THEN 1 ELSE 0]
    /\ ret = 0

\* The smallest block size that holds n pages.
Fits(n) == {s \in Orders : n <= s /\ \A r \in Orders : n <= r => s <= r}

\* The aligned blocks of free pages that a request for n pages may take.
Candidates(n) ==
    LET free == Free IN
    {b \in [pfn : Pfns, size : Fits(n)] : b.pfn % b.size = 0 /\ PagesOf(b) \subseteq free}

Lowest(candidates) == {b \in candidates : \A c \in candidates : b.pfn <= c.pfn}

Alloc(n) ==
    LET candidates == Candidates(n) IN
    \/ \E b \in Lowest(candidates) :
          /\ ret' = b.pfn
          /\ blocks' = blocks \cup {b}
          /\ refs' = [refs EXCEPT ![b.pfn] = 1]
    \/ /\ candidates = {}
       /\ ret' = 0
       /\ UNCHANGED <<blocks, refs>>

Get(b) ==
    /\ refs[b.pfn] < MaxRef
    /\ refs' = [refs EXCEPT ![b.pfn] = @ + 1]
    /\ UNCHANGED <<blocks, ret>>

Put(b) ==
    /\ refs' = [refs EXCEPT ![b.pfn] = @ - 1]
    /\ blocks' = IF refs[b.pfn] = 1 THEN blocks \ {b} ELSE blocks
    /\ UNCHANGED ret

Next ==
    \/ \E n \in Requests : Alloc(n)
    \/ \E b \in blocks : b.pfn >= Reserved /\ (Get(b) \/ Put(b))

Spec == Init /\ [][Next]_vars
=============================================================================
