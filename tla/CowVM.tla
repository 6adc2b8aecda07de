------------------------------- MODULE CowVM -------------------------------
(***************************************************************************)
(* Demand paging and copy on write: arch/riscv/kernel/vm.c (do_page_fault, *)
(* create_mapping, find_pte), arch/riscv/kernel/proc.c (do_fork,           *)
(* switch_to, switch_mm) and the reference counts of                       *)
(* arch/riscv/kernel/mm.c, as seen by user programs on one hart.           *)
(*                                                                         *)
(* A page is one virtual page; the VMAs are those load_elf and task_init   *)
(* create at boot, which do_fork copies and nothing else changes, so they  *)
(* are a constant.  Here no page belongs to two VMAs (VmasAssumption).     *)
(*                                                                         *)
(* The kernel runs with interrupts off, so a trap handler is one action.   *)
(* The hardware may put any page table entry of the running address space  *)
(* in the TLB at any time, invalid entries included, and uses what it      *)
(* cached until an sfence.vma.                                             *)
(***************************************************************************)
EXTENDS Integers, FiniteSets

CONSTANTS
    BootTasks,  \* tasks task_init creates (its up_limit), idle (0) included
    MaxTasks,   \* bound on the tasks ever created (do_fork has none)
    Pages,      \* user virtual pages
    Vmas,       \* the VMAs of a task: [pages, flags]
    Region,     \* [Pages -> 2 MiB region]: pages under the same last-level table
    Gig,        \* [Pages -> 1 GiB region]: pages under the same PMD table
    Frames,     \* the pfns still free when task_init has run
    NoFrame,    \* no frame: the V bit of the entry is clear
    Values,     \* contents of a page
    Zero,       \* content of a frame never written (RAM starts zeroed)
    FileData    \* [Pages -> Values]: what the ELF image holds for a page

Access == {"R", "W", "X"}               \* load, store, instruction fetch
Flags  == Access \cup {"ANON"}          \* VM_READ, VM_WRITE, VM_EXEC, VM_ANON

ASSUME TasksAssumption ==
    /\ BootTasks \in Nat /\ MaxTasks \in Nat
    /\ 1 < BootTasks /\ BootTasks <= MaxTasks

ASSUME MemoryAssumption ==
    /\ IsFiniteSet(Pages)
    /\ IsFiniteSet(Frames) /\ Frames \subseteq Nat \ {0} /\ NoFrame \notin Frames
    /\ Zero \in Values /\ FileData \in [Pages -> Values]
    /\ NoFrame \notin Values

ASSUME VmasAssumption ==
    /\ IsFiniteSet(Vmas)
    /\ Vmas \subseteq [pages : SUBSET Pages, flags : SUBSET Flags]
    /\ \A m, n \in Vmas : m.pages \cap n.pages # {} => m = n
    /\ \A m \in Vmas : "W" \in m.flags => "R" \in m.flags

-----------------------------------------------------------------------------
VARIABLES
    nr_tasks,   \* task[0 .. nr_tasks-1] are in use
    current,    \* the running task, 0 (idle) before the first schedule()
    pte,        \* pte[t][v]: the page table entry of page v in t's pgd
    ref,        \* buddy.ref_cnt of the frames
    data,       \* content of the frames
    tlb,        \* the entries the hart has cached for current's address space
    kernel,     \* frames the kernel took with kalloc() and never gives back
    halted      \* why the kernel stopped, "no" while it runs

vars == <<nr_tasks, current, pte, ref, data, tlb, kernel, halted>>

TaskIds   == 0 .. MaxTasks - 1
UserTasks == 1 .. nr_tasks - 1
Pte       == [frame : Frames \cup {NoFrame}, perm : SUBSET Access]
NoPte     == [frame |-> NoFrame, perm |-> {}]
EmptyTlb  == [v \in {} |-> NoPte]
Causes    == {"no", "segv", "oom", "kernel_fault", "panic"}

TypeOK ==
    /\ nr_tasks \in BootTasks .. MaxTasks
    /\ current \in 0 .. nr_tasks - 1
    /\ pte \in [TaskIds -> [Pages -> Pte]]
    /\ ref \in [Frames -> Nat]
    /\ data \in [Frames -> Values]
    /\ DOMAIN tlb \subseteq Pages
    /\ tlb \in [DOMAIN tlb -> Pte]
    /\ kernel \subseteq Frames
    /\ halted \in Causes

-----------------------------------------------------------------------------
(* VMAs, page tables and frames.                                           *)

\* find_vma
VmasAt(v) == {m \in Vmas : v \in m.pages}

\* Mutant: VM_ANON is not masked out of the entry.
PermWithAnon(v) == {a \in Flags : \E m \in VmasAt(v) : a \in m.flags}

\* The bits do_page_fault puts in an entry: the VMA's flags without VM_ANON.
PermAt(v) == {a \in Access : \E m \in VmasAt(v) : a \in m.flags}

AnonAt(v) == \E m \in VmasAt(v) : "ANON" \in m.flags

Mapped(t) == {v \in Pages : pte[t][v].frame # NoFrame}

\* find_pte returns NULL for a page whose last-level table does not exist;
\* create_mapping makes that table with the first mapping of its region.
HasTable(t, v) == \E u \in Mapped(t) : Region[u] = Region[v]

\* The pages create_mapping has to kalloc() to map the set S when the pages
\* of M are mapped: a PMD table per 1 GiB and a last-level table per 2 MiB.
TablesFor(S, M) ==
    Cardinality({Gig[v] : v \in S} \ {Gig[v] : v \in M})
    + Cardinality({Region[v] : v \in S} \ {Region[v] : v \in M})

\* buddy_alloc(1) hands out the lowest pfn that is free; a frame is free when
\* its reference count is zero.
Free == {f \in Frames : ref[f] = 0}
Lowest(S) == {f \in S : \A g \in S : f <= g}
LowestN(n, S) == {f \in S : Cardinality({g \in S : g < f}) < n}

\* Mutant: the copied frame keeps the reference of the task that left it.
PutPageForgotten(r, f) == r

\* page_ref_dec, called by put_page; buddy_free at zero makes the frame free.
PutPage(r, f) == [r EXCEPT ![f] = IF @ > 0 THEN @ - 1 ELSE 0]

-----------------------------------------------------------------------------
(* sfence.vma and user accesses.  The hart translates with the cached      *)
(* entry if it has one, with the page table otherwise.                     *)

\* Mutant: the sfence.vma is missing.
NoFlush == UNCHANGED tlb

FlushTlb == tlb' = EmptyTlb

Translation(v) == IF v \in DOMAIN tlb THEN tlb[v] ELSE pte[current][v]

Running == halted = "no" /\ current # 0

\* The hardware caches an entry of the running address space: a load, a
\* fetch, or speculation.
TlbFill(v) ==
    /\ Running
    /\ v \notin DOMAIN tlb
    /\ tlb' = [u \in DOMAIN tlb \cup {v} |-> Translation(u)]
    /\ UNCHANGED <<nr_tasks, current, pte, ref, data, kernel, halted>>

\* A store that the translation allows.
Store(v, x) ==
    /\ Running
    /\ "W" \in Translation(v).perm
    /\ data' = [data EXCEPT ![Translation(v).frame] = x]
    /\ UNCHANGED <<nr_tasks, current, pte, ref, tlb, kernel, halted>>

-----------------------------------------------------------------------------
(* do_page_fault for an access of kind a to page v.                        *)

Faults(v, a) == Running /\ a \notin Translation(v).perm

\* is_cow: the entry is valid, not writable, and the VMA is writable.
IsCow(v, a) ==
    /\ a = "W"
    /\ pte[current][v].frame # NoFrame
    /\ "W" \notin pte[current][v].perm

FrameNeed(v) == 1 + TablesFor({v}, Mapped(current))

\* The kernel stops in Err: no VMA, or the VMA lacks the permission.
BadAccess(v, a) ==
    /\ Faults(v, a)
    /\ a \notin PermAt(v)
    /\ halted' = "segv"
    /\ UNCHANGED <<nr_tasks, current, pte, ref, data, tlb, kernel>>

\* alloc_page() or kalloc() returns NULL and the result is used unchecked.
\* The model stops here, before the kernel follows the NULL pointer.
FaultOutOfMemory(v, a) ==
    /\ Faults(v, a)
    /\ a \in PermAt(v)
    /\ Cardinality(Free) < FrameNeed(v)
    /\ halted' = "oom"
    /\ UNCHANGED <<nr_tasks, current, pte, ref, data, tlb, kernel>>

\* Mutant: the copy is mapped with the permissions of the shared entry.
MapPageReadOnly(v, f) ==
    pte' = [pte EXCEPT ![current][v] =
                [frame |-> f, perm |-> PermAt(v) \ {"W"}]]

\* The handler maps frame f with the permissions of the VMA.
MapPage(v, f) ==
    pte' = [pte EXCEPT ![current][v] = [frame |-> f, perm |-> PermAt(v)]]

\* Copy the shared frame, drop the reference to it, map the copy writable.
CopyOnWrite(v, a) ==
    /\ Faults(v, a)
    /\ a \in PermAt(v)
    /\ IsCow(v, a)
    /\ LET src == pte[current][v].frame IN
       \E f \in Lowest(Free) :
          /\ data' = [data EXCEPT ![f] = data[src]]
          /\ ref' = PutPage([ref EXCEPT ![f] = 1], src)
          /\ MapPage(v, f)
    /\ FlushTlb
    /\ UNCHANGED <<nr_tasks, current, kernel, halted>>

\* Map a fresh frame: a page of the ELF image is copied from the ramdisk, an
\* anonymous page keeps whatever the frame held.
DemandPage(v, a) ==
    /\ Faults(v, a)
    /\ a \in PermAt(v)
    /\ ~IsCow(v, a)
    /\ Cardinality(Free) >= FrameNeed(v)
    /\ \E f \in Lowest(Free) :
          LET tables == LowestN(FrameNeed(v) - 1, Free \ {f}) IN
          /\ data' = IF AnonAt(v) THEN data ELSE [data EXCEPT ![f] = FileData[v]]
          /\ ref' = [g \in Frames |-> IF g \in tables \cup {f} THEN 1 ELSE ref[g]]
          /\ kernel' = kernel \cup tables
          /\ MapPage(v, f)
    /\ FlushTlb
    /\ UNCHANGED <<nr_tasks, current, halted>>

-----------------------------------------------------------------------------
(* do_fork, the clone system call.                                         *)

\* Pages do_fork allocates: the task_struct with its kernel stack, the pgd, a
\* vm_area_struct per VMA, and the tables that map what the parent has mapped.
ForkNeed == 2 + Cardinality(Vmas) + TablesFor(Mapped(current), {})

\* What can go wrong, in whatever order the loop over the VMAs meets it: a
\* NULL from alloc_page(), a NULL from find_pte(), which is dereferenced, and
\* get_page() refusing a mapped frame that has no reference.
ForkFailures ==
    (IF Cardinality(Free) < ForkNeed THEN {"oom"} ELSE {})
    \cup
    (IF \E m \in Vmas : \E v \in m.pages : ~HasTable(current, v)
     THEN {"kernel_fault"} ELSE {})
    \cup
    (IF \E v \in Mapped(current) : ref[pte[current][v].frame] = 0
     THEN {"panic"} ELSE {})

ForkFails ==
    /\ Running
    /\ nr_tasks < MaxTasks
    /\ \E why \in ForkFailures : halted' = why
    /\ UNCHANGED <<nr_tasks, current, pte, ref, data, tlb, kernel>>

\* Mutant: PERM_W is cleared for neither task.
SharedWritable(e) == e

\* Mutant: the mask that clears PERM_W also clears PERM_R.
NarrowMask(e) == [frame |-> e.frame, perm |-> e.perm \ {"R", "W"}]

\* The entry both tasks have after the fork: same frame, PERM_W cleared.
Shared(e) == [frame |-> e.frame, perm |-> e.perm \ {"W"}]

\* get_page is called once for every page the parent has mapped.
GetPages(t) ==
    [f \in Frames |-> ref[f] + Cardinality({v \in Pages : pte[t][v].frame = f})]

Fork ==
    /\ Running
    /\ nr_tasks < MaxTasks
    /\ ForkFailures = {}
    /\ LET pages  == LowestN(ForkNeed, Free)
           entries == [v \in Pages |-> Shared(pte[current][v])]
       IN
       /\ pte' = [pte EXCEPT ![current] = entries, ![nr_tasks] = entries]
       /\ ref' = [f \in Frames |-> IF f \in pages THEN 1 ELSE GetPages(current)[f]]
       /\ kernel' = kernel \cup pages
    /\ FlushTlb
    /\ nr_tasks' = nr_tasks + 1
    /\ UNCHANGED <<current, data, halted>>

-----------------------------------------------------------------------------
\* switch_to: the scheduler hands the hart to another task; switch_mm loads
\* its pgd and flushes the TLB.  Which task is next is the Sched module's
\* concern; here it may be any.
Switch(t) ==
    /\ halted = "no"
    /\ t # current
    /\ current' = t
    /\ FlushTlb
    /\ UNCHANGED <<nr_tasks, pte, ref, data, kernel, halted>>

\* Err prints its message and loops for ever.
Halted == halted # "no" /\ UNCHANGED vars

Init ==
    /\ nr_tasks = BootTasks
    /\ current = 0
    /\ pte = [t \in TaskIds |-> [v \in Pages |-> NoPte]]
    /\ ref = [f \in Frames |-> 0]
    /\ data = [f \in Frames |-> Zero]
    /\ tlb = EmptyTlb
    /\ kernel = {}
    /\ halted = "no"

Next ==
    \/ \E v \in Pages : TlbFill(v)
    \/ \E v \in Pages, x \in Values : Store(v, x)
    \/ \E v \in Pages, a \in Access :
          \/ BadAccess(v, a)
          \/ FaultOutOfMemory(v, a)
          \/ CopyOnWrite(v, a)
          \/ DemandPage(v, a)
    \/ ForkFails
    \/ Fork
    \/ \E t \in UserTasks : Switch(t)
    \/ Halted

Spec == Init /\ [][Next]_vars

-----------------------------------------------------------------------------
(* Properties.                                                             *)

\* The tasks that have frame f mapped.
Mappers(f) == {t \in UserTasks : \E v \in Pages : pte[t][v].frame = f}

\* The reference count of a frame is the number of tasks that map it, or one
\* for a page the kernel keeps, which nobody maps: get_page in do_fork and
\* put_page in do_page_fault balance, so a frame is freed when its last user
\* is gone, never earlier and never twice.
RefCountExact ==
    \A f \in Frames :
        IF f \in kernel
        THEN ref[f] = 1 /\ Mappers(f) = {}
        ELSE ref[f] = Cardinality(Mappers(f))

\* A frame that some entry maps writable is mapped by that entry only: the
\* W bit is cleared on both sides of a fork and comes back with the copy.
WritableUnshared ==
    \A t \in UserTasks, v \in Pages :
        "W" \in pte[t][v].perm =>
            \A u \in UserTasks, w \in Pages :
                pte[u][w].frame = pte[t][v].frame => t = u /\ v = w

\* What the page tables owe to do_page_fault and do_fork: a valid entry grants
\* what the VMA grants but perhaps the write permission (so that a mapped page
\* only faults for copy on write and never loses its frame to a fresh one), a
\* task maps a frame once, and a task that does not exist yet maps nothing.
TablesSound ==
    /\ \A t \in TaskIds, v \in Pages :
          IF pte[t][v].frame = NoFrame
          THEN pte[t][v].perm = {}
          ELSE pte[t][v].perm \in {PermAt(v), PermAt(v) \ {"W"}}
    /\ \A t \in UserTasks, v, w \in Pages :
          pte[t][v].frame = pte[t][w].frame /\ pte[t][v].frame # NoFrame => v = w
    /\ \A t \in TaskIds \ UserTasks, v \in Pages : pte[t][v] = NoPte

\* Every entry the hart has cached is the one in the page table: the
\* sfence.vma at the end of do_page_fault, do_fork and switch_mm come after
\* every change of an entry and of satp.
TlbCoherent == \A v \in DOMAIN tlb : tlb[v] = pte[current][v]

\* The inductive invariant.
IInv == TypeOK /\ TablesSound /\ RefCountExact /\ WritableUnshared /\ TlbCoherent

\* do_page_fault makes the faulting access possible: when it took a frame, one
\* entry has changed, and what the hart now uses for that page allows every
\* access the VMA allows, so the retried instruction does not fault for ever.
FaultResolves ==
    [][ref' # ref /\ nr_tasks' = nr_tasks =>
         \E v \in Pages :
            /\ pte'[current][v] # pte[current][v]
            /\ Translation(v)'.perm = PermAt(v)
            /\ \A u \in Pages \ {v} : pte'[current][u] = pte[current][u]]_vars

\* What task t finds in page v: the content of the frame it maps.
Memory ==
    [t \in TaskIds |-> [v \in Pages |->
        IF pte[t][v].frame = NoFrame THEN NoFrame ELSE data[pte[t][v].frame]]]

Private == INSTANCE PrivateMemory WITH
    Writable  <- {v \in Pages : "W" \in PermAt(v)},
    Initial   <- [v \in Pages |-> IF AnonAt(v) THEN Values ELSE {FileData[v]}],
    Untouched <- NoFrame,
    mem       <- Memory

\* User programs cannot tell copy on write from private memories: the stores
\* of a task, the faults and the forks implement PrivateMemory, with Memory
\* for its mem.
PrivateMemorySpec == Private!Spec

\* do_fork copies the page table "if this vma has page table" and skips what
\* has none (the comments of its loop): it does not follow a NULL pointer.
ForkSkipsMissingTables == halted # "kernel_fault"
=============================================================================
