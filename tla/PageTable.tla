------------------------------ MODULE PageTable ------------------------------
(***************************************************************************)
(* The Sv39 page tables of arch/riscv/kernel/vm.c as pages of memory:      *)
(* setup_vm, setup_vm_final, create_mapping and find_pte, and the way      *)
(* task_init, do_page_fault and do_fork (proc.c) use them.                 *)
(*                                                                         *)
(* Memory is Ram frames of Fan words.  A word is a page table entry, its   *)
(* A and D bits left out: the code never looks at them.  A frame that      *)
(* kalloc() returns holds whatever it held before; frames that held user   *)
(* data come back through put_page with words of UserWords.  Frames the    *)
(* kernel takes for task_structs and VMAs are not counted here (CowVM).    *)
(***************************************************************************)
EXTENDS Integers, FiniteSets, Sequences

CONSTANTS
    Fan,        \* entries of a table (512)
    PageBytes,  \* PGSIZE
    Ram,        \* frames 0 .. Ram-1, PHY_START is the address of frame 0
    VmStart,    \* VM_START, less its sign extension: where the kernel sees frame 0
    Sections,   \* the calls of setup_vm_final: [start, pa, size, bits]
    Device,     \* page frames of the virtio registers, numbered after the memory
    Firmware,   \* frames of OpenSBI, below the image: setup_vm_final leaves them out
    Image,      \* frames of the firmware and the kernel image, never free
    EarlyDir,   \* frame of early_pgtbl, in the image
    Swapper,    \* frame of swapper_pg_dir, in the image
    Vma,        \* [user pages -> permission bits] of every task
    Orders,     \* orders in which a list of VMAs may have the user pages
    Tasks,      \* 1 .. n, bound on the tasks created
    UserWords,  \* words user data may leave in a frame
    None        \* not mapped

Frames == 0 .. Ram - 1
Huge   == PageBytes * Fan * Fan          \* 1 GiB
Bits   == {"V", "R", "W", "X", "U"}
Access == {"R", "W", "X"}
Null   == -1    \* ppn of the physical address of NULL, outside the memory

\* Turns of create_mapping's loop over offset, and the pages it is about.
PagesOf(size) == (size + PageBytes - 1) \div PageBytes
Covered(s) == {(s.start \div PageBytes) + k - 1 : k \in 1 .. PagesOf(s.size)}

\* vpn[level] of a page number.
Vpn(v, level) ==
    CASE level = 0 -> v % Fan
      [] level = 1 -> (v \div Fan) % Fan
      [] level = 2 -> (v \div (Fan * Fan)) % Fan

Indices   == 0 .. Fan - 1
UserPages == DOMAIN Vma
UserIndices(l) == {Vpn(v, l) : v \in UserPages}
KernelPages == {(VmStart \div PageBytes) + f : f \in Frames \ Firmware}
MappedPages == UNION {Covered(Sections[i]) : i \in DOMAIN Sections}

Empty  == [ppn |-> 0, bits |-> {}]
Words  == [ppn : Frames \cup {Null} \cup Device, bits : SUBSET Bits]

ASSUME SizesAssumption ==
    /\ Fan \in Nat \ {0} /\ PageBytes \in Nat \ {0} /\ Ram \in Nat
    /\ VmStart \in Nat /\ VmStart % Huge = 0
    /\ (VmStart \div PageBytes) + Ram <= Fan * Fan * Fan
    /\ Device \subseteq Nat \ Frames
    /\ Image \subseteq Frames /\ {EarlyDir, Swapper} \subseteq Image \ Firmware
    /\ Firmware \subseteq Image
    /\ EarlyDir # Swapper
    /\ None \notin Frames /\ None \notin [frame : Int, bits : SUBSET Bits]

\* User pages are in the lower half of the address space, the kernel's in
\* the upper: they have no entry of a root in common.
ASSUME PagesAssumption ==
    /\ Vma \in [UserPages -> SUBSET Bits]
    /\ UserPages \cup MappedPages \subseteq 0 .. Fan * Fan * Fan - 1
    /\ \A v \in MappedPages : Vpn(v, 2) \notin UserIndices(2)
    /\ \A pages \in Orders :
          pages \in Seq(UserPages) /\ {pages[n] : n \in DOMAIN pages} = UserPages
    /\ Sections \in Seq([start : Nat, pa : Nat, size : Nat, bits : SUBSET Bits])
    /\ \A i \in DOMAIN Sections : \A k \in 1 .. PagesOf(Sections[i].size) :
          (Sections[i].pa \div PageBytes) + k - 1 \in Frames \cup Device
    /\ UserWords \subseteq Words
    /\ IsFiniteSet(Tasks)
    /\ None \notin [UserPages \cup MappedPages ->
                       [frame : Int, bits : SUBSET Bits] \cup {None}]

VARIABLES
    word,    \* word[f][i]: the memory
    free,    \* frames the allocator may hand out
    pgd,     \* pgd[t]: root of task t, None before it exists
    satp     \* root the hart translates with

vars == <<word, free, pgd, satp>>

Live == {t \in Tasks : pgd[t] # None}

TypeOK ==
    /\ word \in [Frames -> [Indices -> Words]]
    /\ free \subseteq Frames \ Image
    /\ pgd \in [Tasks -> Frames \cup {None}]
    /\ satp \in Frames

-----------------------------------------------------------------------------
Valid(e) == "V" \in e.bits
IsLeaf(e) == e.bits \cap Access # {}

\* The hardware's walk, for a page number: a leaf at the root covers Fan * Fan
\* pages; what is not in memory faults.
Walk(mem, root, v) ==
    LET e2 == mem[root][Vpn(v, 2)]
        e1 == mem[e2.ppn][Vpn(v, 1)]
        e0 == mem[e1.ppn][Vpn(v, 0)]
    IN
    CASE ~Valid(e2) -> None
      [] Valid(e2) /\ IsLeaf(e2) ->
           [frame |-> e2.ppn + (v % (Fan * Fan)), bits |-> e2.bits]
      [] OTHER ->
           IF e2.ppn \notin Frames \/ ~Valid(e1) \/ e1.ppn \notin Frames
              \/ ~Valid(e0)
           THEN None
           ELSE [frame |-> e0.ppn, bits |-> e0.bits]

\* The walk leaves the memory: an access fault, on which the kernel stops.
WalkLost(root, v) ==
    LET e2 == word[root][Vpn(v, 2)] IN
    /\ Valid(e2)
    /\ \/ e2.ppn = Null
       \/ Valid(word[e2.ppn][Vpn(v, 1)]) /\ word[e2.ppn][Vpn(v, 1)].ppn = Null

\* find_pte: the frame of the last-level table, None where it returns 0.
find_pte(mem, root, v) ==
    LET e2 == mem[root][Vpn(v, 2)]
        e1 == mem[e2.ppn][Vpn(v, 1)]
    IN IF ~Valid(e2) \/ ~Valid(e1) THEN None ELSE e1.ppn

-----------------------------------------------------------------------------
(* create_mapping on a memory m = [word, free].                            *)

LowestOf(S) == CHOOSE f \in S : \A g \in S : f <= g

\* alloc_page, kalloc: the lowest free page, as it is, or NULL.
kalloc(m) ==
    IF m.free = {}
    THEN [mem |-> m, page |-> Null]
    ELSE [mem |-> [m EXCEPT !.free = @ \ {LowestOf(m.free)}],
          page |-> LowestOf(m.free)]

\* Mutant: the walk goes on with what the entry held before.
DescendOld(m, table, i) ==
    LET e == m.word[table][i]
        k == kalloc(m)
    IN IF Valid(e)
       THEN [mem |-> m, next |-> e.ppn]
       ELSE [mem |-> [k.mem EXCEPT !.word[table][i] =
                         [ppn |-> k.page, bits |-> {"V"}]],
             next |-> e.ppn]

\* One level down: an invalid entry gets a page from kalloc(), and is written
\* before the pointer is tested.
Descend(m, table, i) ==
    LET e == m.word[table][i]
        k == kalloc(m)
    IN IF Valid(e)
       THEN [mem |-> m, next |-> e.ppn]
       ELSE [mem |-> [k.mem EXCEPT !.word[table][i] =
                         [ppn |-> k.page, bits |-> {"V"}]],
             next |-> k.page]

\* One turn of the loop; ok is FALSE where it returns.
MapPage(m, root, v, ppn, bits) ==
    LET pmd == Descend(m, root, Vpn(v, 2))
        pte == Descend(pmd.mem, pmd.next, Vpn(v, 1))
    IN CASE pmd.next = Null -> [mem |-> pmd.mem, ok |-> FALSE]
         [] pmd.next # Null /\ pte.next = Null -> [mem |-> pte.mem, ok |-> FALSE]
         [] OTHER ->
              [mem |-> [pte.mem EXCEPT !.word[pte.next][Vpn(v, 0)] =
                           [ppn |-> ppn, bits |-> bits]],
               ok |-> TRUE]

\* create_mapping for addresses va and pa that need not be aligned: what the
\* turns of its loop leave.
Turns(m, root, va, pa, bits, n) ==
    LET turn[k \in 0 .. n] ==
            IF k = 0 THEN [mem |-> m, ok |-> TRUE]
            ELSE LET s == turn[k - 1] IN
                 IF s.ok
                 THEN MapPage(s.mem, root, (va \div PageBytes) + k - 1,
                              (pa \div PageBytes) + k - 1, bits)
                 ELSE s
    IN turn

create_mapping(m, root, va, pa, size, bits) ==
    Turns(m, root, va, pa, bits, PagesOf(size))[PagesOf(size)].mem

Memory == [word |-> word, free |-> free]
Store(m) == word' = m.word /\ free' = m.free
-----------------------------------------------------------------------------
(* Boot.                                                                   *)

\* setup_vm: a leaf of 1 GiB for every part of the memory, at VM_START.
EarlyTable == [i \in Indices |->
    LET n == i - Vpn(VmStart \div PageBytes, 2) IN
    IF 0 <= n /\ n * Huge < Ram * PageBytes
    THEN [ppn |-> n * Fan * Fan, bits |-> {"V", "R", "W", "X"}] ELSE Empty]

\* The sections of setup_vm_final, mapped one after another.
Mapped(m) ==
    LET after[n \in 0 .. Len(Sections)] ==
            IF n = 0 THEN m
            ELSE LET s == Sections[n] IN
                 create_mapping(after[n - 1], Swapper, s.start, s.pa, s.size,
                                s.bits \cup {"V"})
    IN after

\* setup_vm_final: clear the root, map the sections, set satp.
setup_vm_final ==
    /\ satp = EarlyDir
    /\ LET cleared == [Memory EXCEPT !.word[Swapper] = [i \in Indices |-> Empty]]
       IN Store(Mapped(cleared)[Len(Sections)])
    /\ satp' = Swapper
    /\ UNCHANGED pgd

\* Mutant: a new root starts as the page was.
NoCopy(m, root) == m

\* memcpy(pgd, swapper_pg_dir, PGSIZE)
CopySwapper(m, root) == [m EXCEPT !.word[root] = m.word[Swapper]]

\* task_init: a root for task t, with the kernel's entries.  The tasks of
\* task_init have no user page yet.
task_init(t) ==
    /\ satp = Swapper
    /\ t \notin Live /\ \A u \in Tasks : u < t => u \in Live
    /\ LET k == kalloc(Memory) IN
       /\ k.page # Null
       /\ Store(CopySwapper(k.mem, k.page))
       /\ pgd' = [pgd EXCEPT ![t] = k.page]
    /\ UNCHANGED satp

-----------------------------------------------------------------------------
(* A running task.                                                         *)

switch_mm(t) ==
    /\ t \in Live /\ satp # EarlyDir /\ satp # pgd[t]
    /\ satp' = pgd[t]
    /\ UNCHANGED <<word, free, pgd>>

Current == {t \in Live : pgd[t] = satp}

\* The tasks whose tables hold a leaf for frame f: its reference count
\* (RefCountExact of CowVM).
Mappers(f) == {t \in Live : \E v \in UserPages :
                  Walk(word, pgd[t], v) # None /\ Walk(word, pgd[t], v).frame = f}

\* Mutant: buddy_free climbs one node too far and frees the pair of pages.
PutPair(m, f, w) ==
    IF Cardinality(Mappers(f)) > 1 THEN m
    ELSE [m EXCEPT !.free = @ \cup {f, IF f % 2 = 0 THEN f + 1 ELSE f - 1},
                   !.word[f] = [i \in Indices |-> w]]

\* put_page: the page of a last mapper is free, with the words it holds.
PutPage(m, f, w) ==
    IF Cardinality(Mappers(f)) > 1 THEN m
    ELSE [m EXCEPT !.free = @ \cup {f}, !.word[f] = [i \in Indices |-> w]]

\* do_page_fault on a page that is not mapped, or mapped for copy on write;
\* w is what user code had stored in the page that is copied.
do_page_fault(t, v, w) ==
    /\ t \in Current
    /\ free # {} /\ ~WalkLost(pgd[t], v)
    /\ LET old == Walk(word, pgd[t], v)
           k   == kalloc(Memory)
           cow == old # None
       IN
       /\ cow => "W" \in Vma[v] /\ "W" \notin old.bits
       /\ ~cow => w = Empty
       /\ LET m == IF cow THEN PutPage(k.mem, old.frame, w) ELSE k.mem IN
          Store(MapPage(m, pgd[t], v, k.page, Vma[v] \cup {"U", "V"}).mem)
    /\ UNCHANGED <<pgd, satp>>

\* Mutant: the parent's entry is left alone.
LeaveEntry(m, table, i) == m

\* *pte &= ~PERM_W
ClearWrite(m, table, i) ==
    [m EXCEPT !.word[table][i].bits = @ \ {"W"}]

\* A mapped page: the W bit goes in the parent's entry, then the child's is
\* made.  A page whose tables cannot be allocated is missing in the child.
Share(m, parent, child, v) ==
    LET e == Walk(word, parent, v) IN
    IF e = None THEN m
    ELSE MapPage(ClearWrite(m, find_pte(m.word, parent, v), Vpn(v, 0)),
                 child, v, e.frame, e.bits \ {"W"}).mem

\* The loops of do_fork over the VMAs and their pages.
Shared(m, parent, child, pages) ==
    LET after[n \in 0 .. Len(pages)] ==
            IF n = 0 THEN m ELSE Share(after[n - 1], parent, child, pages[n])
    IN after

\* do_fork: a root for the child u, with the kernel's entries and the
\* parent's pages.
do_fork(t, u, pages) ==
    /\ t \in Current
    /\ u \notin Live /\ \A x \in Tasks : x < u => x \in Live
    /\ free # {}
    /\ LET k == kalloc(Memory) IN
       /\ Store(Shared(CopySwapper(k.mem, k.page), pgd[t], k.page, pages)[Len(pages)])
       /\ pgd' = [pgd EXCEPT ![u] = k.page]
    /\ UNCHANGED satp

-----------------------------------------------------------------------------
\* setup_vm has run and relocate has set satp; RAM holds zeros.
Init ==
    /\ word = [f \in Frames |-> IF f = EarlyDir THEN EarlyTable
                                ELSE [i \in Indices |-> Empty]]
    /\ free = Frames \ Image
    /\ pgd = [t \in Tasks |-> None]
    /\ satp = EarlyDir

Next ==
    \/ setup_vm_final
    \/ \E t \in Tasks : task_init(t)
    \/ \E t \in Tasks : switch_mm(t)
    \/ \E t \in Tasks, v \in UserPages, w \in UserWords \cup {Empty} :
          do_page_fault(t, v, w)
    \/ \E t, u \in Tasks, pages \in Orders : do_fork(t, u, pages)

Spec == Init /\ [][Next]_vars

-----------------------------------------------------------------------------
(* Properties.                                                             *)

\* The tables below the user entries of a root, and the links to them.
Links(table, l) ==
    {<<table, i>> : i \in {j \in Indices :
        Valid(word[table][j]) /\ (l = 2 => j \in UserIndices(2))}}
Target(link) == word[link[1]][link[2]].ppn
Directories == {Target(k) : k \in UNION {Links(pgd[t], 2) : t \in Live}} \ {Null}
Upper == UNION {Links(pgd[t], 2) : t \in Live}
Lower == UNION {Links(d, 1) : d \in Directories}

\* The tables of all tasks form trees that share nothing below the roots: no
\* two links lead to one table, no table is a root, a page of the image, or
\* a page that is free or mapped by user code.  create_mapping changes no
\* table but those of its own task, whatever was allocated in between.
TablesAreTrees ==
    LET links  == {k \in Upper \cup Lower : Target(k) # Null}
        tables == {Target(k) : k \in links}
    IN /\ \A j, k \in links : Target(j) = Target(k) => j = k
       /\ tables \cap (free \cup Image \cup {pgd[t] : t \in Live}) = {}
       /\ \A f \in tables : Mappers(f) = {}

\* Nothing a task can reach is free: not its root, and not the pages its
\* leaves name.
MappedNotFree ==
    \A t \in Live :
       /\ pgd[t] \notin free
       /\ \A v \in UserPages : Walk(word, pgd[t], v) # None =>
              Walk(word, pgd[t], v).frame \notin free \cup Image

\* What create_mapping, kalloc and put_page keep of the tables and of memory.
TablesSound == TypeOK /\ TablesAreTrees /\ MappedNotFree

\* The tables that the kernel's map needs, named by their indices.  Without a
\* frame for each, setup_vm_final stops short.
KernelTables == {<<Vpn(v, 2)>> : v \in MappedPages}
                    \cup {<<Vpn(v, 2), Vpn(v, 1)>> : v \in MappedPages}
EnoughForKernel == Cardinality(KernelTables) <= Cardinality(Frames \ Image)

\* The leaf a kernel page must have: that of the last section over it.
KernelLeaf(v) ==
    LET n == CHOOSE i \in DOMAIN Sections :
                /\ v \in Covered(Sections[i])
                /\ \A j \in DOMAIN Sections : v \in Covered(Sections[j]) => j <= i
    IN [frame |-> (Sections[n].pa \div PageBytes) + v - (Sections[n].start \div PageBytes),
        bits  |-> Sections[n].bits \cup {"V"}]

\* The sections map the page of every frame but the firmware's, and at its fixed
\* address.
KernelLinear ==
    \A v \in KernelPages :
       /\ v \in MappedPages
       /\ KernelLeaf(v).frame = v - (VmStart \div PageBytes)

\* The translation of the kernel's own addresses does not move when satp
\* changes, from the early table to swapper_pg_dir and from task to task,
\* and the memory of every frame but the firmware's stays reachable at its fixed
\* address: the kernel follows ppn + PA2VA_OFFSET at every level of a walk.
KernelStaysMapped ==
    \A v \in KernelPages :
       /\ Walk(word, satp, v) # None
       /\ Walk(word, satp, v).frame = v - (VmStart \div PageBytes)

\* A page fault maps the page with the permissions of its VMA, unless no
\* frame was left for its tables.
MapsUnlessExhausted ==
    [][pgd' = pgd /\ satp' = satp /\ free' # {} =>
          \E t \in Current, v \in UserPages :
             /\ Walk(word', pgd[t], v) # Walk(word, pgd[t], v)
             /\ Walk(word', pgd[t], v).bits = Vma[v] \cup {"U", "V"}]_vars

\* What setup_vm_final maps.
KernelMap == [v \in MappedPages |-> KernelLeaf(v)]

\* The address space of a task, as the hardware sees it.
Space(t) == IF pgd[t] = None THEN None
            ELSE [v \in UserPages \cup MappedPages |-> Walk(word, pgd[t], v)]

Spaces == INSTANCE AddressSpaces WITH
    Tasks     <- Tasks,
    Kernel    <- KernelMap,
    Leaves    <- [frame : Frames, bits : SUBSET Bits],
    UserPages <- UserPages,
    None      <- None,
    space     <- [t \in Tasks |-> Space(t)]

\* The walks of create_mapping, find_pte and the hardware agree: the tables
\* in memory implement one map for every task, the kernel's pages in each
\* with the permissions of their section.
\* It includes that a page linked as a table holds no entry but the one then
\* written, though kalloc() clears nothing: a step maps one page at most.  That
\* holds because the allocator hands out the lowest page: one that comes back
\* from copy on write is the next one taken, at the start of a handler, and so
\* becomes a page or a root, never a table.
AddressSpacesSpec == Spaces!Spec
=============================================================================
