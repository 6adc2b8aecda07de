------------------------------ MODULE Segments ------------------------------
(***************************************************************************)
(* The program's segments: load_elf makes one VMA of each program header   *)
(* (proc.c), do_mmap links it into the task's list (vm.c), do_page_fault   *)
(* fills a page of it from the image on the first access, and do_fork      *)
(* copies the list.                                                        *)
(*                                                                         *)
(* Frames, page tables and sharing are the subject of CowVM and PageTable: *)
(* here a task maps a page to its permissions and its bytes, one by one,   *)
(* so that the arithmetic of offsets and sizes shows.                      *)
(***************************************************************************)
EXTENDS Integers, Sequences, FiniteSetsExt

CONSTANTS
    PageSize,   \* PGSIZE
    UserEnd,    \* USER_END, a multiple of PageSize
    Layouts,    \* program headers of the images considered: sequences of Phdr
    ImageSize,  \* bound on the bytes after _sramdisk that a fault may copy
    StoreAddrs, \* bound: the addresses at which the program stores
    MaxTasks    \* bound on the user tasks

Perms == {"R", "W", "X"}

\* Elf64_Phdr.
Phdr == [p_type : {"PT_LOAD", "PT_NOTE"}, p_vaddr : Nat, p_memsz : Nat, p_filesz : Nat,
         p_offset : Nat, p_flags : SUBSET Perms]

\* The kernel checks none of what follows of a program header: user.lds links the
\* programs below the stack, and the image is as long as its segments.
ASSUME SegmentsAssumption ==
    /\ PageSize \in Nat \ {0} /\ MaxTasks \in Nat \ {0} /\ ImageSize \in Nat
    /\ UserEnd \in Nat \ {0} /\ (UserEnd \div PageSize) * PageSize = UserEnd
    /\ StoreAddrs \subseteq 0 .. UserEnd - 1
    /\ Layouts \subseteq Seq(Phdr)
    /\ \A phdrs \in Layouts : \A i \in DOMAIN phdrs :
          phdrs[i].p_type = "PT_LOAD" =>
              /\ phdrs[i].p_vaddr + phdrs[i].p_memsz <= UserEnd - PageSize
              /\ phdrs[i].p_offset + phdrs[i].p_memsz <= ImageSize

VARIABLES
    image,      \* the program headers of the image
    node,       \* node[n]: the VMA that the n-th kalloc of do_mmap made
    mmap,       \* mmap[t]: head of the list of task t, 0 for NULL
    pages,      \* pages[t][p]: what task t sees at page p, NoPage if unmapped
    nr_tasks,   \* tasks 1 .. nr_tasks exist
    halted      \* "no", or why the kernel stopped

vars == <<image, node, mmap, pages, nr_tasks, halted>>

Tasks  == 1 .. nr_tasks
Addrs  == 0 .. UserEnd - 1
VPages == 0 .. UserEnd \div PageSize - 1
Offsets == 0 .. PageSize - 1

PageOf(a)    == a \div PageSize
RoundDown(a) == (a \div PageSize) * PageSize          \* PGROUNDDOWN
RoundUp(a)   == RoundDown(a + PageSize - 1)           \* PGROUNDUP
Larger(a, b)  == IF a > b THEN a ELSE b
Smaller(a, b) == IF a < b THEN a ELSE b

\* A byte: o >= 0 is the byte at _sramdisk + o.
Zero   == -1    \* memory nobody wrote since the machine started
Stale  == -2    \* left by the page's last user
Stored == -3    \* stored by the program
NoPage == [perm |-> {}, bytes |-> <<>>]

Vma == [vm_mm : Nat, vm_start : Nat, vm_end : Nat, vm_pgoff : Nat, vm_filesz : Nat,
        vm_flags : SUBSET (Perms \cup {"ANON"}), vm_next : Nat, vm_prev : Nat]

TypeOK ==
    /\ image \in Layouts
    /\ node \in Seq(Vma)
    /\ mmap \in [1 .. MaxTasks -> 0 .. Len(node)]
    /\ \A n \in DOMAIN node : {node[n].vm_next, node[n].vm_prev} \subseteq 0 .. Len(node)
    /\ pages \in [1 .. MaxTasks -> [VPages -> {NoPage} \cup
                    [perm : SUBSET Perms, bytes : [Offsets -> Stored .. ImageSize]]]]
    /\ nr_tasks \in 1 .. MaxTasks
    /\ halted \in {"no", "no_vma", "no_permission"}

-----------------------------------------------------------------------------
(* The list of VMAs.  h is the heap of nodes with the heads: <<node, mmap>>. *)

SetPrev(nodes, old, new) ==
    IF old = 0 THEN nodes ELSE [nodes EXCEPT ![old].vm_prev = new]

\* v holds the fields that do_mmap gets from its caller.
do_mmap(h, t, v) ==
    LET new == Len(h[1]) + 1
        old == h[2][t]
    IN
    << Append(SetPrev(h[1], old, new),
              [vm_mm |-> t, vm_start |-> v.addr, vm_end |-> v.addr + v.len,
               vm_pgoff |-> v.pgoff, vm_filesz |-> v.filesz, vm_flags |-> v.flags,
               vm_next |-> old, vm_prev |-> 0]),
       [h[2] EXCEPT ![t] = new] >>

\* do_mmap for areas[i], i \in chosen, in their order.
MmapAll(h, t, areas, chosen) ==
    LET done[i \in 0 .. Len(areas)] ==
            IF i = 0 THEN h
            ELSE IF i \in chosen THEN do_mmap(done[i - 1], t, areas[i]) ELSE done[i - 1]
    IN done[Len(areas)]

\* The area of a program header.
Segment(ph) == [addr |-> ph.p_vaddr, len |-> ph.p_memsz, pgoff |-> ph.p_offset,
                filesz |-> ph.p_filesz, flags |-> ph.p_flags]

\* One area for every header of type PT_LOAD, in their order.
load_elf(h, t) ==
    MmapAll(h, t, [i \in DOMAIN image |-> Segment(image[i])],
            {i \in DOMAIN image : image[i].p_type = "PT_LOAD"})

Stack == [addr |-> UserEnd - PageSize, len |-> PageSize, pgoff |-> 0, filesz |-> 0,
          flags |-> {"R", "W", "ANON"}]

\* The nodes of a list, from node n on.
From(nodes) ==
    LET walk[n \in 0 .. Len(nodes)] ==
            IF n = 0 THEN <<>> ELSE <<n>> \o walk[nodes[n].vm_next]
    IN walk
List(t) == From(node)[mmap[t]]

\* find_vma: 0 for NULL, else the first node whose area holds a.
find_vma(t, a) ==
    LET l == List(t)
        hits == {i \in DOMAIN l : node[l[i]].vm_start <= a /\ a < node[l[i]].vm_end}
    IN IF hits = {} THEN 0 ELSE l[Min(hits)]

FlagsAt(t, a) == IF find_vma(t, a) = 0 THEN {} ELSE node[find_vma(t, a)].vm_flags

-----------------------------------------------------------------------------
(* Page faults.                                                            *)

\* Mutant: the offset in the file is that of the faulting address' page.
PageSource(v, a) == v.vm_pgoff + RoundDown(a)

\* file_start - _sramdisk: where the copy of a fault at a begins.
FileStart(v, a) == v.vm_pgoff + (Larger(RoundDown(a), v.vm_start) - v.vm_start)

\* Where it ends: the page's end or the segment's.
CopyEnd(v, a) == Smaller(RoundUp(a + 1), v.vm_end)

\* The page that the demand paging branch maps for a fault at a.
Filled(v, a, fill) ==
    LET first == Larger(RoundDown(a), v.vm_start) IN
    [o \in Offsets |->
        LET b == RoundDown(a) + o IN
        IF "ANON" \notin v.vm_flags /\ first <= b /\ b < CopyEnd(v, a)
        THEN FileStart(v, a) + (b - first)
        ELSE fill]

\* VM_READ, VM_WRITE and VM_EXEC have the bits of PERM_R, PERM_W and PERM_X.
PagePerm(v) == v.vm_flags \ {"ANON"}

Running(t) == halted = "no" /\ t \in Tasks
Faults(t, a, access) == access \notin pages[t][PageOf(a)].perm
SetPage(t, a, page) == pages' = [pages EXCEPT ![t][PageOf(a)] = page]

\* Mutant: a store to a page that is there and not writable takes a new page.
NeverCow(t, a, access) == FALSE

\* A store to a page that is there and not writable.
IsCow(t, a, access) ==
    access = "W" /\ pages[t][PageOf(a)] # NoPage /\ "W" \notin pages[t][PageOf(a)].perm

\* Err: no area, or one without the permission.
BadAccess(t, a, access) ==
    /\ Running(t)
    /\ Faults(t, a, access)
    /\ access \notin FlagsAt(t, a)
    /\ halted' = IF find_vma(t, a) = 0 THEN "no_vma" ELSE "no_permission"
    /\ UNCHANGED <<image, node, mmap, pages, nr_tasks>>

\* do_page_fault.  The page comes from alloc_page, which clears nothing: it is
\* zero if it was never used, and pages come back only once tasks share them.
do_page_fault(t, a, access) ==
    /\ Running(t)
    /\ Faults(t, a, access)
    /\ access \in FlagsAt(t, a)
    /\ LET v == node[find_vma(t, a)] IN
       \/ /\ IsCow(t, a, access)
          /\ SetPage(t, a, [pages[t][PageOf(a)] EXCEPT !.perm = PagePerm(v)])
       \/ /\ ~IsCow(t, a, access)
          /\ \E fill \in {Zero} \cup (IF nr_tasks > 1 THEN {Stale} ELSE {}) :
                 SetPage(t, a, [perm |-> PagePerm(v), bytes |-> Filled(v, a, fill)])
    /\ UNCHANGED <<image, node, mmap, nr_tasks, halted>>

\* The program stores a byte.
Store(t, a) ==
    /\ Running(t)
    /\ ~Faults(t, a, "W")
    /\ pages[t][PageOf(a)].bytes[a % PageSize] # Stored
    /\ pages' = [pages EXCEPT ![t][PageOf(a)].bytes[a % PageSize] = Stored]
    /\ UNCHANGED <<image, node, mmap, nr_tasks, halted>>

-----------------------------------------------------------------------------
(* do_fork.                                                                *)

\* Mutant: the child keeps the head that came with the task_struct.
KeepList(t) == mmap[t]

ClearedList(t) == 0

\* The pages of the parent's areas; a page is found by each area it is in.
AreaPages(t) ==
    UNION {PageOf(node[n].vm_start) .. PageOf(node[n].vm_end - 1) :
              n \in {List(t)[i] : i \in DOMAIN List(t)}}

\* What do_fork passes to do_mmap for an area of the parent.
AreaOf(v) == [addr |-> v.vm_start, len |-> v.vm_end - v.vm_start, pgoff |-> v.vm_pgoff,
              filesz |-> v.vm_filesz, flags |-> v.vm_flags]
Areas(t) == [i \in DOMAIN List(t) |-> AreaOf(node[List(t)[i]])]

\* The program runs and has a stack, so find_pte finds the tables.
HasTables(t) ==
    /\ \E p \in AreaPages(t) \ {PageOf(Stack.addr)} : pages[t][p] # NoPage
    /\ pages[t][PageOf(Stack.addr)] # NoPage

ReadOnly(t) == [p \in VPages |-> [pages[t][p] EXCEPT !.perm = @ \ {"W"}]]

do_fork(t) ==
    /\ Running(t)
    /\ nr_tasks < MaxTasks
    /\ HasTables(t)
    /\ LET child == nr_tasks + 1
           h == MmapAll(<<node, [mmap EXCEPT ![child] = ClearedList(t)]>>, child, Areas(t),
                        DOMAIN Areas(t))
       IN
       /\ node' = h[1]
       /\ mmap' = h[2]
       /\ pages' = [pages EXCEPT ![t] = ReadOnly(t), ![child] = ReadOnly(t)]
       /\ nr_tasks' = child
    /\ UNCHANGED <<image, halted>>

Halted == halted # "no" /\ UNCHANGED vars

Init ==
    /\ image \in Layouts
    /\ LET h == do_mmap(load_elf(<< <<>>, [t \in 1 .. MaxTasks |-> 0] >>, 1), 1, Stack)
       IN node = h[1] /\ mmap = h[2]
    /\ pages = [t \in 1 .. MaxTasks |-> [p \in VPages |-> NoPage]]
    /\ nr_tasks = 1
    /\ halted = "no"

Next ==
    \/ \E t \in Tasks, a \in Addrs, access \in Perms :
          do_page_fault(t, a, access) \/ BadAccess(t, a, access)
    \/ \E t \in Tasks, a \in StoreAddrs : Store(t, a)
    \/ \E t \in Tasks : do_fork(t)
    \/ Halted

Spec == Init /\ [][Next]_vars

-----------------------------------------------------------------------------
(* Properties.                                                             *)

ByteAt(t, a) == pages[t][PageOf(a)].bytes[a % PageSize]
IsMapped(t, a) == pages[t][PageOf(a)] # NoPage

Loads == {image[i] : i \in {j \in DOMAIN image : image[j].p_type = "PT_LOAD"}}
Holds(ph, a) == ph.p_vaddr <= a /\ a < ph.p_vaddr + ph.p_memsz
InFile(ph, a) == Holds(ph, a) /\ a < ph.p_vaddr + ph.p_filesz

\* No page belongs to two segments.
PagesApart ==
    LET Held(ph) == {PageOf(a) : a \in {b \in Addrs : Holds(ph, b)}} IN
    \A f, g \in Loads : f # g => Held(f) \cap Held(g) = {}

\* Every byte of the file part of a segment is in its place in every task that
\* has its page, or the program has stored there: whatever address of the page
\* was touched first, and however far fork and copy on write have carried it.
SegmentsLoaded ==
    \A t \in Tasks, a \in Addrs, ph \in Loads :
        IsMapped(t, a) /\ InFile(ph, a) =>
            ByteAt(t, a) \in {ph.p_offset + (a - ph.p_vaddr), Stored}

SegmentsLoadedApart == SegmentsLoaded \/ ~PagesApart

\* What a program has stored stays until it stores again: no later fault, of
\* its own or after a fork, brings the file's bytes back.
StoresKept ==
    [][PagesApart =>
          \A t \in Tasks, a \in Addrs :
              IsMapped(t, a) /\ ByteAt(t, a) = Stored =>
                  pages'[t][PageOf(a)].bytes[a % PageSize] = Stored]_vars

Within(v, a) == v.addr <= a /\ a < v.addr + v.len
ImageAreas == {Segment(ph) : ph \in Loads} \cup {Stack}

\* Nodes first .. last are linked as a list of task t, the last one its head,
\* and hold these areas.
Chain(nodes, t, first, last, areas) ==
    /\ \A n \in first .. last :
          /\ nodes[n].vm_mm = t
          /\ nodes[n].vm_next = IF n = first THEN 0 ELSE n - 1
          /\ nodes[n].vm_prev = IF n = last THEN 0 ELSE n + 1
    /\ {AreaOf(nodes[n]) : n \in first .. last} = areas

\* Every task has a list of as many nodes as the first one, with the areas of
\* the image and the stack: do_fork turns it round and loses nothing.
Linked ==
    /\ mmap[1] > 0
    /\ \A n \in DOMAIN node : node[n].vm_next < n
    /\ \A t \in Tasks :
          /\ mmap[1] <= mmap[t]
          /\ Chain(node, t, mmap[t] - mmap[1] + 1, mmap[t], ImageAreas)

\* A page has the permissions of the area it belongs to, W but for sharing.
PermsOfArea ==
    PagesApart =>
        \A t \in Tasks, a \in Addrs, v \in ImageAreas :
            IsMapped(t, a) /\ Within(v, a) =>
                v.flags \ {"ANON", "W"} \subseteq pages[t][PageOf(a)].perm

\* The inductive invariant.
IInv == TypeOK /\ Linked /\ PermsOfArea /\ SegmentsLoadedApart

\* A task finds the areas that the program headers and the stack say, whatever
\* the number of forks that turned its list round.
AreasFound ==
    \A t \in Tasks :
        LET l == List(t) IN
        /\ \A i \in DOMAIN l :
              /\ node[l[i]].vm_mm = t
              /\ node[l[i]].vm_prev = IF i = 1 THEN 0 ELSE l[i - 1]
        /\ \A a \in Addrs :
              LET n == find_vma(t, a) IN
              IF a >= Stack.addr THEN n # 0 /\ node[n].vm_flags = Stack.flags
              ELSE IF \E ph \in Loads : Holds(ph, a)
              THEN n # 0 /\ \E ph \in Loads :
                        /\ Holds(ph, a) /\ node[n].vm_flags = ph.p_flags
                        /\ node[n].vm_pgoff - node[n].vm_start = ph.p_offset - ph.p_vaddr
              ELSE n = 0

\* What do_mmap keeps of the lists, and do_page_fault and do_fork of the pages.
ListsSound == IInv /\ AreasFound
=============================================================================
