# A specification of tiny-riscv-kernel

TLA+ modules, TLC configurations and TLAPS proofs for the kernel in `src/`: an
RV64 teaching kernel with Sv39 paging, demand paging, copy on write, a priority
scheduler, a FAT32 file system on a virtio disk and one user program, on one
hart.

## The system

| Part | State | Operations | Works with |
|---|---|---|---|
| Page allocator, `mm.c` | `buddy.bitmap`, `buddy.ref_cnt` | `buddy_init`, `buddy_alloc`, `buddy_free`, `get_page`, `put_page` | called by everything that needs pages |
| Virtual memory, `vm.c` | page tables, VMA lists, the TLB | `create_mapping`, `find_pte`, `do_mmap`, `do_page_fault` | page faults from `trap.c`; pages from `mm.c`; shared frames from `do_fork` |
| Tasks and scheduler, `proc.c` | `task[]`, `nr_tasks`, `current`, `counter`, `priority` | `task_init`, `do_fork`, `do_timer`, `schedule`, `switch_to` | timer interrupts; address spaces; `files` |
| Traps, `entry.S`, `trap.c`, `clock.c` | trap frame, `sscratch`, timer | `_traps`, `trap_handler`, `__switch_to`, `clock_set_next_event` | calls the three parts above |
| System calls, `syscall.c` | – | `clone`, `getpid`, `openat`, `close`, `read`, `write`, `lseek` | files, console, `do_fork` |
| Open files, `fs.c` | `fd_array` of a `files_struct`, which parent and child share | `file_init`, `file_open` | FAT32, console |
| Console, `vfs.c` | – | `stdin_read`, `stdout_write`, `stderr_write` | SBI |
| FAT32, `fat32.c` | the volume, one sector buffer for data and one for the table | `fat32_open_file`, `fat32_lseek`, `fat32_read`, `fat32_write` | block device |
| Partition table, `mbr.c` | `partitions` | `mbr_init` | block device, FAT32 |
| Block device, `virtio.c` | the ring, one request, one status | `virtio_blk_cmd`, `virtio_blk_read_sector`, `virtio_blk_write_sector` | the device |
| Boot, `head.S`, `main.c` | – | `_start`, `relocate`, `start_kernel` | calls every `init` |
| Library, `lib/` | `seed` | `printk`, `rand`, `mem*` | – |
| User program, `user/` | `line_buf` | shell with `echo`, `cat`, `edit` | system calls |

The kernel never sets `sstatus.SIE`: an interrupt is taken in user mode only
(`head.S:42-44`), so a handler runs from trap to `sret` without another task
in between. What is hard here is not preemption inside the kernel but what
survives from one trap to the next: reference counts over generations of
forks, translations cached in the TLB, write permissions that are taken away
in one task and given back in another, counters and timer events over many
ticks, a tree of blocks over a history of splits and merges. Memory can run out
at any allocation, and almost no caller looks.

What makes each part correct:

- allocator: a page has one owner; a block comes back whole; a request that
  could be served is served;
- virtual memory: a task cannot see another task's stores; a frame's count is
  the number of its users; a fault leads to progress;
- scheduler: every task gets its whole slice in every round and none starves;
- traps: a task resumes with the registers it had, the child of a fork with 0;
- files: a descriptor names one open file, and a failed open takes none (the code breaks the
  second: the slot stays open, `fs.c:65`; see "Disagreements");
- FAT32 and block device: a read returns the bytes last written there, clipped
  to the file;
- console and shell: bytes arrive in order and within their buffers.

`PROJECT.json` lists the hazards of this code with their lines, and for each the
properties that would show it going wrong, or why none does yet.

## Modules

| Module | What it is |
|---|---|
| `PrivateMemory` | abstract: every task has a memory of its own, a fork copies it |
| `CowVM` | `do_page_fault`, `do_fork`, `switch_mm`, `get_page`/`put_page` and the TLB; implements `PrivateMemory` |
| `MCCowVM` | a small address space for TLC |
| `CowVMProofs` | theorems about `CowVM` |
| `AddressSpaces` | abstract: one map of pages per task, and the kernel's in each of them |
| `PageTable` | `setup_vm`, `create_mapping`, `find_pte` over frames of words, with their callers; implements `AddressSpaces` |
| `Segments` | `load_elf`, `do_mmap`, the bytes `do_page_fault` copies, the list `do_fork` copies |
| `Rounds` | abstract: tasks run in rounds of one slice each |
| `Sched` | `do_timer`, `schedule`, `do_fork`'s counters, the timer; implements `Rounds` |
| `KernelProofs` | theorems about `PageTable` and `Sched` |
| `UserContexts` | abstract: every task has registers of its own |
| `Trap` | `entry.S`, the dispatchers, the frames of `task_init` and `do_fork`; implements `UserContexts` |
| `PageFrames` | abstract: an allocator of whole aligned blocks with references |
| `Buddy` | `mm.c`; implements `PageFrames` |
| `MemoryProofs` | theorems about `Segments` and `Buddy` |
| `Files` | the seven calls of `syscall.c` over `fs.c` and a shared `files_struct` |
| `FilesProofs` | theorems about `Files` and `Boot` |
| `FlatFiles` | abstract: a file is a sequence of bytes of fixed length |
| `Fat32` | lookup, `lseek`, `read` and `write` of `fat32.c`; implements `FlatFiles` |
| `MCFat32` | a small volume for TLC |
| `Fat32Proofs` | theorems about `Fat32` |
| `BlockDevice` | abstract: a disk that serves one request at a time |
| `VirtioBlk` | `virtio.c` and the device; implements `BlockDevice` |
| `VirtioBlkProofs` | theorems about `VirtioBlk` |
| `Boot` | `head.S`, `mbr.c`, `is_fat32` and `fat32_init`, up to the first program |
| `Printk` | `vprintfmt` and its helpers |
| `PrintkFormats` | the formats that are tried, and what C says of each |
| `Console` | `printf`, `write`, `stdout_write` and `stderr_write` |
| `ConsoleCalls` | a program that prints, call after call |
| `PrintkProofs` | theorems about `PrintkFormats` and `ConsoleCalls` |
| `CommandLine` | abstract: keys make up a line one by one, a line is a command |
| `Shell` | `user/main.c` over `Console`; implements `CommandLine` |
| `ProgramProofs` | theorems about `Shell` and `Trap` |
| `MCPageTable`, `MCMemory`, `MCFiles`, `MCPrograms` | instances for TLC, most of several components |

An operator whose comment begins with `Mutant` is a plausible bug of the
definition after it; no specification uses it. `PROJECT.json` pairs each with
the property it breaks.

### CowVM

`pte[t][v]` is the last-level entry of page `v` in task `t`'s tables: a frame
(the valid bit is `frame # NoFrame`) and its R/W/X bits. `ref` is
`buddy.ref_cnt`, `data` the content of the frames, `tlb` what the hart has
cached of the current address space, `kernel` the pages that went into tables,
task structures and VMAs. VMAs never change after `task_init` and `do_fork`
copies them, so they are the constant `Vmas`.

| Action | Code |
|---|---|
| `Store`, `TlbFill` | user instructions and the hart |
| `BadAccess` | `do_page_fault` up to its four `Err` calls |
| `CopyOnWrite` | the `is_cow` branch: copy, `put_page`, `create_mapping`, `sfence.vma` |
| `DemandPage` | the other branch; takes the page and the tables it needs |
| `FaultOutOfMemory` | either branch when an allocation returns NULL |
| `Fork` | all of `do_fork`'s work on memory |
| `ForkFails` | `do_fork` when a page is missing or `find_pte` returns NULL |
| `Switch` | `switch_to` and `switch_mm` |

`create_mapping` is represented by its effect on the entry and by the number of
table pages it has to take (`TablesFor`); `find_pte` by whether the table exists
(`HasTable`). `Frames` are the page numbers that are free after boot, and a
frame is free when its count is zero, which is what `Buddy` provides; a request
for one page gets the lowest, as `PageFrames` says. The TLB may cache any entry
at any time, invalid ones too, and keeps it until `sfence.vma`. The child's
copy of the kernel stack and its trap frame are not in the model. A handler is
one action: no other code runs on the hart meanwhile, and where it stops half
way the model stops in `halted`, which says why: `Err` in the fault handler,
`get_page` of a mapped frame with no reference (`panic`), a NULL pointer. What the machine
does after a store through NULL is not modelled. After a failed allocation of a table the code
writes a line to the log and goes on (`vm.c:113-116`), with a frame that is counted and not mapped; `CowVM`
halts there, so `RefCountExact` says nothing of what follows. `PageTable` goes on as the code does.

### Sched

`counter` and `priority` are the fields of `task_struct`; `timer` is armed or
expired; `mode` tells the boot code, user mode and a console read in the kernel
apart. `StartKernel` is `start_kernel`, `TimerInterrupt` is `trap_handler` with
`clock_set_next_event`, `do_timer`, `schedule` and `switch_to`, `Fork` what
`do_fork` does to the scheduling fields, `ReadConsole`/`ReadReturns` a
`stdin_read`, `Panic` any `Err`, after which the kernel loops (`Halted`). `born` is a history variable: the tasks forked in this round, whose
slice may be a rest of their parent's. Any priority in
`PRIORITY_MIN..PRIORITY_MAX` may come out of `rand()`. The two modules over tasks meet in
`current` and `nr_tasks`: `CowVM` lets `Switch` choose any task, `Sched` says which
one it will be, so what is shown of `CowVM` holds under this scheduler.

### Buddy

`bitmap` and `ref_cnt` are the arrays, `ret` what the last `buddy_alloc`
returned. The tree is the array of the code, with its index arithmetic. Sizes (`Pow`, `NodeSize`),
the way from a node to the root (`Path`) and a walk down are recursive functions;
`Climb` is where `buddy_free` stops on the way up, the first zero of a path or the root. `fixsize`
gives `2 * Size` for every request that is larger than the tree: `buddy_alloc` refuses them all. `Alloc`/`AllocFails` are `buddy_alloc` with its
two outcomes, `PutPage` is `put_page` with `page_ref_dec` and `buddy_free`. Callers keep the
contract: `get_page` and `put_page` on the first page of a block in use. `CowVM`
shows this of the two callers the kernel has: `RefCountExact` makes every count
of a mapped frame positive, and `CopyOnWrite` puts a mapped frame. `free_pages` and
`kfree` return at once for a page in use, and nothing calls them, so they are no
action.

The blocks in use are not stored anywhere; the refinement mapping `Blocks`
reads them off the tree, as `buddy_free` does: a zero node whose left child still
looks free (`IsBlock`) was handed out whole, any other zero node has nothing free below.

### Fat32

`handle[h]` is the part of `struct file` that FAT32 uses: the directory entry
it was opened on and `cfo`. `disk` is the data area, sector by sector. `call` holds
the locals of the `fat32_read` or `fat32_write` that runs: the two functions are
the same two nested loops, and an action is one turn of the inner one, so that
a property can speak about the middle of a transfer.

| Action | Code |
|---|---|
| `Open` | `fat32_open_file`, with `file_open`'s test of `cluster == 0` |
| `Seek` | `fat32_lseek`; a `whence` other than the three stops in `Err` and is left out |
| `AtEnd`, `Begin` | the prologue: the early return, or `max_cfo` and the first cluster |
| `Skip`, `Enough`, `Copy` | the inner loop's `continue`, `break` and copying turn |
| `AdvanceCluster` | the outer loop's step, with the one sector of the table that was read |
| `Return` | `file->cfo = cfo` and the result |

The directory and the allocation table are constants: no call changes them. The
sector buffers are refilled before every use and so are not state. Names are compared as
a whole; a deleted entry (first byte 0xe5) matches none. The device is a map
from sectors to contents: a `BlockDevice` whose `Serve` does not fail.
`before` is a history variable: the disk when the running call began. While a
call runs, the refinement mapping shows `FlatFiles` the old contents, offset and
reply; `Return` shows it the new ones at once, so the whole loop is one abstract
read or write. The other task that could see a transfer half done does not run:
the kernel is not preempted.

### VirtioBlk

Driver and device run concurrently, so `virtio_blk_cmd` is cut where the device can
look: `Call` samples `original_idx`, `Fill` builds the header and the three
descriptors (`chain`), `DriverOk`, `WriteSlot`, `Publish` (`avail->idx`) and `Notify`
follow, `Poll` and `Return` are the loop. `boot` goes through `virtio_blk_init`, whose read of
the boot sector is the first request, and ends in `halted` if the signature is wrong. The
device (`Wake`, `Take`, `Transfer`, `Complete`, `Sleep`) is modelled from the
registers and rings as the driver uses them: it may go to sleep while a transfer runs, takes
an entry whenever it is awake and sees one, notified or not, and may fail a transfer,
which the driver does not notice. It sees the driver's stores in program order, as
the Makefile's emulated machine and unoptimised build give it. The ring is zero at first,
since RAM is. A sector's contents are one value.

### PageTable

`word[f]` is what stands in frame `f`, an entry being a frame number and bits;
`free` the frames `kalloc` may hand out, the lowest first as `PageFrames` has
it; `pgd` the roots, `satp` the one in use. Nothing is cleared that the code does
not clear: RAM is zero at boot, and a frame that comes back through `put_page`
holds any of `UserWords`, valid entries among them. `setup_vm_final`,
`task_init`, `switch_mm`, `do_page_fault` and `do_fork` are the actions;
`create_mapping` is the operator they share, page by page and level by level,
with an allocation that fails half way. It then stores an entry that is valid
and names no page (`vm.c:105`), but the address `NULL - PA2VA_OFFSET`, where there is no memory:
a walk through it takes an access fault, for which the kernel stops in `Err`. `WalkLost` keeps
later walks out of it.

The refinement mapping `Walk` reads a task's map off the tables as the hart
does. The order in which `do_fork` goes through the pages is that of the VMA list,
one of `Orders`; which tables get which frame depends on it. Frames for
`task_struct`s and VMAs are counted in `CowVM` and not here. Frame 0 is at `PHY_START`, an
address of the kernel's half is taken without its sign extension, and the frames of the
device are numbered after the memory, where the machine has them below it. `Firmware` are the
frames of OpenSBI: the early table maps them, `setup_vm_final` begins at `_stext` behind them.

### Segments

`node` is the heap of `vm_area_struct`s, `mmap` the head of each task's list,
`pages` what each task's pages hold: their permissions and the number of the image's
byte, or of the store, at every offset. `load_elf` turns program headers into
VMAs, `do_mmap` links them, `do_page_fault` copies from `file_start` to
`file_end`, with the arithmetic of `vm.c:302-306`, and `do_fork` copies the list with
the links of the old one still in the child's `task_struct`. A new frame is
filled with zeros before the first fork and with anything after it: the code
clears nothing. A page has 4 bytes and user space 16; stores go to `StoreAddrs`.

### Files

`slot[s][i]` is `fd_array[i]` of the `files_struct` number `s`, `table[t]` the
one that task `t` points to, `a0` what the last call returned, `last` which
descriptor it was about. A path is a type (`get_fs_type`) and what
`fat32_open_file` finds under it; what a file holds is `Fat32`'s concern, so a
transfer is a length. `good` says whether `file_open` returned 0 the last time and is
not in the code. One slot stands for the zeros behind the array, which
`sys_read` and the others reach because they do not compare `fd` with
`MAX_FILE_NUMBER`.

### Trap

`hart` holds the registers that `entry.S` moves: pc, sp, `sscratch`, `sepc`, `a0` and one
general register. `kmem` and `umem` are the frames on the two stacks of each
task. Every trap goes through `switch_stack`, which swaps `sp` and `sscratch`
whatever mode it comes from; a page fault of the kernel on a program's buffer
therefore builds its frame on the program's stack, below what the program has
pushed, and the way back swaps again. The stacks are of bounded depth, the page
of the program's stack is assumed to be writable at a call, a popped frame is
forgotten, and a fault while a frame is being stored is left out.

### Boot

`pc` names the call of `head.S` that is next; `at` is the kind of address the hart fetches
from, `satp` the tables in use, `stvec` the vector. The write of `satp` takes effect at once and the next
instruction lies where nothing is mapped: the hart traps, and goes on at the
virtual address that `relocate` has put in `stvec` before (`head.S:74`). The
disk may be missing, have any table of four partitions, and `disk.bad` are the sectors whose reads may
fail, each read anew. Nobody looks at the status of a read, so its buffer is then what it was. Sector 0 is read twice:
by `virtio_blk_init` into a buffer on the stack that nothing has written, whose last two bytes must be the signature or
the hart stops in `Err` (`halted`; `virtio.c:130-141`), and by `mbr_init` into `mbr_buf`, which is zero at first, so
that after a failed read no entry is FAT32. `fat32_header` is one buffer for all
partitions. Without a disk `mbr_init` reads through a device that was never set up (`lost`).

### Printk, Console, Shell

`Printk` is `vprintfmt` character by character, with the state of the
conversion as a record. An int has 4 bits and a long 7: the code's 32
and 64 differ in nothing but size. `PrintkFormats` compares it with the C
standard on the directives it supports. Not supported, and so left out of the
comparison (`Supported`): a width on `%s` and `%c`, `%u` of a negative int (printed
signed), a precision together with a sign, which comes out one digit short,
a width when a precision of 0 leaves no digit, the smallest long, `%p` with precision 0, and the
flag `-`. `user/printf.c` is the same text but for `putc` and `printf`, so
`Console` takes the module a second time.

In `Console` the kernel uses the text of a write as a format (`vfs.c:32`), so a "%" does
not come out as written. Buffers are long enough (`Fits`): what the code does with
a text that does not fit is not modelled.

`Shell` is `user/main.c` over the kernel as it is: `open` returns 0 for a file that
is there, so `cat` reads the standard input for ever and `edit` of such a file
stops the kernel in `lseek`. Every failed open leaves its slot open, and after 13 of them a file that is there is
refused as well; the model leaves that out, and no property tells the two outcomes apart. A quote that is not closed sends `get_string` beyond the line, where
it may fault (`QuoteLost`). `LineSound` is about what the shell itself writes: with
`LOG := 1` (`Makefile:12`) `schedule` and `do_page_fault` write log lines to the same row of the terminal, which
the model leaves out. `CommandLine` takes the keys one at a time: what was typed is the list of the keys so far, less
those rubbed out, and a command is done when return comes.

## Runs

| Run | Configuration | Shows |
|---|---|---|
| `cow_vm` | a file page, the anonymous stack and a hole, 1 boot task (and idle) + 2 forks, 23 frames | all invariants of `CowVM`, `FaultResolves`, `PrivateMemory` |
| `sched` | 2 boot tasks (and idle) + 2 forks, priorities 1..3 | all properties of `Sched`, `Rounds`, no starvation |
| `memory` | `Segments`: 3 layouts, two with the segments apart and one with a shared page, pages of 4 bytes, 2 tasks; `Buddy`: 8 pages, 1 reserved, requests of 1, 2 and 3 pages, up to 2 references | segments in place byte by byte, sound lists, stores kept; the tree invariant, the largest free block, `PageFrames` |
| `fat32` | sectors of 2 bytes, clusters of 2 sectors, files of 7, 1 and 0 bytes, lengths 0, 1, 3, 5 | offsets, transfers, `FlatFiles` |
| `virtio_blk` | 2 sectors, 2 buffers, 2 contents, queue of 2, indices of 2 bits | `BlockDevice`, stable descriptors, every request completes |
| `page_table` | tables of 8 entries, 32 frames, 3 user pages, 3 tasks | trees of tables, `AddressSpaces`, the kernel stays mapped, a map unless memory runs out |
| `files` | `Files`: 5 descriptors, 2 tasks on one table, a file of 1 byte, 3 paths; `Boot`: 4 partitions over 2 sectors | what an open slot serves, its stability, where NULL is called; the volume is that of its sector, the program runs or boot stops for want of a signature |
| `programs` | `PrintkFormats`, `ConsoleCalls`, `Shell`: 5 chunks of keys; `Trap`: 2 tasks | formats as C has them, text shown once, the line and the command the user typed, stacks, `UserContexts` |
| `cow_null_pte` | as `cow_vm` | violation: `do_fork` follows NULL |
| `sched_bounds` | `NR_TASKS` = 2 as in the default build, one fork | violation: `task[]` overflows |
| `fat32_table` | as `fat32`, with a table sector of 3 entries | violation: the chain is left |
| `open_fd` | as `files` | violation: a successful `openat` does not return its descriptor |

`files`, `memory` and `programs` each hold several components that share no state
in the models. The variable `part` chooses one at the start of a behaviour, and the
variables of the others keep their initial values: the state space is the sum
of the components', not the product, and what one run shows of each is what a
run of its own would. The type invariants of `Fat32`, `VirtioBlk`
and `Files` are left to their theorems; those of the modules without one are part of `TablesSound`, `BlocksSound`, `ListsSound`, `LineSound` and `StacksSound`.

`programs` does not look for deadlocks, since a format and a console session end. In the
other runs a step that leaves everything as it is stands for a system that rightly stops: a hart in
`Err` or lost (`Done`, `Halted`).

Bounds. `MaxTasks` stops `do_fork`, which has no bound. Two forks give a
parent, a child and a grandchild or two children; three sharers of one frame is
the first case in which a copy is not also the last reference, and the copies are
taken in every order. The frames suffice for both forks and some faults and run
out before all have happened, so success and failure of every allocation occur.
Priorities up to 3 give equal and different slices and slices of one tick; four
tasks are the first instance where a fork meets a round half over with
others still waiting. Eight pages are three levels of splitting, a request of 3
pages is rounded to 4, and requests fail both for lack of pages and for
fragmentation. Both halves of a block are freed in either order. `MaxRef` 2 separates the last reference from the others.
In `fat32` the long file's clusters are not neighbours and the short file lies between them, so
a step to the wrong cluster reads or overwrites the other file; its last sector is half
used, and offsets and lengths meet every position in a sector, requests inside
one, across sectors, across clusters and beyond the end.
In `virtio_blk` the queue wraps every two requests and the indices every four, and
nothing bounds the number of requests.

In `page_table`, two user pages share a last-level table and the third needs one of its
own, so a fork links existing and missing tables; the last frames are taken in the
middle of `create_mapping` at each of its three allocations. The sections are those
of `setup_vm_final`, overlapping by a page and ending inside one, as they
may in the code. Four partitions over two sectors and no partition are all
orders of FAT32 volumes, others and gaps; any of the three sectors that boot reads may be unreadable.
In `files` descriptors 3 and 4 are free: a second slot is the first that is reached only
past an open one, and a third open fails. Programs pass one of the two console outputs, which differ
in colour only, the input, both free descriptors and the one behind the array. The paths are one that is there, one that is
not, and the first in upper case, which is no FAT32 path any more
(`fat32.c:89` leaves it so in the program's memory).
In `memory` the layouts have segments
that begin at and inside a page, end in the page or behind it, are listed in
either order with a note before or behind, and one in which two share a page.
In `programs` the arguments lie at the ends of a 4-bit int and a 7-bit long and around
zero, with every conversion under 8 sets of flags, with and without width, star, precision and
length; two directives follow one another, so that what is left of the first would
show. Five chunks make lines with rubouts beyond their start, quotes that close and
that do not, and a second command over the rest of the first. Two instructions and
stacks of one frame let a fault of the kernel, a switch and a clone fall between any two
halves of a trap.

Fairness (`Sched`, `VirtioBlk` and `Boot` have liveness). `StartKernel`, `TimerExpires` and
`TimerInterrupt` are weakly fair: boot code runs on, the SBI timer counts real
time, and a pending timer interrupt is taken as soon as the hart is in user
mode with `sie.STIE` set. `ReadReturns` is weakly fair, which is an assumption about the
person at the console: without it a read stops the whole machine
(`vfs.c:10-15`). User instructions, forks and reads are not fair: a task may compute for ever,
and the others run all the same. A task that makes the kernel stop in `Err`
ends everything, which `EveryTaskRuns` says.
In `VirtioBlk` the driver's code is weakly fair as any running code, and so are the device's steps:
a device that is notified looks, and one that has taken a request finishes it, with
success or failure. `Call` and `Store` are not fair.
In `files` the steps of `Boot` are weakly fair: one hart runs code with interrupts off and
nothing else can happen. `ProgramRuns` says where it gets with a disk: the program runs, or
the hart has stopped because the first read gave it no signature.

### Disagreements with the source's own statements

- `sched_bounds`: `task[]` holds all threads (`proc.c:22`) and `task_init` fills it;
  `do_fork` writes the child behind it (`proc.c:323`). Building with `FORK1` and a larger
  `NR_TASKS` leaves room for as many clones as there are free elements, still without a check.
- `cow_null_pte`: `find_pte` documents 0 for a missing entry (`vm.c:330`) and
  `do_fork` means to copy the pages of a VMA "if this vma has page table"
  (`proc.c:274`) but dereferences the result at once (`proc.c:278`). A program meets
  it only if it clones before it has touched some 2 MiB region of a VMA.
  The shell in `user/` makes no `clone` call.

- `fat32_table`: the step of the loops in `fat32_read` and `fat32_write` goes to the
  "next cluster" (`fat32.c:168`), looked up in the first sector of the table
  whatever the cluster (`fat32.c:165`). With 512-byte sectors that sector has the entries 0 to 127;
  for later clusters the loop takes its next cluster from the memory behind
  `fat32_table_buf`. In the run that sector has three of the table's six entries. A
  volume whose files lie in the first 128 clusters does not meet it.
- `open_fd`: `sys_openat` looks for "an empty file descriptor" (`syscall.c:118`),
  and gives the program the result of `file_open` instead (`syscall.c:121`), 0 for
  every file. The shell takes it as a descriptor and so reads, seeks and closes its
  standard input.

Met while modelling, contradicting no statement of the repository, and so
without a run: a failed `kalloc` in `create_mapping` leaves a valid entry that
names the page of NULL (`vm.c:105`); a failed open leaves its slot open, with the file of
its last use if the path is not FAT32 (`fs.c:65`); `fat32_open_file` converts the path to
upper case where the program keeps it (`fat32.c:89`); `vm_filesz` is ignored, so
that `.bss` holds what follows the data in the image, and a page that two segments share is filled
for the one that is touched first (`vm.c:298-306`); a page fault of the kernel
saves its frame on the program's stack (`entry.S:16`); a read that fails
during boot gives a volume the sizes of another (`fat32.c:31`).

## Proofs

The eight `*Proofs` modules hold for every value of the constants allowed by
the assumptions of the modules they extend.

`CowVM`. Assumptions: finitely many pages, frames and VMAs, frame numbers are
positive, VMAs do not overlap, a writable VMA is readable (`VmasAssumption`; no Sv39
entry is write-only, and the segments of the image are not). The
inductive invariant is `IInv`: `TypeOK`, `TablesSound`, `RefCountExact`,
`WritableUnshared`, `TlbCoherent`. They need each other:

- a store goes where the TLB says; it hits the current task's own frame because
  the TLB is coherent, and nobody else's because a writable frame is unshared;
- `CopyOnWrite` drops one reference of a frame it has just unmapped, so the count
  stays exact only if the task mapped that frame at one page, which `TablesSound`
  says;
- `DemandPage` overwrites an entry without dropping a reference, which is right
  only if the entry was invalid: a coherent TLB and `TablesSound` say that a
  mapped page faults for copy on write and for nothing else;
- fresh frames have count zero, so by `RefCountExact` nobody maps them, so they may
  be mapped writable.

From `IInv` follow each invariant by itself, `PageFaultsResolve`
(`FaultResolves`), and `Isolation`: `Spec => PrivateMemorySpec`, where a store is a
`Write`, a demand page a `Touch`, a fork a `Fork`, and copy on write, TLB fills,
switches and failures are stutters.

`Sched`. The inductive invariant `SchedInv` adds to `SchedTypeOK`, `RunningHasQuantum` and
`SlicesWhole` that priorities are at least `PRIORITY_MIN`, that `born` holds
existing tasks, and that before the first `schedule` the idle task runs and all counters are
zero. `RunningHasQuantum` is what makes `do_timer` charge the task before it
schedules; with it a slice ends exactly when the counter reaches zero, which
gives `ImplementsRounds` (`SchedSpec => RoundsSpec`) and `AlwaysLongestFirst`.

`Files`. Assumptions: more than the three console descriptors, and the types of the
constants. The inductive invariant is `TypeOK`, `SlotsInv` and `NullCallsOnlyUnopened`.
`SlotsInv` says of each slot what its index and its last open make of it: the
first three have the console's functions and permissions for ever, since `EmptySlot` never
yields them; another has the functions of FAT32 or none, and none only while no
open has succeeded. From it follow `SlotsServe` (`OpenServesPath`), because moving the offset is
the only thing a transfer or a seek does to a slot and both stay inside the file, and
`NullCalls`: a permission that lets a call through comes with its function, but `sys_seek` asks for none.
`SlotsStable` (`OpenSlotsStable`) goes action by action: the one slot that a step replaces was
closed, is being closed, or moves its offset.

`Fat32`. Assumptions: sizes of sectors and clusters are positive, directory entries
start at a cluster of the volume or at none, table entries are clusters or the end of a
chain, callers' buffers are as long as they say. Nothing is assumed about the
allocation table being right: chains may be too short, cross, or run in
circles. The inductive invariant `IInv` is `TypeOK`, `OffsetsInFile`, `TransferBounded`
and that an open file has a cluster. `OffsetsInFile` gives `max_cfo` its bound when a
request begins, `TransferBounded` carries the bound through the turns of the loop
until `Return` stores the offset, which restores `OffsetsInFile`. `CopyBounds` is
the arithmetic of `sec_offset` and `copy_len`; with it `TypeOK` says that every
`memcpy` stays inside the sector and the caller's buffer.

That the bytes are the right ones is `ImplementsFlatFiles`
(`SoundVolume => (Spec => FlatFilesSpec)`), and this does need a volume without damage:
chains long enough for the sizes, no cluster in two places, and all of them in the sector of the
table that is read. The run `fat32_table` shows what happens without the last; the
volume of the run `fat32` satisfies all three (`VolumeSound`). The inductive invariant `RInv` adds
to `IInv` where the loop is (`Placed`: cluster `m` of the chain and the sector in it add up to
`rw_cfo`, except that after the last copy `rw_cfo` may be inside a sector), how far it will go
(`Requested`), and what it has done (`ReadSoFar`, `WrittenSoFar`: the bytes before the running offset are
in the buffer or on the disk, and every other byte of every file is as it was). `PlaceOfByte` divides an
offset into cluster, sector and byte, `PlacesApart` says that no two bytes of the files share
these, and `AdvanceRInv` that the chain goes on because the next cluster begins inside the
file. `Return` finds the request complete, so a transfer is never cut short.

`VirtioBlk`. Assumptions: the range of the indices is a multiple of the queue size and more
than one value. The inductive invariant adds to `TypeOK` the `Protocol` of the
ring: before `Publish` the device is quiet; after it the request is `InRing`, `AtDevice` or
`Finished`, and `avail.idx`, the device's own index and `used` tell which. That
`Inc` moves an index (`IncMoves`) makes `used # original` mean `Finished`, whatever
wraps. From it follow `DescriptorsAlwaysStable`, since `Fill` and the callers' stores
happen only when the device is quiet, and `ImplementsBlockDevice`: `Transfer` is `Serve`,
`Complete` a stutter, and `Return` finds the request served.

`Trap`. Assumptions: at least one task, a program of at least one instruction, register values are
numbers and 0 is one of them. The inductive invariant `IInv` says where everything is: `OnHart` ties `sp`, `sscratch` and
the topmost frame to the place in the code, `Waits(t)` says of every task that does not run
that its `thread_struct` leads to the one frame on its kernel stack, or to
`__dummy`. Each action gets a lemma on the registers and frames it leaves and one that they
satisfy `IInv` again. A trap from the program and a page fault of
the kernel are cases of the same action: `switch_stack` swaps `sp` and `sscratch` in both, so in
the second the frame goes on the program's stack, and `InKernelFault` records that the trap
below it is untouched. `StacksCorrect` (`StacksSound`) adds that no frame
is left over; `ImplementsUserContexts` (`Spec => UserContextsSpec`) reads a task's registers
off the hart, a frame or the `thread_struct`, and shows that a switch, a timer or another
task's call leaves that reading alone.

`Segments`. Assumptions: sizes are positive, user space is a whole number of pages, segments
lie below the stack page and their memory images inside the image (`vm_filesz` is ignored, so a
fault copies `memsz` bytes). The inductive invariant `IInv` is
`TypeOK`, `Linked` (every list is a chain of as many nodes as the first, with the areas of
the image and the stack), `PermsOfArea` and `SegmentsLoadedApart`. The loops
of `load_elf`, `do_fork` and `find_vma` are recursive functions; what they compute is shown by
taking the least index for which it would be false, which is the well-founded induction
that the provers can use. `FilledByte` is the arithmetic of the copy: whichever address of a page is touched
first, every byte of a segment ends up at its place, provided segments share no
page. `PermsOfArea` is there because a fault fills a page anew unless it is a copy on write: a mapped
page lacks nothing but W, so a fault on it cannot be of the other kind, which gives
`StoresStay` (`StoresKept`). `ListsCorrect` (`ListsSound`) says that `find_vma` finds the area, in
whichever direction the forks have turned the list.

`Buddy`. Assumptions: at least one and at most all pages are reserved, requests are numbers of
pages, callers may keep one reference. `BlocksSound` is inductive as it stands: the
type; the tree, where a node's value follows from its children's or the node is a block over two whole
halves (`TreeSound`); and that exactly the first pages of blocks have references
(`CountedBlocks`). `BlocksStaySound` rests on

- the geometry of the tree: sizes are powers of two that divide each other, a node's children
  are its halves, the path of a page's leaf goes through the nodes it lies under
  and no others (`Geometry`, `Shape`, `LeafPath`);
- that the recursive functions exist and what they compute (`Upward`, `Downward`): by the least, or the
  greatest, node without it;
- `UpdateSound`: a value written at a node and carried to the root leaves a sound tree and
  makes, or removes, that block and no other;
- `DescendReaches`: `buddy_alloc` comes to the lowest free block of the size; `FreedSound`: the
  first zero above a page is the block that was handed out, since no block lies below another
  (`OneBlock`), so `buddy_free` needs no record of sizes;
- `BootTreeBooted`: the pages that `buddy_init` takes one by one are the lowest ones.

`LargestIsFree` (`LargestFree`) then follows from the shape of the tree alone: what a
node states is there (`FreeFound`), and nothing larger is (`FreeFits`). In `ImplementsPageFrames`
(`BuddySpec => PageFramesSpec`) a page is free in the tree exactly if it lies in no block
(`FreeOutside`), every aligned block of a power of two has its node (`NodeOf`), and so the
candidates of a request are the nodes with room all the way up
(`CandidatesAt`): if the root has not room for the size, there is none.

`PageTable`. Assumptions: the early map fits below the end of the address space, the image,
which holds both kernel directories, is never free, user pages and the kernel's have no entry of
a root in common (`USER_END` and `VM_START` see to it), sections map frames or device
registers, an order of VMAs lists the user pages. What makes this proof hard is that `kalloc`
clears nothing: a frame that
comes back with user data in it would, as a table, map whatever that data says. The inductive
invariant `IInv` says that from `setup_vm_final` on memory is `Sound`:

- there is an assignment of one kind to every frame (`MemInv`): free, kept (the image), a root,
  the directory under entry `i` of root `r`, the table under entry `j` of that, or the
  user page `v`; and every path of three indices from a root meets frames of the right
  kinds (`GoodPath`). One kind per frame is what makes the tables trees;
- a frame that is not the lowest free one and not in use is empty (`Tidy`): put_page makes a frame with
  old words free only in the handler that is about to take a page, and what it takes
  becomes a page or a root, never a table, because the lowest comes back first;
- the early table is as `setup_vm` made it, and the kernel's sections are all mapped if
  there were frames for their tables (`EnoughForKernel`).

`DescendIs`, `MapPageTurns` and `OneSection` carry this through the loops of `create_mapping`
and `setup_vm_final`, `OneShare` through those of `do_fork`; `Plenty` counts the tables still to
come against the free frames, which is why no call of `setup_vm_final` stops short. From `IInv`
follow `TablesStaySound` (`TablesSound`), `KernelStays` (`KernelStaysMapped`), `FaultsMap`
(`MapsUnlessExhausted`) and `ImplementsAddressSpaces` (`AddressSpacesSpec`). `KernelStays` and
`ImplementsAddressSpaces` need `EnoughForKernel`, a few dozen frames out of 32768; `KernelStays` also
needs `KernelLinear`, that the sections in order put every frame's page at its fixed address, which
is what the linker script and the calls of `setup_vm_final` amount to. TLC evaluates both for the
instance of the run `page_table`.

`Boot`. Assumptions: an entry of another type is none of the sectors where partitions begin, and
the partition table is not one of these.
The invariant `BootInv` says that only behind `relocate`'s write of `satp` may the next instruction not
be mapped, and that `stvec` then leads on (`Fetching`); that the loop of `mbr_init` looks at each entry once
(`Looking`); and the volume of the entries before this one. A turn either leaves the volume
(`VolumeStays`) or makes it this entry's (`VolumeTaken`), from which `VolumeIsItsOwn`
(`VolumeFromItsBootSector`). `OnCourse` adds what is set up at each step with a disk:
`BootOnCourse` is the safety half of `ProgramRuns`. Whatever reads fail, the hart is not lost, it stops only if the first
read gave no signature, and a program runs only in the state `Working`; that it gets there is left to TLC.

`PrintkFormats`. Assumptions: a width or a precision that is spelled fits in a long, one that is an argument in an int,
words are words, texts are not empty. `FormatsPrinted` (`FormatsConform`) is the comparison with C for every word size, directive,
word and text. The argument follows the loop of `vprintfmt` along the spelling of a directive:
each flag is on that the directive has (`FlagsRead`), the width and the precision are the numbers that stand there
(`WidthStep`, `PrecStep`), and the conversion ends it (`DirectiveRead`). What it prints then is compared with what C lays out:
sign, prefix, padding and digits (`DecAgrees`, `NumbersAgree`; `DecPrinted`, `HexPrinted`,
`TextPrinted`), for the items that `Supported` admits, and for no others. `ReadValue` and `ReadBack` show that `strtol` reads a
spelled number, in each base and behind blanks, sign and prefix. `ItemRead` goes from the beginning of an
item to its end, where the next may begin; `OneShown` and `TwoShown` are the formats of one and
two items, so that what the first leaves behind does not show in the second.

`ConsoleCalls`. Assumptions: an int is not wider than a long; texts and formats are C strings, every
conversion of a format has its argument, and `%c` an argument with a character. The loop of `vprintfmt` is a
function of the number of turns; that such a function exists, and that its values have a property
if each turn keeps it, goes by the least turn without it (`Upward`, `LoopRun`). `PrintsText` says
that every turn stays within the format and counts what it prints; `PlainPrinted`, that a text
without "%" prints itself up to its Nul. The inductive invariant `CallsInv` adds to
`CallsConform` that the buffer of `printf` keeps its size and begins anew at every call. The
buffer is never cleared: `CollectedIs` shows that the Nul behind the new text is all that
`CallsPrinted` (`CallsConform`) needs to keep the rest of a longer text before from being seen. `UserCopyIs`: the
program's `vprintfmt` prints what the kernel's does.

`Shell`. Assumptions: prompt and messages fit in the buffer of `printf`; a key is none of the control
characters the terminal obeys; for the commands, names have no blank, texts no quote, offsets are not
negative, and the codes of the digits follow one another. The inductive invariant `ShellInv` has two parts. `LineInv`:
the buffer `line_buf` with the room for its Nul, the buffer of `cat` and the keys to come. `ScreenInv`: between two
keys the row of the terminal is `OnScreen`, the prompt, the line and, where more was typed before,
blanks. Every command ends its row, whatever text it prints
(`TextLine`, `MessageLine`), so the next prompt stands on an empty one (`AskIs`), which is what a rubout
relies on (`EraseShown`). From it follows `LineShown` (`LineSound`).

`CommandsDone` (`ShellSpec => CommandLineSpec`) needs that parsing undoes spelling. What was typed
stands at the front of `line_buf` with a Nul behind (`EndedSpelled`), in front of what is left of longer
lines. `Stands` says where the parts of a line are; behind a gap, `get_param` and
`get_string` read the part that stands there and no more (`ParamParsed`, `StringParsed`), `Behind` is where it
ends, and `atoi` of the digits that spell a number is the number (`DecimalIs`, by the least number for which it is
not). `OneName`: no line begins with two of the commands' names, so the order in which
`parse_cmd` compares them does not matter. A line whose quote is not closed spells no command. Each key the shell
reads is the next key of `CommandLine` (`KeysTail`).

Only model-checked: `EveryTaskRuns`, `RequestsComplete` and `ProgramRuns`, since liveness under fairness is out of the
prover's reach.

## Not modelled, and the plan

Left to do, in this order:

1. `Kernel`: `CowVM` and `Sched` composed over `current` and `nr_tasks`. Today
   `CowVM` lets `Switch` choose any task, which includes `Sched`'s choice.
2. A page that two segments share, in `CowVM`.

Not in the models: what the code does behind the end of a buffer (`line_buf`,
`printf`'s 1000 bytes, the 80 bytes of a slot's path, a root directory of more than a
sector), stores through NULL, fences (`virtio.c` has none; the emulated hart keeps the order
of stores), the firmware behind the SBI calls beyond timer and console, a trap
while a trap frame is being stored.

Left out for good: `elf.h` (vendored definitions), build files, `translate.py`,
`init/test.c`, `dummy()` and the `TEST_SCHED` build, log messages.
