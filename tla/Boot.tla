-------------------------------- MODULE Boot --------------------------------
(***************************************************************************)
(* The way from _start to the first program: head.S, with the address      *)
(* space the hart fetches from, the trap vector, the partition table       *)
(* (fs/mbr.c) and the FAT32 volume it leads to (fat32_init, is_fat32).     *)
(*                                                                         *)
(* A call of head.S is one step, named by pc; what mm_init, task_init and  *)
(* the page tables are is in Buddy, Trap, Segments and PageTable.  A hart  *)
(* that goes on somewhere nobody meant is "lost", one in Err is "halted".  *)
(***************************************************************************)
EXTENDS Naturals

CONSTANTS
    Sectors,      \* where partitions may begin, a set of Nat \ {0}
    NoPartition   \* an entry of another type than 0x83

ASSUME BootAssumption == Sectors \subseteq Nat \ {0} /\ NoPartition \notin Sectors

Entries == 1 .. 4
NoBpb   == 0
Mbr     == 0      \* the sector with the signature and the partition table

VARIABLES
    disk,     \* present, its signature, the first sector of each partition, the
              \* sectors that end like a boot sector, and those that may not be readable
    pc,       \* the step of head.S that comes next
    at,       \* fetched from: "physical" or "virtual" addresses
    satp,     \* "bare", "early" (early_pgtbl) or "final" (swapper_pg_dir)
    stvec,    \* "firmware", "tmp" (tmp_stvec, virtual) or "traps" (_traps)
    ready,    \* what has been set up: of "mm", "tasks", "ring"
    sie,      \* "on": sie.STIE, the timer may interrupt a program
    timer,    \* "set": the firmware's timer is
    mbr,      \* the first sectors in mbr_buf, which is all zero to begin with
    entry,    \* i of mbr_init
    header,   \* the boot sector in fat32_header
    volume    \* fat32_volume: the sector and the boot sector it was made from

bootVars == <<disk, pc, at, satp, stvec, ready, sie, timer, mbr, entry, header, volume>>

memory   == <<at, satp, stvec>>
devices  == <<sie, timer>>
fat      == <<mbr, entry, header, volume>>

BootInit ==
    /\ disk \in [present : {"yes", "no"}, signature : {"yes", "no"},
                 first : [Entries -> Sectors \cup {NoPartition}], fat32 : SUBSET Sectors,
                 bad : SUBSET ({Mbr} \cup Sectors)]
    /\ pc = "setup_vm" /\ at = "physical" /\ satp = "bare" /\ stvec = "firmware"
    /\ ready = {} /\ sie = "off" /\ timer = "off"
    /\ mbr = [i \in Entries |-> NoPartition]
    /\ entry = 1 /\ header = NoBpb /\ volume = [first |-> 0, bpb |-> NoBpb]

-----------------------------------------------------------------------------
(* Memory.                                                                 *)

\* early_pgtbl has no identity mapping, and neither has swapper_pg_dir.
Mapped(space) == satp = "bare" <=> space = "physical"

Go(from, to) == pc = from /\ Mapped(at) /\ pc' = to

setup_vm == Go("setup_vm", "relocate") /\ UNCHANGED <<disk, memory, ready, devices, fat>>

\* Mutant: relocate leaves stvec alone.
NoVector == stvec' = stvec

Vector == stvec' = "tmp"

\* stvec, ra and sp get virtual addresses, then translation is on.
relocate ==
    /\ Go("relocate", "ret")
    /\ Vector
    /\ satp' = "early"
    /\ UNCHANGED <<disk, at, ready, devices, fat>>

\* The next instruction is not mapped: the hart goes to stvec.
FetchFault ==
    /\ ~Mapped(at) /\ pc # "lost"
    /\ IF stvec = "tmp" /\ Mapped("virtual")
       THEN pc' = "ret" /\ at' = "virtual"
       ELSE pc' = "lost" /\ UNCHANGED at
    /\ UNCHANGED <<disk, satp, stvec, ready, devices, fat>>

tmp_stvec == Go("ret", "mm_init") /\ UNCHANGED <<disk, memory, ready, devices, fat>>

mm_init ==
    /\ Go("mm_init", "setup_vm_final")
    /\ ready' = ready \cup {"mm"}
    /\ UNCHANGED <<disk, memory, devices, fat>>

setup_vm_final ==
    /\ Go("setup_vm_final", "task_init")
    /\ "mm" \in ready /\ satp' = "final"
    /\ UNCHANGED <<disk, at, stvec, ready, devices, fat>>

task_init ==
    /\ Go("task_init", "virtio_dev_init")
    /\ "mm" \in ready /\ ready' = ready \cup {"tasks"}
    /\ UNCHANGED <<disk, memory, devices, fat>>

-----------------------------------------------------------------------------
(* Disk.                                                                   *)

\* A buffer after a request for a sector: nobody looks at the status, and a
\* request that failed leaves what was there.
AfterRead(sector, contents, before) ==
    {contents} \cup IF sector \in disk.bad THEN before ELSE {}

\* The end of buf, which lies on the stack and has no value of its own.
SignatureRead == AfterRead(Mbr, disk.signature, {"yes", "no"})

\* Without a signature Err stops.
SignatureTest(signature) == IF signature = "yes" THEN "mbr_init" ELSE "halted"

virtio_dev_init ==
    /\ disk.present = "yes"
    /\ \E signature \in SignatureRead : Go("virtio_dev_init", SignatureTest(signature))
    /\ ready' = ready \cup {"ring"}
    /\ UNCHANGED <<disk, memory, devices, fat>>

\* Without a device nothing is set up.
NoDevice ==
    /\ disk.present = "no"
    /\ Go("virtio_dev_init", "mbr_init")
    /\ UNCHANGED <<disk, memory, ready, devices, fat>>

\* mbr_init reads through a NULL ring: a fault, and the vector is a ret.
NullRing ==
    /\ "ring" \notin ready
    /\ Go("mbr_init", "lost")
    /\ UNCHANGED <<disk, memory, ready, devices, fat>>

mbr_init ==
    /\ "ring" \in ready
    /\ Go("mbr_init", "partitions")
    /\ mbr' \in AfterRead(Mbr, disk.first, {mbr})
    /\ UNCHANGED <<disk, memory, ready, devices, entry, header, volume>>

\* fat32_header after a request for a sector.
ReadInto(sector) == AfterRead(sector, sector, {header})

HasSignature(bpb) == bpb \in disk.fat32

Turn == /\ pc = "partitions" /\ entry' = entry + 1
        /\ pc' = IF entry = 4 THEN "stvec" ELSE "partitions"
        /\ UNCHANGED <<disk, memory, ready, devices, mbr>>

OtherType ==
    /\ Turn /\ mbr[entry] = NoPartition
    /\ UNCHANGED <<header, volume>>

\* is_fat32
NotFat32 ==
    /\ Turn /\ mbr[entry] # NoPartition
    /\ header' \in ReadInto(mbr[entry])
    /\ ~HasSignature(header')
    /\ UNCHANGED volume

\* Mutant: the volume is made from the sector that is in fat32_header before.
StaleHeader(sector, bpb) == [first |-> sector, bpb |-> header]

VolumeAt(sector, bpb) == [first |-> sector, bpb |-> bpb]

\* is_fat32, then fat32_init, which reads the sector again.
Fat32Partition ==
    /\ Turn /\ mbr[entry] # NoPartition
    /\ \E tested \in ReadInto(mbr[entry]) :
          /\ HasSignature(tested)
          /\ header' \in AfterRead(mbr[entry], mbr[entry], {tested})
    /\ volume' = VolumeAt(mbr[entry], header')

-----------------------------------------------------------------------------
(* Interrupts.                                                             *)

stvec_traps ==
    /\ Go("stvec", "sie") /\ stvec' = "traps"
    /\ UNCHANGED <<disk, at, satp, ready, devices, fat>>

sie_STIE ==
    /\ Go("sie", "clock_set_next_event") /\ sie' = "on"
    /\ UNCHANGED <<disk, memory, ready, timer, fat>>

clock_set_next_event ==
    /\ Go("clock_set_next_event", "start_kernel") /\ timer' = "set"
    /\ UNCHANGED <<disk, memory, ready, sie, fat>>

\* start_kernel schedules the first program.
start_kernel ==
    /\ Go("start_kernel", "program") /\ "tasks" \in ready
    /\ UNCHANGED <<disk, memory, ready, devices, fat>>

Done == pc \in {"program", "lost", "halted"} /\ UNCHANGED bootVars

BootNext ==
    \/ setup_vm \/ relocate \/ FetchFault \/ tmp_stvec \/ mm_init \/ setup_vm_final \/ task_init
    \/ virtio_dev_init \/ NoDevice \/ NullRing \/ mbr_init
    \/ OtherType \/ NotFat32 \/ Fat32Partition
    \/ stvec_traps \/ sie_STIE \/ clock_set_next_event \/ start_kernel
    \/ Done

\* One hart, with no interrupts and no call that waits for anybody but the disk.
BootSpec == BootInit /\ [][BootNext]_bootVars /\ WF_bootVars(BootNext)

-----------------------------------------------------------------------------
(* Properties.                                                             *)

\* The volume is that of the last partition of type 0x83 that begins with a boot
\* sector, whatever partitions come behind it and share fat32_header, and its
\* sizes were read there, unless a sector where partitions begin is not readable.
VolumeFromItsBootSector ==
    disk.bad \cap Sectors = {} =>
    LET Candidates == {i \in 1 .. entry - 1 : mbr[i] \in disk.fat32} IN
    IF Candidates = {} THEN volume.bpb = NoBpb
    ELSE \E i \in Candidates :
            /\ \A j \in Candidates : j <= i
            /\ volume = [first |-> mbr[i], bpb |-> mbr[i]]

\* The first program runs on the final tables, with a timer that ends up in
\* _traps and a scheduler that has tasks.
Working ==
    /\ pc = "program"
    /\ at = "virtual" /\ satp = "final" /\ stvec = "traps"
    /\ sie = "on" /\ timer = "set" /\ ready = {"mm", "tasks", "ring"}

\* virtio_blk_init finds the signature whatever was on its stack.
Signed == disk.signature = "yes" /\ Mbr \notin disk.bad

\* With a disk the first program comes to run as it should, whatever the table
\* says and whichever other sectors cannot be read, though no instruction of
\* relocate behind the write of satp is mapped.  Only where sector 0 has no
\* signature or may not be readable may virtio_blk_init stop in Err instead.
ProgramRuns == disk.present = "yes" ~> Working \/ (pc = "halted" /\ ~Signed)
=============================================================================
