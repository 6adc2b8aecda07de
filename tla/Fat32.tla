------------------------------- MODULE Fat32 -------------------------------
(***************************************************************************)
(* The FAT32 file system: fat32_open_file, fat32_lseek, fat32_read and     *)
(* fat32_write of fs/fat32.c over the sectors of the block device.         *)
(*                                                                         *)
(* fat32_read and fat32_write are the same loop, over the clusters of the  *)
(* file and the sectors of a cluster; an action is one turn of it, so that *)
(* what holds in the middle of a transfer can be stated.  The kernel runs  *)
(* one call at a time.  Sectors are numbered from first_data_sec, and the  *)
(* directory, which no call changes, is a constant.                        *)
(***************************************************************************)
EXTENDS Integers, FiniteSets, Sequences

CONSTANTS
    SectorSize,     \* VIRTIO_BLK_SECTOR_SIZE
    SecPerCluster,  \* fat32_volume.sec_per_cluster
    Clusters,       \* the clusters of the volume: 2 is the root directory
    Fat,            \* the allocation table: [Clusters -> Clusters or the end]
    EndOfChain,     \* an entry that is 0x0ffffff8 or above
    TableEntries,   \* entries in the sector of the table that is read
    Dir,            \* the root directory: [name, cluster, size] entries
    NeverUsed,      \* name of the entry behind the last one
    Names,          \* names callers open
    Handles,        \* open file structures
    NoFile,         \* the entry of a handle that is not open
    Bytes, NoByte,  \* NoByte: what a caller's buffer holds before the call
    Lengths,        \* numbers of bytes callers ask for
    MaxLength,      \* bound of Lengths
    Offsets,        \* arguments of lseek
    Patterns,       \* what callers write: the first len bytes of one of these
    Disks           \* contents the disk may have at boot

\* cluster_to_sector
ClusterToSector(c) == (c - 2) * SecPerCluster

Sectors == {ClusterToSector(c) + s : c \in Clusters, s \in 0 .. SecPerCluster - 1}
Sector == [0 .. SectorSize - 1 -> Bytes]

ASSUME Fat32Assumption ==
    /\ SectorSize \in Nat \ {0} /\ SecPerCluster \in Nat \ {0}
    /\ Clusters \subseteq Nat \ {0, 1} /\ EndOfChain \notin Clusters
    /\ Fat \in [Clusters -> Clusters \cup {EndOfChain}]
    /\ TableEntries \in Nat
    /\ Lengths \subseteq Nat /\ MaxLength \in Nat /\ Offsets \subseteq Int
    /\ NoFile \notin DOMAIN Dir
    /\ \A i \in DOMAIN Dir :
          Dir[i].size \in Nat /\ Dir[i].cluster \in Clusters \cup {0}
    /\ Patterns \subseteq [0 .. MaxLength - 1 -> Bytes]
    /\ Disks \subseteq [Sectors -> Sector]
    /\ \A len \in Lengths : len <= MaxLength

VARIABLES
    disk,       \* the sectors of the data area
    handle,     \* handle[h]: struct file as far as FAT32 uses it
    call,       \* the running fat32_read or fat32_write and its locals
    reply,      \* what the last one returned: count and buffer
    before      \* history: the disk when the running call began

vars == <<disk, handle, call, reply, before>>

Idle == [op |-> "none"]

\* A caller's buffer of that length; one to read into holds anything.
Buffer(op, len) ==
    [0 .. len - 1 -> IF op = "write" THEN Bytes ELSE Bytes \cup {NoByte}]

Calls ==
    [op : {"read", "write"}, h : Handles, len : Lengths,
     buf : UNION {Buffer("read", len) : len \in Lengths},
     cfo : Nat, max_cfo : Nat, rw_cfo : Nat, rw_len : Nat,
     cluster : Clusters \cup {EndOfChain}, sector : 0 .. SecPerCluster]

TypeOK ==
    /\ disk \in [Sectors -> Sector]
    /\ handle \in [Handles -> [entry : DOMAIN Dir \cup {NoFile}, cfo : Nat]]
    /\ call \in Calls \cup {Idle}
    /\ call # Idle => /\ call.buf \in Buffer(call.op, call.len)
                      /\ handle[call.h].entry # NoFile

-----------------------------------------------------------------------------
(* fat32_open_file and fat32_lseek.                                        *)

\* The entries the scan of the directory reaches.
Scanned == {i \in DOMAIN Dir : \A j \in 1 .. i : Dir[j].name # NeverUsed}

\* The first entry with that name.
FirstNamed(n) ==
    {i \in Scanned : Dir[i].name = n /\ \A j \in Scanned :
                                           Dir[j].name = n => i <= j}

\* file_open fails without such an entry, and if it has no cluster (is empty).
Found(n) ==
    LET entries == {i \in FirstNamed(n) : Dir[i].cluster # 0} IN
    IF entries = {} THEN {NoFile} ELSE entries

Open(h, n) ==
    /\ call = Idle
    /\ \E i \in Found(n) : handle' = [handle EXCEPT ![h] = [entry |-> i, cfo |-> 0]]
    /\ UNCHANGED <<disk, call, reply, before>>

Least(a, b) == IF a < b THEN a ELSE b
Greatest(a, b) == IF a > b THEN a ELSE b
SizeOf(h) == Dir[handle[h].entry].size

\* Mutant: the offset is not limited to the size.
ClampedBelow(size, o) == Greatest(0, o)

\* max with 0, then min with the size.
Clamped(size, o) == Least(size, Greatest(0, o))

\* Any other whence stops the kernel in Err.
Seek(h, o, whence) ==
    /\ call = Idle
    /\ handle[h].entry # NoFile
    /\ LET base == CASE whence = "SEEK_SET" -> 0
                     [] whence = "SEEK_CUR" -> handle[h].cfo
                     [] whence = "SEEK_END" -> SizeOf(h)
       IN handle' = [handle EXCEPT ![h].cfo = Clamped(SizeOf(h), base + o)]
    /\ UNCHANGED <<disk, call, reply, before>>

-----------------------------------------------------------------------------
(* fat32_read and fat32_write.                                             *)

\* The call returns rw_len; what it did to the buffer is visible now.
Reply(count, buf) == reply' = [count |-> count, buf |-> buf]

\* Nothing to transfer: the offset is at the end of the file.
AtEnd(h, buf) ==
    /\ call = Idle
    /\ handle[h].entry # NoFile
    /\ handle[h].cfo >= SizeOf(h)
    /\ Reply(0, buf)
    /\ UNCHANGED <<disk, handle, call, before>>

Begin(op, h, buf, len) ==
    /\ call = Idle
    /\ handle[h].entry # NoFile
    /\ handle[h].cfo < SizeOf(h)
    /\ call' = [op |-> op, h |-> h, buf |-> buf, len |-> len,
                cfo |-> handle[h].cfo,
                max_cfo |-> handle[h].cfo + Least(len, SizeOf(h) - handle[h].cfo),
                rw_cfo |-> 0, rw_len |-> 0,
                cluster |-> Dir[handle[h].entry].cluster, sector |-> 0]
    /\ before' = disk
    /\ UNCHANGED <<disk, handle, reply>>

Request(op, h, buf, len) == AtEnd(h, buf) \/ Begin(op, h, buf, len)

Read(h, len) == Request("read", h, [k \in 0 .. len - 1 |-> NoByte], len)
Write(h, len, p) == Request("write", h, [k \in 0 .. len - 1 |-> p[k]], len)

\* The loop over the sectors of a cluster goes on.
InCluster ==
    /\ call # Idle
    /\ call.cluster # EndOfChain
    /\ call.sector < SecPerCluster

\* Mutant: the sector that holds the last byte before cfo is skipped too.
BeforeLast == call.rw_cfo < call.cfo

\* The whole sector lies before the offset.
Before == call.rw_cfo + SectorSize <= call.cfo

Skip ==
    /\ InCluster
    /\ Before
    /\ call' = [call EXCEPT !.rw_cfo = @ + SectorSize, !.sector = @ + 1]
    /\ UNCHANGED <<disk, handle, reply, before>>

\* break
Enough ==
    /\ InCluster
    /\ ~Before
    /\ call.rw_cfo >= call.max_cfo
    /\ call' = [call EXCEPT !.sector = SecPerCluster]
    /\ UNCHANGED <<disk, handle, reply, before>>

\* Where the transfer goes on: rw_cfo has caught up with cfo.
SecOffset == call.cfo % SectorSize

\* Mutant: a transfer always fills the sector.
CopyToEnd == SectorSize - SecOffset

CopyLen == Least(SectorSize - SecOffset, call.max_cfo - call.cfo)

\* Bytes of the sector, and bytes of the buffer, that are copied.
InSector(b) == b \in SecOffset .. SecOffset + CopyLen - 1
InBuffer(k) == k \in call.rw_len .. call.rw_len + CopyLen - 1

Copy ==
    /\ InCluster
    /\ ~Before
    /\ call.rw_cfo < call.max_cfo
    /\ LET sec   == ClusterToSector(call.cluster) + call.sector
           moved == [call EXCEPT !.rw_len = @ + CopyLen, !.sector = @ + 1,
                                 !.rw_cfo = call.cfo + CopyLen,
                                 !.cfo = @ + CopyLen]
       IN
       \/ /\ call.op = "read"
          /\ call' = [moved EXCEPT !.buf =
                        [k \in DOMAIN @ |->
                            IF InBuffer(k)
                            THEN disk[sec][SecOffset + k - call.rw_len]
                            ELSE @[k]]]
          /\ UNCHANGED disk
       \/ /\ call.op = "write"
          /\ call' = moved
          /\ disk' = [disk EXCEPT ![sec] =
                        [b \in DOMAIN @ |->
                            IF InSector(b)
                            THEN call.buf[call.rw_len + b - SecOffset]
                            ELSE @[b]]]
    /\ UNCHANGED <<handle, reply, before>>

\* The next entry of the chain, looked up in the one sector of the table that
\* the call has read; past it lies other memory of the kernel.
NextCluster(c) ==
    IF c < TableEntries THEN {Fat[c]} ELSE Clusters \cup {EndOfChain}

AdvanceCluster ==
    /\ call # Idle
    /\ call.cluster # EndOfChain
    /\ call.sector = SecPerCluster
    /\ call.rw_cfo < call.max_cfo
    /\ \E c \in NextCluster(call.cluster) :
          call' = [call EXCEPT !.cluster = c, !.sector = 0]
    /\ UNCHANGED <<disk, handle, reply, before>>

\* The offset is stored and the number of bytes returned.
Return ==
    /\ call # Idle
    /\ \/ call.cluster = EndOfChain
       \/ call.sector = SecPerCluster /\ call.rw_cfo >= call.max_cfo
    /\ handle' = [handle EXCEPT ![call.h].cfo = call.cfo]
    /\ Reply(call.rw_len, call.buf)
    /\ call' = Idle
    /\ UNCHANGED <<disk, before>>

Init ==
    /\ disk \in Disks
    /\ handle = [h \in Handles |-> [entry |-> NoFile, cfo |-> 0]]
    /\ call = Idle
    /\ reply = [count |-> 0, buf |-> [k \in {} |-> NoByte]]
    /\ before = disk

Next ==
    \/ \E h \in Handles, n \in Names : Open(h, n)
    \/ \E h \in Handles, o \in Offsets, w \in {"SEEK_SET", "SEEK_CUR", "SEEK_END"} :
          Seek(h, o, w)
    \/ \E h \in Handles, len \in Lengths : Read(h, len)
    \/ \E h \in Handles, len \in Lengths, p \in Patterns : Write(h, len, p)
    \/ Skip
    \/ Enough
    \/ Copy
    \/ AdvanceCluster
    \/ Return

Spec == Init /\ [][Next]_vars

-----------------------------------------------------------------------------
(* Properties.                                                             *)

\* lseek (its clamp), read and write keep every offset inside its file.
OffsetsInFile ==
    \A h \in Handles : handle[h].entry # NoFile => handle[h].cfo <= SizeOf(h)

\* Wherever the loop is, the bytes transferred are those between the offset
\* stored in the handle and the running one, which has not passed the end of
\* the request, of the file or of the caller's buffer.
TransferBounded ==
    call # Idle =>
        /\ call.cfo = handle[call.h].cfo + call.rw_len
        /\ call.cfo <= call.max_cfo
        /\ call.max_cfo <= SizeOf(call.h)
        /\ call.max_cfo <= handle[call.h].cfo + call.len

\* The clusters of a file, as the allocation table has them.
ChainLength(i) ==
    (Dir[i].size + SectorSize * SecPerCluster - 1) \div (SectorSize * SecPerCluster)

Chain(i) ==
    LET at[k \in 0 .. ChainLength(i) - 1] ==
            IF k = 0 THEN Dir[i].cluster ELSE Fat[at[k - 1]]
    IN at

\* Byte o of file i on disk d.
ByteAt(d, i, o) ==
    LET n == o \div SectorSize IN
    d[ClusterToSector(Chain(i)[n \div SecPerCluster]) + (n % SecPerCluster)][o % SectorSize]

Files == (UNION {Found(n) : n \in Names}) \ {NoFile}

\* A volume without damage, whose files lie in the clusters that the one sector
\* of the table is about: chains are long enough and share no cluster.
ChainComplete(i) ==
    \E at \in [0 .. ChainLength(i) - 1 -> Clusters] :
        \A k \in DOMAIN at : at[k] = IF k = 0 THEN Dir[i].cluster ELSE Fat[at[k - 1]]

ChainsApart ==
    \A i, j \in Files : \A k \in DOMAIN Chain(i), l \in DOMAIN Chain(j) :
        Chain(i)[k] = Chain(j)[l] => i = j /\ k = l

InOneTableSector ==
    \A i \in Files : \A k \in DOMAIN Chain(i) : Chain(i)[k] < TableEntries

ChainsSound == (\A i \in Files : ChainComplete(i)) /\ ChainsApart
SoundVolume == ChainsSound /\ InOneTableSector

Flat == INSTANCE FlatFiles WITH
    FileSize <- [i \in Files |-> Dir[i].size],
    contents <- [i \in Files |-> [o \in 0 .. Dir[i].size - 1 |->
                    ByteAt(IF call = Idle THEN disk ELSE before, i, o)]],
    file     <- [h \in Handles |-> handle[h].entry],
    offset   <- [h \in Handles |-> handle[h].cfo]

\* A call that runs through sectors and clusters implements one read or write
\* of a range of bytes, and touches no other file.
FlatFilesSpec == Flat!Spec

\* The loop goes from a cluster to the "next cluster" (the comment on its
\* step), which is the one the allocation table names.
ChainFollowed ==
    [][call # Idle /\ call' # Idle /\ call'.sector < call.sector =>
         call'.cluster = Fat[call.cluster]]_vars
=============================================================================
