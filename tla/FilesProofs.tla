---------------------------- MODULE FilesProofs ----------------------------
(***************************************************************************)
(* Proofs about Files, for any number of tasks, tables, descriptors and    *)
(* paths, where the inductive invariant says of each slot what its index   *)
(* and its last open make of it (SlotInv); and about Boot, for any set of  *)
(* sectors where partitions may begin.                                     *)
(***************************************************************************)
EXTENDS Files, Boot, TLAPS

ConsoleOps(i)   == IF i = 0 THEN "stdin" ELSE IF i = 1 THEN "stdout" ELSE "stderr"
ConsolePerms(i) == IF i = 0 THEN {"R"} ELSE {"W"}

Served(f) ==
    f.opened = 1 /\ f.good = "yes" =>
        /\ f.ops = "fat32" /\ f.file = Lookup[f.path] /\ f.file # NoFile
        /\ f.cfo <= Size[f.file]

\* The first three slots are the console's for ever; another has no functions
\* or those of FAT32, and has them once an open succeeds.
SlotInv(f, i) ==
    /\ i \in 0 .. 2 => f.ops = ConsoleOps(i) /\ f.perms = ConsolePerms(i)
    /\ i \in 3 .. MaxFile =>
          /\ f.ops \in {"null", "fat32"} /\ (f.ops = "null" => f.good = "no")
          /\ Served(f)

SlotsInv == \A s \in Tables, i \in Fds : SlotInv(slot[s][i], i)

IInv == TypeOK /\ SlotsInv /\ NullCallsOnlyUnopened

USE FilesAssumption DEF Fds, Tables, Ops, Perms

-----------------------------------------------------------------------------
(* Slots.                                                                  *)

\* A slot that open has filled is one that IInv allows.
LEMMA OpenedSlot ==
    ASSUME NEW f \in Slot, NEW i \in 3 .. MaxFile - 1, NEW p \in Paths, NEW flags \in Flags,
           SlotInv(f, i)
    PROVE  file_open(f, p, flags) \in Slot /\ SlotInv(file_open(f, p, flags), i)
<1>0. flags \in SUBSET {"R", "W"}
  BY DEF Flags
<1>1. Lookup[p] \in Files \cup {NoFile} /\ FsType[p] \in {"fat32", "ext2", "unknown"}
  OBVIOUS
<1> DEFINE g == file_open(f, p, flags)
<1>2. /\ g.opened = 1 /\ g.perms = flags /\ g.cfo = 0 /\ g.path = p
      /\ DOMAIN g = DOMAIN f
      /\ g = [opened |-> g.opened, perms |-> g.perms, cfo |-> g.cfo, ops |-> g.ops,
              file |-> g.file, path |-> g.path, good |-> g.good]
  BY DEF file_open, Slot
<1>3. CASE FsType[p] = "fat32"
  <2>1. /\ g.ops = "fat32" /\ g.file = Lookup[p]
        /\ g.good = (IF Lookup[p] # NoFile THEN "yes" ELSE "no")
    BY <1>3 DEF file_open, Slot
  <2> HIDE DEF g
  <2>2. g \in Slot
    BY <1>0, <1>1, <1>2, <2>1 DEF Slot
  <2>3. Lookup[p] # NoFile => Size[Lookup[p]] \in Nat
    BY <1>1
  <2>4. SlotInv(g, i)
    BY <1>2, <2>1, <2>3 DEF SlotInv, Served
  <2>5. QED
    BY <2>2, <2>4 DEF g
<1>4. CASE FsType[p] # "fat32"
  <2>1. g.ops = f.ops /\ g.file = f.file /\ g.good = "no"
    BY <1>4 DEF file_open, Slot
  <2> HIDE DEF g
  <2>2. g \in Slot
    BY <1>0, <1>2, <2>1 DEF Slot
  <2>3. SlotInv(g, i)
    BY <1>2, <2>1 DEF SlotInv, Served
  <2>4. QED
    BY <2>2, <2>3 DEF g
<1>5. QED
  BY <1>3, <1>4

\* Closing a slot, and moving in a file that is served, keep SlotInv.
LEMMA ClosedSlotInv ==
    ASSUME NEW f \in Slot, NEW i \in Fds, SlotInv(f, i)
    PROVE  [f EXCEPT !.opened = 0] \in Slot /\ SlotInv([f EXCEPT !.opened = 0], i)
BY DEF Slot, SlotInv, Served

\* Moving the offset inside the file keeps SlotInv.
LEMMA MovedSlotInv ==
    ASSUME NEW f \in Slot, NEW i \in Fds, SlotInv(f, i), f.file # NoFile,
           NEW c \in Nat, c <= Size[f.file]
    PROVE  [f EXCEPT !.cfo = c] \in Slot /\ SlotInv([f EXCEPT !.cfo = c], i)
BY DEF Slot, SlotInv, Served

\* One slot is replaced by another that is allowed in its place.
LEMMA SlotReplaced ==
    ASSUME TypeOK, SlotsInv, NEW s \in Tables, NEW i \in Fds, NEW g \in Slot,
           SlotInv(g, i), slot' = [slot EXCEPT ![s][i] = g]
    PROVE  slot' \in [Tables -> [Fds -> Slot]] /\ SlotsInv'
<1>1. slot \in [Tables -> [Fds -> Slot]]
  BY DEF TypeOK
<1>2. slot' \in [Tables -> [Fds -> Slot]]
  BY <1>1
<1>3. ASSUME NEW r \in Tables, NEW j \in Fds PROVE SlotInv(slot'[r][j], j)
  <2>1. CASE r = s /\ j = i
    BY <1>1, <2>1
  <2>2. CASE ~(r = s /\ j = i)
    <3>1. slot'[r][j] = slot[r][j]
      BY <1>1, <2>2
    <3>2. QED
      BY <3>1 DEF SlotsInv
  <2>3. QED
    BY <2>1, <2>2
<1>4. QED
  BY <1>2, <1>3 DEF SlotsInv

\* A descriptor of a task is a slot of its table.
LEMMA FileSlot ==
    ASSUME TypeOK, SlotsInv, NEW t \in Tasks, NEW fd \in Fds
    PROVE  table[t] \in Tables /\ File(t, fd) \in Slot /\ SlotInv(File(t, fd), fd)
<1>1. table[t] \in Tables
  BY DEF TypeOK, Tasks
<1>2. QED
  BY <1>1 DEF TypeOK, File, SlotsInv

-----------------------------------------------------------------------------
(* Calls.                                                                  *)

\* file_init.
LEMMA InitIInv == Init => IInv
<1> SUFFICES ASSUME Init PROVE IInv
  OBVIOUS
<1>1. ASSUME NEW i \in Fds PROVE file_init[i] \in Slot /\ SlotInv(file_init[i], i)
  <2>1. CASE i \in 0 .. 2
    BY <2>1 DEF file_init, ConsoleSlot, Slot, SlotInv, ConsoleOps, ConsolePerms
  <2>2. CASE i \notin 0 .. 2
    BY <2>2 DEF file_init, ClosedSlot, Slot, SlotInv, Served
  <2>3. QED
    BY <2>1, <2>2
<1>2. file_init \in [Fds -> Slot]
  BY <1>1 DEF file_init
<1>3. TypeOK
  <2>1. slot \in [Tables -> [Fds -> Slot]]
    BY <1>2 DEF Init
  <2>2. table \in [1 .. MaxTasks -> Tables]
    <3>1. \A t \in 1 .. MaxTasks : (IF t \in Tables THEN t ELSE 1) \in Tables
      OBVIOUS
    <3>2. QED
      BY <3>1 DEF Init
  <2>3. last \in Call
    BY DEF Init, NoCall, Call
  <2>4. nr_tasks \in BootTasks .. MaxTasks /\ a0 \in Int
        /\ halted \in {"no", "null_call", "unimplemented"}
    BY DEF Init
  <2>5. QED
    BY <2>1, <2>2, <2>3, <2>4 DEF TypeOK
<1>4. SlotsInv
  BY <1>1 DEF Init, SlotsInv
<1>5. NullCallsOnlyUnopened
  BY DEF Init, NullCallsOnlyUnopened
<1>6. QED
  BY <1>3, <1>4, <1>5 DEF IInv

\* A NULL function is called only where NullCallsOnlyUnopened says.
LEMMA NullCallStep ==
    ASSUME IInv, NEW t \in Tasks, NEW fd \in Fds, NEW call \in {"seek", "read", "write"},
           File(t, fd).opened = 1, NullCall(t, call, fd),
           \/ call = "seek" /\ "lseek" \notin Functions(File(t, fd))
           \/ call = "read" /\ "R" \in File(t, fd).perms /\ "read" \notin Functions(File(t, fd))
           \/ call = "write" /\ "W" \in File(t, fd).perms /\ "write" \notin Functions(File(t, fd))
    PROVE  IInv'
<1>1. table[t] \in Tables /\ File(t, fd) \in Slot /\ SlotInv(File(t, fd), fd)
  BY FileSlot DEF IInv
<1>2. last' = [call |-> call, fd |-> fd] /\ last' \in Call
  BY DEF NullCall, Called, NoCall, Call
<1>3. TypeOK'
  BY <1>2 DEF IInv, TypeOK, NullCall, Slot
<1>4. SlotsInv'
  BY DEF IInv, SlotsInv, NullCall
<1>5. \/ call = "seek" /\ fd \in 0 .. 2
      \/ File(t, fd).good = "no" /\ File(t, fd).ops = "null"
  <2>1. CASE fd \in 0 .. 2
    <3>1. File(t, fd).ops = ConsoleOps(fd) /\ File(t, fd).perms = ConsolePerms(fd)
      BY <1>1, <2>1 DEF SlotInv
    <3>2. CASE fd = 0
      BY <3>1, <3>2 DEF Functions, ConsoleOps, ConsolePerms
    <3>3. CASE fd # 0
      <4>1. File(t, fd).perms = {"W"} /\ File(t, fd).ops \in {"stdout", "stderr"}
        BY <3>1, <3>3 DEF ConsoleOps, ConsolePerms
      <4>2. Functions(File(t, fd)) = {"write"}
        BY <4>1 DEF Functions
      <4>3. QED
        BY <2>1, <4>1, <4>2
    <3>4. QED
      BY <3>2, <3>3
  <2>2. CASE fd \in 3 .. MaxFile
    <3>1. File(t, fd).ops \in {"null", "fat32"} /\ (File(t, fd).ops = "null" => File(t, fd).good = "no")
      BY <1>1, <2>2 DEF SlotInv
    <3>2. File(t, fd).ops # "fat32"
      BY DEF Functions
    <3>3. QED
      BY <3>1, <3>2
  <2>3. QED
    BY <2>1, <2>2
<1>6. NullCallsOnlyUnopened'
  <2>1. slot'[table[t]][last'.fd] = File(t, fd) /\ last'.fd = fd /\ last'.call = call
    BY <1>2 DEF NullCall, File
  <2>2. QED
    BY <1>1, <1>5, <2>1 DEF NullCallsOnlyUnopened
<1>7. QED
  BY <1>3, <1>4, <1>6 DEF IInv

\* sys_openat.
LEMMA OpenStep ==
    ASSUME IInv, NEW t \in Tasks, NEW p \in Paths, NEW flags \in Flags, sys_openat(t, p, flags)
    PROVE  IInv'
<1>0. halted = "no" /\ halted' = "no" /\ nr_tasks' = nr_tasks /\ table' = table
  BY DEF sys_openat, Ready
<1>1. CASE EmptySlot(table[t]) = {}
  <2>1. a0' = -1 /\ last' = [call |-> "openat", fd |-> -1] /\ slot' = slot
    BY <1>1 DEF sys_openat, Called
  <2>2. last' \in Call
    BY <2>1 DEF Call
  <2>3. QED
    BY <1>0, <2>1, <2>2 DEF IInv, TypeOK, SlotsInv, NullCallsOnlyUnopened
<1>2. CASE EmptySlot(table[t]) # {}
  <2>1. PICK i \in EmptySlot(table[t]) :
           /\ slot' = [slot EXCEPT ![table[t]][i] = file_open(File(t, i), p, flags)]
           /\ a0' \in {0, -1}
           /\ last' = [call |-> "openat", fd |-> i]
    BY <1>2 DEF sys_openat, Called
  <2>2. i \in 3 .. MaxFile - 1 /\ i \in Fds
    BY DEF EmptySlot
  <2>3. table[t] \in Tables /\ File(t, i) \in Slot /\ SlotInv(File(t, i), i)
    BY <2>2, FileSlot DEF IInv
  <2>4. file_open(File(t, i), p, flags) \in Slot /\ SlotInv(file_open(File(t, i), p, flags), i)
    BY <2>2, <2>3, OpenedSlot
  <2>5. slot' \in [Tables -> [Fds -> Slot]] /\ SlotsInv'
    BY <2>1, <2>2, <2>3, <2>4, SlotReplaced DEF IInv
  <2>6. last' \in Call
    BY <2>1, <2>2 DEF Call
  <2>7. QED
    BY <1>0, <2>1, <2>5, <2>6 DEF IInv, TypeOK, NullCallsOnlyUnopened
<1>3. QED
  BY <1>1, <1>2

\* sys_close.
LEMMA CloseStep ==
    ASSUME IInv, NEW t \in Tasks, NEW fd \in Fds, sys_close(t, fd)
    PROVE  IInv'
<1>1. halted = "no" /\ halted' = "no" /\ nr_tasks' = nr_tasks /\ table' = table
      /\ a0' \in Int /\ last' \in Call
  BY DEF sys_close, Ready, NoCall, Call
<1>2. table[t] \in Tables /\ File(t, fd) \in Slot /\ SlotInv(File(t, fd), fd)
  BY FileSlot DEF IInv
<1>3. slot' \in [Tables -> [Fds -> Slot]] /\ SlotsInv'
  <2>1. CASE File(t, fd).opened = 1
    <3> DEFINE g == [File(t, fd) EXCEPT !.opened = 0]
    <3>1. g \in Slot /\ SlotInv(g, fd)
      BY <1>2, ClosedSlotInv
    <3>2. slot' = [slot EXCEPT ![table[t]][fd] = g]
      BY <1>2, <2>1 DEF sys_close, File, IInv, TypeOK
    <3> HIDE DEF g
    <3>3. QED
      BY <1>2, <3>1, <3>2, SlotReplaced DEF IInv
  <2>2. CASE File(t, fd).opened # 1
    BY <2>2 DEF sys_close, IInv, TypeOK, SlotsInv
  <2>3. QED
    BY <2>1, <2>2
<1>4. QED
  BY <1>1, <1>3 DEF IInv, TypeOK, NullCallsOnlyUnopened

\* sys_read and sys_write.
LEMMA ReadWriteStep ==
    ASSUME IInv, NEW t \in Tasks, NEW fd \in Fds, NEW len \in Lens,
           NEW call \in {"read", "write"}, NEW p \in Perms,
           call = "read" => p = "R", call = "write" => p = "W",
           ReadWrite(t, call, p, fd, len)
    PROVE  IInv'
<1>1. table[t] \in Tables /\ File(t, fd) \in Slot /\ SlotInv(File(t, fd), fd)
  BY FileSlot DEF IInv
<1>2. NoCall \in Call
  BY DEF NoCall, Call
<1>3. CASE File(t, fd).opened = 0 \/ ~Permitted(File(t, fd), p)
  <2>1. /\ a0' = NotOpen /\ last' = NoCall /\ halted = "no"
        /\ UNCHANGED <<nr_tasks, table, slot, halted>>
    BY <1>3 DEF ReadWrite, Ready
  <2>2. QED
    BY <1>2, <2>1 DEF IInv, TypeOK, SlotsInv, NullCallsOnlyUnopened, NotOpen
<1>4. CASE /\ ~(File(t, fd).opened = 0 \/ ~Permitted(File(t, fd), p))
           /\ call \notin Functions(File(t, fd))
  <2>1. NullCall(t, call, fd)
    BY <1>4 DEF ReadWrite
  <2>2. File(t, fd).opened = 1 /\ p \in File(t, fd).perms
    BY <1>1, <1>4 DEF Slot, Permitted
  <2>3. QED
    BY <1>4, <2>1, <2>2, NullCallStep
<1>5. CASE /\ ~(File(t, fd).opened = 0 \/ ~Permitted(File(t, fd), p))
           /\ call \in Functions(File(t, fd))
  <2>1. /\ Transfer(t, fd, len) /\ last' = NoCall /\ halted = "no"
        /\ UNCHANGED <<nr_tasks, table, halted>>
    BY <1>5 DEF ReadWrite, Ready
  <2>2. a0' \in Int /\ slot' \in [Tables -> [Fds -> Slot]] /\ SlotsInv'
    <3>1. CASE File(t, fd).file # NoFile
      <4> DEFINE n == IF File(t, fd).cfo >= Size[File(t, fd).file] THEN 0
                      ELSE Least(len, Size[File(t, fd).file] - File(t, fd).cfo)
                 g == [File(t, fd) EXCEPT !.cfo = @ + n]
      <4>1. File(t, fd).file \in Files /\ Size[File(t, fd).file] \in Nat /\ len \in Nat
            /\ File(t, fd).cfo \in Nat
        BY <1>1, <3>1 DEF Slot
      <4>2. n \in Nat /\ (n = 0 \/ File(t, fd).cfo + n <= Size[File(t, fd).file])
        BY <4>1 DEF Least
      <4>3. a0' = n /\ slot' = [slot EXCEPT ![table[t]][fd].cfo = @ + n]
        BY <2>1, <3>1 DEF Transfer
      <4> HIDE DEF n
      <4>4. slot' = [slot EXCEPT ![table[t]][fd] = g]
        BY <1>1, <4>3 DEF File, IInv, TypeOK
      <4>5. g \in Slot /\ SlotInv(g, fd)
        <5>1. CASE n = 0
          <6>1. g = File(t, fd)
            BY <1>1, <4>1, <5>1 DEF Slot
          <6>2. QED
            BY <1>1, <6>1
        <5>2. CASE n # 0
          BY <1>1, <3>1, <4>1, <4>2, <5>2, MovedSlotInv
        <5>3. QED
          BY <5>1, <5>2
      <4> HIDE DEF g
      <4>6. slot' \in [Tables -> [Fds -> Slot]] /\ SlotsInv'
        BY <1>1, <4>4, <4>5, SlotReplaced DEF IInv
      <4>7. QED
        BY <4>2, <4>3, <4>6
    <3>2. CASE File(t, fd).file = NoFile
      <4>1. a0' \in {0, len} /\ slot' = slot
        BY <2>1, <3>2 DEF Transfer
      <4>2. QED
        BY <4>1 DEF IInv, TypeOK, SlotsInv
    <3>3. QED
      BY <3>1, <3>2
  <2>3. QED
    BY <1>2, <2>1, <2>2 DEF IInv, TypeOK, NullCallsOnlyUnopened
<1>6. QED
  BY <1>3, <1>4, <1>5

\* sys_seek.
LEMMA SeekStep ==
    ASSUME IInv, NEW t \in Tasks, NEW fd \in Fds, NEW offset \in Lens \cup {0},
           sys_seek(t, fd, offset)
    PROVE  IInv'
<1>1. table[t] \in Tables /\ File(t, fd) \in Slot /\ SlotInv(File(t, fd), fd)
  BY FileSlot DEF IInv
<1>2. NoCall \in Call /\ offset \in Nat
  BY DEF NoCall, Call
<1>3. CASE File(t, fd).opened = 0
  <2>1. /\ a0' = fd /\ last' = NoCall /\ halted = "no"
        /\ UNCHANGED <<nr_tasks, table, slot, halted>>
    BY <1>3 DEF sys_seek, Ready
  <2>2. QED
    BY <1>2, <2>1 DEF IInv, TypeOK, SlotsInv, NullCallsOnlyUnopened
<1>4. CASE File(t, fd).opened # 0 /\ "lseek" \notin Functions(File(t, fd))
  <2>1. NullCall(t, "seek", fd)
    BY <1>4 DEF sys_seek
  <2>2. File(t, fd).opened = 1
    BY <1>1, <1>4 DEF Slot
  <2>3. QED
    BY <1>4, <2>1, <2>2, NullCallStep
<1>5. CASE File(t, fd).opened # 0 /\ "lseek" \in Functions(File(t, fd))
  <2>1. last' = NoCall /\ halted = "no" /\ UNCHANGED <<nr_tasks, table, halted>>
    BY <1>5 DEF sys_seek, Ready
  <2>2. a0' \in Int /\ slot' \in [Tables -> [Fds -> Slot]] /\ SlotsInv'
    <3>1. CASE File(t, fd).file # NoFile
      <4> DEFINE c == Least(offset, Size[File(t, fd).file])
                 g == [File(t, fd) EXCEPT !.cfo = c]
      <4>1. File(t, fd).file \in Files /\ Size[File(t, fd).file] \in Nat
        BY <1>1, <3>1 DEF Slot
      <4>2. c \in Nat /\ c <= Size[File(t, fd).file]
        BY <1>2, <4>1 DEF Least
      <4>3. a0' = c /\ slot' = [slot EXCEPT ![table[t]][fd].cfo = c]
        BY <1>5, <3>1 DEF sys_seek
      <4> HIDE DEF c
      <4>4. slot' = [slot EXCEPT ![table[t]][fd] = g]
        BY <1>1, <4>3 DEF File, IInv, TypeOK
      <4>5. g \in Slot /\ SlotInv(g, fd)
        BY <1>1, <3>1, <4>2, MovedSlotInv
      <4> HIDE DEF g
      <4>6. slot' \in [Tables -> [Fds -> Slot]] /\ SlotsInv'
        BY <1>1, <4>4, <4>5, SlotReplaced DEF IInv
      <4>7. QED
        BY <4>2, <4>3, <4>6
    <3>2. CASE File(t, fd).file = NoFile
      <4>1. a0' = offset /\ slot' = slot
        BY <1>5, <3>2 DEF sys_seek
      <4>2. QED
        BY <1>2, <4>1 DEF IInv, TypeOK, SlotsInv
    <3>3. QED
      BY <3>1, <3>2
  <2>3. QED
    BY <1>2, <2>1, <2>2 DEF IInv, TypeOK, NullCallsOnlyUnopened
<1>6. QED
  BY <1>3, <1>4, <1>5

\* sys_clone: the child points to its parent's table.
LEMMA CloneStep ==
    ASSUME IInv, NEW t \in Tasks, sys_clone(t)
    PROVE  IInv'
<1>1. /\ halted = "no" /\ halted' = "no" /\ slot' = slot /\ nr_tasks < MaxTasks
      /\ nr_tasks' = nr_tasks + 1 /\ a0' = nr_tasks + 1 /\ last' = NoCall
      /\ table' = [table EXCEPT ![nr_tasks + 1] = table[t]]
  BY DEF sys_clone, Ready, InheritedTable
<1>2. nr_tasks \in BootTasks .. MaxTasks /\ table \in [1 .. MaxTasks -> Tables]
  BY DEF IInv, TypeOK
<1>3. table[t] \in Tables
  BY <1>2 DEF Tasks
<1>4. TypeOK'
  <2>1. nr_tasks' \in BootTasks .. MaxTasks /\ a0' \in Int
    BY <1>1, <1>2
  <2>2. table' \in [1 .. MaxTasks -> Tables]
    BY <1>1, <1>2, <1>3
  <2>3. NoCall \in Call
    BY DEF NoCall, Call
  <2>4. QED
    BY <1>1, <2>1, <2>2, <2>3 DEF IInv, TypeOK
<1>5. QED
  BY <1>1, <1>4 DEF IInv, SlotsInv, NullCallsOnlyUnopened

\* Every call keeps the inductive invariant.
LEMMA NextIInv == IInv /\ [Next]_vars => IInv'
<1> SUFFICES ASSUME IInv, [Next]_vars PROVE IInv'
  OBVIOUS
<1>0. NoCall \in Call
  BY DEF NoCall, Call
<1>1. ASSUME NEW t \in Tasks, NEW p \in Paths, NEW flags \in Flags, sys_openat(t, p, flags)
      PROVE  IInv'
  BY <1>1, OpenStep
<1>2. ASSUME NEW t \in Tasks, NEW fd \in Fds, sys_close(t, fd)
      PROVE  IInv'
  BY <1>2, CloseStep
<1>3. ASSUME NEW t \in Tasks, NEW fd \in Fds, NEW len \in Lens, sys_read(t, fd, len)
      PROVE  IInv'
  BY <1>3, ReadWriteStep DEF sys_read
<1>4. ASSUME NEW t \in Tasks, NEW fd \in Fds, NEW len \in Lens, sys_write(t, fd, len)
      PROVE  IInv'
  BY <1>4, ReadWriteStep DEF sys_write
<1>5. ASSUME NEW t \in Tasks, NEW fd \in Fds, NEW o \in Lens \cup {0}, sys_seek(t, fd, o)
      PROVE  IInv'
  BY <1>5, SeekStep
<1>6. ASSUME NEW t \in Tasks, sys_getpid(t)
      PROVE  IInv'
  <2>1. a0' \in Int
    BY <1>6 DEF sys_getpid, Tasks
  <2>2. QED
    BY <1>0, <1>6, <2>1
       DEF sys_getpid, Ready, IInv, TypeOK, SlotsInv, NullCallsOnlyUnopened
<1>7. ASSUME NEW t \in Tasks, sys_clone(t)
      PROVE  IInv'
  BY <1>7, CloneStep
<1>8. ASSUME NEW t \in Tasks, Unimplemented(t)
      PROVE  IInv'
  BY <1>0, <1>8 DEF Unimplemented, IInv, TypeOK, SlotsInv, NullCallsOnlyUnopened
<1>9. CASE UNCHANGED vars
  BY <1>9 DEF vars, IInv, TypeOK, SlotsInv, NullCallsOnlyUnopened
<1>10. QED
  BY <1>1, <1>2, <1>3, <1>4, <1>5, <1>6, <1>7, <1>8, <1>9 DEF Next, Halted

\* The inductive invariant of Files: types, what each slot may be, and where a
\* NULL function is called.
THEOREM Invariance == Spec => []IInv
<1>1. QED
  BY InitIInv, NextIInv, PTL DEF Spec

-----------------------------------------------------------------------------
(* The properties of the runs.                                             *)

\* Type invariant of the system calls (syscall.c, fs.c).
THEOREM TypeCorrect == Spec => []TypeOK
<1>1. IInv => TypeOK
  BY DEF IInv
<1>2. QED
  BY <1>1, Invariance, PTL

\* A slot whose open succeeded serves the file of its path, from inside it
\* (file_open, fat32_lseek, fat32_read, fat32_write).
THEOREM SlotsServe == Spec => []OpenServesPath
<1>1. IInv => OpenServesPath
  <2> SUFFICES ASSUME IInv, NEW s \in Tables, NEW i \in 3 .. MaxFile - 1 PROVE Served(slot[s][i])
    BY DEF OpenServesPath, Served
  <2>1. SlotInv(slot[s][i], i)
    BY DEF IInv, SlotsInv
  <2>2. QED
    BY <2>1 DEF SlotInv
<1>2. QED
  BY <1>1, Invariance, PTL

\* The kernel calls a NULL function only for a seek on the console or on a slot
\* whose open failed (sys_seek, sys_read, sys_write).
THEOREM NullCalls == Spec => []NullCallsOnlyUnopened
<1>1. IInv => NullCallsOnlyUnopened
  BY DEF IInv
<1>2. QED
  BY <1>1, Invariance, PTL

\* A slot is itself with its own offset.
LEMMA SameSlot ==
    ASSUME NEW f \in Slot
    PROVE  f = [f EXCEPT !.cfo = f.cfo]
BY DEF Slot

\* Of an open slot, only the offset may change.
Stable == \A s \in Tables, i \in Fds :
             slot[s][i].opened = 1 /\ slot'[s][i].opened = 1 =>
                 slot'[s][i] = [slot[s][i] EXCEPT !.cfo = slot'[s][i].cfo]

\* A step that leaves the slots alone.
LEMMA UnchangedStable ==
    ASSUME TypeOK, slot' = slot
    PROVE  Stable
<1> SUFFICES ASSUME NEW s \in Tables, NEW i \in Fds
             PROVE  slot'[s][i] = [slot[s][i] EXCEPT !.cfo = slot'[s][i].cfo]
  BY DEF Stable
<1>1. slot[s][i] \in Slot
  BY DEF TypeOK
<1>2. QED
  BY <1>1, SameSlot

\* One slot is replaced that was closed, that is closed, or whose offset moves.
LEMMA ReplacedStable ==
    ASSUME TypeOK, NEW r \in Tables, NEW j \in Fds, NEW g,
           slot' = [slot EXCEPT ![r][j] = g],
           \/ slot[r][j].opened = 0
           \/ g.opened = 0
           \/ \E c \in Nat : g = [slot[r][j] EXCEPT !.cfo = c]
    PROVE  Stable
<1> SUFFICES ASSUME NEW s \in Tables, NEW i \in Fds,
                    slot[s][i].opened = 1, slot'[s][i].opened = 1
             PROVE  slot'[s][i] = [slot[s][i] EXCEPT !.cfo = slot'[s][i].cfo]
  BY DEF Stable
<1>1. slot[s][i] \in Slot /\ slot \in [Tables -> [Fds -> Slot]]
  BY DEF TypeOK
<1>2. CASE s = r /\ i = j
  <2>1. slot'[s][i] = g
    BY <1>1, <1>2
  <2>2. PICK c \in Nat : g = [slot[s][i] EXCEPT !.cfo = c]
    BY <1>2, <2>1
  <2>3. g.cfo = c
    BY <1>1, <2>2 DEF Slot
  <2>4. QED
    BY <2>1, <2>2, <2>3
<1>3. CASE ~(s = r /\ i = j)
  <2>1. slot'[s][i] = slot[s][i]
    BY <1>1, <1>3
  <2>2. QED
    BY <1>1, <2>1, SameSlot
<1>4. QED
  BY <1>2, <1>3

\* Call by call.
LEMMA NextStable ==
    ASSUME TypeOK, Next
    PROVE  Stable
<1>0. \A t \in Tasks : table[t] \in Tables
  BY DEF TypeOK, Tasks
<1>1. ASSUME NEW t \in Tasks, NEW p \in Paths, NEW flags \in Flags, sys_openat(t, p, flags)
      PROVE  Stable
  <2>1. CASE EmptySlot(table[t]) = {}
    BY <1>1, <2>1, UnchangedStable DEF sys_openat
  <2>2. CASE EmptySlot(table[t]) # {}
    <3>1. PICK i \in EmptySlot(table[t]) :
             slot' = [slot EXCEPT ![table[t]][i] = file_open(File(t, i), p, flags)]
      BY <1>1, <2>2 DEF sys_openat
    <3>2. i \in Fds /\ slot[table[t]][i].opened = 0
      BY <3>1 DEF EmptySlot
    <3>3. QED
      BY <1>0, <3>1, <3>2, ReplacedStable
  <2>3. QED
    BY <2>1, <2>2
<1>2. ASSUME NEW t \in Tasks, NEW fd \in Fds, sys_close(t, fd)
      PROVE  Stable
  <2>1. CASE File(t, fd).opened = 1
    <3> DEFINE g == [File(t, fd) EXCEPT !.opened = 0]
    <3>1. File(t, fd) \in Slot
      BY <1>0 DEF File, TypeOK
    <3>2. slot' = [slot EXCEPT ![table[t]][fd] = g]
      BY <1>0, <1>2, <2>1 DEF sys_close, File, TypeOK
    <3>3. g.opened = 0
      BY <3>1 DEF Slot
    <3> HIDE DEF g
    <3>4. QED
      BY <1>0, <3>2, <3>3, ReplacedStable
  <2>2. CASE File(t, fd).opened # 1
    BY <1>2, <2>2, UnchangedStable DEF sys_close
  <2>3. QED
    BY <2>1, <2>2
<1>3. ASSUME NEW t \in Tasks, NEW fd \in Fds, NEW c \in Nat,
             slot' = [slot EXCEPT ![table[t]][fd].cfo = c]
      PROVE  Stable
  <2> DEFINE g == [slot[table[t]][fd] EXCEPT !.cfo = c]
  <2>1. slot' = [slot EXCEPT ![table[t]][fd] = g]
    BY <1>0, <1>3 DEF TypeOK
  <2>2. \E x \in Nat : g = [slot[table[t]][fd] EXCEPT !.cfo = x]
    OBVIOUS
  <2> HIDE DEF g
  <2>3. QED
    BY <1>0, <2>1, <2>2, ReplacedStable
<1>4. ASSUME NEW t \in Tasks, NEW call, NEW p, NEW fd \in Fds, NEW len \in Lens,
             ReadWrite(t, call, p, fd, len)
      PROVE  Stable
  <2>1. CASE slot' = slot
    BY <2>1, UnchangedStable
  <2>2. CASE slot' # slot
    <3>1. Transfer(t, fd, len) /\ File(t, fd).file # NoFile
      BY <1>4, <2>2 DEF ReadWrite, NullCall, Transfer
    <3>2. File(t, fd) \in Slot
      BY <1>0 DEF File, TypeOK
    <3>3. File(t, fd).file \in Files /\ File(t, fd).cfo \in Nat
      BY <3>1, <3>2 DEF Slot
    <3> DEFINE n == IF File(t, fd).cfo >= Size[File(t, fd).file] THEN 0
                    ELSE Least(len, Size[File(t, fd).file] - File(t, fd).cfo)
    <3>4. n \in Nat
      BY <3>3 DEF Least
    <3>5. slot' = [slot EXCEPT ![table[t]][fd].cfo = @ + n]
      BY <3>1 DEF Transfer
    <3> HIDE DEF n
    <3> DEFINE c == File(t, fd).cfo + n
    <3>6. slot' = [slot EXCEPT ![table[t]][fd].cfo = c]
      BY <1>0, <3>5 DEF File, TypeOK
    <3>7. c \in Nat
      BY <3>3, <3>4
    <3> HIDE DEF c
    <3>8. QED
      BY <1>3, <3>6, <3>7
  <2>3. QED
    BY <2>1, <2>2
<1>5. ASSUME NEW t \in Tasks, NEW fd \in Fds, NEW o \in Lens \cup {0}, sys_seek(t, fd, o)
      PROVE  Stable
  <2>1. CASE slot' = slot
    BY <2>1, UnchangedStable
  <2>2. CASE slot' # slot
    <3>1. File(t, fd).file # NoFile
          /\ slot' = [slot EXCEPT ![table[t]][fd].cfo = Least(o, Size[File(t, fd).file])]
      BY <1>5, <2>2 DEF sys_seek, NullCall
    <3>2. File(t, fd) \in Slot
      BY <1>0 DEF File, TypeOK
    <3>3. Least(o, Size[File(t, fd).file]) \in Nat
      BY <3>1, <3>2 DEF Slot, Least
    <3>4. QED
      BY <1>3, <3>1, <3>3
  <2>3. QED
    BY <2>1, <2>2
<1>6. ASSUME NEW t \in Tasks, sys_getpid(t) \/ sys_clone(t) \/ Unimplemented(t)
      PROVE  Stable
  BY <1>6, UnchangedStable DEF sys_getpid, sys_clone, Unimplemented
<1>7. CASE Halted
  BY <1>7, UnchangedStable DEF Halted, vars
<1>8. QED
  BY <1>1, <1>2, <1>4, <1>5, <1>6, <1>7 DEF Next, sys_read, sys_write

\* An open slot keeps its file and permissions whatever the tasks that share
\* the table call (sys_openat, file_open).
THEOREM SlotsStable == Spec => OpenSlotsStable
<1>1. TypeOK /\ [Next]_vars => [Stable]_vars
  BY NextStable
<1>2. QED
  BY <1>1, TypeCorrect, PTL DEF Spec, OpenSlotsStable, Stable

-----------------------------------------------------------------------------
(* Boot.                                                                   *)

\* The steps of head.S behind relocate, and those before the loop of mbr_init.
HighSteps  == {"mm_init", "setup_vm_final", "task_init", "virtio_dev_init", "mbr_init", "partitions",
               "stvec", "sie", "clock_set_next_event", "start_kernel", "program", "halted"}
EarlySteps == {"setup_vm", "relocate", "ret", "mm_init", "setup_vm_final", "task_init",
               "virtio_dev_init", "mbr_init"}

\* Where instructions come from: only behind relocate's write of satp may the
\* next one not be mapped, and there stvec leads on.
Fetching ==
    /\ pc \in HighSteps \cup {"setup_vm", "relocate", "ret", "lost"}
    /\ pc \in {"setup_vm", "relocate"} => at = "physical" /\ satp = "bare"
    /\ pc = "ret" => at \in {"physical", "virtual"} /\ satp = "early" /\ stvec = "tmp"
    /\ pc \in HighSteps => at = "virtual" /\ satp \in {"early", "final"}

\* A partition table: where each partition begins.
Table == [Entries -> Sectors \cup {NoPartition}]

\* mbr_init looks at each entry once.
Looking ==
    /\ disk.fat32 \subseteq Sectors /\ disk.first \in Table /\ mbr \in Table
    /\ entry \in 1 .. 5
    /\ pc \in EarlySteps => entry = 1
    /\ pc = "partitions" => entry <= 4

BootInv == Fetching /\ Looking /\ VolumeFromItsBootSector

\* What is set up when head.S comes to a step.
SetUp ==
    /\ pc \in {"setup_vm", "relocate", "ret", "mm_init"} => ready = {}
    /\ pc \in {"setup_vm_final", "task_init"} => ready = {"mm"}
    /\ pc = "virtio_dev_init" => ready = {"mm", "tasks"}
    /\ pc \in {"mbr_init", "partitions", "stvec", "sie", "clock_set_next_event", "start_kernel",
               "program"} => ready = {"mm", "tasks", "ring"}
    /\ pc \in HighSteps \ {"mm_init", "setup_vm_final"} => satp = "final"
    /\ pc \in {"sie", "clock_set_next_event", "start_kernel", "program"} => stvec = "traps"
    /\ pc \in {"clock_set_next_event", "start_kernel", "program"} => sie = "on"
    /\ pc \in {"start_kernel", "program"} => timer = "set"

\* With a disk the hart is not lost, and it stops for want of a signature only.
OnCourse == disk.present = "yes" => pc # "lost" /\ (pc = "halted" => ~Signed) /\ SetUp

\* _start.
LEMMA BootInitInv == BootInit => BootInv /\ OnCourse
<1> SUFFICES ASSUME BootInit PROVE BootInv /\ OnCourse
  OBVIOUS
<1>1. /\ disk.fat32 \subseteq Sectors /\ disk.first \in Table /\ mbr \in Table
      /\ entry = 1 /\ pc = "setup_vm"
      /\ at = "physical" /\ satp = "bare" /\ ready = {} /\ volume.bpb = NoBpb
  BY DEF BootInit, Table
<1>2. 1 .. entry - 1 = {}
  BY <1>1
<1>3. VolumeFromItsBootSector
  BY <1>1, <1>2 DEF VolumeFromItsBootSector
<1>4. Fetching /\ Looking
  BY <1>1 DEF Fetching, Looking, HighSteps, EarlySteps
<1>5. SetUp /\ pc # "lost" /\ pc # "halted"
  BY <1>1 DEF SetUp, HighSteps
<1>6. QED
  BY <1>3, <1>4, <1>5 DEF BootInv, OnCourse

\* A step that is not one of the loop of mbr_init, and the rest of BootInv.
LEMMA OutsideLoop ==
    ASSUME BootInv,
           \/ setup_vm \/ relocate \/ FetchFault \/ tmp_stvec \/ mm_init \/ setup_vm_final
           \/ task_init \/ virtio_dev_init \/ NoDevice \/ NullRing \/ mbr_init
           \/ stvec_traps \/ sie_STIE \/ clock_set_next_event \/ start_kernel
           \/ UNCHANGED bootVars
    PROVE  BootInv'
<1> USE DEF Fetching, Looking, HighSteps, EarlySteps, Go, Mapped, memory, devices, fat
<1>1. disk' = disk /\ entry' = entry /\ volume' = volume /\ (mbr' = mbr \/ entry = 1)
  BY DEF setup_vm, relocate, FetchFault, tmp_stvec, mm_init, setup_vm_final, task_init,
         virtio_dev_init, NoDevice, NullRing, mbr_init, stvec_traps, sie_STIE,
         clock_set_next_event, start_kernel, bootVars, BootInv
<1>2. VolumeFromItsBootSector'
  <2>1. CASE mbr' = mbr
    BY <1>1, <2>1 DEF BootInv, VolumeFromItsBootSector
  <2>2. CASE entry = 1
    <3>1. 1 .. entry - 1 = {}
      BY <2>2
    <3>2. QED
      BY <1>1, <3>1 DEF BootInv, VolumeFromItsBootSector
  <2>3. QED
    BY <1>1, <2>1, <2>2
<1>3. CASE setup_vm
  BY <1>1, <1>2, <1>3 DEF setup_vm, BootInv
<1>4. CASE relocate
  BY <1>1, <1>2, <1>4 DEF relocate, Vector, BootInv
<1>5. CASE FetchFault
  BY <1>1, <1>2, <1>5 DEF FetchFault, BootInv
<1>6. CASE tmp_stvec
  BY <1>1, <1>2, <1>6 DEF tmp_stvec, BootInv
<1>7. CASE mm_init \/ setup_vm_final \/ task_init
  BY <1>1, <1>2, <1>7 DEF mm_init, setup_vm_final, task_init, BootInv
<1>8. CASE virtio_dev_init \/ NoDevice \/ NullRing
  BY <1>1, <1>2, <1>8 DEF virtio_dev_init, SignatureTest, NoDevice, NullRing, BootInv
<1>9. CASE stvec_traps \/ sie_STIE \/ clock_set_next_event \/ start_kernel
  BY <1>1, <1>2, <1>9 DEF stvec_traps, sie_STIE, clock_set_next_event, start_kernel, BootInv
<1>10. CASE UNCHANGED bootVars
  BY <1>1, <1>2, <1>10 DEF bootVars, BootInv
<1>11. CASE mbr_init
  <2>1. mbr' \in Table
    BY <1>11 DEF mbr_init, AfterRead, BootInv
  <2>2. QED
    BY <1>1, <1>2, <1>11, <2>1 DEF mbr_init, BootInv
<1>12. QED
  BY <1>3, <1>4, <1>5, <1>6, <1>7, <1>8, <1>9, <1>10, <1>11

\* The entries behind which there is a volume.
Candidates(e) == {i \in 1 .. e - 1 : mbr[i] \in disk.fat32}

\* VolumeFromItsBootSector before entry e.
VolumeOf(e, v) ==
    IF Candidates(e) = {} THEN v.bpb = NoBpb
    ELSE \E i \in Candidates(e) :
            /\ \A j \in Candidates(e) : j <= i
            /\ v = [first |-> mbr[i], bpb |-> mbr[i]]

\* An entry without a FAT32 volume leaves the last one.
LEMMA VolumeStays ==
    ASSUME NEW e \in 1 .. 4, NEW v, mbr[e] \notin disk.fat32, VolumeOf(e, v)
    PROVE  VolumeOf(e + 1, v)
<1>1. Candidates(e + 1) = Candidates(e)
  BY DEF Candidates
<1>2. QED
  BY <1>1 DEF VolumeOf

\* An entry with one takes its place.
LEMMA VolumeTaken ==
    ASSUME NEW e \in 1 .. 4, NEW v, mbr[e] \in disk.fat32,
           v = [first |-> mbr[e], bpb |-> mbr[e]]
    PROVE  VolumeOf(e + 1, v)
<1>1. e \in Candidates(e + 1) /\ \A j \in Candidates(e + 1) : j <= e
  BY DEF Candidates
<1>2. QED
  BY <1>1 DEF VolumeOf

\* A turn of the loop of mbr_init, which may read into fat32_header twice.
LEMMA LoopStep ==
    ASSUME BootInv, OtherType \/ NotFat32 \/ Fat32Partition
    PROVE  BootInv'
<1>1. /\ pc = "partitions" /\ entry \in 1 .. 4 /\ entry' = entry + 1
      /\ pc' = (IF entry = 4 THEN "stvec" ELSE "partitions")
      /\ disk' = disk /\ mbr' = mbr /\ at' = at /\ satp' = satp /\ stvec' = stvec
      /\ disk.fat32 \subseteq Sectors /\ disk.first \in Table /\ mbr \in Table
  <2>1. Turn
    BY DEF OtherType, NotFat32, Fat32Partition
  <2>2. /\ disk.fat32 \subseteq Sectors /\ disk.first \in Table /\ mbr \in Table
        /\ entry \in 1 .. 5 /\ (pc = "partitions" => entry <= 4)
    BY DEF BootInv, Looking
  <2>3. QED
    BY <2>1, <2>2 DEF Turn, memory, devices
<1>2. Fetching' /\ Looking'
  BY <1>1 DEF BootInv, Fetching, Looking, HighSteps, EarlySteps
<1>3. VolumeFromItsBootSector <=> (disk.bad \cap Sectors = {} => VolumeOf(entry, volume))
  BY DEF VolumeFromItsBootSector, VolumeOf, Candidates
<1>4. VolumeFromItsBootSector' <=> (disk.bad \cap Sectors = {} => VolumeOf(entry + 1, volume'))
  BY <1>1 DEF VolumeFromItsBootSector, VolumeOf, Candidates
<1>5. ASSUME disk.bad \cap Sectors = {} PROVE VolumeOf(entry + 1, volume')
  <2>0. mbr[entry] # NoPartition => mbr[entry] \in Sectors \ disk.bad
    BY <1>1, <1>5 DEF Table, Entries
  <2>1. VolumeOf(entry, volume)
    BY <1>3, <1>5 DEF BootInv
  <2>2. CASE OtherType
    <3>1. volume' = volume /\ mbr[entry] \notin disk.fat32
      BY <1>1, <2>2, BootAssumption DEF OtherType
    <3>2. QED
      BY <1>1, <2>1, <3>1, VolumeStays
  <2>3. CASE NotFat32
    <3>1. volume' = volume /\ mbr[entry] \notin disk.fat32
      BY <2>0, <2>3 DEF NotFat32, ReadInto, AfterRead, HasSignature
    <3>2. QED
      BY <1>1, <2>1, <3>1, VolumeStays
  <2>4. CASE Fat32Partition
    <3>1. /\ mbr[entry] \in disk.fat32 /\ header' = mbr[entry]
          /\ volume' = [first |-> mbr[entry], bpb |-> header']
      BY <2>0, <2>4 DEF Fat32Partition, ReadInto, AfterRead, HasSignature, VolumeAt
    <3>2. QED
      BY <1>1, <3>1, VolumeTaken
  <2>5. QED
    BY <2>2, <2>3, <2>4
<1>6. QED
  BY <1>2, <1>4, <1>5 DEF BootInv

\* Every step keeps the inductive invariant.
LEMMA BootNextInv == BootInv /\ [BootNext]_bootVars => BootInv'
BY OutsideLoop, LoopStep DEF BootNext, Done

\* The way of the hart with a disk.
LEMMA CourseStep == BootInv /\ OnCourse /\ [BootNext]_bootVars => OnCourse'
<1> SUFFICES ASSUME BootInv, OnCourse, [BootNext]_bootVars PROVE OnCourse'
  OBVIOUS
<1>1. disk' = disk
  BY DEF BootNext, setup_vm, relocate, FetchFault, tmp_stvec, mm_init, setup_vm_final, task_init,
         virtio_dev_init, NoDevice, NullRing, mbr_init, OtherType, NotFat32, Fat32Partition, Turn,
         stvec_traps, sie_STIE, clock_set_next_event, start_kernel, Done, bootVars
<1> SUFFICES ASSUME disk.present = "yes"
             PROVE  pc' # "lost" /\ (pc' = "halted" => ~Signed) /\ SetUp'
  BY <1>1 DEF OnCourse, Signed
<1>2. pc # "lost" /\ (pc = "halted" => ~Signed) /\ SetUp /\ Fetching /\ disk.present = "yes"
  BY DEF OnCourse, BootInv
<1> USE <1>2 DEF SetUp, HighSteps, Go, memory, devices, fat
<1>3. CASE setup_vm \/ tmp_stvec
  BY <1>3 DEF setup_vm, tmp_stvec
<1>4. CASE relocate
  BY <1>4 DEF relocate, Vector
<1>5. CASE FetchFault
  BY <1>5 DEF FetchFault, Fetching, Mapped
<1>6. CASE mm_init
  BY <1>6 DEF mm_init
<1>7. CASE setup_vm_final
  BY <1>7 DEF setup_vm_final
<1>8. CASE task_init
  BY <1>8 DEF task_init
<1>9. CASE virtio_dev_init
  <2>1. PICK signature \in SignatureRead : Go("virtio_dev_init", SignatureTest(signature))
    BY <1>9 DEF virtio_dev_init
  <2>2. Signed => signature = "yes"
    BY <2>1 DEF SignatureRead, AfterRead, Signed
  <2>3. CASE signature = "yes"
    BY <1>9, <2>1, <2>3 DEF virtio_dev_init, SignatureTest
  <2>4. CASE signature # "yes"
    BY <1>9, <2>1, <2>2, <2>4 DEF virtio_dev_init, SignatureTest
  <2>5. QED
    BY <2>3, <2>4
<1>10. CASE NoDevice \/ NullRing \/ mbr_init
  BY <1>10 DEF NoDevice, NullRing, mbr_init
<1>11. CASE OtherType \/ NotFat32 \/ Fat32Partition
  <2>1. /\ pc = "partitions" /\ pc' \in {"partitions", "stvec"}
        /\ UNCHANGED <<at, satp, stvec, ready, sie, timer>>
    BY <1>11 DEF OtherType, NotFat32, Fat32Partition, Turn
  <2>2. QED
    BY <2>1
<1>12. CASE stvec_traps
  BY <1>12 DEF stvec_traps
<1>13. CASE sie_STIE
  BY <1>13 DEF sie_STIE
<1>14. CASE clock_set_next_event
  BY <1>14 DEF clock_set_next_event
<1>15. CASE start_kernel
  BY <1>15 DEF start_kernel
<1>16. CASE Done \/ UNCHANGED bootVars
  BY <1>16 DEF Done, bootVars
<1>17. QED
  BY <1>3, <1>4, <1>5, <1>6, <1>7, <1>8, <1>9, <1>10, <1>11, <1>12, <1>13, <1>14, <1>15, <1>16
     DEF BootNext

\* The volume is that of the last FAT32 partition, with the sizes of its own
\* boot sector (mbr_init, is_fat32, fat32_init).
THEOREM VolumeIsItsOwn == BootSpec => []VolumeFromItsBootSector
<1>1. BootInv => VolumeFromItsBootSector
  BY DEF BootInv
<1>2. QED
  BY <1>1, BootInitInv, BootNextInv, PTL DEF BootSpec

\* With a disk the hart is never lost on the way of head.S; it stops in Err of
\* virtio_blk_init only if sector 0 has no signature or may not be readable; and
\* where it comes to a program everything that program needs is set up.
THEOREM BootOnCourse ==
    BootSpec => [](disk.present = "yes" =>
                      /\ pc # "lost" /\ (pc = "halted" => ~Signed)
                      /\ pc = "program" => Working)
<1>1. BootInv /\ OnCourse => (disk.present = "yes" =>
                                 /\ pc # "lost" /\ (pc = "halted" => ~Signed)
                                 /\ pc = "program" => Working)
  BY DEF BootInv, Fetching, HighSteps, OnCourse, SetUp, Working
<1>2. QED
  BY <1>1, BootInitInv, BootNextInv, CourseStep, PTL DEF BootSpec
=============================================================================
