-------------------------------- MODULE Files --------------------------------
(***************************************************************************)
(* The system calls on open files: arch/riscv/kernel/syscall.c over        *)
(* fs/fs.c, with the descriptor table a task gets in task_init or shares   *)
(* after do_fork (proc.c).                                                 *)
(*                                                                         *)
(* A call runs with interrupts off, so a call of any task is one step.     *)
(* What a FAT32 file holds is the Fat32 module's concern: here a file has  *)
(* a size, and a transfer a length.                                        *)
(***************************************************************************)
EXTENDS Integers, FiniteSets

CONSTANTS
    BootTasks,  \* user tasks that task_init creates, 1 .. BootTasks
    MaxTasks,   \* bound on the user tasks
    MaxFile,    \* MAX_FILE_NUMBER
    Paths,      \* strings programs pass to open
    FsType,     \* get_fs_type: [Paths -> {"fat32", "ext2", "unknown"}]
    Lookup,     \* [Paths -> file]: what fat32_open_file finds, upper case or not
    Files,      \* files of the volume that are not empty
    Size,       \* [Files -> Nat]
    NoFile,     \* fat32_file with cluster 0
    Lens,       \* lengths of reads and writes
    FdArgs      \* bound: the descriptors that programs pass

ASSUME FilesAssumption ==
    /\ BootTasks \in Nat \ {0} /\ MaxTasks \in Nat /\ BootTasks <= MaxTasks
    /\ MaxFile \in Nat /\ MaxFile > 3
    /\ FsType \in [Paths -> {"fat32", "ext2", "unknown"}]
    /\ NoFile \notin Files /\ Lookup \in [Paths -> Files \cup {NoFile}]
    /\ Size \in [Files -> Nat]
    /\ Lens \subseteq Nat /\ FdArgs \subseteq 0 .. MaxFile

VARIABLES
    nr_tasks,   \* tasks 1 .. nr_tasks exist
    table,      \* table[t]: the files_struct of task t
    slot,       \* slot[s][i]: fd_array of files_struct s
    a0,         \* what the last call left in the caller's a0
    last,       \* the last open, or the last call of a NULL function
    halted      \* "no", or why the kernel stopped

vars == <<nr_tasks, table, slot, a0, last, halted>>

Tables   == 1 .. BootTasks
Fds      == 0 .. MaxFile     \* MaxFile: the zeros behind the array
Tasks    == 1 .. nr_tasks
Ops      == {"null", "stdin", "stdout", "stderr", "fat32"}
Perms    == {"R", "W"}
NotOpen  == 255              \* ERROR_FILE_NOT_OPEN

\* path is the path of the slot, none for a slot never used; good says
\* whether file_open returned 0 the last time (not in the code).
Slot == [opened : {0, 1}, perms : SUBSET Perms, cfo : Nat, ops : Ops,
         file : Files \cup {NoFile}, path : Paths \cup {"none"}, good : {"yes", "no"}]

\* fd is the descriptor a call is about.
Call == [call : {"none", "openat", "seek", "read", "write"}, fd : Fds \cup {-1}]
NoCall == [call |-> "none", fd |-> -1]

TypeOK ==
    /\ nr_tasks \in BootTasks .. MaxTasks
    /\ table \in [1 .. MaxTasks -> Tables]
    /\ slot \in [Tables -> [Fds -> Slot]]
    /\ a0 \in Int
    /\ last \in Call
    /\ halted \in {"no", "null_call", "unimplemented"}

-----------------------------------------------------------------------------
(* files_struct.                                                           *)

ClosedSlot == [opened |-> 0, perms |-> {}, cfo |-> 0, ops |-> "null",
               file |-> NoFile, path |-> "none", good |-> "no"]
ConsoleSlot(p, o) == [opened |-> 1, perms |-> {p}, cfo |-> 0, ops |-> o,
                      file |-> NoFile, path |-> "none", good |-> "yes"]

file_init ==
    [i \in Fds |->
        CASE i = 0 -> ConsoleSlot("R", "stdin")
          [] i = 1 -> ConsoleSlot("W", "stdout")
          [] i = 2 -> ConsoleSlot("W", "stderr")
          [] OTHER -> ClosedSlot]

\* Mutant: a file that is found is not stored in the slot.
KeptFile(f, p, flags) ==
    [f EXCEPT !.opened = 1, !.perms = flags, !.cfo = 0, !.path = p, !.ops = "fat32",
              !.good = IF Lookup[p] # NoFile THEN "yes" ELSE "no"]

\* file_open: the slot is marked open first; only a FAT32 path sets the
\* functions and the file, which has cluster 0 if there is none.
file_open(f, p, flags) ==
    LET begun == [f EXCEPT !.opened = 1, !.perms = flags, !.cfo = 0, !.path = p] IN
    IF FsType[p] = "fat32"
    THEN [begun EXCEPT !.ops = "fat32", !.file = Lookup[p],
                       !.good = IF Lookup[p] # NoFile THEN "yes" ELSE "no"]
    ELSE [begun EXCEPT !.good = "no"]

\* The functions of a slot that are not NULL.
Functions(f) ==
    CASE f.ops = "null"  -> {}
      [] f.ops = "stdin" -> {"read"}
      [] f.ops \in {"stdout", "stderr"} -> {"write"}
      [] f.ops = "fat32" -> {"lseek", "read", "write"}

-----------------------------------------------------------------------------
(* The calls of task t; fd is the register a0, which a call that does not  *)
(* set it returns.                                                         *)

Ready(t) == halted = "no" /\ t \in Tasks
File(t, fd) == slot[table[t]][fd]
Called(call, fd) == last' = [call |-> call, fd |-> fd]
Least(a, b) == IF a < b THEN a ELSE b

\* A NULL function pointer is called.
NullCall(t, call, fd) ==
    /\ Called(call, fd)
    /\ halted' = "null_call"
    /\ UNCHANGED <<nr_tasks, table, slot, a0>>

\* Mutant: the first slot is taken whether it is open or not.
FirstSlot(s) == {3}

\* The first closed descriptor from 3 on.
EmptySlot(s) ==
    {i \in 3 .. MaxFile - 1 :
        slot[s][i].opened = 0 /\ \A j \in 3 .. i - 1 : slot[s][j].opened = 1}

\* fat32_open_file also leaves p in upper case in the program's memory, from
\* which the next call may take any path.
sys_openat(t, p, flags) ==
    /\ Ready(t)
    /\ IF EmptySlot(table[t]) = {}
       THEN /\ a0' = -1
            /\ Called("openat", -1)
            /\ UNCHANGED slot
       ELSE \E i \in EmptySlot(table[t]) :
            LET f == file_open(File(t, i), p, flags) IN
            /\ slot' = [slot EXCEPT ![table[t]][i] = f]
            /\ a0' = IF f.good = "yes" THEN 0 ELSE -1
            /\ Called("openat", i)
    /\ UNCHANGED <<nr_tasks, table, halted>>

\* Neither way sets a0.
sys_close(t, fd) ==
    /\ Ready(t)
    /\ slot' = IF File(t, fd).opened = 1
               THEN [slot EXCEPT ![table[t]][fd].opened = 0] ELSE slot
    /\ a0' = fd
    /\ last' = NoCall
    /\ UNCHANGED <<nr_tasks, table, halted>>

\* A transfer through the slot's function.  A slot with cluster 0 reads and
\* writes the sectors before the data area; how much is up to what they hold,
\* and its offset is not followed.
Transfer(t, fd, len) ==
    LET f == File(t, fd)
        n == IF f.cfo >= Size[f.file] THEN 0 ELSE Least(len, Size[f.file] - f.cfo)
    IN
    IF f.file # NoFile
    THEN a0' = n /\ slot' = [slot EXCEPT ![table[t]][fd].cfo = @ + n]
    ELSE a0' \in {0, len} /\ UNCHANGED slot

\* Mutant: the permission is not looked at.
AnyPerm(f, p) == TRUE

Permitted(f, p) == p \in f.perms

\* sys_read and sys_write.
ReadWrite(t, call, p, fd, len) ==
    /\ Ready(t)
    /\ IF File(t, fd).opened = 0 \/ ~Permitted(File(t, fd), p)
       THEN /\ a0' = NotOpen
            /\ last' = NoCall
            /\ UNCHANGED <<nr_tasks, table, slot, halted>>
       ELSE IF call \notin Functions(File(t, fd))
       THEN NullCall(t, call, fd)
       ELSE /\ Transfer(t, fd, len)
            /\ last' = NoCall
            /\ UNCHANGED <<nr_tasks, table, halted>>

sys_read(t, fd, len)  == ReadWrite(t, "read", "R", fd, len)
sys_write(t, fd, len) == ReadWrite(t, "write", "W", fd, len)

\* No permission is asked for.  fat32_lseek clamps to the file.
sys_seek(t, fd, offset) ==
    /\ Ready(t)
    /\ LET f == File(t, fd) IN
       IF f.opened = 0
       THEN /\ a0' = fd
            /\ last' = NoCall
            /\ UNCHANGED <<nr_tasks, table, slot, halted>>
       ELSE IF "lseek" \notin Functions(f)
       THEN NullCall(t, "seek", fd)
       ELSE /\ IF f.file # NoFile
               THEN /\ a0' = Least(offset, Size[f.file])
                    /\ slot' = [slot EXCEPT ![table[t]][fd].cfo = a0']
               ELSE a0' = offset /\ UNCHANGED slot
            /\ last' = NoCall
            /\ UNCHANGED <<nr_tasks, table, halted>>

sys_getpid(t) ==
    /\ Ready(t)
    /\ a0' = t
    /\ last' = NoCall
    /\ UNCHANGED <<nr_tasks, table, slot, halted>>

\* The memcpy of the task_struct copies the pointer to the table.
InheritedTable(t) == table[t]

sys_clone(t) ==
    /\ Ready(t)
    /\ nr_tasks < MaxTasks
    /\ nr_tasks' = nr_tasks + 1
    /\ table' = [table EXCEPT ![nr_tasks + 1] = InheritedTable(t)]
    /\ a0' = nr_tasks + 1
    /\ last' = NoCall
    /\ UNCHANGED <<slot, halted>>

\* syscall_handler finds no function for the number.
Unimplemented(t) ==
    /\ Ready(t)
    /\ halted' = "unimplemented"
    /\ last' = NoCall
    /\ UNCHANGED <<nr_tasks, table, slot, a0>>

\* Err loops for ever.
Halted == halted # "no" /\ UNCHANGED vars

Init ==
    /\ nr_tasks = BootTasks
    /\ table = [t \in 1 .. MaxTasks |-> IF t \in Tables THEN t ELSE 1]
    /\ slot = [s \in Tables |-> file_init]
    /\ a0 = 0
    /\ last = NoCall
    /\ halted = "no"

\* The flags of unistd.h: O_RDONLY and O_RDWR.
Flags == {{"R"}, {"R", "W"}}

Next ==
    \/ \E t \in Tasks, p \in Paths, flags \in Flags : sys_openat(t, p, flags)
    \/ \E t \in Tasks, fd \in FdArgs : sys_close(t, fd)
    \/ \E t \in Tasks, fd \in FdArgs, len \in Lens : sys_read(t, fd, len)
    \/ \E t \in Tasks, fd \in FdArgs, len \in Lens : sys_write(t, fd, len)
    \/ \E t \in Tasks, fd \in FdArgs, o \in Lens \cup {0} : sys_seek(t, fd, o)
    \/ \E t \in Tasks : sys_getpid(t) \/ sys_clone(t) \/ Unimplemented(t)
    \/ Halted

Spec == Init /\ [][Next]_vars

-----------------------------------------------------------------------------
(* Properties.                                                             *)

\* A slot whose open succeeded serves the file its path names, from inside
\* that file, whatever the slot was used for before, and whoever of the tasks
\* sharing the table opens, seeks, transfers or closes in between.
OpenServesPath ==
    \A s \in Tables, i \in 3 .. MaxFile - 1 :
        LET f == slot[s][i] IN
        f.opened = 1 /\ f.good = "yes" =>
            /\ f.ops = "fat32" /\ f.file = Lookup[f.path] /\ f.file # NoFile
            /\ f.cfo <= Size[f.file]

\* While a slot stays open its file and its permissions stay the same: another
\* task's open never takes it over.
OpenSlotsStable ==
    [][\A s \in Tables, i \in Fds :
          slot[s][i].opened = 1 /\ slot'[s][i].opened = 1 =>
              slot'[s][i] = [slot[s][i] EXCEPT !.cfo = slot'[s][i].cfo]]_vars

\* The kernel calls a NULL function only for a seek on the console or on a
\* slot whose open has failed with no FAT32 file in it before: never in a
\* read or a write of the console, which the permissions keep out, and never
\* on a slot that was opened.
NullCallsOnlyUnopened ==
    halted = "null_call" =>
        \E s \in Tables :
            /\ slot[s][last.fd].opened = 1
            /\ \/ last.call = "seek" /\ last.fd \in 0 .. 2
               \/ slot[s][last.fd].good = "no" /\ slot[s][last.fd].ops = "null"

\* "Find an empty file descriptor": a successful openat returns it.
OpenReturnsDescriptor ==
    last.call = "openat" /\ a0 >= 0 => a0 = last.fd
=============================================================================
