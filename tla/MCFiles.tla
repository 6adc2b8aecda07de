------------------------------ MODULE MCFiles -------------------------------
(***************************************************************************)
(* Small instances of Files and Boot: the calls on open files, and the way *)
(* to the volume they are on.  The models share no state: a behaviour      *)
(* chooses one of them, and the variables of the other stay as they are.   *)
(***************************************************************************)
EXTENDS Files, Boot, TLC

VARIABLE part    \* "files" or "boot"

-----------------------------------------------------------------------------
(* Files on a volume of one file of one byte, with a name that is not on   *)
(* it, and the upper case form of the first, as fat32_open_file leaves it  *)
(* in the program's memory.                                                *)

File1   == "/fat32/a"
Missing == "/fat32/x"

MCPaths  == {File1, Missing, "/FAT32/A"}
MCFsType == [p \in MCPaths |-> IF p \in {File1, Missing} THEN "fat32" ELSE "unknown"]
MCFiles  == {"A"}
MCLookup == [p \in MCPaths |-> IF p = File1 THEN "A" ELSE "none"]
MCSize   == "A" :> 1

-----------------------------------------------------------------------------
(* Boot with four entries over two sectors where partitions may begin.     *)

NoDisk == [present |-> "no", signature |-> "no", bad |-> {},
           first |-> [i \in Entries |-> NoPartition], fat32 |-> {}]

-----------------------------------------------------------------------------
MCInit ==
    /\ part \in {"files", "boot"}
    /\ Init /\ BootInit
    /\ part # "boot" => disk = NoDisk

BootStep == part = "boot" /\ BootNext /\ UNCHANGED <<part, vars>>

MCNext ==
    \/ part = "files" /\ Next /\ UNCHANGED <<part, bootVars>>
    \/ BootStep

MCSpec == MCInit /\ [][MCNext]_<<part, vars, bootVars>> /\ WF_bootVars(BootStep)
=============================================================================
