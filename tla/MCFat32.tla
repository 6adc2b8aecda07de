------------------------------ MODULE MCFat32 ------------------------------
(***************************************************************************)
(* A small FAT32 volume: sectors of two bytes, clusters of two sectors, a  *)
(* file of two clusters that are not neighbours, a one-byte file in the    *)
(* cluster between them, an empty file, and two entries that no lookup     *)
(* finds: a deleted one (its name begins with 0xe5, so it is not one of    *)
(* Names) and one behind the never-used entry.                             *)
(***************************************************************************)
EXTENDS Fat32, TLC

MCFat == (2 :> EndOfChain) @@ (3 :> 5) @@ (4 :> EndOfChain) @@ (5 :> EndOfChain)

MCDir == <<[name |-> "deleted", cluster |-> 4, size |-> 3],
           [name |-> "long",    cluster |-> 3, size |-> 7],
           [name |-> "short",   cluster |-> 4, size |-> 1],
           [name |-> "empty",   cluster |-> 0, size |-> 0],
           [name |-> NeverUsed, cluster |-> 0, size |-> 0],
           [name |-> "behind",  cluster |-> 2, size |-> 8]>>

MCOffsets == {-3, 0, 2}

\* Alternating bytes, so that a byte at the wrong place shows.
MCPatterns == {[k \in 0 .. 4 |-> 1 + (k % 2)]}

MCDisks == {[s \in Sectors |-> [b \in 0 .. SectorSize - 1 |-> 1 + (s % 2)]]}

\* The hypothesis of the theorem about FlatFiles, where the table is read whole.
ASSUME VolumeSound ==
    ChainsSound /\ ((\A c \in Clusters : c < TableEntries) => SoundVolume)
=============================================================================
