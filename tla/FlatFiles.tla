----------------------------- MODULE FlatFiles -----------------------------
(***************************************************************************)
(* What the file system promises its callers: a file is a sequence of      *)
(* bytes of fixed length; a handle has an offset in one file; a read       *)
(* returns the bytes at the offset, a write replaces them, both stop at    *)
(* the end of the file and advance the offset.  Nothing here mentions      *)
(* sectors, clusters or the allocation table.                              *)
(***************************************************************************)
EXTENDS Integers

CONSTANTS
    Handles,
    Files,      \* the files of the directory
    FileSize,   \* [Files -> Nat]
    Bytes,
    NoByte,     \* what a caller's buffer holds before the call
    NoFile,     \* the file of a handle that is not open
    Lengths,    \* numbers of bytes callers ask for
    Patterns    \* what callers write: [0 .. n-1 -> Bytes], the first len bytes

VARIABLES
    contents,   \* contents[f]: [0 .. FileSize[f]-1 -> Bytes]
    file,       \* file[h]
    offset,     \* offset[h]
    reply       \* what the last read or write returned: count and buffer

vars == <<contents, file, offset, reply>>

Least(a, b) == IF a < b THEN a ELSE b
Available(h, len) == Least(len, FileSize[file[h]] - offset[h])

Init ==
    /\ \A f \in Files : contents[f] \in [0 .. FileSize[f] - 1 -> Bytes]
    /\ file = [h \in Handles |-> NoFile]
    /\ offset = [h \in Handles |-> 0]
    /\ reply = [count |-> 0, buf |-> [k \in {} |-> NoByte]]

Open(h, f) ==
    /\ file' = [file EXCEPT ![h] = f]
    /\ offset' = [offset EXCEPT ![h] = 0]
    /\ UNCHANGED <<contents, reply>>

Seek(h) ==
    /\ file[h] # NoFile
    /\ \E o \in 0 .. FileSize[file[h]] : offset' = [offset EXCEPT ![h] = o]
    /\ UNCHANGED <<contents, file, reply>>

Read(h, len) ==
    /\ file[h] # NoFile
    /\ LET n == Available(h, len) IN
       /\ reply' = [count |-> n,
                    buf |-> [k \in 0 .. len - 1 |->
                                IF k < n THEN contents[file[h]][offset[h] + k]
                                ELSE NoByte]]
       /\ offset' = [offset EXCEPT ![h] = @ + n]
    /\ UNCHANGED <<contents, file>>

Write(h, len, p) ==
    /\ file[h] # NoFile
    /\ LET n == Available(h, len) IN
       /\ contents' = [contents EXCEPT ![file[h]] =
                          [o \in DOMAIN @ |->
                              IF o \in offset[h] .. offset[h] + n - 1
                              THEN p[o - offset[h]] ELSE @[o]]]
       /\ reply' = [count |-> n, buf |-> [k \in 0 .. len - 1 |-> p[k]]]
       /\ offset' = [offset EXCEPT ![h] = @ + n]
    /\ UNCHANGED file

Next ==
    \E h \in Handles :
        \/ \E f \in Files \cup {NoFile} : Open(h, f)
        \/ Seek(h)
        \/ \E len \in Lengths : Read(h, len)
        \/ \E len \in Lengths, p \in Patterns : Write(h, len, p)

Spec == Init /\ [][Next]_vars
=============================================================================
