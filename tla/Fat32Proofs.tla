---------------------------- MODULE Fat32Proofs ----------------------------
(***************************************************************************)
(* Theorems about Fat32, for every volume, directory, sector and cluster   *)
(* size, and every sequence of calls: offsets stay inside the files, and   *)
(* no transfer leaves the request, the file, the buffer or the volume; on  *)
(* a volume without damage reads and writes are those of FlatFiles.        *)
(***************************************************************************)
EXTENDS Fat32, WellFoundedInduction, TLAPS

\* The inductive invariant; OffsetsInFile bounds a request when it begins,
\* TransferBounded the offset that its end stores, OpenHasCluster says where
\* its loop begins.
OpenHasCluster ==
    \A h \in Handles : handle[h].entry # NoFile => Dir[handle[h].entry].cluster # 0

IInv == TypeOK /\ OffsetsInFile /\ TransferBounded /\ OpenHasCluster

\* cluster_to_sector(cluster) + sector is a sector of the volume.
LEMMA SectorOfCluster ==
    ASSUME NEW c \in Clusters, NEW s \in 0 .. SecPerCluster - 1
    PROVE  ClusterToSector(c) + s \in Sectors
  BY DEF Sectors

\* A copy stays inside the sector and inside what is left of the request
\* (sec_offset, content_left_sec and copy_len of the loop).
LEMMA CopyBounds ==
    ASSUME TypeOK, TransferBounded, call # Idle
    PROVE  /\ SecOffset \in 0 .. SectorSize - 1
           /\ CopyLen \in Nat
           /\ SecOffset + CopyLen <= SectorSize
           /\ call.cfo + CopyLen <= call.max_cfo
           /\ call.rw_len + CopyLen <= call.len
  <1>1. call.cfo \in Nat /\ call.max_cfo \in Nat /\ call.rw_len \in Nat /\ call.len \in Nat
    BY Fat32Assumption DEF TypeOK, Calls
  <1>2. handle[call.h].cfo \in Nat
    BY DEF TypeOK, Calls
  <1>3. SecOffset \in 0 .. SectorSize - 1
    BY <1>1, Fat32Assumption DEF SecOffset
  <1>4. CopyLen \in Nat /\ CopyLen <= SectorSize - SecOffset
                        /\ CopyLen <= call.max_cfo - call.cfo
    BY <1>1, <1>3, Fat32Assumption DEF CopyLen, Least, TransferBounded
  <1>5. call.rw_len + (call.max_cfo - call.cfo) <= call.len
    BY <1>1, <1>2 DEF TransferBounded
  <1> QED BY <1>1, <1>3, <1>4, <1>5, Fat32Assumption

\* lseek's clamp puts any offset into the file.
LEMMA ClampInFile ==
    ASSUME NEW size \in Nat, NEW o \in Int
    PROVE  Clamped(size, o) \in Nat /\ Clamped(size, o) <= size
  BY DEF Clamped, Least, Greatest

\* fat32_open_file returns an entry of the directory that has a cluster.
LEMMA FoundEntry ==
    ASSUME NEW n, NEW i \in Found(n), i # NoFile
    PROVE  i \in DOMAIN Dir /\ Dir[i].cluster # 0
  BY DEF Found, FirstNamed, Scanned

\* An entry of the table, or what lies behind the table, is a cluster or the end.
LEMMA NextClusterType ==
    ASSUME NEW c \in Clusters
    PROVE  NextCluster(c) \subseteq Clusters \cup {EndOfChain}
  BY Fat32Assumption DEF NextCluster
-----------------------------------------------------------------------------
\* Boot leaves no file open and no call running.
LEMMA InitIInv == Init => IInv
  BY Fat32Assumption DEF Init, IInv, TypeOK, OffsetsInFile, TransferBounded, OpenHasCluster

\* fat32_open_file, fat32_lseek and the calls that return at once.
LEMMA OpenIInv ==
    ASSUME IInv, NEW h \in Handles, NEW n, Open(h, n)
    PROVE  IInv'
  <1>1. PICK i \in Found(n) : handle' = [handle EXCEPT ![h] = [entry |-> i, cfo |-> 0]]
    BY DEF Open
  <1>2. i = NoFile \/ (i \in DOMAIN Dir /\ Dir[i].cluster # 0)
    BY FoundEntry
  <1>3. TypeOK'
    BY <1>1, <1>2, Fat32Assumption DEF IInv, TypeOK, Open
  <1>4. OffsetsInFile'
    BY <1>1, <1>2, Fat32Assumption DEF IInv, TypeOK, OffsetsInFile, SizeOf
  <1>5. TransferBounded'
    BY DEF Open, TransferBounded
  <1>6. OpenHasCluster'
    BY <1>1, <1>2 DEF IInv, TypeOK, OpenHasCluster
  <1> QED BY <1>3, <1>4, <1>5, <1>6 DEF IInv

LEMMA SeekIInv ==
    ASSUME IInv, NEW h \in Handles, NEW o \in Offsets,
           NEW w \in {"SEEK_SET", "SEEK_CUR", "SEEK_END"}, Seek(h, o, w)
    PROVE  IInv'
  <1> DEFINE base == CASE w = "SEEK_SET" -> 0
                       [] w = "SEEK_CUR" -> handle[h].cfo
                       [] w = "SEEK_END" -> SizeOf(h)
             cfo  == Clamped(SizeOf(h), base + o)
  <1>1. SizeOf(h) \in Nat
    BY Fat32Assumption DEF IInv, TypeOK, Seek, SizeOf
  <1>2. base + o \in Int
    BY <1>1, Fat32Assumption DEF IInv, TypeOK
  <1>3. cfo \in Nat /\ cfo <= SizeOf(h)
    BY <1>1, <1>2, ClampInFile
  <1>4. handle' = [handle EXCEPT ![h].cfo = cfo]
    BY DEF Seek
  <1> HIDE DEF cfo
  <1>5. TypeOK'
    BY <1>3, <1>4 DEF IInv, TypeOK, Seek
  <1>6. OffsetsInFile'
    BY <1>3, <1>4 DEF IInv, TypeOK, OffsetsInFile, SizeOf
  <1>7. TransferBounded'
    BY DEF Seek, TransferBounded
  <1>8. OpenHasCluster'
    BY <1>4 DEF IInv, TypeOK, OpenHasCluster
  <1> QED BY <1>5, <1>6, <1>7, <1>8 DEF IInv

\* A request begins with nothing transferred and max_cfo inside the file.
LEMMA RequestIInv ==
    ASSUME IInv, NEW op \in {"read", "write"}, NEW h \in Handles,
           NEW len \in Lengths, NEW buf \in Buffer(op, len), Request(op, h, buf, len)
    PROVE  IInv'
  <1>1. CASE AtEnd(h, buf)
    BY <1>1 DEF AtEnd, IInv, TypeOK, OffsetsInFile, TransferBounded, SizeOf,
                OpenHasCluster
  <1>2. CASE Begin(op, h, buf, len)
    <2> DEFINE left == Least(len, SizeOf(h) - handle[h].cfo)
    <2>1. handle[h].cfo \in Nat /\ handle[h].entry \in DOMAIN Dir
      BY <1>2 DEF Begin, IInv, TypeOK
    <2>2. SizeOf(h) \in Nat /\ handle[h].cfo < SizeOf(h)
      BY <1>2, <2>1, Fat32Assumption DEF Begin, SizeOf
    <2>3. left \in Nat /\ left <= len /\ left <= SizeOf(h) - handle[h].cfo
      BY <2>1, <2>2, Fat32Assumption DEF Least
    <2> HIDE DEF left
    <2>4. Dir[handle[h].entry].cluster \in Clusters
      BY <1>2, <2>1, Fat32Assumption DEF Begin, IInv, OpenHasCluster
    <2>5. call' = [op |-> op, h |-> h, buf |-> buf, len |-> len,
                   cfo |-> handle[h].cfo, max_cfo |-> handle[h].cfo + left,
                   rw_cfo |-> 0, rw_len |-> 0,
                   cluster |-> Dir[handle[h].entry].cluster, sector |-> 0]
      BY <1>2 DEF Begin, left
    <2>6. TypeOK'
      <3>1. buf \in Buffer("read", len)
        BY DEF Buffer
      <3>2. call' \in Calls
        BY <2>1, <2>3, <2>4, <2>5, <3>1, Fat32Assumption DEF Calls
      <3> QED BY <1>2, <2>5, <3>2 DEF Begin, IInv, TypeOK
    <2>7. OffsetsInFile'
      BY <1>2 DEF Begin, IInv, OffsetsInFile, SizeOf
    <2>8. TransferBounded'
      BY <1>2, <2>1, <2>2, <2>3, <2>5, Fat32Assumption
        DEF Begin, TransferBounded, SizeOf
    <2>9. OpenHasCluster'
      BY <1>2 DEF Begin, IInv, OpenHasCluster
    <2> QED BY <2>6, <2>7, <2>8, <2>9 DEF IInv
  <1> QED BY <1>1, <1>2 DEF Request

\* The two turns of the sector loop that copy nothing.
LEMMA SkipIInv ==
    ASSUME IInv, Skip
    PROVE  IInv'
  <1>1. call \in Calls /\ call' = [call EXCEPT !.rw_cfo = @ + SectorSize, !.sector = @ + 1]
    BY DEF IInv, TypeOK, Skip, InCluster
  <1>2. call.sector + 1 \in 0 .. SecPerCluster
    BY <1>1, Fat32Assumption DEF Skip, InCluster, Calls
  <1>3. call.rw_cfo + SectorSize \in Nat
    BY <1>1, Fat32Assumption DEF Calls
  <1>4. call' \in Calls
    BY <1>1, <1>2, <1>3 DEF Calls
  <1>5. TypeOK'
    BY <1>1, <1>4 DEF Skip, InCluster, IInv, TypeOK, Calls
  <1>6. TransferBounded'
    BY <1>1 DEF Skip, InCluster, IInv, TransferBounded, SizeOf, Calls
  <1>7. OffsetsInFile' /\ OpenHasCluster'
    BY DEF Skip, IInv, OffsetsInFile, OpenHasCluster, SizeOf
  <1> QED BY <1>5, <1>6, <1>7 DEF IInv

LEMMA EnoughIInv ==
    ASSUME IInv, Enough
    PROVE  IInv'
  <1>1. call \in Calls /\ call' = [call EXCEPT !.sector = SecPerCluster]
    BY DEF IInv, TypeOK, Enough, InCluster
  <1> SecPerCluster \in 0 .. SecPerCluster
    BY Fat32Assumption
  <1>2. call' \in Calls
    BY <1>1 DEF Calls
  <1>3. TypeOK'
    BY <1>1, <1>2 DEF Enough, InCluster, IInv, TypeOK, Calls
  <1>4. TransferBounded'
    BY <1>1 DEF Enough, InCluster, IInv, TransferBounded, SizeOf, Calls
  <1>5. OffsetsInFile' /\ OpenHasCluster'
    BY DEF Enough, IInv, OffsetsInFile, OpenHasCluster, SizeOf
  <1> QED BY <1>3, <1>4, <1>5 DEF IInv

\* The next cluster of the chain.
LEMMA AdvanceIInv ==
    ASSUME IInv, AdvanceCluster
    PROVE  IInv'
  <1>1. PICK c \in NextCluster(call.cluster) :
           call' = [call EXCEPT !.cluster = c, !.sector = 0]
    BY DEF AdvanceCluster
  <1>2. call \in Calls /\ call.cluster \in Clusters
    BY DEF AdvanceCluster, IInv, TypeOK, Calls
  <1>3. c \in Clusters \cup {EndOfChain}
    BY <1>1, <1>2, NextClusterType
  <1> 0 \in 0 .. SecPerCluster
    BY Fat32Assumption
  <1>4. call' \in Calls
    BY <1>1, <1>2, <1>3 DEF Calls
  <1>5. TypeOK'
    BY <1>1, <1>2, <1>4 DEF AdvanceCluster, IInv, TypeOK, Calls
  <1>6. TransferBounded'
    BY <1>1, <1>2 DEF AdvanceCluster, IInv, TransferBounded, SizeOf, Calls
  <1>7. OffsetsInFile' /\ OpenHasCluster'
    BY DEF AdvanceCluster, IInv, OffsetsInFile, OpenHasCluster, SizeOf
  <1> QED BY <1>5, <1>6, <1>7 DEF IInv

\* The offset stored at the end is inside the file because max_cfo is.
LEMMA ReturnIInv ==
    ASSUME IInv, Return
    PROVE  IInv'
  <1>1. call \in Calls /\ call.h \in Handles /\ call.cfo \in Nat /\ call.max_cfo \in Nat
    BY DEF Return, IInv, TypeOK, Calls
  <1>2. handle' = [handle EXCEPT ![call.h].cfo = call.cfo] /\ call' = Idle
    BY DEF Return
  <1>3. handle[call.h].entry \in DOMAIN Dir
    BY DEF Return, IInv, TypeOK, Calls
  <1>4. call.cfo <= SizeOf(call.h)
    BY <1>1, <1>3, Fat32Assumption DEF Return, IInv, TransferBounded, SizeOf
  <1>5. TypeOK'
    BY <1>1, <1>2 DEF Return, IInv, TypeOK
  <1>6. OffsetsInFile'
    BY <1>1, <1>2, <1>4 DEF IInv, TypeOK, OffsetsInFile, SizeOf
  <1>7. TransferBounded'
    BY <1>2 DEF TransferBounded
  <1>8. OpenHasCluster'
    BY <1>1, <1>2 DEF IInv, TypeOK, OpenHasCluster
  <1> QED BY <1>5, <1>6, <1>7, <1>8 DEF IInv

\* The turn of the loop that copies: memcpy from the sector into the buffer, or
\* from the buffer into the sector and the sector back to the device.
LEMMA CopyIInv ==
    ASSUME IInv, Copy
    PROVE  IInv'
  <1> DEFINE sec   == ClusterToSector(call.cluster) + call.sector
             moved == [call EXCEPT !.rw_len = @ + CopyLen, !.sector = @ + 1,
                                   !.rw_cfo = call.cfo + CopyLen,
                                   !.cfo = @ + CopyLen]
             into  == [k \in DOMAIN call.buf |->
                          IF InBuffer(k) THEN disk[sec][SecOffset + k - call.rw_len]
                          ELSE call.buf[k]]
             sector == [b \in DOMAIN disk[sec] |->
                          IF InSector(b) THEN call.buf[call.rw_len + b - SecOffset]
                          ELSE disk[sec][b]]
  <1>1. /\ call # Idle /\ call \in Calls
        /\ call.cluster \in Clusters /\ call.sector \in 0 .. SecPerCluster - 1
        /\ call.buf \in Buffer(call.op, call.len)
    BY Fat32Assumption DEF Copy, InCluster, IInv, TypeOK, Calls
  <1>2. /\ call.cfo \in Nat /\ call.max_cfo \in Nat /\ call.rw_len \in Nat
        /\ call.len \in Nat /\ call.h \in Handles
    BY <1>1, Fat32Assumption DEF Calls
  <1>3. /\ SecOffset \in 0 .. SectorSize - 1 /\ CopyLen \in Nat
        /\ SecOffset + CopyLen <= SectorSize
        /\ call.cfo + CopyLen <= call.max_cfo
        /\ call.rw_len + CopyLen <= call.len
    BY <1>1, CopyBounds DEF IInv
  <1>4. sec \in Sectors /\ disk[sec] \in Sector
    BY <1>1, SectorOfCluster DEF IInv, TypeOK
  <1>5. moved \in Calls
    <2>1. call.sector + 1 \in 0 .. SecPerCluster
      BY <1>1, Fat32Assumption
    <2>2. call.rw_len + CopyLen \in Nat /\ call.cfo + CopyLen \in Nat
      BY <1>2, <1>3
    <2> HIDE DEF sec
    <2> QED BY <1>1, <2>1, <2>2 DEF Calls
  <1>6. /\ moved.op = call.op /\ moved.h = call.h /\ moved.len = call.len
        /\ moved.buf = call.buf /\ moved.max_cfo = call.max_cfo
        /\ moved.cfo = call.cfo + CopyLen /\ moved.rw_len = call.rw_len + CopyLen
    BY <1>1 DEF Calls
  <1>7. \/ call.op = "read" /\ call' = [moved EXCEPT !.buf = into] /\ UNCHANGED disk
        \/ call.op = "write" /\ call' = moved /\ disk' = [disk EXCEPT ![sec] = sector]
    BY <1>6 DEF Copy
  <1>8. UNCHANGED handle
    BY DEF Copy
  <1>9. ASSUME call.op = "read"
        PROVE  into \in Buffer("read", call.len)
    <2>1. call.buf \in [0 .. call.len - 1 -> Bytes \cup {NoByte}]
      BY <1>1, <1>9 DEF Buffer
    <2>2. ASSUME NEW k \in 0 .. call.len - 1, InBuffer(k)
          PROVE  disk[sec][SecOffset + k - call.rw_len] \in Bytes
      <3>1. k \in Int /\ call.rw_len <= k /\ k <= call.rw_len + CopyLen - 1
        BY <2>2, <1>2, <1>3 DEF InBuffer
      <3>2. SecOffset \in Int /\ SectorSize \in Int /\ 0 <= SecOffset
        BY <1>3, Fat32Assumption
      <3>3. SecOffset + k - call.rw_len \in 0 .. SectorSize - 1
        BY <1>2, <1>3, <3>1, <3>2
      <3> QED BY <3>3, <1>4 DEF Sector
    <2> HIDE DEF sec
    <2> QED BY <2>1, <2>2 DEF Buffer
  <1>10. ASSUME call.op = "write"
         PROVE  sector \in Sector
    <2>1. call.buf \in [0 .. call.len - 1 -> Bytes]
      BY <1>1, <1>10 DEF Buffer
    <2>2. ASSUME NEW b \in 0 .. SectorSize - 1, InSector(b)
          PROVE  call.buf[call.rw_len + b - SecOffset] \in Bytes
      <3>1. call.rw_len + b - SecOffset \in 0 .. call.len - 1
        BY <2>2, <1>2, <1>3, Fat32Assumption DEF InSector
      <3> QED BY <2>1, <3>1
    <2> HIDE DEF sec
    <2> QED BY <1>4, <2>2 DEF Sector
  <1> HIDE DEF into, sector, moved, sec
  <1>11. TypeOK'
    <2>1. CASE call.op = "read"
      <3>1. call' = [moved EXCEPT !.buf = into] /\ UNCHANGED disk
        BY <1>7, <2>1
      <3>2. into \in UNION {Buffer("read", len) : len \in Lengths}
        BY <1>1, <1>9, <2>1 DEF Calls
      <3>3. call' \in Calls
        BY <1>5, <3>1, <3>2 DEF Calls
      <3>4. call'.buf \in Buffer(call'.op, call'.len) /\ call'.h = call.h
        BY <1>5, <1>6, <1>9, <2>1, <3>1 DEF Calls
      <3> QED BY <1>1, <1>8, <3>1, <3>3, <3>4 DEF IInv, TypeOK
    <2>2. CASE call.op = "write"
      <3>1. call' = moved /\ disk' = [disk EXCEPT ![sec] = sector]
        BY <1>7, <2>2
      <3>2. disk' \in [Sectors -> Sector]
        BY <1>4, <1>10, <2>2, <3>1 DEF IInv, TypeOK
      <3> QED BY <1>1, <1>5, <1>6, <1>8, <3>1, <3>2 DEF IInv, TypeOK
    <2> QED BY <1>7, <2>1, <2>2
  <1>12. TransferBounded'
    <2>1. /\ call'.h = call.h /\ call'.len = call.len /\ call'.max_cfo = call.max_cfo
          /\ call'.cfo = call.cfo + CopyLen /\ call'.rw_len = call.rw_len + CopyLen
      BY <1>5, <1>6, <1>7 DEF Calls
    <2>2. handle[call.h].cfo \in Nat
      BY <1>2 DEF IInv, TypeOK
    <2> QED BY <1>1, <1>2, <1>3, <1>8, <2>1, <2>2 DEF IInv, TransferBounded, SizeOf
  <1>13. OffsetsInFile' /\ OpenHasCluster'
    BY <1>8 DEF IInv, OffsetsInFile, OpenHasCluster, SizeOf
  <1> QED BY <1>11, <1>12, <1>13 DEF IInv

LEMMA ReadWriteIInv ==
    ASSUME IInv, NEW h \in Handles, NEW len \in Lengths,
           Read(h, len) \/ \E p \in Patterns : Write(h, len, p)
    PROVE  IInv'
  <1>1. CASE Read(h, len)
    <2>1. [k \in 0 .. len - 1 |-> NoByte] \in Buffer("read", len)
      BY DEF Buffer
    <2> QED BY <1>1, <2>1, RequestIInv DEF Read
  <1>2. ASSUME NEW p \in Patterns, Write(h, len, p)
        PROVE  IInv'
    <2>1. p \in [0 .. MaxLength - 1 -> Bytes] /\ len \in Nat /\ len <= MaxLength
      BY Fat32Assumption
    <2>2. 0 .. len - 1 \subseteq 0 .. MaxLength - 1
      BY <2>1, Fat32Assumption
    <2>3. [k \in 0 .. len - 1 |-> p[k]] \in Buffer("write", len)
      BY <2>1, <2>2 DEF Buffer
    <2> QED BY <1>2, <2>3, RequestIInv DEF Write
  <1> QED BY <1>1, <1>2

LEMMA NextIInv ==
    ASSUME IInv, [Next]_vars
    PROVE  IInv'
  <1>1. ASSUME NEW h \in Handles, NEW n \in Names, Open(h, n)
        PROVE  IInv'
    BY <1>1, OpenIInv
  <1>2. ASSUME NEW h \in Handles, NEW o \in Offsets,
               NEW w \in {"SEEK_SET", "SEEK_CUR", "SEEK_END"}, Seek(h, o, w)
        PROVE  IInv'
    BY <1>2, SeekIInv
  <1>3. ASSUME NEW h \in Handles, NEW len \in Lengths,
               Read(h, len) \/ \E p \in Patterns : Write(h, len, p)
        PROVE  IInv'
    BY <1>3, ReadWriteIInv
  <1>4. CASE Skip
    BY <1>4, SkipIInv
  <1>5. CASE Enough
    BY <1>5, EnoughIInv
  <1>6. CASE Copy
    BY <1>6, CopyIInv
  <1>7. CASE AdvanceCluster
    BY <1>7, AdvanceIInv
  <1>8. CASE Return
    BY <1>8, ReturnIInv
  <1>9. CASE UNCHANGED vars
    BY <1>9 DEF vars, IInv, TypeOK, OffsetsInFile, TransferBounded, OpenHasCluster, SizeOf
  <1> QED BY <1>1, <1>2, <1>3, <1>4, <1>5, <1>6, <1>7, <1>8, <1>9 DEF Next

-----------------------------------------------------------------------------
\* The loops of fat32_read and fat32_write keep all parts of IInv together.
THEOREM Invariance == Spec => []IInv
  <1>1. Init => IInv
    BY InitIInv
  <1>2. IInv /\ [Next]_vars => IInv'
    BY NextIInv
  <1> QED BY <1>1, <1>2, PTL DEF Spec

\* Every field keeps its type: sectors read and written are sectors of the
\* volume, bytes read from a caller's buffer lie inside it, offsets are naturals.
THEOREM TypeCorrect == Spec => []TypeOK
  <1>1. IInv => TypeOK
    BY DEF IInv
  <1> QED BY <1>1, Invariance, PTL

\* fat32_lseek, fat32_read and fat32_write leave no offset behind the end of
\* its file.
THEOREM OffsetsAlwaysInFile == Spec => []OffsetsInFile
  <1>1. IInv => OffsetsInFile
    BY DEF IInv
  <1> QED BY <1>1, Invariance, PTL

\* At every turn of the loops of fat32_read and fat32_write the bytes copied are
\* those between the stored and the running offset, within request and file.
THEOREM TransfersAlwaysBounded == Spec => []TransferBounded
  <1>1. IInv => TransferBounded
    BY DEF IInv
  <1> QED BY <1>1, Invariance, PTL

-----------------------------------------------------------------------------
(* Clusters and bytes of files.                                            *)

\* Induction: a set of numbers, say of counterexamples, that is not empty has a least
\* element.
LEMMA LeastElement ==
    ASSUME NEW T, T \subseteq Nat, T # {}
    PROVE  \E x \in T : \A y \in T : x <= y
  <1>1. IsWellFoundedOn(OpToRel(<, Nat), Nat)
    BY NatLessThanWellFounded, Zenon
  <1>2. \E x \in T : \A y \in T : ~ (<<y, x>> \in OpToRel(<, Nat))
    BY <1>1, WFMin, Zenon
  <1>3. PICK x \in T : \A y \in T : ~ (<<y, x>> \in OpToRel(<, Nat))
    BY <1>2
  <1>4. ASSUME NEW y \in T PROVE x <= y
    <2>1. x \in Nat /\ y \in Nat
      OBVIOUS
    <2>2. ~ (<<y, x>> \in OpToRel(<, Nat))
      BY <1>3
    <2>3. ~ (y < x)
      BY <2>1, <2>2 DEF OpToRel
    <2> QED BY <2>1, <2>3
  <1> QED BY <1>4

\* Multiples of d compare as the factors do.
LEMMA Multiples ==
    ASSUME NEW p \in Int, NEW q \in Int, NEW d \in Nat \ {0}
    PROVE  /\ p * d < q * d => p + 1 <= q
           /\ p + 1 <= q => p * d + d <= q * d
  <1>1. p >= q => p * d >= q * d
    OBVIOUS
  <1>2. (p + 1) * d = p * d + d
    OBVIOUS
  <1>3. p + 1 <= q => (p + 1) * d <= q * d
    OBVIOUS
  <1> QED BY <1>1, <1>2, <1>3

\* Quotient and remainder, and that there is but one of each.
LEMMA Division ==
    ASSUME NEW a \in Nat, NEW d \in Nat \ {0}
    PROVE  /\ a \div d \in Nat /\ a % d \in 0 .. d - 1
           /\ a = (a \div d) * d + (a % d)
  <1>1. a \div d \in Int /\ a % d \in 0 .. d - 1 /\ a = d * (a \div d) + (a % d)
    OBVIOUS
  <1> DEFINE q == a \div d
             r == a % d
  <1>2. q \in Int /\ r \in 0 .. d - 1 /\ a = d * q + r
    BY <1>1
  <1> HIDE DEF q, r
  <1>3. a = q * d + r
    BY <1>2
  <1>4. 0 * d < (q + 1) * d
    BY <1>2, <1>3
  <1>5. 0 <= q
    <2>1. 0 * d < (q + 1) * d => 0 + 1 <= q + 1
      BY <1>2, Multiples
    <2> QED BY <1>2, <1>4, <2>1
  <1> QED BY <1>2, <1>3, <1>5 DEF q, r

LEMMA OneQuotient ==
    ASSUME NEW d \in Nat \ {0}, NEW p \in Int, NEW q \in Int, NEW r \in 0 .. d - 1,
           NEW s \in 0 .. d - 1, p * d + r = q * d + s
    PROVE  p = q /\ r = s
  <1>1. p * d \in Int /\ q * d \in Int
    OBVIOUS
  <1>2. p * d < q * d + d /\ q * d < p * d + d
    BY <1>1
  <1>3. ~ (p + 1 <= q) /\ ~ (q + 1 <= p)
    BY <1>1, <1>2, Multiples
  <1>4. p = q
    BY <1>3
  <1> QED BY <1>1, <1>4

\* Quotients of the numbers in one interval of length d.
LEMMA QuotientOf ==
    ASSUME NEW d \in Nat \ {0}, NEW a \in Nat, NEW q \in Int, q * d <= a, a < q * d + d
    PROVE  a \div d = q /\ a % d = a - q * d
  <1> DEFINE p == a \div d
             r == a % d
             m == q * d
  <1>1. m \in Int /\ m <= a /\ a < m + d
    OBVIOUS
  <1>2. p \in Nat /\ r \in 0 .. d - 1 /\ a = p * d + r
    BY Division
  <1>3. a - m \in 0 .. d - 1 /\ a = m + (a - m)
    BY <1>1
  <1> DEFINE s == a - m
  <1>4. s \in 0 .. d - 1 /\ p * d + r = q * d + s
    BY <1>2, <1>3
  <1> HIDE DEF p, r, s, m
  <1>5. p = q /\ r = s
    BY <1>2, <1>4, OneQuotient
  <1> QED BY <1>5 DEF p, r, s, m

\* Files are entries of the directory.
LEMMA FileEntry ==
    ASSUME NEW i \in Files
    PROVE  /\ i \in DOMAIN Dir /\ i # NoFile /\ Dir[i].size \in Nat
           /\ Dir[i].cluster \in Clusters /\ ChainLength(i) \in Int
  <1>1. PICK n \in Names : i \in Found(n)
    BY DEF Files
  <1>2. i # NoFile
    BY DEF Files
  <1>3. i \in DOMAIN Dir /\ Dir[i].cluster # 0
    BY <1>1, <1>2, FoundEntry
  <1>4. Dir[i].size \in Nat /\ Dir[i].cluster \in Clusters
    BY <1>3, Fat32Assumption
  <1>5. ChainLength(i) \in Int
    <2> DEFINE c == SectorSize * SecPerCluster
    <2>1. c \in Nat \ {0}
      BY Fat32Assumption
    <2> HIDE DEF c
    <2>2. (Dir[i].size + c - 1) \div c \in Int
      BY <1>4, <2>1
    <2> QED BY <2>2 DEF ChainLength, c
  <1> QED BY <1>2, <1>3, <1>4, <1>5

\* The chain of a file follows the table.
LEMMA ChainFacts ==
    ASSUME SoundVolume, NEW i \in Files
    PROVE  /\ Chain(i) \in [0 .. ChainLength(i) - 1 -> Clusters]
           /\ \A k \in 0 .. ChainLength(i) - 1 :
                 Chain(i)[k] = IF k = 0 THEN Dir[i].cluster ELSE Fat[Chain(i)[k - 1]]
  <1> DEFINE n == ChainLength(i)
             IsChain(f) == f = [k \in 0 .. n - 1 |->
                                   IF k = 0 THEN Dir[i].cluster ELSE Fat[f[k - 1]]]
             at == CHOOSE f : IsChain(f)
  <1>1. PICK f \in [0 .. n - 1 -> Clusters] :
           \A k \in DOMAIN f : f[k] = IF k = 0 THEN Dir[i].cluster ELSE Fat[f[k - 1]]
    BY DEF SoundVolume, ChainsSound, ChainComplete
  <1>2. DOMAIN f = 0 .. n - 1 /\ n \in Int
    BY <1>1, FileEntry
  <1>3. IsChain(f)
    <2>1. f = [k \in 0 .. n - 1 |-> f[k]]
      BY <1>2
    <2> HIDE DEF n
    <2> QED BY <1>1, <1>2, <2>1, Zenon
  <1>4. IsChain(at)
    <2> HIDE DEF IsChain
    <2> QED BY <1>3, Zenon
  <1>5. Chain(i) = at
    BY Zenon DEF Chain
  <1> HIDE DEF at
  <1>6. \A k \in 0 .. n - 1 : at[k] = IF k = 0 THEN Dir[i].cluster ELSE Fat[at[k - 1]]
    <2> HIDE DEF n
    <2> QED BY <1>4, Zenon
  <1> DEFINE T == {k \in 0 .. n - 1 : at[k] # f[k]}
  <1>7. T = {}
    <2> SUFFICES ASSUME T # {} PROVE FALSE
      OBVIOUS
    <2> HIDE DEF n
    <2>1. PICK k \in T : \A m \in T : k <= m
      <3>1. T \subseteq Nat
        BY <1>2
      <3> HIDE DEF T
      <3> QED BY <3>1, LeastElement
    <2>2. k \in 0 .. n - 1 /\ at[k] # f[k] /\ k \in Nat
      BY <1>2
    <2>3. at[k] = IF k = 0 THEN Dir[i].cluster ELSE Fat[at[k - 1]]
      BY <1>6, <2>2
    <2>4. f[k] = IF k = 0 THEN Dir[i].cluster ELSE Fat[f[k - 1]]
      BY <1>1, <1>2, <2>2
    <2>5. k # 0
      BY <2>2, <2>3, <2>4
    <2>6. k - 1 \in 0 .. n - 1 /\ ~ (k <= k - 1)
      BY <1>2, <2>2, <2>5
    <2>7. at[k - 1] = f[k - 1]
      BY <2>1, <2>6
    <2> QED BY <2>2, <2>3, <2>4, <2>5, <2>7
  <1>8. at = f
    <2>1. at = [k \in 0 .. n - 1 |-> at[k]]
      <3> HIDE DEF n
      <3> QED BY <1>4
    <2> HIDE DEF n
    <2>2. \A k \in 0 .. n - 1 : at[k] = f[k]
      BY <1>7
    <2> QED BY <1>1, <2>1, <2>2
  <1> QED BY <1>1, <1>5, <1>6, <1>8

\* Every byte of a file has a cluster in its chain.
LEMMA ClusterOfByte ==
    ASSUME NEW i \in Files, NEW x \in Nat, NEW m \in Nat,
           m * (SectorSize * SecPerCluster) <= x, x < Dir[i].size
    PROVE  m \in 0 .. ChainLength(i) - 1
  <1> DEFINE c == SectorSize * SecPerCluster
             size == Dir[i].size
             n == ChainLength(i)
  <1>1. c \in Nat \ {0} /\ size \in Nat /\ n \in Int
    BY FileEntry, Fat32Assumption
  <1>2. n = (size + c - 1) \div c
    BY DEF ChainLength
  <1>3. m * c <= x /\ x < size
    OBVIOUS
  <1> HIDE DEF c, size, n
  <1> DEFINE a == size + c - 1
             r == a % c
  <1>4. a \in Nat
    BY <1>1
  <1>5. r \in 0 .. c - 1 /\ a = n * c + r
    BY <1>1, <1>2, <1>4, Division
  <1> HIDE DEF r
  <1> DEFINE k == n * c
             l == m * c
  <1>6. k \in Int /\ l \in Int
    BY <1>1
  <1>7. a = k + r /\ l <= x
    BY <1>3, <1>5
  <1>8. l < k
    <2> HIDE DEF k, l
    <2> QED BY <1>1, <1>3, <1>5, <1>6, <1>7
  <1>9. m + 1 <= n
    BY <1>1, <1>8, Multiples
  <1> QED BY <1>1, <1>9 DEF n

\* The sector that byte x of file i is in.
SectorOf(i, x) ==
    ClusterToSector(Chain(i)[(x \div SectorSize) \div SecPerCluster])
        + ((x \div SectorSize) % SecPerCluster)

LEMMA ByteIs ==
    ASSUME NEW d, NEW i, NEW x
    PROVE  ByteAt(d, i, x) = d[SectorOf(i, x)][x % SectorSize]
  BY DEF ByteAt, SectorOf

\* Where a byte is: in one of the chain's clusters, sectors and bytes.
LEMMA PlaceOfByte ==
    ASSUME SoundVolume, NEW i \in Files, NEW x \in Nat, x < Dir[i].size
    PROVE  \E m \in DOMAIN Chain(i), s \in 0 .. SecPerCluster - 1, b \in 0 .. SectorSize - 1 :
              /\ x = (m * SecPerCluster + s) * SectorSize + b
              /\ x \div SectorSize = m * SecPerCluster + s
              /\ x % SectorSize = b
              /\ SectorOf(i, x) = ClusterToSector(Chain(i)[m]) + s
  <1> DEFINE n == x \div SectorSize
             b == x % SectorSize
             m == n \div SecPerCluster
             s == n % SecPerCluster
  <1>1. SectorSize \in Nat \ {0} /\ SecPerCluster \in Nat \ {0}
    BY Fat32Assumption
  <1>2. n \in Nat /\ b \in 0 .. SectorSize - 1 /\ x = n * SectorSize + b
    BY <1>1, Division
  <1> HIDE DEF n, b
  <1>3. m \in Nat /\ s \in 0 .. SecPerCluster - 1 /\ n = m * SecPerCluster + s
    BY <1>1, <1>2, Division
  <1>4. SectorOf(i, x) = ClusterToSector(Chain(i)[m]) + s
    BY DEF SectorOf, n
  <1> HIDE DEF m, s
  <1>5. m * (SectorSize * SecPerCluster) <= x
    <2> DEFINE ms == m * SecPerCluster
    <2>1. m * (SectorSize * SecPerCluster) = ms * SectorSize
      BY <1>1, <1>3
    <2>2. ms \in Int /\ ms <= n
      BY <1>1, <1>3
    <2> HIDE DEF ms
    <2>3. ms * SectorSize <= n * SectorSize
      BY <1>1, <1>2, <2>2
    <2>4. ms * SectorSize \in Int /\ n * SectorSize \in Int
      BY <1>1, <1>2, <2>2
    <2>5. n * SectorSize <= x
      BY <1>1, <1>2, <2>4
    <2>6. m * (SectorSize * SecPerCluster) \in Int
      BY <2>1, <2>4
    <2> QED BY <2>1, <2>3, <2>4, <2>5, <2>6
  <1>6. m \in DOMAIN Chain(i)
    BY <1>3, <1>5, ClusterOfByte, ChainFacts
  <1>7. x = (m * SecPerCluster + s) * SectorSize + b
    BY <1>2, <1>3
  <1> QED BY <1>2, <1>3, <1>4, <1>6, <1>7 DEF n, b

LEMMA SectorOfFile ==
    ASSUME SoundVolume, NEW i \in Files, NEW x \in Nat, x < Dir[i].size
    PROVE  SectorOf(i, x) \in Sectors /\ x % SectorSize \in 0 .. SectorSize - 1
  <1>1. PICK m \in DOMAIN Chain(i), s \in 0 .. SecPerCluster - 1, b \in 0 .. SectorSize - 1 :
          x % SectorSize = b /\ SectorOf(i, x) = ClusterToSector(Chain(i)[m]) + s
    BY PlaceOfByte
  <1>2. Chain(i)[m] \in Clusters
    BY <1>1, ChainFacts
  <1> QED BY <1>1, <1>2, SectorOfCluster

\* The bytes from one multiple of the sector size to the next are in one sector.
LEMMA BytesOfSector ==
    ASSUME SoundVolume, NEW i \in Files, NEW x \in Nat, x < Dir[i].size,
           NEW m \in Nat, NEW s \in 0 .. SecPerCluster - 1,
           NEW o, o = (m * SecPerCluster + s) * SectorSize, o <= x, x < o + SectorSize
    PROVE  SectorOf(i, x) = ClusterToSector(Chain(i)[m]) + s /\ x % SectorSize = x - o
  <1> DEFINE n == m * SecPerCluster + s
  <1>1. SectorSize \in Nat \ {0} /\ SecPerCluster \in Nat \ {0} /\ n \in Nat /\ s \in Nat
    BY Fat32Assumption
  <1>2. n \div SecPerCluster = m /\ n % SecPerCluster = s
    <2> DEFINE k == m * SecPerCluster
    <2>1. k \in Int /\ k <= n /\ n < k + SecPerCluster /\ n - k = s
      BY <1>1
    <2>2. m \in Int
      OBVIOUS
    <2>3. k <= n /\ n < k + SecPerCluster => n \div SecPerCluster = m /\ n % SecPerCluster = n - k
      <3> HIDE DEF n
      <3> QED BY <1>1, <2>2, QuotientOf
    <2> QED BY <2>1, <2>3
  <1> HIDE DEF n
  <1>3. o = n * SectorSize
    BY DEF n
  <1>4. x \div SectorSize = n /\ x % SectorSize = x - o
    <2>1. n \in Int /\ n * SectorSize <= x /\ x < n * SectorSize + SectorSize
      BY <1>1, <1>3
    <2>2. x \div SectorSize = n /\ x % SectorSize = x - n * SectorSize
      BY <1>1, <2>1, QuotientOf
    <2> QED BY <1>3, <2>2
  <1> QED BY <1>2, <1>4 DEF SectorOf

\* No two bytes of the files are in the same place.
LEMMA PlacesApart ==
    ASSUME SoundVolume, NEW i \in Files, NEW j \in Files,
           NEW m \in DOMAIN Chain(i), NEW l \in DOMAIN Chain(j),
           NEW s \in 0 .. SecPerCluster - 1, NEW t \in 0 .. SecPerCluster - 1,
           ClusterToSector(Chain(i)[m]) + s = ClusterToSector(Chain(j)[l]) + t
    PROVE  i = j /\ m = l /\ s = t
  <1>1. Chain(i)[m] \in Nat /\ Chain(j)[l] \in Nat
    BY ChainFacts, Fat32Assumption
  <1> DEFINE p == Chain(i)[m] - 2
             q == Chain(j)[l] - 2
  <1>2. p \in Int /\ q \in Int /\ SecPerCluster \in Nat \ {0}
    BY <1>1, Fat32Assumption
  <1>3. p * SecPerCluster + s = q * SecPerCluster + t
    BY DEF ClusterToSector
  <1> HIDE DEF p, q
  <1>4. p = q /\ s = t
    BY <1>2, <1>3, OneQuotient
  <1>5. Chain(i)[m] = Chain(j)[l]
    BY <1>1, <1>4 DEF p, q
  <1> QED BY <1>4, <1>5 DEF SoundVolume, ChainsSound, ChainsApart

-----------------------------------------------------------------------------
(* What a call has done, turn by turn.                                     *)

\* The file of the running call, and the offset it began at.
Target == handle[call.h].entry
Start == handle[call.h].cfo

\* What a handle has open is a file.
HandleFiles == \A h \in Handles : handle[h].entry \in Files \cup {NoFile}

\* How far the running call will go.
Requested ==
    call # Idle =>
        /\ Start < SizeOf(call.h)
        /\ call.max_cfo = Start + Least(call.len, SizeOf(call.h) - Start)

\* The loop is at the cluster of the chain, and the sector of it, that rw_cfo
\* says; only at the end of the request rw_cfo may be inside a sector.
Placed ==
    call # Idle =>
        \E m \in DOMAIN Chain(Target) :
            /\ call.cluster = Chain(Target)[m]
            /\ \/ /\ call.rw_cfo = (m * SecPerCluster + call.sector) * SectorSize
                  /\ call.rw_cfo <= call.cfo
               \/ call.rw_cfo = call.cfo /\ call.cfo = call.max_cfo

\* What the running call has done up to its offset.
ReadSoFar ==
    call # Idle /\ call.op = "read" =>
        /\ disk = before
        /\ \A k \in 0 .. call.len - 1 :
              call.buf[k] = IF k < call.rw_len THEN ByteAt(before, Target, Start + k)
                                               ELSE NoByte

WrittenSoFar ==
    call # Idle /\ call.op = "write" =>
        \A j \in Files : \A x \in 0 .. Dir[j].size - 1 :
            ByteAt(disk, j, x) = IF j = Target /\ Start <= x /\ x < call.cfo
                                 THEN call.buf[x - Start] ELSE ByteAt(before, j, x)

\* What a call writes is what its caller passed.
PatternHeld ==
    call # Idle /\ call.op = "write" =>
        \E p \in Patterns : call.buf = [k \in 0 .. call.len - 1 |-> p[k]]

\* The inductive invariant of the refinement; the hypothesis SoundVolume is
\* what the loop relies on when it follows the chain of a file.
RInv ==
    /\ IInv /\ HandleFiles /\ Requested /\ Placed
    /\ ReadSoFar /\ WrittenSoFar /\ PatternHeld

LEMMA InitRInv == Init => RInv
  <1>1. ASSUME Init PROVE RInv
    <2>1. IInv
      BY <1>1, InitIInv
    <2>2. HandleFiles
      BY <1>1 DEF Init, HandleFiles
    <2>3. call = Idle
      BY <1>1 DEF Init
    <2> QED BY <2>1, <2>2, <2>3
          DEF RInv, Requested, Placed, ReadSoFar, WrittenSoFar, PatternHeld
  <1> QED BY <1>1

\* Without a running call there is nothing to say about one.
LEMMA IdleRInv ==
    ASSUME IInv', HandleFiles', call' = Idle
    PROVE  RInv'
  BY DEF RInv, Requested, Placed, ReadSoFar, WrittenSoFar, PatternHeld

LEMMA OpenRInv ==
    ASSUME RInv, NEW h \in Handles, NEW n \in Names, Open(h, n)
    PROVE  RInv'
  <1>1. IInv'
    BY OpenIInv DEF RInv
  <1>2. PICK i \in Found(n) : handle' = [handle EXCEPT ![h] = [entry |-> i, cfo |-> 0]]
    BY DEF Open
  <1>3. i \in Files \cup {NoFile}
    BY <1>2 DEF Files
  <1>4. HandleFiles'
    BY <1>2, <1>3 DEF HandleFiles, RInv, IInv, TypeOK
  <1>5. call' = Idle
    BY DEF Open
  <1> QED BY <1>1, <1>4, <1>5, IdleRInv

LEMMA SeekRInv ==
    ASSUME RInv, NEW h \in Handles, NEW o \in Offsets,
           NEW w \in {"SEEK_SET", "SEEK_CUR", "SEEK_END"}, Seek(h, o, w)
    PROVE  RInv'
  <1>1. IInv'
    BY SeekIInv DEF RInv
  <1>2. PICK cfo : handle' = [handle EXCEPT ![h].cfo = cfo]
    BY DEF Seek
  <1>3. HandleFiles'
    BY <1>2 DEF HandleFiles, RInv, IInv, TypeOK
  <1>4. call' = Idle
    BY DEF Seek
  <1> QED BY <1>1, <1>3, <1>4, IdleRInv

\* What a caller passes to fat32_read or fat32_write.
Passed(op, buf, len) ==
    \/ op = "read" /\ buf = [k \in 0 .. len - 1 |-> NoByte]
    \/ op = "write" /\ \E p \in Patterns : buf = [k \in 0 .. len - 1 |-> p[k]]

\* The file that is open on a handle.
LEMMA OpenFile ==
    ASSUME RInv, NEW h \in Handles, handle[h].entry # NoFile
    PROVE  /\ handle[h].entry \in Files /\ handle[h].cfo \in Nat
           /\ SizeOf(h) = Dir[handle[h].entry].size /\ SizeOf(h) \in Nat
           /\ handle[h].cfo <= SizeOf(h)
  <1>1. handle[h].entry \in Files
    BY DEF RInv, HandleFiles
  <1>2. Dir[handle[h].entry].size \in Nat
    BY <1>1, FileEntry
  <1> QED BY <1>1, <1>2 DEF SizeOf, RInv, IInv, OffsetsInFile, TypeOK

LEMMA RequestRInv ==
    ASSUME SoundVolume, RInv, IInv', NEW op, NEW h \in Handles, NEW len \in Lengths,
           NEW buf, Passed(op, buf, len), Request(op, h, buf, len)
    PROVE  RInv'
  <1>1. HandleFiles'
    BY DEF Request, AtEnd, Begin, RInv, HandleFiles
  <1>2. CASE AtEnd(h, buf)
    <2>1. call' = Idle
      BY <1>2 DEF AtEnd
    <2> QED BY <1>1, <2>1, IdleRInv
  <1>3. CASE Begin(op, h, buf, len)
    <2> DEFINE i == handle[h].entry
               left == Least(len, SizeOf(h) - handle[h].cfo)
    <2>1. i \in Files /\ handle[h].cfo \in Nat /\ handle[h].cfo < Dir[i].size
      BY <1>3, OpenFile DEF Begin
    <2>2. call' = [op |-> op, h |-> h, buf |-> buf, len |-> len,
                   cfo |-> handle[h].cfo, max_cfo |-> handle[h].cfo + left,
                   rw_cfo |-> 0, rw_len |-> 0, cluster |-> Dir[i].cluster, sector |-> 0]
      BY <1>3 DEF Begin
    <2>3. UNCHANGED <<handle, disk>> /\ before' = disk /\ handle[h].cfo < SizeOf(h)
      BY <1>3 DEF Begin
    <2>4. Requested'
      BY <2>2, <2>3 DEF Requested, Start, SizeOf
    <2> HIDE DEF left
    <2>5. Placed'
      <3>1. 0 \in DOMAIN Chain(i) /\ Chain(i)[0] = Dir[i].cluster
        <4>1. 0 * (SectorSize * SecPerCluster) = 0
          BY Fat32Assumption
        <4>2. 0 \in 0 .. ChainLength(i) - 1
          BY <2>1, <4>1, ClusterOfByte
        <4> QED BY <2>1, <4>2, ChainFacts
      <3>2. (0 * SecPerCluster + 0) * SectorSize = 0
        BY Fat32Assumption
      <3>3. Target' = i
        BY <2>2, <2>3 DEF Target
      <3> QED BY <2>1, <2>2, <3>1, <3>2, <3>3 DEF Placed
    <2>6. ReadSoFar'
      <3> SUFFICES ASSUME op = "read"
                   PROVE  /\ disk' = before'
                          /\ \A k \in 0 .. len - 1 : ~ (k < 0) /\ buf[k] = NoByte
        BY <2>2 DEF ReadSoFar
      <3>1. buf = [k \in 0 .. len - 1 |-> NoByte]
        BY DEF Passed
      <3> QED BY <2>3, <3>1
    <2>7. WrittenSoFar'
      <3> SUFFICES ASSUME op = "write", NEW j \in Files, NEW x \in 0 .. Dir[j].size - 1
                   PROVE  ~ (Start' <= x /\ x < call'.cfo)
        BY <2>2, <2>3 DEF WrittenSoFar
      <3>1. Start' = handle[h].cfo /\ call'.cfo = handle[h].cfo
        BY <2>2, <2>3 DEF Start
      <3>2. x \in Int
        BY FileEntry
      <3> QED BY <2>1, <3>1, <3>2
    <2>8. PatternHeld'
      BY <2>2 DEF PatternHeld, Passed
    <2> QED BY <1>1, <2>4, <2>5, <2>6, <2>7, <2>8 DEF RInv
  <1> QED BY <1>2, <1>3 DEF Request

\* The running call's file, offsets and place.
LEMMA Running ==
    ASSUME RInv, call # Idle
    PROVE  /\ call \in Calls /\ call.h \in Handles /\ Target \in Files
           /\ Start \in Nat /\ call.cfo \in Nat /\ call.max_cfo \in Nat
           /\ call.rw_cfo \in Nat /\ call.rw_len \in Nat /\ call.len \in Nat
           /\ call.cfo = Start + call.rw_len /\ call.cfo <= call.max_cfo
           /\ call.max_cfo <= Dir[Target].size /\ call.max_cfo <= Start + call.len
           /\ call.buf \in Buffer(call.op, call.len) /\ call.op \in {"read", "write"}
           /\ call.sector \in 0 .. SecPerCluster
           /\ call.cluster \in Clusters \cup {EndOfChain}
  <1>1. call \in Calls /\ call.h \in Handles /\ handle[call.h].entry # NoFile
    BY DEF RInv, IInv, TypeOK, Calls
  <1>2. Target \in Files /\ Start \in Nat /\ SizeOf(call.h) = Dir[Target].size
    BY <1>1, OpenFile DEF Target, Start
  <1>3. /\ call.cfo \in Nat /\ call.max_cfo \in Nat
        /\ call.rw_cfo \in Nat /\ call.rw_len \in Nat /\ call.len \in Nat
        /\ call.op \in {"read", "write"} /\ call.sector \in 0 .. SecPerCluster
        /\ call.cluster \in Clusters \cup {EndOfChain}
    BY <1>1, Fat32Assumption DEF Calls
  <1>4. /\ call.cfo = Start + call.rw_len /\ call.cfo <= call.max_cfo
        /\ call.max_cfo <= Dir[Target].size /\ call.max_cfo <= Start + call.len
    BY <1>2 DEF RInv, IInv, TransferBounded, Start
  <1>5. call.buf \in Buffer(call.op, call.len)
    BY DEF RInv, IInv, TypeOK
  <1> QED BY <1>1, <1>2, <1>3, <1>4, <1>5

\* A turn that changes neither the disk nor what has been transferred.
LEMMA SameTransfer ==
    ASSUME RInv, IInv', call # Idle, call' # Idle, Placed',
           UNCHANGED <<disk, handle, before>>,
           call'.op = call.op, call'.h = call.h, call'.buf = call.buf,
           call'.len = call.len, call'.cfo = call.cfo, call'.max_cfo = call.max_cfo,
           call'.rw_len = call.rw_len
    PROVE  RInv'
  <1>1. Start' = Start /\ Target' = Target
    BY DEF Start, Target
  <1>2. HandleFiles' /\ Requested'
    BY <1>1 DEF RInv, HandleFiles, Requested, SizeOf
  <1>3. ReadSoFar'
    BY <1>1 DEF RInv, ReadSoFar
  <1>4. WrittenSoFar'
    BY <1>1 DEF RInv, WrittenSoFar
  <1>5. PatternHeld'
    BY DEF RInv, PatternHeld
  <1> QED BY <1>2, <1>3, <1>4, <1>5 DEF RInv

\* Where the loop is, in the file's chain.
PlaceIs(m) ==
    /\ m \in DOMAIN Chain(Target) /\ m \in Nat
    /\ call.cluster = Chain(Target)[m] /\ call.cluster \in Clusters
    /\ \/ /\ call.rw_cfo = (m * SecPerCluster + call.sector) * SectorSize
          /\ call.rw_cfo <= call.cfo
       \/ call.rw_cfo = call.cfo /\ call.cfo = call.max_cfo

LEMMA PlaceExists ==
    ASSUME SoundVolume, RInv, call # Idle
    PROVE  \E m : PlaceIs(m)
  <1>1. PICK m \in DOMAIN Chain(Target) :
           /\ call.cluster = Chain(Target)[m]
           /\ \/ /\ call.rw_cfo = (m * SecPerCluster + call.sector) * SectorSize
                 /\ call.rw_cfo <= call.cfo
              \/ call.rw_cfo = call.cfo /\ call.cfo = call.max_cfo
    BY DEF RInv, Placed
  <1>2. Target \in Files /\ ChainLength(Target) \in Int
    BY Running, FileEntry
  <1>3. Chain(Target) \in [0 .. ChainLength(Target) - 1 -> Clusters]
    BY <1>2, ChainFacts
  <1>4. m \in Nat /\ Chain(Target)[m] \in Clusters
    BY <1>1, <1>2, <1>3
  <1> QED BY <1>1, <1>4 DEF PlaceIs

LEMMA SkipRInv ==
    ASSUME SoundVolume, RInv, Skip
    PROVE  RInv'
  <1>1. IInv'
    BY SkipIInv DEF RInv
  <1>2. /\ call # Idle /\ UNCHANGED <<disk, handle, before>>
        /\ call' = [call EXCEPT !.rw_cfo = @ + SectorSize, !.sector = @ + 1]
        /\ call.rw_cfo + SectorSize <= call.cfo
    BY DEF Skip, InCluster, Before
  <1>3. /\ call'.rw_cfo = call.rw_cfo + SectorSize /\ call'.sector = call.sector + 1
        /\ call'.op = call.op /\ call'.h = call.h /\ call'.buf = call.buf
        /\ call'.len = call.len /\ call'.cfo = call.cfo /\ call'.max_cfo = call.max_cfo
        /\ call'.rw_len = call.rw_len /\ call'.cluster = call.cluster
    BY <1>2, Running DEF Calls
  <1>4. SectorSize \in Nat \ {0} /\ SecPerCluster \in Nat \ {0}
    BY Fat32Assumption
  <1>5. PICK m : PlaceIs(m)
    BY <1>2, PlaceExists
  <1>6. call.rw_cfo \in Nat /\ call.cfo \in Nat /\ call.sector \in Nat /\ m \in Nat
    BY <1>2, <1>4, <1>5, Running DEF PlaceIs
  <1>7. call.rw_cfo = (m * SecPerCluster + call.sector) * SectorSize
    BY <1>2, <1>4, <1>5, <1>6 DEF PlaceIs
  <1>8. call.rw_cfo + SectorSize = (m * SecPerCluster + (call.sector + 1)) * SectorSize
    BY <1>4, <1>6, <1>7
  <1>9. Target' = Target
    BY <1>2, <1>3 DEF Target
  <1>10. Placed'
    BY <1>2, <1>3, <1>5, <1>8, <1>9 DEF Placed, PlaceIs
  <1>11. call' # Idle
    BY <1>1, <1>2, <1>3, Running DEF Idle, Calls
  <1> QED BY <1>1, <1>2, <1>3, <1>10, <1>11, SameTransfer

LEMMA EnoughRInv ==
    ASSUME SoundVolume, RInv, Enough
    PROVE  RInv'
  <1>1. IInv'
    BY EnoughIInv DEF RInv
  <1>2. /\ call # Idle /\ UNCHANGED <<disk, handle, before>>
        /\ call' = [call EXCEPT !.sector = SecPerCluster]
        /\ call.rw_cfo >= call.max_cfo
    BY DEF Enough, InCluster
  <1>3. /\ call'.rw_cfo = call.rw_cfo
        /\ call'.op = call.op /\ call'.h = call.h /\ call'.buf = call.buf
        /\ call'.len = call.len /\ call'.cfo = call.cfo /\ call'.max_cfo = call.max_cfo
        /\ call'.rw_len = call.rw_len /\ call'.cluster = call.cluster
    BY <1>2, Running DEF Calls
  <1>4. PICK m : PlaceIs(m)
    BY <1>2, PlaceExists
  <1>5. call.rw_cfo = call.cfo /\ call.cfo = call.max_cfo
    BY <1>2, <1>4, Running DEF PlaceIs
  <1>6. Target' = Target
    BY <1>2, <1>3 DEF Target
  <1>7. Placed'
    BY <1>2, <1>3, <1>4, <1>5, <1>6 DEF Placed, PlaceIs
  <1>8. call' # Idle
    BY <1>1, <1>2, <1>3, Running DEF Idle, Calls
  <1> QED BY <1>1, <1>2, <1>3, <1>7, <1>8, SameTransfer

\* The chain goes on because rw_cfo, where the next cluster begins, is inside the
\* file, and with the next entry of the table because the sector has it.
LEMMA AdvanceRInv ==
    ASSUME SoundVolume, RInv, AdvanceCluster
    PROVE  RInv'
  <1>1. IInv'
    BY AdvanceIInv DEF RInv
  <1>2. PICK c \in NextCluster(call.cluster) :
           call' = [call EXCEPT !.cluster = c, !.sector = 0]
    BY DEF AdvanceCluster
  <1>3. /\ call # Idle /\ UNCHANGED <<disk, handle, before>>
        /\ call.sector = SecPerCluster /\ call.rw_cfo < call.max_cfo
    BY DEF AdvanceCluster
  <1>4. /\ call'.rw_cfo = call.rw_cfo /\ call'.cluster = c /\ call'.sector = 0
        /\ call'.op = call.op /\ call'.h = call.h /\ call'.buf = call.buf
        /\ call'.len = call.len /\ call'.cfo = call.cfo /\ call'.max_cfo = call.max_cfo
        /\ call'.rw_len = call.rw_len
    BY <1>2, <1>3, Running DEF Calls
  <1>5. PICK m : PlaceIs(m)
    BY <1>3, PlaceExists
  <1>6. /\ call.rw_cfo \in Nat /\ call.cfo \in Nat /\ call.max_cfo \in Nat /\ m \in Nat
        /\ SectorSize \in Nat \ {0} /\ SecPerCluster \in Nat \ {0}
        /\ call.max_cfo <= Dir[Target].size /\ Target \in Files
        /\ Dir[Target].size \in Nat /\ ChainLength(Target) \in Int
    BY <1>3, <1>5, Running, Fat32Assumption, FileEntry DEF PlaceIs
  <1>7. /\ call.rw_cfo = (m * SecPerCluster + SecPerCluster) * SectorSize
        /\ call.rw_cfo <= call.cfo
    BY <1>3, <1>5, <1>6 DEF PlaceIs
  <1>8. call.rw_cfo = (m + 1) * (SectorSize * SecPerCluster)
    BY <1>6, <1>7
  <1>9. m + 1 \in 0 .. ChainLength(Target) - 1
    <2>1. (m + 1) * (SectorSize * SecPerCluster) <= call.rw_cfo
      BY <1>6, <1>8
    <2>2. m + 1 \in Nat /\ call.rw_cfo < Dir[Target].size
      BY <1>3, <1>6
    <2> QED BY <1>6, <2>1, <2>2, ClusterOfByte
  <1>10. m + 1 \in DOMAIN Chain(Target) /\ Chain(Target)[m + 1] = Fat[Chain(Target)[m]]
    <2>1. m + 1 # 0 /\ (m + 1) - 1 = m
      BY <1>6
    <2> QED BY <1>6, <1>9, <2>1, ChainFacts
  <1>11. c = Chain(Target)[m + 1]
    <2>1. call.cluster < TableEntries
      BY <1>5, <1>6 DEF PlaceIs, SoundVolume, InOneTableSector
    <2> QED BY <1>2, <1>5, <1>10, <2>1 DEF NextCluster, PlaceIs
  <1>12. Target' = Target
    BY <1>3, <1>4 DEF Target
  <1>13. call'.rw_cfo = ((m + 1) * SecPerCluster + 0) * SectorSize
    BY <1>4, <1>6, <1>8
  <1>14. Placed'
    BY <1>3, <1>4, <1>7, <1>10, <1>11, <1>12, <1>13 DEF Placed
  <1>15. call' # Idle
    BY <1>1, <1>2, <1>3, <1>4, Running DEF Idle, Calls
  <1> QED BY <1>1, <1>3, <1>4, <1>14, <1>15, SameTransfer

\* Where a copy happens: cfo is in the sector that begins at rw_cfo.
LEMMA CopyPlace ==
    ASSUME SoundVolume, RInv, Copy, NEW m, PlaceIs(m)
    PROVE  /\ call # Idle
           /\ call.rw_cfo = (m * SecPerCluster + call.sector) * SectorSize
           /\ call.rw_cfo <= call.cfo /\ call.cfo < call.rw_cfo + SectorSize
           /\ call.sector \in 0 .. SecPerCluster - 1
           /\ SecOffset = call.cfo - call.rw_cfo
           /\ CopyLen \in Nat /\ call.cfo + CopyLen <= call.max_cfo
           /\ SecOffset + CopyLen <= SectorSize
           /\ CopyLen < SectorSize - SecOffset => call.cfo + CopyLen = call.max_cfo
  <1>1. /\ call # Idle /\ call.rw_cfo < call.max_cfo
        /\ ~ (call.rw_cfo + SectorSize <= call.cfo)
        /\ call.sector < SecPerCluster
    BY DEF Copy, InCluster, Before
  <1>2. /\ call.rw_cfo \in Nat /\ call.cfo \in Nat /\ call.max_cfo \in Nat /\ m \in Nat
        /\ SectorSize \in Nat \ {0} /\ SecPerCluster \in Nat \ {0}
        /\ call.sector \in Nat
    BY <1>1, Running, Fat32Assumption DEF PlaceIs
  <1>3. /\ call.rw_cfo = (m * SecPerCluster + call.sector) * SectorSize
        /\ call.rw_cfo <= call.cfo
    BY <1>1, <1>2 DEF PlaceIs
  <1>4. call.sector \in 0 .. SecPerCluster - 1 /\ call.cfo < call.rw_cfo + SectorSize
    BY <1>1, <1>2
  <1>5. SecOffset = call.cfo - call.rw_cfo
    <2> DEFINE n == m * SecPerCluster + call.sector
    <2>1. n \in Int /\ n * SectorSize <= call.cfo /\ call.cfo < n * SectorSize + SectorSize
      BY <1>2, <1>3, <1>4
    <2>2. call.rw_cfo = n * SectorSize
      BY <1>3
    <2> HIDE DEF n
    <2>3. (call.cfo % SectorSize) = call.cfo - n * SectorSize
      BY <1>2, <2>1, QuotientOf
    <2> QED BY <2>2, <2>3 DEF SecOffset
  <1>6. CopyLen \in Nat /\ SecOffset + CopyLen <= SectorSize
                        /\ call.cfo + CopyLen <= call.max_cfo
    BY <1>1, CopyBounds DEF RInv, IInv
  <1>7. CopyLen < SectorSize - SecOffset => call.cfo + CopyLen = call.max_cfo
    BY <1>2, <1>4, <1>5 DEF CopyLen, Least
  <1> QED BY <1>1, <1>3, <1>4, <1>5, <1>6, <1>7

\* The bytes of the file that a copy is about.
LEMMA CopiedBytes ==
    ASSUME SoundVolume, RInv, Copy, NEW m, PlaceIs(m), NEW x \in Nat,
           call.cfo <= x, x < call.cfo + CopyLen
    PROVE  /\ x < Dir[Target].size
           /\ SectorOf(Target, x) = ClusterToSector(call.cluster) + call.sector
           /\ x % SectorSize = SecOffset + (x - call.cfo)
  <1>1. /\ call.rw_cfo = (m * SecPerCluster + call.sector) * SectorSize
        /\ call.rw_cfo <= call.cfo
        /\ call.sector \in 0 .. SecPerCluster - 1
        /\ SecOffset = call.cfo - call.rw_cfo
        /\ CopyLen \in Nat /\ call.cfo + CopyLen <= call.max_cfo
        /\ SecOffset + CopyLen <= SectorSize
    BY CopyPlace
  <1>2. /\ call.rw_cfo \in Nat /\ call.cfo \in Nat /\ call.max_cfo \in Nat /\ m \in Nat
        /\ call.max_cfo <= Dir[Target].size /\ Target \in Files
        /\ Dir[Target].size \in Nat /\ SectorSize \in Nat
    BY CopyPlace, Running, FileEntry, Fat32Assumption DEF PlaceIs
  <1>3. x < Dir[Target].size
    BY <1>1, <1>2
  <1>4. call.rw_cfo <= x /\ x < call.rw_cfo + SectorSize
    BY <1>1, <1>2
  <1>5. /\ SectorOf(Target, x) = ClusterToSector(Chain(Target)[m]) + call.sector
        /\ x % SectorSize = x - call.rw_cfo
    BY <1>1, <1>2, <1>3, <1>4, BytesOfSector
  <1>6. x - call.rw_cfo = SecOffset + (x - call.cfo)
    BY <1>1, <1>2
  <1> QED BY <1>3, <1>5, <1>6 DEF PlaceIs

\* A byte in the sector of a copy is a byte of the same file, near its offset.
LEMMA BytesInCopiedSector ==
    ASSUME SoundVolume, RInv, Copy, NEW m, PlaceIs(m),
           NEW j \in Files, NEW x \in Nat, x < Dir[j].size,
           SectorOf(j, x) = ClusterToSector(call.cluster) + call.sector
    PROVE  /\ j = Target
           /\ x = call.rw_cfo + (x % SectorSize) /\ x % SectorSize \in 0 .. SectorSize - 1
  <1>1. PICK l \in DOMAIN Chain(j), s \in 0 .. SecPerCluster - 1, b \in 0 .. SectorSize - 1 :
              /\ x = (l * SecPerCluster + s) * SectorSize + b
              /\ x % SectorSize = b
              /\ SectorOf(j, x) = ClusterToSector(Chain(j)[l]) + s
    BY PlaceOfByte
  <1>2. call.sector \in 0 .. SecPerCluster - 1 /\ Target \in Files
        /\ call.rw_cfo = (m * SecPerCluster + call.sector) * SectorSize
    BY CopyPlace, Running
  <1>3. m \in DOMAIN Chain(Target) /\ call.cluster = Chain(Target)[m]
    BY DEF PlaceIs
  <1>4. ClusterToSector(Chain(j)[l]) + s = ClusterToSector(Chain(Target)[m]) + call.sector
    BY <1>1, <1>3
  <1>5. j = Target /\ l = m /\ s = call.sector
    BY <1>1, <1>2, <1>3, <1>4, PlacesApart
  <1> QED BY <1>1, <1>2, <1>5

\* What a copy changes in the call, reading or writing.
LEMMA CopyCall ==
    ASSUME RInv, Copy
    PROVE  /\ call' # Idle /\ UNCHANGED <<handle, before>>
           /\ call'.op = call.op /\ call'.h = call.h /\ call'.len = call.len
           /\ call'.max_cfo = call.max_cfo /\ call'.cluster = call.cluster
           /\ call'.sector = call.sector + 1
           /\ call'.cfo = call.cfo + CopyLen /\ call'.rw_cfo = call.cfo + CopyLen
           /\ call'.rw_len = call.rw_len + CopyLen
           /\ call.op = "write" => call'.buf = call.buf
           /\ call.op = "read" =>
                 /\ disk' = disk
                 /\ call'.buf = [k \in DOMAIN call.buf |->
                       IF InBuffer(k)
                       THEN disk[ClusterToSector(call.cluster) + call.sector]
                                [SecOffset + k - call.rw_len]
                       ELSE call.buf[k]]
  <1>1. call # Idle /\ call \in Calls
    BY Running DEF Copy, InCluster
  <1> DEFINE moved == [call EXCEPT !.rw_len = @ + CopyLen, !.sector = @ + 1,
                                   !.rw_cfo = call.cfo + CopyLen,
                                   !.cfo = @ + CopyLen]
             into == [k \in DOMAIN call.buf |->
                       IF InBuffer(k)
                       THEN disk[ClusterToSector(call.cluster) + call.sector]
                                [SecOffset + k - call.rw_len]
                       ELSE call.buf[k]]
  <1>2. /\ moved.op = call.op /\ moved.h = call.h /\ moved.len = call.len
        /\ moved.max_cfo = call.max_cfo /\ moved.cluster = call.cluster
        /\ moved.sector = call.sector + 1 /\ moved.buf = call.buf
        /\ moved.cfo = call.cfo + CopyLen /\ moved.rw_cfo = call.cfo + CopyLen
        /\ moved.rw_len = call.rw_len + CopyLen
    BY <1>1 DEF Calls
  <1>3. \/ call.op = "read" /\ call' = [moved EXCEPT !.buf = into] /\ UNCHANGED disk
        \/ call.op = "write" /\ call' = moved
    BY <1>2 DEF Copy
  <1>4. moved # Idle /\ [moved EXCEPT !.buf = into] # Idle
    <2>1. call.op \in {"read", "write"}
      BY <1>1 DEF Calls
    <2>2. DOMAIN moved = DOMAIN call /\ "h" \in DOMAIN call /\ "h" \notin DOMAIN Idle
      BY <1>1 DEF Calls, Idle
    <2>3. DOMAIN [moved EXCEPT !.buf = into] = DOMAIN call
      BY <2>2
    <2> HIDE DEF moved, into
    <2> QED BY <2>2, <2>3
  <1>5. [moved EXCEPT !.buf = into].buf = into
        /\ \A f \in {"op", "h", "len", "max_cfo", "cluster", "sector", "cfo", "rw_cfo", "rw_len"} :
              [moved EXCEPT !.buf = into][f] = moved[f]
    <2>1. DOMAIN moved = {"op", "h", "len", "buf", "cfo", "max_cfo", "rw_cfo", "rw_len",
                          "cluster", "sector"}
      BY <1>1 DEF Calls
    <2> HIDE DEF moved, into
    <2> QED BY <2>1
  <1> HIDE DEF moved
  <1>6. /\ call'.op = call.op /\ call'.h = call.h /\ call'.len = call.len
        /\ call'.max_cfo = call.max_cfo /\ call'.cluster = call.cluster
        /\ call'.sector = call.sector + 1
        /\ call'.cfo = call.cfo + CopyLen /\ call'.rw_cfo = call.cfo + CopyLen
        /\ call'.rw_len = call.rw_len + CopyLen
    BY <1>2, <1>3, <1>5
  <1>7. call.op = "write" => call'.buf = call.buf
    BY <1>2, <1>3
  <1>8. call.op = "read" => disk' = disk /\ call'.buf = into
    BY <1>3, <1>5
  <1>9. UNCHANGED <<handle, before>>
    BY DEF Copy
  <1> QED BY <1>3, <1>4, <1>6, <1>7, <1>8, <1>9

LEMMA CopyPlaced ==
    ASSUME SoundVolume, RInv, Copy
    PROVE  Placed'
  <1>1. call # Idle
    BY DEF Copy, InCluster
  <1>2. PICK m : PlaceIs(m)
    BY <1>1, PlaceExists
  <1>3. /\ call.rw_cfo \in Nat /\ call.cfo \in Nat /\ call.sector \in Nat /\ m \in Nat
        /\ SectorSize \in Nat \ {0} /\ SecPerCluster \in Nat \ {0}
    BY <1>1, <1>2, Running, Fat32Assumption DEF PlaceIs
  <1>4. /\ call.rw_cfo = (m * SecPerCluster + call.sector) * SectorSize
        /\ SecOffset = call.cfo - call.rw_cfo /\ SecOffset + CopyLen <= SectorSize
        /\ CopyLen \in Nat
        /\ CopyLen < SectorSize - SecOffset => call.cfo + CopyLen = call.max_cfo
    BY <1>2, CopyPlace
  <1>5. \/ call.cfo + CopyLen = call.max_cfo
        \/ call.cfo + CopyLen = call.rw_cfo + SectorSize
    BY <1>3, <1>4
  <1>6. call.rw_cfo + SectorSize = (m * SecPerCluster + (call.sector + 1)) * SectorSize
    BY <1>3, <1>4
  <1>7. Target' = Target
    BY CopyCall DEF Target
  <1>8. call.cfo + CopyLen <= call.cfo + CopyLen
    BY <1>3, <1>4
  <1> QED BY <1>2, <1>5, <1>6, <1>7, <1>8, CopyCall DEF Placed, PlaceIs

LEMMA CopyReadSoFar ==
    ASSUME SoundVolume, RInv, Copy, call.op = "read"
    PROVE  ReadSoFar'
  <1>1. call # Idle
    BY DEF Copy, InCluster
  <1>2. PICK m : PlaceIs(m)
    BY <1>1, PlaceExists
  <1>3. /\ call.cfo \in Nat /\ call.rw_len \in Nat /\ call.len \in Nat /\ Start \in Nat
        /\ call.cfo = Start + call.rw_len
    BY <1>1, Running
  <1>4. CopyLen \in Nat
    BY <1>2, CopyPlace
  <1>5. DOMAIN call.buf = 0 .. call.len - 1
    BY <1>1, Running DEF Buffer
  <1>6. disk' = before'
    BY <1>1, CopyCall DEF RInv, ReadSoFar
  <1>7. Start' = Start /\ Target' = Target
    BY CopyCall DEF Start, Target
  <1>8. ASSUME NEW k \in 0 .. call.len - 1
        PROVE  call'.buf[k] = IF k < call.rw_len + CopyLen THEN ByteAt(before, Target, Start + k)
                                                            ELSE NoByte
    <2>1. k \in Nat
      BY <1>3
    <2>2. call'.buf[k] = IF InBuffer(k)
                         THEN disk[ClusterToSector(call.cluster) + call.sector]
                                  [SecOffset + k - call.rw_len]
                         ELSE call.buf[k]
      BY <1>5, CopyCall
    <2>3. call.buf[k] = IF k < call.rw_len THEN ByteAt(before, Target, Start + k) ELSE NoByte
      BY <1>1 DEF RInv, ReadSoFar
    <2>4. InBuffer(k) <=> (call.rw_len <= k /\ k < call.rw_len + CopyLen)
      BY <2>1, <1>3, <1>4 DEF InBuffer
    <2>5. CASE k < call.rw_len
      <3>1. ~ InBuffer(k) /\ k < call.rw_len + CopyLen
        BY <2>1, <2>4, <2>5, <1>3, <1>4
      <3> QED BY <2>2, <2>3, <2>5, <3>1
    <2>6. CASE call.rw_len <= k /\ k < call.rw_len + CopyLen
      <3> DEFINE x == Start + k
      <3>1. x \in Nat /\ call.cfo <= x /\ x < call.cfo + CopyLen /\ x - call.cfo = k - call.rw_len
        BY <1>3, <1>4, <2>1, <2>6
      <3> HIDE DEF x
      <3>2. /\ SectorOf(Target, x) = ClusterToSector(call.cluster) + call.sector
            /\ x % SectorSize = SecOffset + (x - call.cfo)
        BY <1>2, <3>1, CopiedBytes
      <3>3. SecOffset \in Int
        BY <1>1, CopyBounds DEF RInv, IInv
      <3>4. SecOffset + (x - call.cfo) = SecOffset + k - call.rw_len
        BY <1>3, <2>1, <3>1, <3>3
      <3>5. ByteAt(before, Target, x) = disk[ClusterToSector(call.cluster) + call.sector]
                                            [SecOffset + k - call.rw_len]
        <4>1. before = disk
          BY <1>1 DEF RInv, ReadSoFar
        <4>2. ByteAt(before, Target, x) = before[SectorOf(Target, x)][x % SectorSize]
          BY ByteIs
        <4> QED BY <3>2, <3>4, <4>1, <4>2
      <3> QED BY <2>2, <2>4, <2>6, <3>5 DEF x
    <2>7. CASE ~ (k < call.rw_len + CopyLen)
      <3>1. ~ InBuffer(k) /\ ~ (k < call.rw_len)
        BY <2>1, <2>4, <2>7, <1>3, <1>4
      <3> QED BY <2>2, <2>3, <2>7, <3>1
    <2> QED BY <2>1, <2>5, <2>6, <2>7, <1>3, <1>4
  <1> QED BY <1>6, <1>7, <1>8, CopyCall DEF ReadSoFar

LEMMA CopyWrittenSoFar ==
    ASSUME SoundVolume, RInv, Copy, call.op = "write"
    PROVE  WrittenSoFar'
  <1> DEFINE sec == ClusterToSector(call.cluster) + call.sector
             stored(b) == IF InSector(b) THEN call.buf[call.rw_len + b - SecOffset]
                                         ELSE disk[sec][b]
  <1>1. call # Idle
    BY DEF Copy, InCluster
  <1>2. PICK m : PlaceIs(m)
    BY <1>1, PlaceExists
  <1>3. /\ call.cfo \in Nat /\ call.rw_len \in Nat /\ call.len \in Nat /\ Start \in Nat
        /\ call.cfo = Start + call.rw_len /\ call.rw_cfo \in Nat
    BY <1>1, Running
  <1>4. /\ CopyLen \in Nat /\ call.sector \in 0 .. SecPerCluster - 1
        /\ SecOffset = call.cfo - call.rw_cfo /\ call.rw_cfo <= call.cfo
        /\ call.cfo < call.rw_cfo + SectorSize
    BY <1>2, CopyPlace
  <1>5. sec \in Sectors
    BY <1>2, <1>4, SectorOfCluster DEF PlaceIs
  <1>6. disk' = [disk EXCEPT ![sec] = [b \in DOMAIN @ |-> stored(b)]]
    BY DEF Copy
  <1>7. disk \in [Sectors -> Sector] /\ DOMAIN disk[sec] = 0 .. SectorSize - 1
    BY <1>5 DEF RInv, IInv, TypeOK, Sector
  <1> HIDE DEF sec, stored
  <1>8. disk'[sec] = [b \in 0 .. SectorSize - 1 |-> stored(b)]
    BY <1>5, <1>6, <1>7
  <1>9. \A s \in Sectors : s # sec => disk'[s] = disk[s]
    BY <1>5, <1>6, <1>7
  <1>10. Start' = Start /\ Target' = Target /\ call'.buf = call.buf
         /\ call'.cfo = call.cfo + CopyLen /\ before' = before
    BY CopyCall DEF Start, Target
  <1>11. ASSUME NEW j \in Files, NEW x \in 0 .. Dir[j].size - 1
         PROVE  ByteAt(disk', j, x) =
                  IF j = Target /\ Start <= x /\ x < call.cfo + CopyLen
                  THEN call.buf[x - Start] ELSE ByteAt(before, j, x)
    <2>1. x \in Nat /\ x < Dir[j].size
      BY FileEntry
    <2>2. ByteAt(disk, j, x) = IF j = Target /\ Start <= x /\ x < call.cfo
                               THEN call.buf[x - Start] ELSE ByteAt(before, j, x)
      BY <1>1 DEF RInv, WrittenSoFar
    <2>3. ByteAt(disk', j, x) = disk'[SectorOf(j, x)][x % SectorSize]
          /\ ByteAt(disk, j, x) = disk[SectorOf(j, x)][x % SectorSize]
      BY ByteIs
    <2>4. CASE j = Target /\ call.cfo <= x /\ x < call.cfo + CopyLen
      <3>1. /\ SectorOf(j, x) = sec
            /\ x % SectorSize = SecOffset + (x - call.cfo)
        BY <1>2, <2>1, <2>4, CopiedBytes DEF sec
      <3> DEFINE b == x % SectorSize
      <3>2. b \in 0 .. SectorSize - 1
        BY <2>1, Fat32Assumption
      <3>3. b = SecOffset + (x - call.cfo)
        BY <3>1
      <3> HIDE DEF b
      <3>4. InSector(b) /\ call.rw_len + b - SecOffset = x - Start
        BY <1>3, <1>4, <2>1, <2>4, <3>2, <3>3 DEF InSector
      <3>5. disk'[sec][b] = call.buf[x - Start]
        BY <1>8, <3>2, <3>4 DEF stored
      <3>6. Start <= x
        BY <1>3, <2>1, <2>4
      <3> QED BY <2>3, <2>4, <3>1, <3>5, <3>6 DEF b
    <2>5. CASE ~ (j = Target /\ call.cfo <= x /\ x < call.cfo + CopyLen)
      <3>1. ByteAt(disk', j, x) = ByteAt(disk, j, x)
        <4>1. CASE SectorOf(j, x) = sec
          <5> DEFINE b == x % SectorSize
          <5>1. j = Target /\ x = call.rw_cfo + b /\ b \in 0 .. SectorSize - 1
            BY <1>2, <2>1, <4>1, BytesInCopiedSector DEF sec
          <5> HIDE DEF b
          <5>2. ~ InSector(b)
            BY <1>3, <1>4, <2>1, <2>5, <5>1 DEF InSector
          <5>3. disk'[sec][b] = disk[sec][b]
            BY <1>8, <5>1, <5>2 DEF stored
          <5> QED BY <2>3, <4>1, <5>3 DEF b
        <4>2. CASE SectorOf(j, x) # sec
          <5>1. SectorOf(j, x) \in Sectors
            BY <2>1, SectorOfFile
          <5> QED BY <1>9, <2>3, <4>2, <5>1
        <4> QED BY <4>1, <4>2
      <3>2. j = Target => (Start <= x /\ x < call.cfo <=> Start <= x /\ x < call.cfo + CopyLen)
        BY <1>3, <1>4, <2>1, <2>5
      <3> QED BY <2>2, <3>1, <3>2
    <2> QED BY <2>4, <2>5
  <1> QED BY <1>10, <1>11 DEF WrittenSoFar

LEMMA CopyRInv ==
    ASSUME SoundVolume, RInv, Copy
    PROVE  RInv'
  <1>1. IInv'
    BY CopyIInv DEF RInv
  <1>2. call # Idle /\ call.op \in {"read", "write"}
    BY Running DEF Copy, InCluster
  <1>3. Start' = Start /\ SizeOf(call.h)' = SizeOf(call.h)
    BY CopyCall DEF Start, SizeOf
  <1>4. HandleFiles' /\ Requested'
    BY <1>2, <1>3, CopyCall DEF RInv, HandleFiles, Requested, SizeOf
  <1>5. Placed'
    BY CopyPlaced
  <1>6. ReadSoFar'
    BY <1>2, CopyReadSoFar, CopyCall DEF ReadSoFar
  <1>7. WrittenSoFar'
    BY <1>2, CopyWrittenSoFar, CopyCall DEF WrittenSoFar
  <1>8. PatternHeld'
    BY <1>2, CopyCall DEF RInv, PatternHeld
  <1> QED BY <1>1, <1>4, <1>5, <1>6, <1>7, <1>8 DEF RInv

LEMMA ReturnRInv ==
    ASSUME RInv, Return
    PROVE  RInv'
  <1>1. IInv'
    BY ReturnIInv DEF RInv
  <1>2. HandleFiles'
    BY DEF RInv, HandleFiles, Return, IInv, TypeOK, Calls
  <1>3. call' = Idle
    BY DEF Return
  <1> QED BY <1>1, <1>2, <1>3, IdleRInv

LEMMA NextRInv ==
    ASSUME SoundVolume, RInv, [Next]_vars
    PROVE  RInv'
  <1>0. IInv'
    BY NextIInv DEF RInv
  <1>1. ASSUME NEW h \in Handles, NEW n \in Names, Open(h, n)
        PROVE  RInv'
    BY <1>1, OpenRInv
  <1>2. ASSUME NEW h \in Handles, NEW o \in Offsets,
               NEW w \in {"SEEK_SET", "SEEK_CUR", "SEEK_END"}, Seek(h, o, w)
        PROVE  RInv'
    BY <1>2, SeekRInv
  <1>3. ASSUME NEW h \in Handles, NEW len \in Lengths, Read(h, len)
        PROVE  RInv'
    BY <1>0, <1>3, RequestRInv DEF Read, Passed
  <1>4. ASSUME NEW h \in Handles, NEW len \in Lengths, NEW p \in Patterns, Write(h, len, p)
        PROVE  RInv'
    BY <1>0, <1>4, RequestRInv DEF Write, Passed
  <1>5. CASE Skip
    BY <1>5, SkipRInv
  <1>6. CASE Enough
    BY <1>6, EnoughRInv
  <1>7. CASE Copy
    BY <1>7, CopyRInv
  <1>8. CASE AdvanceCluster
    BY <1>8, AdvanceRInv
  <1>9. CASE Return
    BY <1>9, ReturnRInv
  <1>10. CASE UNCHANGED vars
    BY <1>0, <1>10 DEF vars, RInv, HandleFiles, Requested, Placed, ReadSoFar, WrittenSoFar,
                      PatternHeld, Start, Target, SizeOf
  <1> QED BY <1>1, <1>2, <1>3, <1>4, <1>5, <1>6, <1>7, <1>8, <1>9, <1>10 DEF Next

-----------------------------------------------------------------------------
(* The refinement: a call is one step of FlatFiles, taken when it returns. *)

\* The state of FlatFiles: what callers can see of files and handles.
Contents(d) ==
    [i \in Files |-> [o \in 0 .. Dir[i].size - 1 |-> ByteAt(d, i, o)]]

SeenContents == Contents(IF call = Idle THEN disk ELSE before)
SeenFile == [h \in Handles |-> handle[h].entry]
SeenOffset == [h \in Handles |-> handle[h].cfo]
FileSizes == [i \in Files |-> Dir[i].size]
Transferred(h, len) == Least(len, FileSizes[SeenFile[h]] - SeenOffset[h])

LEMMA FlatInit == SoundVolume => (Init => Flat!Init)
  <1> SUFFICES ASSUME SoundVolume, Init PROVE Flat!Init
    OBVIOUS
  <1>1. disk \in [Sectors -> Sector] /\ call = Idle
    BY Fat32Assumption DEF Init
  <1>2. ASSUME NEW i \in Files
        PROVE  [o \in 0 .. Dir[i].size - 1 |-> ByteAt(disk, i, o)]
                  \in [0 .. Dir[i].size - 1 -> Bytes]
    <2>1. ASSUME NEW x \in 0 .. Dir[i].size - 1
          PROVE  ByteAt(disk, i, x) \in Bytes
      <3>1. x \in Nat /\ x < Dir[i].size
        BY FileEntry
      <3>2. SectorOf(i, x) \in Sectors /\ x % SectorSize \in 0 .. SectorSize - 1
        BY <3>1, SectorOfFile
      <3>3. disk[SectorOf(i, x)][x % SectorSize] \in Bytes
        BY <1>1, <3>2 DEF Sector
      <3> QED BY <3>3, ByteIs
    <2> QED BY <2>1
  <1>3. \A i \in Files : SeenContents[i] \in [0 .. FileSizes[i] - 1 -> Bytes]
    BY <1>1, <1>2 DEF SeenContents, Contents, FileSizes
  <1>4. SeenFile = [h \in Handles |-> NoFile] /\ SeenOffset = [h \in Handles |-> 0]
    BY DEF Init, SeenFile, SeenOffset
  <1>5. reply = [count |-> 0, buf |-> [k \in {} |-> NoByte]]
    BY DEF Init
  <1> QED BY <1>3, <1>4, <1>5
        DEF Flat!Init, SeenContents, Contents, SeenFile, SeenOffset, FileSizes

ReadBuffer(h, len, n) ==
    [k \in 0 .. len - 1 |->
        IF k < n THEN SeenContents[SeenFile[h]][SeenOffset[h] + k] ELSE NoByte]
WriteBuffer(len, p) == [k \in 0 .. len - 1 |-> p[k]]

\* Bytes from .. from + n - 1 of file i replaced by the first n of p.
Replaced(c, i, from, n, p) ==
    [c EXCEPT ![i] = [x \in DOMAIN @ |->
        IF x \in from .. from + n - 1 THEN p[x - from] ELSE @[x]]]
Written(d, e, i, from, n, p) ==
    \A j \in Files : \A x \in 0 .. Dir[j].size - 1 :
        ByteAt(e, j, x) = IF j = i /\ from <= x /\ x < from + n
                          THEN p[x - from] ELSE ByteAt(d, j, x)
Advanced(h, n) == SeenOffset' = [SeenOffset EXCEPT ![h] = @ + n]

\* The steps of FlatFiles, in terms of what is seen.
LEMMA FlatReadIs ==
    ASSUME NEW h \in Handles, NEW len \in Lengths, SeenFile[h] # NoFile,
           NEW n, n = Transferred(h, len), NEW buf, buf = ReadBuffer(h, len, n),
           reply' = [count |-> n, buf |-> buf], Advanced(h, n),
           SeenContents' = SeenContents, SeenFile' = SeenFile
    PROVE  Flat!Next
  <1>1. Flat!Read(h, len)
    BY DEF Flat!Read, Flat!Available, Flat!Least, Least, Transferred, FileSizes,
           ReadBuffer, Advanced, SeenContents, Contents, SeenFile, SeenOffset
  <1> QED BY <1>1 DEF Flat!Next

LEMMA FlatWriteIs ==
    ASSUME NEW h \in Handles, NEW len \in Lengths, NEW p \in Patterns, SeenFile[h] # NoFile,
           NEW n, n = Transferred(h, len), NEW buf, buf = WriteBuffer(len, p),
           NEW i, i = SeenFile[h], NEW from, from = SeenOffset[h],
           SeenContents' = Replaced(SeenContents, i, from, n, p),
           reply' = [count |-> n, buf |-> buf], Advanced(h, n),
           SeenFile' = SeenFile
    PROVE  Flat!Next
  <1>1. Flat!Write(h, len, p)
    BY DEF Flat!Write, Flat!Available, Flat!Least, Least, Transferred, FileSizes,
           WriteBuffer, Replaced, Advanced, SeenContents, Contents, SeenFile, SeenOffset
  <1> QED BY <1>1, SMTT(30) DEF Flat!Next

LEMMA FlatStutter ==
    ASSUME SeenContents' = SeenContents, SeenFile' = SeenFile,
           SeenOffset' = SeenOffset, reply' = reply
    PROVE  UNCHANGED Flat!vars
  BY DEF Flat!vars, SeenContents, Contents, SeenFile, SeenOffset

\* fat32_open_file and fat32_lseek.
LEMMA OpenFlat ==
    ASSUME RInv, NEW h \in Handles, NEW n \in Names, Open(h, n)
    PROVE  Flat!Next
  <1>1. PICK i \in Found(n) : handle' = [handle EXCEPT ![h] = [entry |-> i, cfo |-> 0]]
    BY DEF Open
  <1>2. i \in Files \cup {NoFile}
    BY <1>1 DEF Files
  <1>3. SeenFile' = [SeenFile EXCEPT ![h] = i] /\ SeenOffset' = [SeenOffset EXCEPT ![h] = 0]
    BY <1>1 DEF SeenFile, SeenOffset, RInv, IInv, TypeOK
  <1>4. SeenContents' = SeenContents /\ reply' = reply
    BY DEF Open, SeenContents
  <1>5. Flat!Open(h, i)
    BY <1>3, <1>4 DEF Flat!Open, SeenContents, Contents, SeenFile, SeenOffset
  <1> QED BY <1>2, <1>5 DEF Flat!Next

LEMMA SeekFlat ==
    ASSUME RInv, NEW h \in Handles, NEW o \in Offsets,
           NEW w \in {"SEEK_SET", "SEEK_CUR", "SEEK_END"}, Seek(h, o, w)
    PROVE  Flat!Next
  <1>1. handle[h].entry # NoFile /\ handle \in [Handles -> [entry : DOMAIN Dir \cup {NoFile}, cfo : Nat]]
    BY DEF Seek, RInv, IInv, TypeOK
  <1>2. SizeOf(h) \in Nat /\ handle[h].entry \in Files /\ SizeOf(h) = Dir[handle[h].entry].size
    BY <1>1, OpenFile
  <1> DEFINE base == CASE w = "SEEK_SET" -> 0
                       [] w = "SEEK_CUR" -> handle[h].cfo
                       [] w = "SEEK_END" -> SizeOf(h)
             cfo  == Clamped(SizeOf(h), base + o)
  <1>3. base + o \in Int
    BY <1>1, <1>2, Fat32Assumption
  <1>4. cfo \in 0 .. SizeOf(h)
    BY <1>2, <1>3, ClampInFile
  <1>5. handle' = [handle EXCEPT ![h].cfo = cfo]
    BY DEF Seek
  <1> HIDE DEF cfo
  <1>6. SeenFile' = SeenFile /\ SeenOffset' = [SeenOffset EXCEPT ![h] = cfo]
    BY <1>1, <1>5 DEF SeenFile, SeenOffset
  <1>7. SeenContents' = SeenContents /\ reply' = reply
    BY DEF Seek, SeenContents
  <1>8. SeenFile[h] # NoFile /\ cfo \in 0 .. FileSizes[SeenFile[h]]
    BY <1>1, <1>2, <1>4 DEF SeenFile, FileSizes
  <1>9. Flat!Seek(h)
    BY <1>6, <1>7, <1>8 DEF Flat!Seek, SeenContents, Contents, SeenFile, SeenOffset, FileSizes
  <1> QED BY <1>9 DEF Flat!Next

\* A request that begins is not seen yet; nor is a turn of the loop.
LEMMA BeginFlat ==
    ASSUME RInv, IInv', NEW op, NEW h \in Handles, NEW buf, NEW len, Begin(op, h, buf, len)
    PROVE  UNCHANGED Flat!vars
  <1>1. call = Idle /\ before' = disk /\ UNCHANGED <<disk, handle, reply>>
    BY DEF Begin
  <1>2. call' # Idle
    <2>1. call' = [op |-> op, h |-> h, buf |-> buf, len |-> len,
                cfo |-> handle[h].cfo,
                max_cfo |-> handle[h].cfo + Least(len, SizeOf(h) - handle[h].cfo),
                rw_cfo |-> 0, rw_len |-> 0,
                cluster |-> Dir[handle[h].entry].cluster, sector |-> 0]
      BY DEF Begin
    <2>2. "h" \in DOMAIN call' /\ "h" \notin DOMAIN Idle
      BY <2>1 DEF Idle
    <2> QED BY <2>2
  <1>3. SeenContents' = SeenContents
    BY <1>1, <1>2 DEF SeenContents
  <1>4. SeenFile' = SeenFile /\ SeenOffset' = SeenOffset
    BY <1>1 DEF SeenFile, SeenOffset
  <1> QED BY <1>1, <1>3, <1>4, FlatStutter

LEMMA TurnFlat ==
    ASSUME call # Idle, call' # Idle, UNCHANGED <<handle, before, reply>>
    PROVE  UNCHANGED Flat!vars
  <1>1. SeenContents' = SeenContents
    BY DEF SeenContents
  <1>2. SeenFile' = SeenFile /\ SeenOffset' = SeenOffset
    BY DEF SeenFile, SeenOffset
  <1> QED BY <1>1, <1>2, FlatStutter

\* What a transfer of n bytes makes of the contents.
LEMMA ContentsWritten ==
    ASSUME NEW d, NEW e, NEW i \in Files, NEW from \in Nat, NEW n \in Nat, NEW p,
           Written(d, e, i, from, n, p)
    PROVE  Contents(e) = Replaced(Contents(d), i, from, n, p)
  <1> DEFINE written == [x \in 0 .. Dir[i].size - 1 |->
                            IF x \in from .. from + n - 1 THEN p[x - from]
                            ELSE Contents(d)[i][x]]
  <1>1. Contents(e)[i] = written
    <2>1. ASSUME NEW x \in 0 .. Dir[i].size - 1
          PROVE  ByteAt(e, i, x) = IF x \in from .. from + n - 1 THEN p[x - from]
                                   ELSE Contents(d)[i][x]
      <3>1. x \in Int /\ (x \in from .. from + n - 1 <=> from <= x /\ x < from + n)
        BY FileEntry
      <3>2. Contents(d)[i][x] = ByteAt(d, i, x)
        BY DEF Contents
      <3> QED BY <3>1, <3>2 DEF Written
    <2> QED BY <2>1 DEF Contents
  <1>2. \A j \in Files : j # i => Contents(e)[j] = Contents(d)[j]
    BY DEF Contents, Written
  <1>3. DOMAIN Contents(d)[i] = 0 .. Dir[i].size - 1
    BY DEF Contents
  <1>4. Contents(e) = [j \in Files |-> Contents(e)[j]] /\ Contents(d) = [j \in Files |-> Contents(d)[j]]
    BY DEF Contents
  <1>5. [Contents(d) EXCEPT ![i] = written] = [j \in Files |-> IF j = i THEN written ELSE Contents(d)[j]]
    <2> HIDE DEF written
    <2> QED BY <1>4
  <1>6. Contents(e) = [Contents(d) EXCEPT ![i] = written]
    <2> HIDE DEF written
    <2> QED BY <1>1, <1>2, <1>4, <1>5
  <1> QED BY <1>3, <1>6 DEF Replaced

\* A call that finds its offset at the end of the file.
LEMMA AtEndFlat ==
    ASSUME RInv, NEW op, NEW h \in Handles, NEW len \in Lengths, NEW buf,
           Passed(op, buf, len), AtEnd(h, buf)
    PROVE  Flat!Next
  <1> DEFINE i == handle[h].entry
             from == handle[h].cfo
  <1>1. /\ call = Idle /\ i # NoFile /\ from >= SizeOf(h)
        /\ reply' = [count |-> 0, buf |-> buf] /\ UNCHANGED <<disk, handle, call, before>>
    BY DEF AtEnd, Reply
  <1>2. i \in Files /\ from \in Nat /\ SizeOf(h) = Dir[i].size /\ from = SizeOf(h)
    BY <1>1, OpenFile
  <1>3. SeenFile[h] = i /\ SeenOffset[h] = from
    BY DEF SeenFile, SeenOffset
  <1>4. SeenContents' = SeenContents /\ SeenFile' = SeenFile /\ SeenOffset' = SeenOffset
        /\ SeenContents = Contents(disk)
    BY <1>1 DEF SeenContents, SeenFile, SeenOffset
  <1> HIDE DEF i, from
  <1>5. 0 = Transferred(h, len)
    <2>1. FileSizes[i] = from /\ len \in Nat
      BY <1>2, Fat32Assumption DEF FileSizes
    <2> QED BY <1>2, <1>3, <2>1 DEF Transferred, Least
  <1>6. Advanced(h, 0)
    <2>1. SeenOffset = [g \in Handles |-> SeenOffset[g]] /\ SeenOffset[h] + 0 = SeenOffset[h]
      BY <1>2, <1>3 DEF SeenOffset
    <2> QED BY <1>4, <2>1 DEF Advanced
  <1>7. CASE op = "read"
    <2>1. buf = ReadBuffer(h, len, 0)
      <3>1. \A k \in 0 .. len - 1 : ~ (k < 0)
        BY Fat32Assumption
      <3> QED BY <1>7, <3>1 DEF Passed, ReadBuffer
    <2> QED BY <1>1, <1>3, <1>4, <1>5, <1>6, <2>1, FlatReadIs
  <1>8. CASE op = "write"
    <2>1. PICK p \in Patterns : buf = WriteBuffer(len, p)
      BY <1>8 DEF Passed, WriteBuffer
    <2>2. Written(disk, disk, i, from, 0, p)
      <3>1. ASSUME NEW j \in Files, NEW x \in 0 .. Dir[j].size - 1
            PROVE  ~ (from <= x /\ x < from + 0)
        BY <1>2, FileEntry
      <3> QED BY <3>1 DEF Written
    <2>3. SeenContents' = Replaced(SeenContents, i, from, 0, p)
      BY <1>2, <1>4, <2>2, ContentsWritten
    <2> QED BY <1>1, <1>3, <1>4, <1>5, <1>6, <2>1, <2>3, FlatWriteIs
  <1> QED BY <1>7, <1>8 DEF Passed

\* A call that returns has transferred all that was requested: the whole range
\* of bytes is seen to be read or replaced at once.
LEMMA ReturnFlat ==
    ASSUME SoundVolume, RInv, Return
    PROVE  Flat!Next
  <1> DEFINE h == call.h
             n == call.rw_len
             len == call.len
             i == Target
             from == Start
  <1>1. /\ call # Idle /\ call' = Idle /\ UNCHANGED <<disk, before>>
        /\ handle' = [handle EXCEPT ![h].cfo = call.cfo]
        /\ reply' = [count |-> n, buf |-> call.buf]
    BY DEF Return, Reply
  <1>2. /\ h \in Handles /\ i \in Files /\ from \in Nat /\ n \in Nat /\ len \in Nat
        /\ call.max_cfo \in Nat /\ call.cfo = from + n /\ call.cfo <= call.max_cfo
        /\ call.op \in {"read", "write"} /\ call.cfo \in Nat /\ call.rw_cfo \in Nat
    BY <1>1, Running
  <1>3. len \in Lengths
    BY <1>1, Running DEF Calls
  <1>4. call.cfo = call.max_cfo
    <2>1. PICK m : PlaceIs(m)
      BY <1>1, PlaceExists
    <2>2. call.rw_cfo >= call.max_cfo
      BY <2>1, Fat32Assumption DEF Return, PlaceIs
    <2> QED BY <1>2, <2>1, <2>2 DEF PlaceIs
  <1>5. SeenFile[h] = i /\ SeenOffset[h] = from /\ i # NoFile
    BY <1>2, FileEntry DEF SeenFile, SeenOffset, Target, Start
  <1>6. n = Transferred(h, len)
    <2>1. call.max_cfo = from + Least(len, SizeOf(h) - from)
      BY <1>1 DEF RInv, Requested
    <2>2. SizeOf(h) = Dir[i].size /\ Dir[i].size \in Nat
      BY <1>2, FileEntry DEF SizeOf, Target
    <2>3. Least(len, SizeOf(h) - from) \in Int
      BY <1>2, <2>2 DEF Least
    <2>4. n = Least(len, SizeOf(h) - from)
      BY <1>2, <1>4, <2>1, <2>3
    <2> QED BY <1>2, <1>5, <2>2, <2>4 DEF Transferred, FileSizes
  <1>7. SeenFile' = SeenFile
    BY <1>1, <1>2 DEF SeenFile, RInv, IInv, TypeOK
  <1>8. Advanced(h, n)
    BY <1>1, <1>2, <1>5 DEF Advanced, SeenOffset, RInv, IInv, TypeOK
  <1>9. SeenContents = Contents(before) /\ SeenContents' = Contents(disk)
    BY <1>1 DEF SeenContents
  <1>10. DOMAIN call.buf = 0 .. len - 1 /\ call.buf = [k \in 0 .. len - 1 |-> call.buf[k]]
    BY <1>1, Running DEF Buffer
  <1>11. CASE call.op = "read"
    <2>1. disk = before
      BY <1>1, <1>11 DEF RInv, ReadSoFar
    <2>2. ASSUME NEW k \in 0 .. len - 1
          PROVE  call.buf[k] = IF k < n THEN SeenContents[SeenFile[h]][SeenOffset[h] + k]
                               ELSE NoByte
      <3>1. call.buf[k] = IF k < n THEN ByteAt(before, i, from + k) ELSE NoByte
        BY <1>1, <1>11 DEF RInv, ReadSoFar
      <3>2. k < n => from + k \in 0 .. Dir[i].size - 1
        <4>1. call.max_cfo <= Dir[i].size /\ Dir[i].size \in Nat /\ k \in Nat
          BY <1>1, <1>2, Running, FileEntry
        <4> QED BY <1>2, <4>1
      <3>3. k < n => Contents(before)[i][from + k] = ByteAt(before, i, from + k)
        BY <1>2, <3>2 DEF Contents
      <3> QED BY <1>5, <1>9, <3>1, <3>3
    <2>3. call.buf = ReadBuffer(h, len, n)
      BY <1>10, <2>2 DEF ReadBuffer
    <2>4. SeenContents' = SeenContents
      BY <1>9, <2>1
    <2> HIDE DEF h, n, len, i, from
    <2> QED BY <1>1, <1>2, <1>3, <1>5, <1>6, <1>7, <1>8, <2>3, <2>4, FlatReadIs
  <1>12. CASE call.op = "write"
    <2>1. PICK p \in Patterns : call.buf = WriteBuffer(len, p)
      BY <1>1, <1>12 DEF RInv, PatternHeld, WriteBuffer
    <2>2. Written(before, disk, i, from, n, p)
      <3>1. ASSUME NEW j \in Files, NEW x \in 0 .. Dir[j].size - 1
            PROVE  ByteAt(disk, j, x) = IF j = i /\ from <= x /\ x < from + n
                                        THEN p[x - from] ELSE ByteAt(before, j, x)
        <4>1. ByteAt(disk, j, x) = IF j = i /\ from <= x /\ x < call.cfo
                                   THEN call.buf[x - from] ELSE ByteAt(before, j, x)
          BY <1>1, <1>12 DEF RInv, WrittenSoFar
        <4>2. from <= x /\ x < call.cfo => x - from \in 0 .. len - 1
          <5>1. call.max_cfo <= from + len /\ x \in Int
            BY <1>1, Running, FileEntry
          <5> QED BY <1>2, <5>1
        <4>3. from <= x /\ x < call.cfo => call.buf[x - from] = p[x - from]
          BY <2>1, <4>2 DEF WriteBuffer
        <4> QED BY <1>2, <4>1, <4>3
      <3> QED BY <3>1 DEF Written
    <2>3. SeenContents' = Replaced(SeenContents, i, from, n, p)
      <3> HIDE DEF n, i, from
      <3> QED BY <1>2, <1>9, <2>2, ContentsWritten
    <2> HIDE DEF h, n, len, i, from
    <2> QED BY <1>1, <1>2, <1>3, <1>5, <1>6, <1>7, <1>8, <2>1, <2>3, FlatWriteIs
  <1> QED BY <1>2, <1>11, <1>12

LEMMA NextFlat ==
    ASSUME SoundVolume, RInv, RInv', [Next]_vars
    PROVE  [Flat!Next]_(Flat!vars)
  <1>0. IInv'
    BY DEF RInv
  <1>1. ASSUME NEW h \in Handles, NEW n \in Names, Open(h, n)
        PROVE  Flat!Next
    BY <1>1, OpenFlat
  <1>2. ASSUME NEW h \in Handles, NEW o \in Offsets,
               NEW w \in {"SEEK_SET", "SEEK_CUR", "SEEK_END"}, Seek(h, o, w)
        PROVE  Flat!Next
    BY <1>2, SeekFlat
  <1>3. ASSUME NEW op, NEW h \in Handles, NEW len \in Lengths, NEW buf,
               Passed(op, buf, len), Request(op, h, buf, len)
        PROVE  [Flat!Next]_(Flat!vars)
    <2>1. CASE AtEnd(h, buf)
      BY <1>3, <2>1, AtEndFlat
    <2>2. CASE Begin(op, h, buf, len)
      BY <1>0, <2>2, BeginFlat
    <2> QED BY <1>3, <2>1, <2>2 DEF Request
  <1>4. ASSUME NEW h \in Handles, NEW len \in Lengths, Read(h, len)
        PROVE  [Flat!Next]_(Flat!vars)
    BY <1>3, <1>4 DEF Read, Passed
  <1>5. ASSUME NEW h \in Handles, NEW len \in Lengths, NEW p \in Patterns, Write(h, len, p)
        PROVE  [Flat!Next]_(Flat!vars)
    BY <1>3, <1>5 DEF Write, Passed
  <1>6. ASSUME Skip \/ Enough \/ AdvanceCluster \/ Copy
        PROVE  UNCHANGED Flat!vars
    <2>1. call # Idle /\ UNCHANGED <<handle, before, reply>>
      BY <1>6 DEF Skip, Enough, AdvanceCluster, Copy, InCluster
    <2>2. call' # Idle
      <3>1. "h" \in DOMAIN call /\ DOMAIN call' = DOMAIN call
        <4>1. call \in Calls
          BY <2>1, Running
        <4>2. DOMAIN call = {"op", "h", "len", "buf", "cfo", "max_cfo", "rw_cfo", "rw_len",
                             "cluster", "sector"}
          BY <4>1 DEF Calls
        <4> QED BY <1>6, <4>2 DEF Skip, Enough, AdvanceCluster, Copy
      <3>2. "h" \notin DOMAIN Idle
        BY DEF Idle
      <3> QED BY <3>1, <3>2
    <2> QED BY <2>1, <2>2, TurnFlat
  <1>7. CASE Return
    BY <1>7, ReturnFlat
  <1>8. CASE UNCHANGED vars
    <2>1. SeenContents' = SeenContents /\ SeenFile' = SeenFile
          /\ SeenOffset' = SeenOffset /\ reply' = reply
      BY <1>8 DEF vars, SeenContents, SeenFile, SeenOffset
    <2> QED BY <2>1, FlatStutter
  <1> QED BY <1>1, <1>2, <1>4, <1>5, <1>6, <1>7, <1>8 DEF Next

\* On a volume without damage whose files' chains lie in the sector of the table
\* that is read, fat32_open_file, fat32_lseek, fat32_read and fat32_write, with
\* their loops over sectors and clusters, do what FlatFiles promises: a call
\* reads or replaces the bytes at the offset, all that it reports and no others.
THEOREM ImplementsFlatFiles == SoundVolume => (Spec => FlatFilesSpec)
  <1> SUFFICES ASSUME SoundVolume PROVE Spec => FlatFilesSpec
    OBVIOUS
  <1>1. Init => RInv /\ Flat!Init
    BY InitRInv, FlatInit
  <1>2. RInv /\ [Next]_vars => RInv'
    BY NextRInv
  <1>3. RInv /\ RInv' /\ [Next]_vars => [Flat!Next]_(Flat!vars)
    BY NextFlat
  <1> QED BY <1>1, <1>2, <1>3, PTL DEF Spec, FlatFilesSpec, Flat!Spec
=============================================================================
