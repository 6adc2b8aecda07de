---------------------------- MODULE CowVMProofs ----------------------------
(***************************************************************************)
(* Proofs about CowVM, for every value of its constants.                   *)
(***************************************************************************)
EXTENDS CowVM, FiniteSetTheorems, TLAPS

USE TasksAssumption, MemoryAssumption, VmasAssumption

-----------------------------------------------------------------------------
(* Facts about the operators.                                              *)

\* The entries do_page_fault and do_fork build are page table entries.
LEMMA PteFacts ==
    /\ NoPte \in Pte
    /\ \A v : PermAt(v) \in SUBSET Access
    /\ \A v : \A f \in Frames : [frame |-> f, perm |-> PermAt(v)] \in Pte
    /\ \A e \in Pte : Shared(e) \in Pte
    /\ \A n, S : LowestN(n, S) \subseteq S
    /\ Lowest(Free) \subseteq Free
    /\ Free \subseteq Frames
BY DEF NoPte, Pte, PermAt, Shared, LowestN, Lowest, Free

\* The hart translates with a page table entry.
LEMMA TranslationType ==
    ASSUME TypeOK, NEW v \in Pages
    PROVE  Translation(v) \in Pte
<1>1. pte[current] \in [Pages -> Pte]
  BY DEF TypeOK, TaskIds
<1> QED
  BY <1>1 DEF TypeOK, Translation

\* get_page adds a number of references.
LEMMA GetPagesType ==
    ASSUME TypeOK, NEW t
    PROVE  GetPages(t) \in [Frames -> Nat]
<1> SUFFICES ASSUME NEW f \in Frames
             PROVE  Cardinality({v \in Pages : pte[t][v].frame = f}) \in Nat
  BY DEF TypeOK, GetPages
<1>1. IsFiniteSet({v \in Pages : pte[t][v].frame = f})
  BY FS_Subset
<1> QED
  BY <1>1, FS_CardinalityType

\* put_page keeps a count a natural number.
LEMMA PutPageType ==
    ASSUME NEW r \in [Frames -> Nat], NEW f \in Frames
    PROVE  PutPage(r, f) \in [Frames -> Nat]
BY DEF PutPage

-----------------------------------------------------------------------------
(* Type correctness.                                                       *)

LEMMA InitTypeOK == Init => TypeOK
<1> SUFFICES ASSUME Init PROVE TypeOK
  OBVIOUS
<1> QED
  BY PteFacts DEF Init, TypeOK, EmptyTlb, Causes

LEMMA NextTypeOK == TypeOK /\ [Next]_vars => TypeOK'
<1> SUFFICES ASSUME TypeOK, [Next]_vars PROVE TypeOK'
  OBVIOUS
<1> USE DEF TypeOK
<1>1. ASSUME NEW v \in Pages, TlbFill(v) PROVE TypeOK'
  <2>1. tlb' = [u \in DOMAIN tlb \cup {v} |-> Translation(u)]
    BY <1>1 DEF TlbFill
  <2>2. \A u \in DOMAIN tlb \cup {v} : Translation(u) \in Pte
    BY TranslationType
  <2> QED
    BY <1>1, <2>1, <2>2 DEF TlbFill
<1>2. ASSUME NEW v \in Pages, NEW x \in Values, Store(v, x) PROVE TypeOK'
  BY <1>2 DEF Store
<1>3. ASSUME NEW v \in Pages, NEW a \in Access, BadAccess(v, a) PROVE TypeOK'
  BY <1>3 DEF BadAccess, Causes
<1>4. ASSUME NEW v \in Pages, NEW a \in Access, FaultOutOfMemory(v, a)
      PROVE TypeOK'
  BY <1>4 DEF FaultOutOfMemory, Causes
<1>5. ASSUME NEW v \in Pages, NEW a \in Access, CopyOnWrite(v, a)
      PROVE TypeOK'
  <2> DEFINE src == pte[current][v].frame
  <2>1. PICK f \in Lowest(Free) :
          /\ data' = [data EXCEPT ![f] = data[src]]
          /\ ref' = PutPage([ref EXCEPT ![f] = 1], src)
          /\ MapPage(v, f)
    BY <1>5 DEF CopyOnWrite
  <2>2. f \in Frames
    BY PteFacts
  <2>3. src \in Frames
    BY <1>5 DEF CopyOnWrite, IsCow, TaskIds, Pte
  <2>4. ref' \in [Frames -> Nat]
    <3>1. [ref EXCEPT ![f] = 1] \in [Frames -> Nat]
      BY <2>2
    <3> QED
      BY <2>1, <2>3, <3>1, PutPageType
  <2>5. pte' \in [TaskIds -> [Pages -> Pte]]
    BY <2>1, <2>2, PteFacts DEF MapPage
  <2> HIDE DEF src
  <2> QED
    BY <1>5, <2>1, <2>2, <2>3, <2>4, <2>5 DEF CopyOnWrite, FlushTlb, EmptyTlb
<1>6. ASSUME NEW v \in Pages, NEW a \in Access, DemandPage(v, a) PROVE TypeOK'
  <2> DEFINE tables(f) == LowestN(FrameNeed(v) - 1, Free \ {f})
  <2>1. PICK f \in Lowest(Free) :
          /\ data' = IF AnonAt(v) THEN data
                     ELSE [data EXCEPT ![f] = FileData[v]]
          /\ ref' = [g \in Frames |-> IF g \in tables(f) \cup {f} THEN 1
                                      ELSE ref[g]]
          /\ kernel' = kernel \cup tables(f)
          /\ MapPage(v, f)
    BY <1>6 DEF DemandPage
  <2>2. f \in Frames /\ tables(f) \subseteq Frames
    BY PteFacts
  <2>3. pte' \in [TaskIds -> [Pages -> Pte]]
    BY <2>1, <2>2, PteFacts DEF MapPage
  <2>4. data' \in [Frames -> Values]
    BY <2>1
  <2> HIDE DEF tables
  <2> QED
    BY <1>6, <2>1, <2>2, <2>3, <2>4 DEF DemandPage, FlushTlb, EmptyTlb
<1>7. CASE ForkFails
  BY <1>7 DEF ForkFails, ForkFailures, Causes
<1>8. CASE Fork
  <2> DEFINE pages == LowestN(ForkNeed, Free)
             entries == [v \in Pages |-> Shared(pte[current][v])]
  <2>1. /\ pte' = [pte EXCEPT ![current] = entries, ![nr_tasks] = entries]
        /\ ref' = [f \in Frames |-> IF f \in pages THEN 1
                                    ELSE GetPages(current)[f]]
        /\ kernel' = kernel \cup pages
    BY <1>8 DEF Fork
  <2>2. pages \subseteq Frames
    BY PteFacts
  <2>3. entries \in [Pages -> Pte]
    BY PteFacts DEF TaskIds
  <2>4. ref' \in [Frames -> Nat]
    BY <2>1, GetPagesType
  <2>5. nr_tasks' \in BootTasks .. MaxTasks /\ current' \in 0 .. nr_tasks' - 1
    BY <1>8 DEF Fork
  <2>6. pte' \in [TaskIds -> [Pages -> Pte]]
    BY <2>1, <2>3
  <2> HIDE DEF pages, entries
  <2> QED
    BY <1>8, <2>1, <2>2, <2>4, <2>5, <2>6 DEF Fork, FlushTlb, EmptyTlb
<1>9. ASSUME NEW t \in UserTasks, Switch(t) PROVE TypeOK'
  BY <1>9 DEF Switch, UserTasks, FlushTlb, EmptyTlb
<1>10. CASE Halted
  BY <1>10 DEF Halted, vars
<1>11. CASE UNCHANGED vars
  BY <1>11 DEF vars
<1> QED
  BY <1>1, <1>2, <1>3, <1>4, <1>5, <1>6, <1>7, <1>8, <1>9, <1>10, <1>11
  DEF Next

\* Every variable keeps its type: in particular the running task always
\* exists and no reference count goes below zero.
THEOREM TypeCorrect == Spec => []TypeOK
<1> QED
  BY InitTypeOK, NextTypeOK, PTL DEF Spec

-----------------------------------------------------------------------------
(* Reference counts.                                                       *)

\* The tasks that map a frame are finitely many.
LEMMA MappersFinite ==
    ASSUME TypeOK, NEW f
    PROVE  IsFiniteSet(Mappers(f)) /\ Cardinality(Mappers(f)) \in Nat
<1>1. IsFiniteSet(1 .. nr_tasks - 1)
  <2>1. 1 \in Int /\ nr_tasks - 1 \in Int
    BY DEF TypeOK
  <2> QED
    BY <2>1, FS_Interval
<1>2. Mappers(f) \subseteq 1 .. nr_tasks - 1
  BY DEF Mappers, UserTasks
<1> QED
  BY <1>1, <1>2, FS_Subset, FS_CardinalityType

\* A frame with reference count zero is mapped by nobody and not the kernel's.
LEMMA FreeUnused ==
    ASSUME TypeOK, RefCountExact, NEW f \in Free
    PROVE  f \in Frames /\ f \notin kernel /\ Mappers(f) = {}
<1>1. f \in Frames /\ ref[f] = 0
  BY DEF Free
<1>2. f \notin kernel
  BY <1>1 DEF RefCountExact
<1>3. Cardinality(Mappers(f)) = 0
  BY <1>1, <1>2 DEF RefCountExact
<1> QED
  BY <1>1, <1>2, <1>3, MappersFinite, FS_EmptySet

\* A mapped frame is counted and is not the kernel's.
LEMMA MappedCounted ==
    ASSUME TypeOK, RefCountExact, NEW t \in UserTasks, NEW v \in Pages,
           pte[t][v].frame # NoFrame
    PROVE  /\ pte[t][v].frame \in Frames \ kernel
           /\ t \in Mappers(pte[t][v].frame)
           /\ ref[pte[t][v].frame] = Cardinality(Mappers(pte[t][v].frame))
           /\ ref[pte[t][v].frame] > 0
<1> DEFINE f == pte[t][v].frame
<1>1. f \in Frames
  BY DEF TypeOK, TaskIds, UserTasks, Pte
<1>2. t \in Mappers(f)
  BY DEF Mappers
<1>3. f \notin kernel /\ ref[f] = Cardinality(Mappers(f))
  BY <1>1, <1>2 DEF RefCountExact
<1>4. Cardinality(Mappers(f)) # 0
  BY <1>2, MappersFinite, FS_EmptySet
<1>5. ref[f] > 0
  BY <1>3, <1>4, MappersFinite
<1> QED
  BY <1>1, <1>2, <1>3, <1>5

\* do_fork takes one reference to each frame the parent maps.
LEMMA GetPagesCount ==
    ASSUME TypeOK, TablesSound, NEW t \in UserTasks, NEW f \in Frames
    PROVE  GetPages(t)[f] = ref[f] + (IF t \in Mappers(f) THEN 1 ELSE 0)
<1> DEFINE V == {v \in Pages : pte[t][v].frame = f}
<1>1. GetPages(t)[f] = ref[f] + Cardinality(V)
  BY DEF GetPages
<1>2. CASE t \in Mappers(f)
  <2>1. PICK v \in Pages : pte[t][v].frame = f
    BY <1>2 DEF Mappers
  <2>2. V = {v}
    BY <2>1 DEF TablesSound
  <2> QED
    BY <1>1, <1>2, <2>2, FS_Singleton
<1>3. CASE t \notin Mappers(f)
  <2>1. V = {}
    BY <1>3 DEF Mappers
  <2> QED
    BY <1>1, <1>3, <2>1, FS_EmptySet
<1> QED
  BY <1>2, <1>3

\* Only a page that is not mapped is demand-paged.
LEMMA DemandPageUnmapped ==
    ASSUME IInv, NEW v \in Pages, NEW a \in Access, DemandPage(v, a)
    PROVE  pte[current][v].frame = NoFrame
<1> SUFFICES ASSUME pte[current][v].frame # NoFrame PROVE FALSE
  OBVIOUS
<1>1. current \in TaskIds
  BY DEF IInv, TypeOK, TaskIds
<1>2. pte[current][v].perm \in {PermAt(v), PermAt(v) \ {"W"}}
  BY <1>1 DEF IInv, TablesSound
<1>3. Translation(v) = pte[current][v]
  BY DEF Translation, IInv, TlbCoherent
<1>4. a \in PermAt(v) /\ a \notin pte[current][v].perm
  BY <1>3 DEF DemandPage, Faults
<1>5. a = "W"
  BY <1>2, <1>4
<1> QED
  BY <1>4, <1>5 DEF DemandPage, IsCow

-----------------------------------------------------------------------------
(* The inductive invariant.                                                *)

LEMMA InitIInv == Init => IInv
<1> SUFFICES ASSUME Init PROVE IInv
  OBVIOUS
<1>1. TypeOK
  BY InitTypeOK
<1>2. \A t \in TaskIds, v \in Pages : pte[t][v] = NoPte
  BY DEF Init
<1>3. /\ UserTasks \subseteq TaskIds
      /\ \A t \in TaskIds, v \in Pages :
            pte[t][v].frame = NoFrame /\ pte[t][v].perm = {}
  BY <1>1, <1>2 DEF NoPte, UserTasks, TaskIds, TypeOK
<1>7. TablesSound
  BY <1>2, <1>3 DEF TablesSound
<1>8. WritableUnshared
  BY <1>3 DEF WritableUnshared
<1>4. \A f \in Frames : Mappers(f) = {}
  BY <1>1, <1>2 DEF Mappers, NoPte, UserTasks, TaskIds, TypeOK
<1>5. RefCountExact
  BY <1>4, FS_EmptySet DEF RefCountExact, Init
<1>6. TlbCoherent
  BY DEF Init, EmptyTlb, TlbCoherent
<1> QED
  BY <1>1, <1>5, <1>6, <1>7, <1>8 DEF IInv

\* A step that leaves the tasks, the tables and the counts alone keeps the
\* invariants about them.
LEMMA TablesUnchanged ==
    ASSUME IInv, UNCHANGED <<nr_tasks, pte, ref, kernel>>
    PROVE  TablesSound' /\ RefCountExact' /\ WritableUnshared'
<1>1. \A f : Mappers(f)' = Mappers(f)
  BY DEF Mappers, UserTasks
<1> QED
  BY <1>1 DEF IInv, TablesSound, RefCountExact, WritableUnshared, UserTasks

\* The effect of do_page_fault on the tables when it gives page v of the
\* running task a frame f that was free.
LEMMA MapPageTables ==
    ASSUME IInv, NEW v \in Pages, NEW f \in Free, MapPage(v, f),
           UNCHANGED nr_tasks, current # 0
    PROVE  /\ TablesSound' /\ WritableUnshared'
           /\ Mappers(f)' = {current}
           /\ \A g \in Frames : g = pte[current][v].frame =>
                Mappers(g)' = Mappers(g) \ {current}
           /\ \A g \in Frames \ {f, pte[current][v].frame} :
                Mappers(g)' = Mappers(g)
<1> DEFINE new == [frame |-> f, perm |-> PermAt(v)]
<1>1. current \in UserTasks /\ UserTasks \subseteq TaskIds /\ UserTasks' = UserTasks
  BY DEF IInv, TypeOK, UserTasks, TaskIds
<1>2. f \in Frames /\ f # NoFrame /\ Mappers(f) = {}
  BY FreeUnused DEF IInv
<1>3. \A t \in UserTasks, u \in Pages : pte[t][u].frame # f
  BY <1>2 DEF Mappers
<1>4. \A t \in TaskIds, u \in Pages :
        pte'[t][u] = IF t = current /\ u = v THEN new ELSE pte[t][u]
  BY <1>1 DEF MapPage, IInv, TypeOK
<1> HIDE DEF new
<1>5. new.frame = f /\ new.perm = PermAt(v)
  BY DEF new
<1>6. TablesSound'
  <2>1. \A t \in TaskIds, u \in Pages :
          IF pte'[t][u].frame = NoFrame
          THEN pte'[t][u].perm = {}
          ELSE pte'[t][u].perm \in {PermAt(u), PermAt(u) \ {"W"}}
    BY <1>2, <1>4, <1>5 DEF IInv, TablesSound
  <2>2. ASSUME NEW t \in UserTasks, NEW u \in Pages, NEW w \in Pages,
               pte'[t][u].frame = pte'[t][w].frame,
               pte'[t][u].frame # NoFrame
        PROVE  u = w
    BY <1>1, <1>3, <1>4, <1>5, <2>2 DEF IInv, TablesSound
  <2>3. \A t \in TaskIds \ UserTasks, u \in Pages : pte'[t][u] = NoPte
    BY <1>1, <1>4 DEF IInv, TablesSound
  <2> QED
    BY <1>1, <2>1, <2>2, <2>3 DEF TablesSound
<1>7. WritableUnshared'
  <2> SUFFICES ASSUME NEW t \in UserTasks, NEW u \in Pages,
                      "W" \in pte'[t][u].perm,
                      NEW s \in UserTasks, NEW w \in Pages,
                      pte'[s][w].frame = pte'[t][u].frame
               PROVE  t = s /\ u = w
    BY <1>1 DEF WritableUnshared
  <2> QED
    BY <1>1, <1>3, <1>4, <1>5 DEF IInv, WritableUnshared
<1>8. Mappers(f)' = {current}
  BY <1>1, <1>3, <1>4, <1>5 DEF Mappers
<1>9. ASSUME NEW g \in Frames, g # f,
             NEW t \in UserTasks
      PROVE  t \in Mappers(g)' <=>
                t \in Mappers(g) /\ ~(t = current /\ pte[current][v].frame = g)
  <2>1. \A u \in Pages : pte[t][u].frame = g /\ pte[t][v].frame = g => u = v
    BY <1>2 DEF IInv, TablesSound
  <2> QED
    BY <1>1, <1>4, <1>5, <1>9, <2>1 DEF Mappers
<1>10. \A g : Mappers(g) \subseteq UserTasks /\ Mappers(g)' \subseteq UserTasks
  BY <1>1 DEF Mappers
<1>11. ASSUME NEW g \in Frames, g = pte[current][v].frame
       PROVE  Mappers(g)' = Mappers(g) \ {current}
  <2>1. g # f
    BY <1>1, <1>3, <1>11
  <2>2. \A t \in UserTasks :
           t \in Mappers(g)' <=> t \in Mappers(g) /\ t # current
    BY <1>9, <1>11, <2>1
  <2> QED
    BY <1>10, <2>2
<1>12. \A g \in Frames \ {f, pte[current][v].frame} : Mappers(g)' = Mappers(g)
  BY <1>9, <1>10
<1> QED
  BY <1>6, <1>7, <1>8, <1>11, <1>12

\* do_fork: the tables of parent and child, and who maps what afterwards.
LEMMA ForkTables ==
    ASSUME IInv, Fork
    PROVE  /\ TablesSound' /\ WritableUnshared'
           /\ \A g \in Frames :
                Mappers(g)' = IF current \in Mappers(g)
                              THEN Mappers(g) \cup {nr_tasks} ELSE Mappers(g)
<1> DEFINE entries == [v \in Pages |-> Shared(pte[current][v])]
<1>1. /\ nr_tasks \in Nat /\ nr_tasks \in TaskIds \ UserTasks
      /\ current \in UserTasks /\ current # nr_tasks
      /\ UserTasks \subseteq TaskIds
      /\ nr_tasks' = nr_tasks + 1 /\ UserTasks' = UserTasks \cup {nr_tasks}
  BY DEF Fork, Running, IInv, TypeOK, UserTasks, TaskIds
<1>2. pte' = [pte EXCEPT ![current] = entries, ![nr_tasks] = entries]
  BY DEF Fork
<1>3. \A t \in TaskIds, u \in Pages :
        pte'[t][u] = IF t = current \/ t = nr_tasks
                     THEN Shared(pte[current][u]) ELSE pte[t][u]
  BY <1>1, <1>2 DEF IInv, TypeOK
<1> HIDE DEF entries
<1>4. ASSUME NEW t \in {current, nr_tasks}, NEW u \in Pages
      PROVE  /\ pte'[t][u].frame = pte[current][u].frame
             /\ pte'[t][u].perm = pte[current][u].perm \ {"W"}
  <2>1. pte'[t][u] = Shared(pte[current][u])
    BY <1>1, <1>3
  <2> QED
    BY <2>1 DEF Shared
<1>5. \A t \in TaskIds \ {current, nr_tasks}, u \in Pages : pte'[t][u] = pte[t][u]
  BY <1>3
<1>6. TablesSound'
  <2>1. \A t \in TaskIds, u \in Pages :
          IF pte'[t][u].frame = NoFrame
          THEN pte'[t][u].perm = {}
          ELSE pte'[t][u].perm \in {PermAt(u), PermAt(u) \ {"W"}}
    <3> SUFFICES ASSUME NEW t \in TaskIds, NEW u \in Pages
                 PROVE  IF pte'[t][u].frame = NoFrame
                        THEN pte'[t][u].perm = {}
                        ELSE pte'[t][u].perm \in {PermAt(u), PermAt(u) \ {"W"}}
      OBVIOUS
    <3>1. CASE t \in {current, nr_tasks}
      <4>1. /\ pte'[t][u].frame = pte[current][u].frame
            /\ pte'[t][u].perm = pte[current][u].perm \ {"W"}
        BY <1>4, <3>1
      <4>2. IF pte[current][u].frame = NoFrame
            THEN pte[current][u].perm = {}
            ELSE pte[current][u].perm \in {PermAt(u), PermAt(u) \ {"W"}}
        BY <1>1 DEF IInv, TablesSound
      <4> QED
        BY <4>1, <4>2
    <3>2. CASE t \notin {current, nr_tasks}
      <4>1. pte'[t][u] = pte[t][u]
        BY <1>5, <3>2
      <4>2. IF pte[t][u].frame = NoFrame
            THEN pte[t][u].perm = {}
            ELSE pte[t][u].perm \in {PermAt(u), PermAt(u) \ {"W"}}
        BY DEF IInv, TablesSound
      <4> QED
        BY <4>1, <4>2
    <3> QED
      BY <3>1, <3>2
  <2>2. ASSUME NEW t \in UserTasks', NEW u \in Pages, NEW w \in Pages,
               pte'[t][u].frame = pte'[t][w].frame,
               pte'[t][u].frame # NoFrame
        PROVE  u = w
    <3>1. PICK s \in UserTasks : \A x \in Pages : pte'[t][x].frame = pte[s][x].frame
      BY <1>1, <1>4, <1>5
    <3> QED
      BY <2>2, <3>1 DEF IInv, TablesSound
  <2>3. \A t \in TaskIds \ UserTasks', u \in Pages : pte'[t][u] = NoPte
    BY <1>1, <1>3 DEF IInv, TablesSound
  <2> QED
    BY <2>1, <2>2, <2>3 DEF TablesSound
<1>7. WritableUnshared'
  <2> SUFFICES ASSUME NEW t \in UserTasks', NEW u \in Pages,
                      "W" \in pte'[t][u].perm,
                      NEW s \in UserTasks', NEW w \in Pages,
                      pte'[s][w].frame = pte'[t][u].frame
               PROVE  t = s /\ u = w
    BY DEF WritableUnshared
  <2>1. t \notin {current, nr_tasks}
    BY <1>4
  <2>4. t \in UserTasks /\ pte'[t][u] = pte[t][u]
    BY <1>1, <1>5, <2>1
  <2>2. \A r \in UserTasks, x \in Pages :
           pte[r][x].frame = pte[t][u].frame => t = r /\ u = x
    BY <2>4 DEF IInv, WritableUnshared
  <2>3. s \notin {current, nr_tasks}
    BY <1>1, <1>4, <2>1, <2>2, <2>4
  <2> QED
    BY <1>1, <1>5, <2>2, <2>3, <2>4
<1>8. ASSUME NEW g \in Frames
      PROVE  Mappers(g)' = IF current \in Mappers(g)
                           THEN Mappers(g) \cup {nr_tasks} ELSE Mappers(g)
  <2>1. \A t \in UserTasks, u \in Pages : pte'[t][u].frame = pte[t][u].frame
    BY <1>1, <1>4, <1>5
  <2>2. \A u \in Pages : pte'[nr_tasks][u].frame = pte[current][u].frame
    BY <1>4
  <2> QED
    BY <1>1, <2>1, <2>2 DEF Mappers
<1> QED
  BY <1>6, <1>7, <1>8

\* do_page_fault, copy on write: the count of the shared frame drops by one,
\* that of the copy is one.
LEMMA CopyOnWriteCounts ==
    ASSUME IInv, NEW v \in Pages, NEW a \in Access, CopyOnWrite(v, a)
    PROVE  TablesSound' /\ RefCountExact' /\ WritableUnshared'
<1> DEFINE src == pte[current][v].frame
<1>1. PICK f \in Lowest(Free) :
        /\ ref' = PutPage([ref EXCEPT ![f] = 1], src)
        /\ MapPage(v, f)
  BY DEF CopyOnWrite
<1>2. f \in Free /\ f \in Frames /\ f \notin kernel /\ Mappers(f) = {}
  BY PteFacts, FreeUnused DEF IInv
<1>3. current \in UserTasks /\ current # 0 /\ src # NoFrame
  BY DEF CopyOnWrite, Faults, Running, IsCow, IInv, TypeOK, UserTasks
<1>4. /\ src \in Frames \ kernel /\ current \in Mappers(src)
      /\ ref[src] = Cardinality(Mappers(src)) /\ ref[src] > 0
  BY <1>3, MappedCounted DEF IInv
<1>5. UNCHANGED <<nr_tasks, kernel>>
  BY DEF CopyOnWrite
<1>6. /\ TablesSound' /\ WritableUnshared'
      /\ Mappers(f)' = {current}
      /\ \A g \in Frames : g = src => Mappers(g)' = Mappers(g) \ {current}
      /\ \A g \in Frames \ {f, src} : Mappers(g)' = Mappers(g)
  BY <1>1, <1>2, <1>3, <1>5, MapPageTables
<1>7. f # src
  BY <1>2, <1>4
<1>8. \A g \in Frames : ref'[g] = IF g = f THEN 1
                                  ELSE IF g = src THEN ref[g] - 1 ELSE ref[g]
  BY <1>1, <1>2, <1>4, <1>7 DEF PutPage, IInv, TypeOK
<1> HIDE DEF src
<1>9. RefCountExact'
  <2> SUFFICES ASSUME NEW g \in Frames
               PROVE  IF g \in kernel
                      THEN ref'[g] = 1 /\ Mappers(g)' = {}
                      ELSE ref'[g] = Cardinality(Mappers(g)')
    BY <1>5 DEF RefCountExact
  <2>1. CASE g = f
    BY <1>2, <1>6, <1>8, <2>1, FS_Singleton
  <2>2. CASE g = src
    <3>1. Mappers(g)' = Mappers(g) \ {current}
      BY <1>6, <2>2
    <3>2. Cardinality(Mappers(g) \ {current}) = Cardinality(Mappers(g)) - 1
      BY <1>4, <2>2, MappersFinite, FS_RemoveElement DEF IInv
    <3> QED
      BY <1>4, <1>7, <1>8, <2>2, <3>1, <3>2
  <2>3. CASE g # f /\ g # src
    BY <1>6, <1>8, <2>3 DEF IInv, RefCountExact
  <2> QED
    BY <2>1, <2>2, <2>3
<1> QED
  BY <1>6, <1>9

\* do_page_fault, demand paging: the fresh frame and the new tables are
\* counted once.
LEMMA DemandPageCounts ==
    ASSUME IInv, NEW v \in Pages, NEW a \in Access, DemandPage(v, a)
    PROVE  TablesSound' /\ RefCountExact' /\ WritableUnshared'
<1> DEFINE new(f) == LowestN(FrameNeed(v) - 1, Free \ {f})
<1>1. PICK f \in Lowest(Free) :
        /\ ref' = [g \in Frames |-> IF g \in new(f) \cup {f} THEN 1
                                    ELSE ref[g]]
        /\ kernel' = kernel \cup new(f)
        /\ MapPage(v, f)
  BY DEF DemandPage
<1> DEFINE tables == new(f)
<1>2. f \in Free /\ f \in Frames /\ f \notin kernel
  BY PteFacts, FreeUnused DEF IInv
<1>3. tables \subseteq Free \ {f}
  BY PteFacts
<1>4. current \in UserTasks /\ current # 0 /\ pte[current][v].frame = NoFrame
  <2>1. pte[current][v].frame = NoFrame
    BY DemandPageUnmapped
  <2>2. Running
    BY DEF DemandPage, Faults
  <2> QED
    BY <2>1, <2>2 DEF Running, IInv, TypeOK, UserTasks
<1>5. UNCHANGED nr_tasks
  BY DEF DemandPage
<1>6. /\ TablesSound' /\ WritableUnshared'
      /\ Mappers(f)' = {current}
      /\ \A g \in Frames \ {f, pte[current][v].frame} : Mappers(g)' = Mappers(g)
  BY <1>1, <1>2, <1>4, <1>5, MapPageTables
<1> HIDE DEF new, tables
<1>7. ref' = [g \in Frames |-> IF g \in tables \cup {f} THEN 1 ELSE ref[g]]
      /\ kernel' = kernel \cup tables
  BY <1>1 DEF tables
<1>8. RefCountExact'
  <2> SUFFICES ASSUME NEW g \in Frames
               PROVE  IF g \in kernel'
                      THEN ref'[g] = 1 /\ Mappers(g)' = {}
                      ELSE ref'[g] = Cardinality(Mappers(g)')
    BY DEF RefCountExact
  <2>1. CASE g = f
    BY <1>2, <1>3, <1>6, <1>7, <2>1, FS_Singleton
  <2>2. CASE g \in tables
    <3>1. Mappers(g)' = Mappers(g) /\ Mappers(g) = {}
      BY <1>3, <1>4, <1>6, <2>2, FreeUnused DEF IInv
    <3> QED
      BY <1>7, <2>2, <3>1
  <2>3. CASE g # f /\ g \notin tables
    BY <1>4, <1>6, <1>7, <2>3 DEF IInv, RefCountExact
  <2> QED
    BY <2>1, <2>2, <2>3
<1> QED
  BY <1>6, <1>8

\* do_fork: each frame the parent maps is counted once more, the pages of the
\* child's kernel structures are counted once.
LEMMA ForkCounts ==
    ASSUME IInv, Fork
    PROVE  RefCountExact'
<1> DEFINE pages == LowestN(ForkNeed, Free)
<1>1. /\ ref' = [f \in Frames |-> IF f \in pages THEN 1
                                  ELSE GetPages(current)[f]]
      /\ kernel' = kernel \cup pages
  BY DEF Fork
<1>2. pages \subseteq Free
  BY PteFacts
<1>3. current \in UserTasks /\ nr_tasks \notin UserTasks
  BY DEF Fork, Running, IInv, TypeOK, UserTasks
<1> HIDE DEF pages
<1> SUFFICES ASSUME NEW g \in Frames
             PROVE  IF g \in kernel'
                    THEN ref'[g] = 1 /\ Mappers(g)' = {}
                    ELSE ref'[g] = Cardinality(Mappers(g)')
  BY DEF RefCountExact
<1>4. Mappers(g)' = IF current \in Mappers(g)
                    THEN Mappers(g) \cup {nr_tasks} ELSE Mappers(g)
  BY ForkTables
<1>5. GetPages(current)[g] = ref[g] + (IF current \in Mappers(g) THEN 1 ELSE 0)
  BY <1>3, GetPagesCount DEF IInv
<1>6. ref[g] \in Nat
  BY DEF IInv, TypeOK
<1>7. CASE g \in pages
  BY <1>1, <1>2, <1>4, <1>7, FreeUnused DEF IInv
<1>8. CASE g \notin pages /\ g \in kernel
  BY <1>1, <1>4, <1>5, <1>6, <1>8 DEF IInv, RefCountExact
<1>9. CASE g \notin pages /\ g \notin kernel
  <2>1. ref'[g] = ref[g] + (IF current \in Mappers(g) THEN 1 ELSE 0)
    BY <1>1, <1>5, <1>9
  <2>2. ref[g] = Cardinality(Mappers(g))
    BY <1>9 DEF IInv, RefCountExact
  <2>3. nr_tasks \notin Mappers(g)
    BY <1>3 DEF Mappers
  <2>4. Cardinality(Mappers(g) \cup {nr_tasks}) = Cardinality(Mappers(g)) + 1
    BY <2>3, MappersFinite, FS_AddElement DEF IInv
  <2> QED
    BY <1>1, <1>4, <1>6, <1>9, <2>1, <2>2, <2>4
<1> QED
  BY <1>7, <1>8, <1>9

LEMMA NextIInv == IInv /\ [Next]_vars => IInv'
<1> SUFFICES ASSUME IInv, [Next]_vars PROVE IInv'
  OBVIOUS
<1>1. TypeOK'
  BY NextTypeOK DEF IInv
<1>2. ASSUME FlushTlb PROVE TlbCoherent'
  BY <1>2 DEF FlushTlb, EmptyTlb, TlbCoherent
<1>3. ASSUME UNCHANGED <<nr_tasks, pte, ref, kernel>>, TlbCoherent'
      PROVE  IInv'
  BY <1>1, <1>3, TablesUnchanged DEF IInv
<1>4. ASSUME NEW v \in Pages, TlbFill(v) PROVE IInv'
  <2>1. \A u \in DOMAIN tlb' : tlb'[u] = pte[current][u]
    BY <1>4 DEF TlbFill, Translation, IInv, TlbCoherent
  <2>2. TlbCoherent'
    BY <1>4, <2>1 DEF TlbFill, TlbCoherent
  <2> QED
    BY <1>3, <1>4, <2>2 DEF TlbFill
<1>5. ASSUME UNCHANGED <<nr_tasks, pte, ref, kernel, tlb, current>>
      PROVE  IInv'
  BY <1>3, <1>5 DEF TlbCoherent, IInv
<1>6. ASSUME NEW v \in Pages, NEW x \in Values, Store(v, x) PROVE IInv'
  BY <1>5, <1>6 DEF Store
<1>7. ASSUME NEW v \in Pages, NEW a \in Access,
             BadAccess(v, a) \/ FaultOutOfMemory(v, a)
      PROVE  IInv'
  BY <1>5, <1>7 DEF BadAccess, FaultOutOfMemory
<1>8. ASSUME NEW v \in Pages, NEW a \in Access, CopyOnWrite(v, a) PROVE IInv'
  BY <1>1, <1>2, <1>8, CopyOnWriteCounts DEF IInv, CopyOnWrite
<1>9. ASSUME NEW v \in Pages, NEW a \in Access, DemandPage(v, a) PROVE IInv'
  BY <1>1, <1>2, <1>9, DemandPageCounts DEF IInv, DemandPage
<1>10. CASE ForkFails
  BY <1>5, <1>10 DEF ForkFails
<1>11. CASE Fork
  BY <1>1, <1>2, <1>11, ForkTables, ForkCounts DEF IInv, Fork
<1>12. ASSUME NEW t \in UserTasks, Switch(t) PROVE IInv'
  BY <1>2, <1>3, <1>12 DEF Switch
<1>13. CASE Halted \/ UNCHANGED vars
  BY <1>5, <1>13 DEF Halted, vars
<1> QED
  BY <1>4, <1>6, <1>7, <1>8, <1>9, <1>10, <1>11, <1>12, <1>13 DEF Next

\* The inductive invariant of demand paging and copy on write.
THEOREM Invariance == Spec => []IInv
<1> QED
  BY InitIInv, NextIInv, PTL DEF Spec

\* get_page and put_page balance: a reference count is always the number of
\* tasks that map the frame, so no frame is freed while a task maps it (use
\* after free), and none is lost when the last task has left it.
THEOREM RefCountsAlwaysExact == Spec => []RefCountExact
<1>1. IInv => RefCountExact
  BY DEF IInv
<1> QED
  BY <1>1, Invariance, PTL

\* do_fork and do_page_fault never leave a shared frame writable.
THEOREM SharedNeverWritable == Spec => []WritableUnshared
<1>1. IInv => WritableUnshared
  BY DEF IInv
<1> QED
  BY <1>1, Invariance, PTL

\* The flushes of do_page_fault, do_fork and switch_mm are enough: the hart
\* never uses an entry that the page table no longer holds.
THEOREM TlbAlwaysCoherent == Spec => []TlbCoherent
<1>1. IInv => TlbCoherent
  BY DEF IInv
<1> QED
  BY <1>1, Invariance, PTL

\* A mapped page keeps at least the VMA's permissions without PERM_W.
THEOREM TablesAlwaysSound == Spec => []TablesSound
<1>1. IInv => TablesSound
  BY DEF IInv
<1> QED
  BY <1>1, Invariance, PTL

-----------------------------------------------------------------------------
(* A handled page fault lets the access through.                           *)

LEMMA FaultMaps ==
    ASSUME IInv, NEW v \in Pages, NEW f \in Free, MapPage(v, f), FlushTlb,
           UNCHANGED <<nr_tasks, current>>, current # 0
    PROVE  /\ pte'[current][v] # pte[current][v]
           /\ Translation(v)'.perm = PermAt(v)
           /\ \A u \in Pages \ {v} : pte'[current][u] = pte[current][u]
<1>1. current \in UserTasks /\ current \in TaskIds
  BY DEF IInv, TypeOK, UserTasks, TaskIds
<1>2. f \in Frames /\ Mappers(f) = {}
  BY FreeUnused DEF IInv
<1>3. pte[current][v].frame # f
  BY <1>1, <1>2 DEF Mappers
<1>4. pte'[current][v] = [frame |-> f, perm |-> PermAt(v)]
  BY <1>1 DEF MapPage, IInv, TypeOK
<1>5. \A u \in Pages \ {v} : pte'[current][u] = pte[current][u]
  BY <1>1 DEF MapPage, IInv, TypeOK
<1>6. v \notin DOMAIN tlb'
  BY DEF FlushTlb, EmptyTlb
<1>7. Translation(v)' = pte'[current][v]
  BY <1>6 DEF Translation
<1> QED
  BY <1>3, <1>4, <1>5, <1>7

\* Every page fault the kernel handles without stopping makes the faulting
\* access possible.
THEOREM PageFaultsResolve == Spec => FaultResolves
<1> DEFINE Resolved ==
        ref' # ref /\ nr_tasks' = nr_tasks =>
           \E v \in Pages :
              /\ pte'[current][v] # pte[current][v]
              /\ Translation(v)'.perm = PermAt(v)
              /\ \A u \in Pages \ {v} : pte'[current][u] = pte[current][u]
<1>1. IInv /\ [Next]_vars => [Resolved]_vars
  <2> SUFFICES ASSUME IInv, Next, ref' # ref, nr_tasks' = nr_tasks PROVE Resolved
    BY DEF vars
  <2>1. ASSUME NEW v \in Pages, NEW a \in Access, CopyOnWrite(v, a)
        PROVE  Resolved
    <3>1. PICK f \in Lowest(Free) : MapPage(v, f)
      BY <2>1 DEF CopyOnWrite
    <3>2. FlushTlb /\ UNCHANGED <<nr_tasks, current>> /\ current # 0
      BY <2>1 DEF CopyOnWrite, Faults, Running
    <3> QED
      BY <3>1, <3>2, PteFacts, FaultMaps
  <2>2. ASSUME NEW v \in Pages, NEW a \in Access, DemandPage(v, a)
        PROVE  Resolved
    <3>1. PICK f \in Lowest(Free) : MapPage(v, f)
      BY <2>2 DEF DemandPage
    <3>2. FlushTlb /\ UNCHANGED <<nr_tasks, current>> /\ current # 0
      BY <2>2 DEF DemandPage, Faults, Running
    <3> QED
      BY <3>1, <3>2, PteFacts, FaultMaps
  <2>3. ASSUME NEW v \in Pages, NEW a \in Access,
               BadAccess(v, a) \/ FaultOutOfMemory(v, a)
        PROVE  ref' = ref
    BY <2>3 DEF BadAccess, FaultOutOfMemory
  <2>4. ASSUME NEW v \in Pages, NEW x \in Values, Store(v, x) PROVE ref' = ref
    BY <2>4 DEF Store
  <2>7. ASSUME NEW v \in Pages, TlbFill(v) PROVE ref' = ref
    BY <2>7 DEF TlbFill
  <2>5. ForkFails \/ (\E t \in UserTasks : Switch(t)) \/ Halted => ref' = ref
    BY DEF ForkFails, Switch, Halted, vars
  <2>6. ~Fork
    BY DEF Fork, IInv, TypeOK
  <2> HIDE DEF Resolved
  <2> QED
    BY <2>1, <2>2, <2>3, <2>4, <2>5, <2>6, <2>7 DEF Next
<1> QED
  BY <1>1, Invariance, PTL DEF Spec, FaultResolves

-----------------------------------------------------------------------------
(* CowVM implements PrivateMemory.                                         *)

LEMMA MemoryAt ==
    ASSUME NEW t \in TaskIds, NEW v \in Pages
    PROVE  /\ Memory[t][v] = IF pte[t][v].frame = NoFrame THEN NoFrame
                             ELSE data[pte[t][v].frame]
           /\ Memory'[t][v] = IF pte'[t][v].frame = NoFrame THEN NoFrame
                              ELSE data'[pte'[t][v].frame]
BY DEF Memory

\* Two states whose memories agree on every page have the same memory.
LEMMA MemoryExtensional ==
    ASSUME NEW m, m = [t \in TaskIds |-> [v \in Pages |-> m[t][v]]],
           \A t \in TaskIds, v \in Pages : Memory'[t][v] = m[t][v]
    PROVE  Memory' = m
<1>1. Memory' = [t \in TaskIds |-> [v \in Pages |-> Memory'[t][v]]]
  BY DEF Memory
<1> QED
  BY <1>1

LEMMA MemoryShape == Memory = [t \in TaskIds |-> [v \in Pages |-> Memory[t][v]]]
BY DEF Memory

\* A store changes one page of the running task.
LEMMA StoreWrites ==
    ASSUME IInv, NEW v \in Pages, NEW x \in Values, Store(v, x)
    PROVE  Private!Write(current, v, x) /\ current \in UserTasks
<1> DEFINE f == pte[current][v].frame
<1>1. current \in UserTasks /\ UserTasks \subseteq TaskIds
  BY DEF Store, Running, IInv, TypeOK, UserTasks, TaskIds
<1>2. Translation(v) = pte[current][v]
  BY DEF Translation, IInv, TlbCoherent
<1>3. "W" \in pte[current][v].perm
  BY <1>2 DEF Store
<1>4. "W" \in PermAt(v) /\ f # NoFrame /\ f \in Frames
  BY <1>1, <1>3 DEF IInv, TablesSound, TypeOK, Pte
<1>5. data' = [data EXCEPT ![f] = x] /\ pte' = pte /\ nr_tasks' = nr_tasks
  BY <1>2 DEF Store
<1>6. \A u \in UserTasks, w \in Pages :
        pte[u][w].frame = f => u = current /\ w = v
  BY <1>1, <1>3 DEF IInv, WritableUnshared
<1>7. \A u \in TaskIds \ UserTasks, w \in Pages : pte[u][w].frame = NoFrame
  BY DEF IInv, TablesSound, NoPte
<1> DEFINE m == [Memory EXCEPT ![current][v] = x]
<1>8. m = [t \in TaskIds |-> [u \in Pages |-> m[t][u]]]
  BY <1>1, MemoryShape
<1>9. ASSUME NEW t \in TaskIds, NEW u \in Pages
      PROVE  Memory'[t][u] = m[t][u]
  <2>1. m[t][u] = IF t = current /\ u = v THEN x ELSE Memory[t][u]
    BY <1>1, MemoryShape
  <2>2. CASE t = current /\ u = v
    BY <1>4, <1>5, <2>1, <2>2, MemoryAt DEF IInv, TypeOK
  <2>3. CASE ~(t = current /\ u = v)
    <3>1. pte[t][u].frame # f
      BY <1>4, <1>6, <1>7, <2>3
    <3>2. pte[t][u].frame \in Frames \cup {NoFrame}
      BY DEF IInv, TypeOK, Pte
    <3>3. pte[t][u].frame # NoFrame => data'[pte[t][u].frame] = data[pte[t][u].frame]
      BY <1>4, <1>5, <3>1, <3>2 DEF IInv, TypeOK
    <3> QED
      BY <1>5, <2>1, <2>3, <3>3, MemoryAt
  <2> QED
    BY <2>2, <2>3
<1>10. Memory' = m
  BY <1>8, <1>9, MemoryExtensional
<1>11. Memory[current][v] # NoFrame
  BY <1>1, <1>4, MemoryAt DEF IInv, TypeOK
<1> QED
  BY <1>1, <1>4, <1>5, <1>10, <1>11 DEF Private!Write

\* do_page_fault gives the running task a page it had not touched, with the
\* content the page must have, or copies a shared frame, which nobody sees.
LEMMA FaultTouches ==
    ASSUME IInv, NEW v \in Pages, NEW f \in Free, MapPage(v, f),
           UNCHANGED nr_tasks, current # 0, NEW x,
           \A g \in Frames : data'[g] = IF g = f THEN x ELSE data[g]
    PROVE  Memory' = [Memory EXCEPT ![current][v] = x]
<1>1. current \in TaskIds /\ UserTasks \subseteq TaskIds
  BY DEF IInv, TypeOK, UserTasks, TaskIds
<1>2. f \in Frames /\ f # NoFrame /\ Mappers(f) = {}
  BY FreeUnused DEF IInv
<1>3. \A t \in TaskIds, u \in Pages : pte[t][u].frame # f
  BY <1>2 DEF Mappers, IInv, TablesSound, NoPte
<1>4. \A t \in TaskIds, u \in Pages :
        pte'[t][u] = IF t = current /\ u = v
                     THEN [frame |-> f, perm |-> PermAt(v)] ELSE pte[t][u]
  BY <1>1 DEF MapPage, IInv, TypeOK
<1>8. PICK m : m = [Memory EXCEPT ![current][v] = x]
  OBVIOUS
<1>7. m = [t \in TaskIds |-> [u \in Pages |->
              IF t = current /\ u = v THEN x ELSE Memory[t][u]]]
  <2> DEFINE row == [u \in Pages |-> IF u = v THEN x ELSE Memory[current][u]]
  <2>1. Memory = [t \in TaskIds |-> [u \in Pages |-> Memory[t][u]]]
    BY MemoryShape
  <2>2. [Memory[current] EXCEPT ![v] = x] = row
    BY <1>1, <2>1
  <2>3. m = [t \in TaskIds |-> IF t = current THEN row ELSE Memory[t]]
    BY <1>1, <1>8, <2>1, <2>2
  <2> QED
    BY <2>1, <2>3
<1>5. m = [t \in TaskIds |-> [u \in Pages |-> m[t][u]]]
  BY <1>7
<1>6. ASSUME NEW t \in TaskIds, NEW u \in Pages
      PROVE  Memory'[t][u] = m[t][u]
  <2>1. m[t][u] = IF t = current /\ u = v THEN x ELSE Memory[t][u]
    BY <1>7
  <2>2. CASE t = current /\ u = v
    <3>1. pte'[t][u].frame = f
      BY <1>4, <2>2
    <3> QED
      BY <1>2, <2>1, <2>2, <3>1, MemoryAt
  <2>3. CASE ~(t = current /\ u = v)
    <3>1. pte'[t][u] = pte[t][u] /\ pte[t][u].frame # f
      BY <1>3, <1>4, <2>3
    <3>2. pte[t][u].frame \in Frames \cup {NoFrame}
      BY DEF IInv, TypeOK, Pte
    <3>3. pte[t][u].frame # NoFrame => data'[pte[t][u].frame] = data[pte[t][u].frame]
      BY <3>1, <3>2
    <3> QED
      BY <2>1, <2>3, <3>1, <3>3, MemoryAt
  <2> QED
    BY <2>2, <2>3
<1> QED
  BY <1>5, <1>6, <1>8, MemoryExtensional

LEMMA DemandPageTouches ==
    ASSUME IInv, NEW v \in Pages, NEW a \in Access, DemandPage(v, a)
    PROVE  Private!Touch(current, v) /\ current \in UserTasks
<1>1. PICK f \in Lowest(Free) :
        /\ data' = IF AnonAt(v) THEN data ELSE [data EXCEPT ![f] = FileData[v]]
        /\ MapPage(v, f)
  BY DEF DemandPage
<1>2. f \in Free /\ f \in Frames
  BY PteFacts
<1>3. Running /\ UNCHANGED nr_tasks
  BY DEF DemandPage, Faults
<1>4. current # 0 /\ current \in UserTasks /\ current \in TaskIds
  BY <1>3 DEF Running, IInv, TypeOK, UserTasks, TaskIds
<1> DEFINE x == IF AnonAt(v) THEN data[f] ELSE FileData[v]
<1>5. \A g \in Frames : data'[g] = IF g = f THEN x ELSE data[g]
  BY <1>1, <1>2 DEF IInv, TypeOK
<1>6. x \in IF AnonAt(v) THEN Values ELSE {FileData[v]}
  BY <1>2 DEF IInv, TypeOK
<1> HIDE DEF x
<1>7. Memory' = [Memory EXCEPT ![current][v] = x]
  BY <1>1, <1>2, <1>3, <1>4, <1>5, FaultTouches
<1>8. Memory[current][v] = NoFrame
  BY <1>4, DemandPageUnmapped, MemoryAt
<1> QED
  BY <1>3, <1>4, <1>6, <1>7, <1>8 DEF Private!Touch

LEMMA CopyOnWriteInvisible ==
    ASSUME IInv, NEW v \in Pages, NEW a \in Access, CopyOnWrite(v, a)
    PROVE  Memory' = Memory /\ nr_tasks' = nr_tasks
<1> DEFINE src == pte[current][v].frame
<1>1. PICK f \in Lowest(Free) :
        data' = [data EXCEPT ![f] = data[src]] /\ MapPage(v, f)
  BY DEF CopyOnWrite
<1>2. f \in Free /\ f \in Frames
  BY PteFacts
<1>3. Running /\ UNCHANGED nr_tasks /\ src # NoFrame
  BY DEF CopyOnWrite, Faults, IsCow
<1>4. current # 0 /\ current \in TaskIds
  BY <1>3 DEF Running, IInv, TypeOK, TaskIds
<1>9. PICK x : x = data[src]
  OBVIOUS
<1>5. \A g \in Frames : data'[g] = IF g = f THEN x ELSE data[g]
  BY <1>1, <1>2, <1>9 DEF IInv, TypeOK
<1>6. Memory' = [Memory EXCEPT ![current][v] = x]
  BY <1>1, <1>2, <1>3, <1>4, <1>5, FaultTouches
<1>7. Memory[current][v] = x
  BY <1>3, <1>4, <1>9, MemoryAt
<1> HIDE DEF src
<1>8. [Memory EXCEPT ![current][v] = x] = Memory
  BY <1>4, <1>7, MemoryShape
<1> QED
  BY <1>3, <1>6, <1>8

LEMMA ForkCopies ==
    ASSUME IInv, Fork
    PROVE  Private!Fork(current) /\ current \in UserTasks
<1>1. /\ current \in UserTasks /\ current \in TaskIds /\ nr_tasks \in TaskIds
      /\ nr_tasks < MaxTasks /\ nr_tasks' = nr_tasks + 1 /\ data' = data
  BY DEF Fork, Running, IInv, TypeOK, UserTasks, TaskIds
<1> DEFINE entries == [v \in Pages |-> Shared(pte[current][v])]
<1>2. pte' = [pte EXCEPT ![current] = entries, ![nr_tasks] = entries]
  BY DEF Fork
<1>3. \A t \in TaskIds, u \in Pages :
        pte'[t][u].frame = IF t = nr_tasks THEN pte[current][u].frame
                           ELSE pte[t][u].frame
  <2>1. \A u \in Pages : entries[u].frame = pte[current][u].frame
    BY DEF Shared
  <2> HIDE DEF entries
  <2> QED
    BY <1>1, <1>2, <2>1 DEF IInv, TypeOK
<1> DEFINE m == [Memory EXCEPT ![nr_tasks] = Memory[current]]
<1>4. m = [t \in TaskIds |-> [u \in Pages |-> m[t][u]]]
  BY <1>1, MemoryShape
<1>5. ASSUME NEW t \in TaskIds, NEW u \in Pages
      PROVE  Memory'[t][u] = m[t][u]
  <2>1. m[t][u] = IF t = nr_tasks THEN Memory[current][u] ELSE Memory[t][u]
    BY <1>1, MemoryShape
  <2> HIDE DEF m
  <2>2. CASE t = nr_tasks
    BY <1>1, <1>3, <2>1, <2>2, MemoryAt
  <2>3. CASE t # nr_tasks
    BY <1>1, <1>3, <2>1, <2>3, MemoryAt
  <2> QED
    BY <2>2, <2>3
<1>6. Memory' = m
  BY <1>4, <1>5, MemoryExtensional
<1> QED
  BY <1>1, <1>6 DEF Private!Fork

\* Copy on write implements private memories: what a task reads depends on
\* its own stores and on its parent's before the fork, and on nothing else.
THEOREM Isolation == Spec => PrivateMemorySpec
<1>1. Init => Private!Init
  <2> SUFFICES ASSUME Init
               PROVE  Memory = [t \in TaskIds |-> [v \in Pages |-> NoFrame]]
    BY DEF Init, Private!Init, Private!TaskIds, TaskIds
  <2> QED
    BY DEF Init, Memory, NoPte
<1>2. IInv /\ [Next]_vars => [Private!Next]_(Private!vars)
  <2> SUFFICES ASSUME IInv, [Next]_vars
               PROVE  Private!Next \/ (nr_tasks' = nr_tasks /\ Memory' = Memory)
    BY DEF Private!vars
  <2>1. Private!UserTasks = UserTasks
    BY DEF Private!UserTasks, UserTasks
  <2>2. ASSUME UNCHANGED <<nr_tasks, pte, data>>
        PROVE  nr_tasks' = nr_tasks /\ Memory' = Memory
    BY <2>2 DEF Memory
  <2>3. ASSUME NEW v \in Pages, NEW x \in Values, Store(v, x)
        PROVE  Private!Next
    BY <2>1, <2>3, StoreWrites DEF Private!Next
  <2>4. ASSUME NEW v \in Pages, NEW a \in Access, DemandPage(v, a)
        PROVE  Private!Next
    BY <2>1, <2>4, DemandPageTouches DEF Private!Next
  <2>5. CASE Fork
    BY <2>1, <2>5, ForkCopies DEF Private!Next
  <2>6. ASSUME NEW v \in Pages, NEW a \in Access,
               BadAccess(v, a) \/ FaultOutOfMemory(v, a)
        PROVE  nr_tasks' = nr_tasks /\ Memory' = Memory
    BY <2>2, <2>6 DEF BadAccess, FaultOutOfMemory
  <2>9. ASSUME NEW v \in Pages, TlbFill(v)
        PROVE  nr_tasks' = nr_tasks /\ Memory' = Memory
    BY <2>2, <2>9 DEF TlbFill
  <2>7. CASE ForkFails \/ (\E t \in UserTasks : Switch(t)) \/ Halted
             \/ UNCHANGED vars
    BY <2>2, <2>7 DEF ForkFails, Switch, Halted, vars
  <2>8. ASSUME NEW v \in Pages, NEW a \in Access, CopyOnWrite(v, a)
        PROVE  nr_tasks' = nr_tasks /\ Memory' = Memory
    BY <2>8, CopyOnWriteInvisible
  <2> QED
    BY <2>3, <2>4, <2>5, <2>6, <2>7, <2>8, <2>9 DEF Next
<1> QED
  BY <1>1, <1>2, Invariance, PTL DEF Spec, PrivateMemorySpec, Private!Spec
=============================================================================
