---------------------------- MODULE MemoryProofs ----------------------------
(***************************************************************************)
(* Proofs about the two models of memory: Segments, for every page size,   *)
(* image and number of tasks, and Buddy, for every number of pages.  The   *)
(* models share no state, the proofs only their arithmetic.                *)
(*                                                                         *)
(* The loops over program headers and lists, and the walks over the tree,  *)
(* are recursive functions.  That there is one for each definition, and    *)
(* what it computes, is shown by looking at the least number, or the last, *)
(* for which it would be false.                                            *)
(***************************************************************************)
EXTENDS Segments, Buddy, SequenceTheorems, WellFoundedInduction, TLAPS

(* Segments: what fork copies, what a fault loads, and the lists of VMAs.   *)

\* Induction: a set of numbers, say of counterexamples, that is not empty has a least
\* element.
LEMMA LeastElement ==
    ASSUME NEW T, T \subseteq Nat, T # {}
    PROVE  \E x \in T : \A y \in T : x <= y
<1>1. IsWellFoundedOn(OpToRel(<, Nat), Nat)
  BY NatLessThanWellFounded, Zenon
<1>2. \E x \in T : \A y \in T : ~ (<<y, x>> \in OpToRel(<, Nat))
  BY <1>1, WFMin, Zenon
<1>3. PICK x \in T : \A y \in T : ~ (<<y, x>> \in OpToRel(<, Nat))
  BY <1>2
<1>4. ASSUME NEW y \in T PROVE x <= y
  <2>1. x \in Nat /\ y \in Nat
    OBVIOUS
  <2>2. ~ (<<y, x>> \in OpToRel(<, Nat))
    BY <1>3
  <2>3. ~ (y < x)
    BY <2>1, <2>2 DEF OpToRel
  <2> QED
    BY <2>1, <2>3
<1> QED
  BY <1>4

\* A function of 1 .. n is a sequence.
LEMMA SequenceOf ==
    ASSUME NEW n \in Nat, NEW S, NEW f, f = [i \in 1 .. n |-> f[i]], \A i \in 1 .. n : f[i] \in S
    PROVE  f \in Seq(S) /\ Len(f) = n
<1>1. f \in [1 .. n -> S]
  OBVIOUS
<1> QED
  BY <1>1

\* PGROUNDDOWN and the offset in the page.
LEMMA Division ==
    ASSUME NEW a \in Int
    PROVE  /\ PageOf(a) \in Int /\ RoundDown(a) \in Int
           /\ RoundDown(a) <= a /\ a < RoundDown(a) + PageSize
           /\ a % PageSize = a - RoundDown(a)
           /\ a % PageSize \in Offsets
<1>1. PageSize \in Nat \ {0}
  BY SegmentsAssumption
<1>2. /\ a \div PageSize \in Int
      /\ a % PageSize \in 0 .. PageSize - 1
      /\ a = PageSize * (a \div PageSize) + (a % PageSize)
  BY <1>1
<1> QED
  BY <1>1, <1>2 DEF PageOf, RoundDown, Offsets

\* Products of whole numbers of pages compare as the numbers do.
LEMMA Multiples ==
    ASSUME NEW p \in Int, NEW q \in Int, NEW s \in Nat \ {0}
    PROVE  /\ p * s < q * s => p <= q - 1
           /\ p <= q - 1 => p * s + s <= q * s
<1>1. p >= q => p * s >= q * s
  OBVIOUS
<1>2. (p + 1) * s = p * s + s
  OBVIOUS
<1>3. p + 1 <= q => (p + 1) * s <= q * s
  OBVIOUS
<1> QED
  BY <1>1, <1>2, <1>3

\* The stack page that task_init gives a task lies in the address space.
LEMMA StackBelow == UserEnd - PageSize \in Nat
<1> DEFINE q == UserEnd \div PageSize
<1>1. /\ PageSize \in Nat \ {0} /\ UserEnd \in Nat \ {0} /\ q \in Int
      /\ q * PageSize = UserEnd
  BY SegmentsAssumption
<1> HIDE DEF q
<1>2. 0 * PageSize < q * PageSize
  BY <1>1
<1>3. 0 <= q - 1
  BY <1>1, <1>2, Multiples
<1>4. 0 * PageSize + PageSize <= q * PageSize
  <2>1. 0 \in Int /\ q \in Int
    BY <1>1
  <2> QED
    BY <1>1, <1>3, <2>1, Multiples
<1> QED
  BY <1>1, <1>4

\* The page of an address is one of the address space; the stack has the last one to
\* itself; the copy for a fault ends with its page at the latest.
LEMMA PageFacts ==
    ASSUME NEW a \in Addrs
    PROVE  /\ PageOf(a) \in VPages
           /\ a >= Stack.addr => RoundDown(a) = Stack.addr
           /\ a < Stack.addr => RoundDown(a) < Stack.addr
           /\ RoundUp(a + 1) = RoundDown(a) + PageSize
<1> DEFINE q == UserEnd \div PageSize
          p == PageOf(a)
<1>1. /\ PageSize \in Nat \ {0} /\ UserEnd \in Nat \ {0} /\ q \in Int
      /\ q * PageSize = UserEnd
  BY SegmentsAssumption
<1>2. /\ a \in Nat /\ a < UserEnd /\ p \in Int /\ p * PageSize = RoundDown(a)
      /\ p * PageSize <= a /\ a < p * PageSize + PageSize
  BY <1>1, Division DEF Addrs, PageOf, RoundDown
<1>3. 0 * PageSize < p * PageSize + PageSize
  BY <1>1, <1>2
<1>4. (p + 1) * PageSize = p * PageSize + PageSize
  BY <1>1, <1>2
<1>5. 0 <= p
  <2> HIDE DEF p
  <2>1. 0 * PageSize < (p + 1) * PageSize
    BY <1>3, <1>4
  <2> QED
    BY <1>1, <1>2, <2>1, Multiples
<1>6. p <= q - 1
  <2> HIDE DEF p, q
  <2> QED
    BY <1>1, <1>2, Multiples
<1>7. (q - 1) * PageSize = Stack.addr
  <2> HIDE DEF q
  <2>1. (q - 1) * PageSize = q * PageSize - PageSize
    BY <1>1
  <2> QED
    BY <1>1, <2>1 DEF Stack
<1>8. a >= Stack.addr => RoundDown(a) = Stack.addr
  <2> SUFFICES ASSUME a >= Stack.addr PROVE RoundDown(a) = Stack.addr
    OBVIOUS
  <2> HIDE DEF p, q
  <2>1. (q - 1) * PageSize < (p + 1) * PageSize
    BY <1>1, <1>2, <1>4, <1>7 DEF Stack
  <2>2. q - 1 <= p
    BY <1>1, <1>2, <2>1, Multiples
  <2>3. q - 1 = p
    BY <1>1, <1>2, <1>6, <2>2
  <2> QED
    BY <1>2, <1>7, <2>3
<1>9. a < Stack.addr => RoundDown(a) < Stack.addr
  BY <1>1, <1>2 DEF Stack
<1>10. RoundUp(a + 1) = RoundDown(a) + PageSize
  <2> DEFINE b == a + PageSize
            r == PageOf(b)
  <2>1. /\ b \in Int /\ r \in Int /\ r * PageSize <= b /\ b < r * PageSize + PageSize
        /\ RoundUp(a + 1) = r * PageSize
    <3>1. b \in Int /\ (a + 1) + PageSize - 1 = b
      BY <1>1, <1>2
    <3> HIDE DEF b
    <3> QED
      BY <1>1, <3>1, Division DEF PageOf, RoundDown, RoundUp
  <2>2. (p + 2) * PageSize = p * PageSize + PageSize + PageSize
    BY <1>1, <1>2
  <2>3. (r + 1) * PageSize = r * PageSize + PageSize
    BY <1>1, <2>1
  <2>4. /\ (p + 1) * PageSize < (r + 1) * PageSize
        /\ r * PageSize < (p + 2) * PageSize
    BY <1>1, <1>2, <1>4, <2>1, <2>2, <2>3
  <2> HIDE DEF p, q, r, b
  <2>5. p + 1 <= (r + 1) - 1 /\ r <= (p + 2) - 1
    BY <1>1, <1>2, <2>1, <2>4, Multiples
  <2>6. r = p + 1
    BY <1>2, <2>1, <2>5
  <2> QED
    BY <1>2, <1>4, <2>1, <2>6
<1> QED
  BY <1>1, <1>2, <1>5, <1>6, <1>8, <1>9, <1>10 DEF VPages

-----------------------------------------------------------------------------

\* f[i] is the heap after i turns of a loop that calls do_mmap.
Turns(f, m, h, t, areas, chosen) ==
    f = [i \in 0 .. m |->
            IF i = 0 THEN h
            ELSE IF i \in chosen THEN do_mmap(f[i - 1], t, areas[i]) ELSE f[i - 1]]

\* A loop of any length makes its turns one by one.
LEMMA TurnsExist ==
    ASSUME NEW m \in Nat, NEW h, NEW t, NEW areas, NEW chosen
    PROVE  \E f : Turns(f, m, h, t, areas, chosen)
<1> DEFINE T == {n \in Nat : ~ \E f : Turns(f, n, h, t, areas, chosen)}
<1> SUFFICES ASSUME T # {} PROVE FALSE
  OBVIOUS
<1>1. PICK n \in T : \A k \in T : n <= k
  BY LeastElement
<1>2. CASE n = 0
  <2> DEFINE f == [i \in 0 .. 0 |-> h]
  <2>1. Turns(f, 0, h, t, areas, chosen)
    BY DEF Turns
  <2> QED
    BY <1>1, <1>2, <2>1
<1>3. CASE n > 0
  <2>1. n - 1 \in Nat /\ n - 1 \notin T
    BY <1>1, <1>3
  <2>2. PICK f : Turns(f, n - 1, h, t, areas, chosen)
    BY <2>1
  <2> DEFINE g == [i \in 0 .. n |->
                      IF i = n THEN IF n \in chosen THEN do_mmap(f[n - 1], t, areas[n])
                                                    ELSE f[n - 1]
                      ELSE f[i]]
  <2>3. \A i \in 0 .. n - 1 : g[i] = f[i]
    BY <1>1
  <2>4. \A i \in 0 .. n - 1 : f[i] = IF i = 0 THEN h
            ELSE IF i \in chosen THEN do_mmap(f[i - 1], t, areas[i]) ELSE f[i - 1]
    BY <2>2 DEF Turns
  <2>5. ASSUME NEW i \in 0 .. n
        PROVE  g[i] = IF i = 0 THEN h
                      ELSE IF i \in chosen THEN do_mmap(g[i - 1], t, areas[i]) ELSE g[i - 1]
    <3>1. CASE i = n
      <4>1. g[i - 1] = f[i - 1]
        BY <1>1, <1>3, <2>3, <3>1
      <4> QED
        BY <1>3, <3>1, <4>1
    <3>2. CASE i # n
      <4>1. i \in 0 .. n - 1 /\ (i # 0 => i - 1 \in 0 .. n - 1)
        BY <1>1, <3>2
      <4>2. g[i] = f[i] /\ (i # 0 => g[i - 1] = f[i - 1])
        BY <2>3, <4>1
      <4> HIDE DEF g
      <4> QED
        BY <2>4, <4>1, <4>2
    <3> QED
      BY <3>1, <3>2
  <2>6. Turns(g, n, h, t, areas, chosen)
    BY <2>5 DEF Turns
  <2> QED
    BY <1>1, <2>6
<1> QED
  BY <1>1, <1>2, <1>3

\* f is what MmapAll goes through.
Loop(f, h, t, areas, chosen) ==
    /\ f[0] = h
    /\ \A i \in 1 .. Len(areas) :
          f[i] = IF i \in chosen THEN do_mmap(f[i - 1], t, areas[i]) ELSE f[i - 1]

\* MmapAll ends with the last turn of its loop.
LEMMA MmapAllLoop ==
    ASSUME NEW h, NEW t, NEW areas, Len(areas) \in Nat, NEW chosen
    PROVE  \E f : MmapAll(h, t, areas, chosen) = f[Len(areas)] /\ Loop(f, h, t, areas, chosen)
<1> DEFINE m == Len(areas)
           done == CHOOSE f : Turns(f, m, h, t, areas, chosen)
<1>1. Turns(done, m, h, t, areas, chosen)
  BY TurnsExist
<1>2. MmapAll(h, t, areas, chosen) = done[m]
  BY Zenon DEF MmapAll, Turns
<1> HIDE DEF done
<1>3. Loop(done, h, t, areas, chosen)
  BY <1>1 DEF Turns, Loop
<1> QED
  BY <1>2, <1>3


-----------------------------------------------------------------------------

\* What callers of do_mmap pass it.
Area == [addr : Nat, len : Nat, pgoff : Nat, filesz : Nat, flags : SUBSET (Perms \cup {"ANON"})]

\* The heads of the lists.
Heads == [1 .. MaxTasks -> Nat]

\* h is g with nodes from first on, which are a list of t.
Built(h, t, g, first, last, areas) ==
    /\ h[1] \in Seq(Vma) /\ h[2] \in Heads /\ last = Len(h[1])
    /\ first - 1 <= Len(h[1])
    /\ h[2][t] = IF Len(h[1]) = first - 1 THEN 0 ELSE Len(h[1])
    /\ \A u \in 1 .. MaxTasks : u # t => h[2][u] = g[2][u]
    /\ \A n \in 1 .. first - 1 : h[1][n] = g[1][n]
    /\ Chain(h[1], t, first, Len(h[1]), areas)

\* do_mmap puts a node in front of the list it is called for, with the area it is given,
\* and touches no other list.
LEMMA BuiltStep ==
    ASSUME NEW h, NEW t \in 1 .. MaxTasks, NEW g, NEW first \in Nat \ {0}, NEW areas,
           NEW v \in Area, NEW more, more = areas \cup {v},
           NEW last, NEW next, next = last + 1, Built(h, t, g, first, last, areas)
    PROVE  Built(do_mmap(h, t, v), t, g, first, next, more)
<1> DEFINE nodes == h[1]
           heads == h[2]
           len   == last
           new   == next
           old   == heads[t]
           linked == SetPrev(nodes, old, new)
           vma   == [vm_mm |-> t, vm_start |-> v.addr, vm_end |-> v.addr + v.len,
                     vm_pgoff |-> v.pgoff, vm_filesz |-> v.filesz, vm_flags |-> v.flags,
                     vm_next |-> old, vm_prev |-> 0]
           k == do_mmap(h, t, v)
<1>1. /\ nodes \in Seq(Vma) /\ len = Len(nodes) /\ len \in Nat /\ new = len + 1 /\ heads \in Heads
      /\ first - 1 <= len /\ old = IF len = first - 1 THEN 0 ELSE len
      /\ Chain(nodes, t, first, len, areas)
      /\ DOMAIN nodes = 1 .. len /\ \A n \in 1 .. len : nodes[n] \in Vma
  BY DEF Built
<1>2. k[1] = Append(linked, vma) /\ k[2] = [heads EXCEPT ![t] = new]
  BY <1>1, Zenon DEF do_mmap
<1>3. old \in Nat /\ new \in Nat
  BY <1>1
<1>4. vma \in Vma
  BY <1>3 DEF Vma, Area
<1>5. /\ linked \in Seq(Vma) /\ Len(linked) = len
      /\ \A n \in 1 .. len :
                linked[n] = IF n = old THEN [nodes[n] EXCEPT !.vm_prev = new] ELSE nodes[n]
  <2>1. CASE old = 0
    BY <1>1, <2>1 DEF SetPrev
  <2>2. CASE old # 0
    <3>1. linked = [nodes EXCEPT ![old].vm_prev = new]
      BY <2>2 DEF SetPrev
    <3>2. old \in 1 .. len
      BY <1>1, <1>3, <2>2
    <3>3. [nodes[old] EXCEPT !.vm_prev = new] \in Vma
      BY <1>1, <1>3, <3>2 DEF Vma
    <3> HIDE DEF linked, old, new
    <3>4. DOMAIN linked = 1 .. len
      BY <1>1, <3>1
    <3>5. \A n \in 1 .. len :
              linked[n] = IF n = old THEN [nodes[n] EXCEPT !.vm_prev = new] ELSE nodes[n]
      BY <1>1, <3>1
    <3>6. \A n \in 1 .. len : linked[n] \in Vma
      BY <1>1, <3>3, <3>5, ZenonT(40)
    <3>7. linked = [n \in 1 .. len |-> linked[n]]
      BY <1>1, <3>1, Zenon
    <3> QED
      <4> HIDE DEF nodes, heads, len
      <4>1. linked \in Seq(Vma) /\ Len(linked) = len
        BY <1>1, <3>6, <3>7, SequenceOf
      <4> QED
        BY <3>5, <4>1
  <2> QED
    BY <2>1, <2>2
<1> HIDE DEF linked, vma, new, len, old, nodes, heads, k
<1>6. /\ k[1] \in Seq(Vma) /\ Len(k[1]) = new /\ k[1][new] = vma
      /\ \A n \in 1 .. len : k[1][n] = linked[n]
  BY <1>1, <1>2, <1>3, <1>4, <1>5 DEF new
<1>7. /\ k[2] \in Heads /\ k[2][t] = new
      /\ \A u \in 1 .. MaxTasks : u # t => k[2][u] = heads[u]
  BY <1>1, <1>2, <1>3 DEF Heads
<1>8. \A n \in 1 .. first - 1 : k[1][n] = nodes[n]
  <2> SUFFICES ASSUME NEW n \in 1 .. first - 1 PROVE k[1][n] = nodes[n]
    OBVIOUS
  <2>1. n \in 1 .. len /\ n # old
    BY <1>1
  <2> QED
    BY <1>5, <1>6, <2>1
<1>9. \A n \in first .. len : AreaOf(k[1][n]) = AreaOf(nodes[n])
  <2> SUFFICES ASSUME NEW n \in first .. len PROVE AreaOf(k[1][n]) = AreaOf(nodes[n])
    OBVIOUS
  <2>1. n \in 1 .. len /\ nodes[n] \in Vma
    BY <1>1
  <2>2. k[1][n] = IF n = old THEN [nodes[n] EXCEPT !.vm_prev = new] ELSE nodes[n]
    BY <1>5, <1>6, <2>1
  <2> QED
    BY <2>1, <2>2 DEF AreaOf, Vma
<1>10. AreaOf(vma) = v
  BY DEF AreaOf, vma, Area
<1>11. {AreaOf(k[1][n]) : n \in first .. new} = areas \cup {v}
  <2>1. first .. new = (first .. len) \cup {new}
    BY <1>1 DEF new
  <2>2. {AreaOf(nodes[n]) : n \in first .. len} = areas
    BY <1>1 DEF Chain
  <2>3. AreaOf(k[1][new]) = v
    BY <1>6, <1>10
  <2> QED
    BY <1>9, <2>1, <2>2, <2>3
<1>12. ASSUME NEW n \in first .. new
       PROVE  /\ k[1][n].vm_mm = t
              /\ k[1][n].vm_next = IF n = first THEN 0 ELSE n - 1
              /\ k[1][n].vm_prev = IF n = new THEN 0 ELSE n + 1
  <2>1. CASE n = new
    <3>1. n = first <=> len = first - 1
      BY <1>1, <2>1 DEF new
    <3> QED
      BY <1>1, <1>6, <2>1, <3>1 DEF vma, new
  <2>2. CASE n # new
    <3>1. n \in first .. len /\ n \in 1 .. len /\ nodes[n] \in Vma
      BY <1>1, <2>2 DEF new
    <3>2. k[1][n] = IF n = old THEN [nodes[n] EXCEPT !.vm_prev = new] ELSE nodes[n]
      BY <1>5, <1>6, <3>1
    <3>3. /\ nodes[n].vm_mm = t
          /\ nodes[n].vm_next = IF n = first THEN 0 ELSE n - 1
          /\ nodes[n].vm_prev = IF n = len THEN 0 ELSE n + 1
      BY <1>1, <3>1 DEF Chain
    <3>4. n = old <=> n = len
      BY <1>1, <3>1
    <3> QED
      BY <1>1, <2>2, <3>1, <3>2, <3>3, <3>4 DEF Vma
  <2> QED
    BY <2>1, <2>2
<1>13. Chain(k[1], t, first, Len(k[1]), more)
  BY <1>6, <1>11, <1>12 DEF Chain
<1> QED
  <2>1. first - 1 <= Len(k[1]) /\ Len(k[1]) # first - 1 /\ Len(k[1]) = next
    BY <1>1, <1>6 DEF new
  <2>2. \A u \in 1 .. MaxTasks : u # t => k[2][u] = g[2][u]
    BY <1>7 DEF Built, heads
  <2>3. \A n \in 1 .. first - 1 : k[1][n] = g[1][n]
    BY <1>8 DEF Built, nodes
  <2> QED
    BY <1>6, <1>7, <1>13, <2>1, <2>2, <2>3 DEF Built, k, len, nodes, new

\* k is g with a list of t from first on, which holds the areas all and, if every one
\* of vs was chosen, has as many nodes as vs more than before.
Grown(k, t, g, first, len, all, vs, chosen) ==
    \E last : /\ Built(k, t, g, first, last, all)
              /\ chosen = 1 .. Len(vs) => last = len + Len(vs)

\* The loop calls do_mmap for some of the areas vs.
Chosen(vs, chosen) == chosen \subseteq 1 .. Len(vs) /\ \A i \in chosen : vs[i] \in Area

\* The loops of load_elf and do_fork build a list of all the areas they go through.
LEMMA MmapAllBuilds ==
    ASSUME NEW h, NEW t \in 1 .. MaxTasks, NEW g, NEW first \in Nat \ {0}, NEW areas,
           NEW vs, Len(vs) \in Nat, NEW chosen, Chosen(vs, chosen),
           NEW all, all = areas \cup {vs[i] : i \in chosen},
           NEW len, Built(h, t, g, first, len, areas)
    PROVE  Grown(MmapAll(h, t, vs, chosen), t, g, first, len, all, vs, chosen)
<1>0. chosen \in SUBSET (1 .. Len(vs)) /\ \A i \in chosen : vs[i] \in Area
  BY DEF Chosen
<1>1. PICK f : MmapAll(h, t, vs, chosen) = f[Len(vs)] /\ Loop(f, h, t, vs, chosen)
  BY MmapAllLoop
<1> DEFINE m == Len(vs)
           Upto(i) == areas \cup {vs[j] : j \in {l \in chosen : l <= i}}
<1> DEFINE Good(i) == \E last : /\ Built(f[i], t, g, first, last, Upto(i))
                                /\ chosen = 1 .. m => last = len + i
           T == {i \in 0 .. m : ~ Good(i)}
<1>2. T = {}
  <2> SUFFICES ASSUME T # {} PROVE FALSE
    OBVIOUS
  <2>1. PICK i \in T : \A j \in T : i <= j
    <3>1. T \subseteq Nat
      OBVIOUS
    <3> HIDE DEF T
    <3> QED
      BY <3>1, LeastElement
  <2>2. len \in Nat
    BY DEF Built
  <2>3. CASE i = 0
    <3>1. Upto(0) = areas
      BY <1>0
    <3> HIDE DEF Upto
    <3>2. Good(0)
      BY <1>1, <2>2, <3>1 DEF Loop
    <3> QED
      BY <2>1, <2>3, <3>2
  <2>4. CASE i > 0
    <3>1. i \in 1 .. m /\ i - 1 \in 0 .. m /\ i - 1 \notin T
      <4>1. i \in 0 .. m
        BY <2>1
      <4> HIDE DEF T, Good
      <4> QED
        BY <2>1, <2>4, <4>1
    <3>2. Good(i - 1)
      BY <3>1
    <3>3. CASE i \in chosen
      <4>1. f[i] = do_mmap(f[i - 1], t, vs[i]) /\ vs[i] \in Area
        BY <1>0, <1>1, <3>1, <3>3 DEF Loop
      <4>2. Upto(i) = Upto(i - 1) \cup {vs[i]}
        BY <1>0, <3>1, <3>3
      <4> HIDE DEF Upto
      <4>3. PICK last : /\ Built(f[i - 1], t, g, first, last, Upto(i - 1))
                        /\ chosen = 1 .. m => last = len + (i - 1)
        BY <3>2
      <4>4. last \in Nat
        BY <4>3 DEF Built
      <4>5. Built(f[i], t, g, first, last + 1, Upto(i))
        <5> DEFINE k == f[i - 1]
                   v == vs[i]
                   A == Upto(i - 1)
                   B == Upto(i)
                   next == last + 1
        <5>1. Built(k, t, g, first, last, A) /\ v \in Area /\ B = A \cup {v} /\ next = last + 1
          BY <4>1, <4>2, <4>3
        <5> HIDE DEF k, v, A, B, next
        <5>2. Built(do_mmap(k, t, v), t, g, first, next, B)
          BY <5>1, BuiltStep
        <5> QED
          BY <4>1, <5>2 DEF k, v, B, next
      <4>6. chosen = 1 .. m => last + 1 = len + i
        BY <2>2, <3>1, <4>3, <4>4, SMTT(30)
      <4>7. Good(i)
        BY <4>5, <4>6
      <4> QED
        BY <2>1, <4>7
    <3>4. CASE i \notin chosen
      <4>1. f[i] = f[i - 1] /\ chosen # 1 .. m
        BY <1>1, <3>1, <3>4 DEF Loop
      <4>2. Upto(i) = Upto(i - 1)
        BY <1>0, <3>1, <3>4
      <4> HIDE DEF Upto
      <4>3. Good(i)
        BY <3>2, <4>1, <4>2
      <4> QED
        BY <2>1, <4>3
    <3> QED
      BY <3>3, <3>4
  <2> QED
    BY <2>1, <2>3, <2>4
<1>3. m \in 0 .. m
  OBVIOUS
<1>4. Good(m)
  BY <1>2, <1>3
<1>5. Upto(m) = all
  BY <1>0
<1> HIDE DEF Upto
<1> QED
  BY <1>1, <1>4, <1>5 DEF Grown

-----------------------------------------------------------------------------

\* A node is linked to older ones, as do_mmap links them.
Older(nodes) == \A n \in DOMAIN nodes : nodes[n].vm_next < n

\* The nodes last, last - 1, ...
Down(last, len) == [i \in 1 .. len |-> last - i + 1]

\* f[n] is the walk along vm_next from node n on, for the first m nodes.
Walks(f, m, nodes) ==
    f = [n \in 0 .. m |-> IF n = 0 THEN <<>> ELSE <<n>> \o f[nodes[n].vm_next]]

\* The walk of find_vma comes to an end from every node, because it goes to older ones.
LEMMA WalkFunction ==
    ASSUME NEW nodes \in Seq(Vma), Older(nodes)
    PROVE  From(nodes) = [n \in 0 .. Len(nodes) |->
                             IF n = 0 THEN <<>> ELSE <<n>> \o From(nodes)[nodes[n].vm_next]]
<1> DEFINE T == {n \in 0 .. Len(nodes) : ~ \E f : Walks(f, n, nodes)}
<1>1. \A n \in 1 .. Len(nodes) : nodes[n].vm_next \in 0 .. n - 1
  <2> SUFFICES ASSUME NEW n \in 1 .. Len(nodes) PROVE nodes[n].vm_next \in 0 .. n - 1
    OBVIOUS
  <2>1. nodes[n] \in Vma /\ n \in Nat /\ nodes[n].vm_next < n
    BY DEF Older
  <2>2. nodes[n].vm_next \in Nat
    BY <2>1 DEF Vma
  <2> QED
    BY <2>1, <2>2
<1>2. ASSUME T # {} PROVE FALSE
  <2>1. PICK n \in T : \A k \in T : n <= k
    <3>1. T \subseteq Nat
      OBVIOUS
    <3> HIDE DEF T
    <3> QED
      BY <1>2, <3>1, LeastElement
  <2>2. CASE n = 0
    <3>1. Walks([k \in 0 .. 0 |-> <<>>], 0, nodes)
      BY DEF Walks
    <3> QED
      BY <2>1, <2>2, <3>1
  <2>3. CASE n > 0
    <3>1. n \in 1 .. Len(nodes) /\ n - 1 \in 0 .. Len(nodes) /\ n - 1 \notin T
      BY <2>1, <2>3
    <3>2. PICK f : Walks(f, n - 1, nodes)
      BY <3>1
    <3> DEFINE g == [k \in 0 .. n |-> IF k = n THEN <<n>> \o f[nodes[n].vm_next] ELSE f[k]]
    <3>3. \A k \in 0 .. n - 1 :
             f[k] = IF k = 0 THEN <<>> ELSE <<k>> \o f[nodes[k].vm_next]
      BY <3>2 DEF Walks
    <3>4. \A k \in 0 .. n - 1 : g[k] = f[k]
      BY <3>1
    <3>5. g[n] = <<n>> \o f[nodes[n].vm_next]
      BY <3>1
    <3>6. g = [k \in 0 .. n |-> g[k]]
      OBVIOUS
    <3> HIDE DEF g
    <3>7. ASSUME NEW k \in 0 .. n
          PROVE  g[k] = IF k = 0 THEN <<>> ELSE <<k>> \o g[nodes[k].vm_next]
      <4>1. CASE k = n
        <5>1. g[nodes[n].vm_next] = f[nodes[n].vm_next]
          BY <1>1, <3>1, <3>4
        <5>2. k # 0
          BY <2>3, <4>1
        <5> QED
          BY <3>5, <4>1, <5>1, <5>2, Zenon
      <4>2. CASE k # n
        <5>1. k \in 0 .. n - 1
          BY <3>1, <4>2
        <5>2. k # 0 => nodes[k].vm_next \in 0 .. n - 1
          <6> SUFFICES ASSUME k # 0 PROVE nodes[k].vm_next \in 0 .. n - 1
            OBVIOUS
          <6>1. k \in 1 .. Len(nodes) /\ nodes[k].vm_next \in 0 .. k - 1
            BY <1>1, <3>1, <5>1
          <6> QED
            BY <3>1, <5>1, <6>1
        <5> QED
          BY <3>3, <3>4, <5>1, <5>2
      <4> QED
        BY <4>1, <4>2
    <3>8. Walks(g, n, nodes)
      BY <3>6, <3>7 DEF Walks
    <3> QED
      BY <2>1, <3>8
  <2> QED
    BY <2>1, <2>2, <2>3
<1>3. \E f : Walks(f, Len(nodes), nodes)
  <2>1. Len(nodes) \in 0 .. Len(nodes)
    OBVIOUS
  <2> QED
    BY <1>2, <2>1
<1> DEFINE walk == CHOOSE f : Walks(f, Len(nodes), nodes)
<1>4. Walks(walk, Len(nodes), nodes)
  BY <1>3
<1>5. From(nodes) = walk
  BY Zenon DEF From, Walks
<1> HIDE DEF walk
<1> QED
  BY <1>4, <1>5 DEF Walks

\* The walk along a list visits its nodes, the last one first.
LEMMA ChainList ==
    ASSUME NEW nodes \in Seq(Vma), Older(nodes),
           NEW t, NEW first \in Nat \ {0}, NEW last \in Nat, first <= last, NEW len,
           len = last - first + 1, last <= Len(nodes), NEW areas,
           Chain(nodes, t, first, last, areas)
    PROVE  From(nodes)[last] = Down(last, len)
<1> DEFINE walk == From(nodes)
           down(n) == [i \in 1 .. n - first + 1 |-> n - i + 1]
           T == {n \in first .. last : walk[n] # down(n)}
<1>0. last \in 1 .. Len(nodes)
  OBVIOUS
<1>1. \A n \in 1 .. Len(nodes) : walk[n] = <<n>> \o walk[nodes[n].vm_next]
  BY WalkFunction
<1>2. walk[0] = <<>>
  <2>1. 0 \in 0 .. Len(nodes)
    OBVIOUS
  <2>2. walk = [n \in 0 .. Len(nodes) |-> IF n = 0 THEN <<>> ELSE <<n>> \o walk[nodes[n].vm_next]]
    BY WalkFunction
  <2> HIDE DEF walk
  <2> QED
    BY <2>1, <2>2
<1>3. \A n \in first .. last : nodes[n].vm_next = IF n = first THEN 0 ELSE n - 1
  BY DEF Chain
<1>4. \A n \in first .. last : down(n) \in Seq(Nat) /\ Len(down(n)) = n - first + 1
  <2> SUFFICES ASSUME NEW n \in first .. last
               PROVE  down(n) \in Seq(Nat) /\ Len(down(n)) = n - first + 1
    OBVIOUS
  <2>1. n - first + 1 \in Nat /\ \A i \in 1 .. n - first + 1 : down(n)[i] \in Nat
    OBVIOUS
  <2>2. down(n) = [i \in 1 .. n - first + 1 |-> down(n)[i]]
    OBVIOUS
  <2> HIDE DEF down
  <2> QED
    BY <2>1, <2>2, SequenceOf
<1> HIDE DEF walk
<1>5. ASSUME T # {} PROVE FALSE
  <2>1. PICK n \in T : \A k \in T : n <= k
    <3>1. T \subseteq Nat
      OBVIOUS
    <3> HIDE DEF T
    <3> QED
      BY <1>5, <3>1, LeastElement
  <2>2. n \in 1 .. Len(nodes) /\ n \in first .. last
    BY <1>0
  <2>3. CASE n = first
    <3>1. walk[n] = <<n>> \o <<>>
      BY <1>1, <1>2, <1>3, <2>2, <2>3
    <3>2. <<n>> \o <<>> = <<n>>
      BY <2>2
    <3>3. down(n) = <<n>>
      BY <1>4, <2>2, <2>3
    <3> QED
      BY <2>1, <3>1, <3>2, <3>3
  <2>4. CASE n # first
    <3>1. n - 1 \in first .. last /\ n - 1 \notin T
      BY <2>1, <2>2, <2>4
    <3>2. walk[n] = <<n>> \o down(n - 1)
      BY <1>1, <1>3, <2>2, <2>4, <3>1
    <3>3. down(n - 1) \in Seq(Nat) /\ Len(down(n - 1)) = n - first
      BY <1>4, <2>2, <3>1
    <3>4. <<n>> \in Seq(Nat) /\ Len(<<n>>) = 1 /\ <<n>>[1] = n
      BY <2>2
    <3> DEFINE s == <<n>> \o down(n - 1)
    <3>5. /\ s \in Seq(Nat) /\ Len(s) = n - first + 1
          /\ \A i \in 1 .. n - first + 1 :
                s[i] = IF i <= 1 THEN <<n>>[i] ELSE down(n - 1)[i - 1]
      <4> DEFINE d == down(n - 1)
                one == <<n>>
      <4>1. d \in Seq(Nat) /\ Len(d) = n - first /\ one \in Seq(Nat) /\ Len(one) = 1
        BY <3>3, <3>4
      <4>2. s = one \o d
        OBVIOUS
      <4> HIDE DEF d, one, s
      <4>3. /\ s \in Seq(Nat) /\ Len(s) = 1 + (n - first)
            /\ \A i \in 1 .. 1 + (n - first) : s[i] = IF i <= 1 THEN one[i] ELSE d[i - 1]
        <5>1. /\ one \o d \in Seq(Nat) /\ Len(one \o d) = Len(one) + Len(d)
              /\ \A i \in 1 .. Len(one) + Len(d) :
                    (one \o d)[i] = IF i <= Len(one) THEN one[i] ELSE d[i - Len(one)]
          BY ONLY <4>1, ConcatProperties, ZenonT(40)
        <5> QED
          BY <4>1, <4>2, <5>1
      <4>4. 1 + (n - first) = n - first + 1
        BY <2>2
      <4> QED
        BY <4>3, <4>4 DEF d, one
    <3>6. \A i \in 1 .. n - first + 1 : s[i] = n - i + 1
      <4> SUFFICES ASSUME NEW i \in 1 .. n - first + 1 PROVE s[i] = n - i + 1
        OBVIOUS
      <4>1. CASE i = 1
        BY <2>2, <3>4, <3>5, <4>1
      <4>2. CASE i # 1
        <5>1. i - 1 \in 1 .. (n - 1) - first + 1
          BY <2>2, <4>2
        <5>2. down(n - 1)[i - 1] = (n - 1) - (i - 1) + 1
          BY <5>1
        <5> HIDE DEF s, down
        <5>3. s[i] = down(n - 1)[i - 1]
          BY <2>2, <3>5, <4>2
        <5> QED
          BY <2>2, <5>2, <5>3
      <4> QED
        BY <4>1, <4>2
    <3>7. \A i \in 1 .. n - first + 1 : down(n)[i] = n - i + 1
      OBVIOUS
    <3>8. s = down(n)
      <4> DEFINE e == down(n)
      <4>1. e \in Seq(Nat) /\ Len(e) = n - first + 1
        BY <1>4, <2>2
      <4>2. \A i \in 1 .. n - first + 1 : e[i] = n - i + 1
        BY <3>7
      <4> HIDE DEF s, e
      <4>3. s = e
        BY <3>5, <3>6, <4>1, <4>2, SeqEqual, SMTT(30)
      <4> QED
        BY <4>3 DEF e
    <3> QED
      BY <2>1, <3>2, <3>8
  <2> QED
    BY <2>3, <2>4
<1>6. last \in first .. last
  OBVIOUS
<1> QED
  BY <1>5, <1>6 DEF walk, Down

-----------------------------------------------------------------------------

\* What load_elf passes to do_mmap are areas below the stack, with bytes in the image.
LEMMA ImageFacts ==
    ASSUME TypeOK
    PROVE  /\ image \in Seq(Phdr)
           /\ \A ph \in Loads : /\ ph \in Phdr /\ Segment(ph) \in Area
                                /\ ph.p_vaddr + ph.p_memsz <= Stack.addr
                                /\ ph.p_offset + ph.p_memsz <= ImageSize
           /\ Stack \in Area
           /\ ImageAreas \subseteq Area
<1>1. image \in Seq(Phdr) /\ image \in Layouts
  BY SegmentsAssumption DEF TypeOK
<1>2. PageSize \in Nat /\ UserEnd \in Nat /\ UserEnd - PageSize \in Nat
  BY SegmentsAssumption, StackBelow
<1>3. Stack \in Area
  BY <1>2 DEF Stack, Area, Perms
<1>4. ASSUME NEW ph \in Loads
      PROVE  /\ ph \in Phdr /\ Segment(ph) \in Area
             /\ ph.p_vaddr + ph.p_memsz <= Stack.addr
             /\ ph.p_offset + ph.p_memsz <= ImageSize
  <2>1. PICK i \in DOMAIN image : ph = image[i] /\ image[i].p_type = "PT_LOAD"
    BY DEF Loads
  <2>2. ph \in Phdr
    BY <1>1, <2>1
  <2>3. /\ ph.p_vaddr + ph.p_memsz <= UserEnd - PageSize
        /\ ph.p_offset + ph.p_memsz <= ImageSize
    BY <1>1, <2>1, SegmentsAssumption
  <2> QED
    BY <2>2, <2>3 DEF Segment, Area, Phdr, Stack
<1> QED
  BY <1>1, <1>3, <1>4 DEF ImageAreas

\* If no page belongs to two segments, no page belongs to two areas of the image.
LEMMA Apart ==
    ASSUME TypeOK, PagesApart, NEW v \in ImageAreas, NEW w \in ImageAreas,
           NEW a \in Addrs, NEW b \in Addrs, PageOf(a) = PageOf(b), Within(v, a), Within(w, b)
    PROVE  v = w
<1>1. RoundDown(a) = RoundDown(b) /\ a \in Nat /\ b \in Nat
  BY DEF PageOf, RoundDown, Addrs
<1>2. \A c \in Addrs, ph \in Loads : Within(Segment(ph), c) <=> Holds(ph, c)
  BY DEF Within, Segment, Holds
<1>3. \A c \in Addrs, ph \in Loads : Holds(ph, c) => c < Stack.addr
  <2> SUFFICES ASSUME NEW c \in Addrs, NEW ph \in Loads, Holds(ph, c) PROVE c < Stack.addr
    OBVIOUS
  <2>1. ph \in Phdr /\ ph.p_vaddr + ph.p_memsz <= Stack.addr
    BY ImageFacts
  <2>2. Stack.addr \in Int /\ c \in Int
    BY SegmentsAssumption DEF Stack, Addrs
  <2> QED
    BY <2>1, <2>2 DEF Holds, Phdr
<1>4. \A c \in Addrs : Within(Stack, c) => c >= Stack.addr
  BY SegmentsAssumption DEF Within, Stack, Addrs
<1>5. \A c \in Addrs : /\ c >= Stack.addr => RoundDown(c) = Stack.addr
                       /\ c < Stack.addr => RoundDown(c) < Stack.addr
  BY PageFacts
<1>6. Stack.addr \in Int
  BY SegmentsAssumption DEF Stack
<1>7. CASE v = Stack
  <2>1. RoundDown(a) = Stack.addr
    BY <1>4, <1>5, <1>7
  <2>2. ~ (b < Stack.addr)
    <3>1. RoundDown(b) = Stack.addr
      BY <1>1, <2>1
    <3>2. b < Stack.addr => RoundDown(b) < Stack.addr
      BY <1>5
    <3> QED
      BY <1>6, <3>1, <3>2
  <2> QED
    BY <1>2, <1>3, <1>7, <2>2 DEF ImageAreas
<1>8. CASE w = Stack
  <2>1. RoundDown(b) = Stack.addr
    BY <1>4, <1>5, <1>8
  <2>2. ~ (a < Stack.addr)
    BY <1>1, <1>5, <1>6, <2>1
  <2> QED
    BY <1>2, <1>3, <1>8, <2>2 DEF ImageAreas
<1>9. CASE v # Stack /\ w # Stack
  <2>1. PICK f \in Loads : v = Segment(f)
    BY <1>9 DEF ImageAreas
  <2>2. PICK g \in Loads : w = Segment(g)
    BY <1>9 DEF ImageAreas
  <2>3. Holds(f, a) /\ Holds(g, b)
    BY <1>2, <2>1, <2>2
  <2>4. f = g
    BY <2>3 DEF PagesApart
  <2> QED
    BY <2>1, <2>2, <2>4
<1> QED
  BY <1>7, <1>8, <1>9

\* Every task has the list that Linked says.
LEMMA ListFacts ==
    ASSUME TypeOK, Linked, NEW t \in Tasks
    PROVE  /\ t \in 1 .. MaxTasks /\ mmap[1] \in Nat \ {0} /\ mmap[t] \in mmap[1] .. Len(node)
           /\ List(t) = Down(mmap[t], mmap[1])
<1>1. t \in 1 .. MaxTasks /\ 1 \in 1 .. MaxTasks
  BY SegmentsAssumption DEF TypeOK, Tasks
<1>2. Len(node) \in Nat /\ DOMAIN node = 1 .. Len(node) /\ node \in Seq(Vma)
  BY DEF TypeOK
<1>3. mmap[1] \in 0 .. Len(node) /\ mmap[t] \in 0 .. Len(node)
  BY <1>1 DEF TypeOK
<1>4. /\ mmap[1] \in Nat \ {0} /\ mmap[t] \in mmap[1] .. Len(node)
      /\ Chain(node, t, mmap[t] - mmap[1] + 1, mmap[t], ImageAreas)
  BY <1>2, <1>3 DEF Linked
<1>5. Older(node)
  BY DEF Linked, Older
<1> DEFINE first == mmap[t] - mmap[1] + 1
           last  == mmap[t]
           len   == mmap[1]
<1>6. /\ first \in Nat \ {0} /\ last \in Nat /\ first <= last /\ len = last - first + 1
      /\ last <= Len(node) /\ Chain(node, t, first, last, ImageAreas)
  BY <1>2, <1>4
<1>7. From(node)[last] = Down(last, len)
  <2> HIDE DEF first, last, len
  <2> QED
    BY <1>2, <1>5, <1>6, ChainList
<1> QED
  BY <1>1, <1>4, <1>7 DEF List

\* find_vma returns an area that holds the address if there is one, and NULL if not.
LEMMA FindVma ==
    ASSUME TypeOK, Linked, NEW t \in Tasks, NEW a \in Addrs
    PROVE  /\ find_vma(t, a) = 0 => \A v \in ImageAreas : ~ Within(v, a)
           /\ find_vma(t, a) # 0 => /\ find_vma(t, a) \in 1 .. Len(node)
                                    /\ AreaOf(node[find_vma(t, a)]) \in ImageAreas
                                    /\ Within(AreaOf(node[find_vma(t, a)]), a)
<1> DEFINE l == List(t)
           k == mmap[1]
           last == mmap[t]
           hits == {i \in DOMAIN l : node[l[i]].vm_start <= a /\ a < node[l[i]].vm_end}
<1>1. /\ t \in 1 .. MaxTasks /\ k \in Nat \ {0} /\ last \in k .. Len(node) /\ Len(node) \in Nat
      /\ l = [i \in 1 .. k |-> last - i + 1]
  BY ListFacts DEF TypeOK, Down
<1>2. find_vma(t, a) = IF hits = {} THEN 0 ELSE l[Min(hits)]
  BY DEF find_vma
<1>3. {AreaOf(node[n]) : n \in last - k + 1 .. last} = ImageAreas
  BY DEF Linked, Chain
<1>4. ASSUME NEW n \in 1 .. Len(node)
      PROVE  Within(AreaOf(node[n]), a) <=> node[n].vm_start <= a /\ a < node[n].vm_end
  <2>1. node[n] \in Vma
    BY DEF TypeOK
  <2>2. a \in Nat
    BY DEF Addrs
  <2> QED
    BY <2>1, <2>2 DEF Within, AreaOf, Vma
<1>5. \A i \in 1 .. k : l[i] \in last - k + 1 .. last /\ l[i] \in 1 .. Len(node) /\ l[i] # 0
  BY <1>1, SMTT(30)
<1>6. \A n \in last - k + 1 .. last : last - n + 1 \in 1 .. k /\ l[last - n + 1] = n
  BY <1>1, SMTT(30)
<1>7. DOMAIN l = 1 .. k
  BY <1>1
<1>8. CASE hits = {}
  <2>1. find_vma(t, a) = 0
    BY <1>2, <1>8
  <2>2. ASSUME NEW v \in ImageAreas, Within(v, a) PROVE FALSE
    <3>1. PICK n \in last - k + 1 .. last : v = AreaOf(node[n])
      BY <1>3
    <3>2. last - n + 1 \in 1 .. k /\ l[last - n + 1] = n
      BY <1>6
    <3>3. n \in 1 .. Len(node)
      BY <1>5, <3>2
    <3>4. node[n].vm_start <= a /\ a < node[n].vm_end
      BY <1>4, <2>2, <3>1, <3>3
    <3>5. last - n + 1 \in hits
      BY <1>7, <3>2, <3>4
    <3> QED
      BY <1>8, <3>5
  <2> QED
    BY <2>1, <2>2
<1>9. CASE hits # {}
  <2>1. Min(hits) \in hits
    <3>1. hits \subseteq Nat
      BY <1>7
    <3> HIDE DEF hits
    <3>2. \E x \in hits : \A y \in hits : x <= y
      BY <1>9, <3>1, LeastElement
    <3> QED
      BY <3>2 DEF Min
  <2> DEFINE m == Min(hits)
  <2>2. m \in 1 .. k /\ node[l[m]].vm_start <= a /\ a < node[l[m]].vm_end
    BY <1>7, <2>1
  <2>3. find_vma(t, a) = l[m]
    BY <1>2, <1>9
  <2> HIDE DEF m, hits, l
  <2>4. l[m] \in last - k + 1 .. last /\ l[m] \in 1 .. Len(node) /\ l[m] # 0
    BY <1>5, <2>2
  <2>5. AreaOf(node[l[m]]) \in ImageAreas
    BY <1>3, <2>4
  <2>6. Within(AreaOf(node[l[m]]), a)
    BY <1>4, <2>2, <2>4
  <2> QED
    BY <2>3, <2>4, <2>5, <2>6
<1> QED
  BY <1>8, <1>9

-----------------------------------------------------------------------------

\* The lists have their types.
NodesTyped ==
    /\ node \in Seq(Vma)
    /\ mmap \in [1 .. MaxTasks -> 0 .. Len(node)]
    /\ \A n \in DOMAIN node : {node[n].vm_next, node[n].vm_prev} \subseteq 0 .. Len(node)

\* The links of new nodes lead to nodes there are.
LEMMA NewNodes ==
    ASSUME NEW h, NEW t \in 1 .. MaxTasks, NEW g, NEW first \in Nat \ {0}, NEW last, NEW areas,
           Built(h, t, g, first, last, areas)
    PROVE  /\ last \in Nat /\ h[1] \in Seq(Vma) /\ last = Len(h[1])
           /\ \A n \in first .. last : /\ h[1][n].vm_next \in 0 .. n - 1
                                       /\ h[1][n].vm_prev \in 0 .. last
<1>1. h[1] \in Seq(Vma) /\ last = Len(h[1]) /\ last \in Nat /\ Chain(h[1], t, first, last, areas)
  BY DEF Built
<1>2. ASSUME NEW n \in first .. last
      PROVE  h[1][n].vm_next \in 0 .. n - 1 /\ h[1][n].vm_prev \in 0 .. last
  <2>1. /\ h[1][n].vm_next = IF n = first THEN 0 ELSE n - 1
        /\ h[1][n].vm_prev = IF n = last THEN 0 ELSE n + 1
    BY <1>1 DEF Chain
  <2> QED
    BY <1>1, <2>1
<1> QED
  BY <1>1, <1>2

\* A list stays what it is if its nodes do.
LEMMA ChainKept ==
    ASSUME NEW nodes, NEW more, NEW t, NEW first, NEW last, NEW areas,
           Chain(nodes, t, first, last, areas), \A n \in first .. last : more[n] = nodes[n]
    PROVE  Chain(more, t, first, last, areas)
<1>1. {AreaOf(more[n]) : n \in first .. last} = {AreaOf(nodes[n]) : n \in first .. last}
  OBVIOUS
<1> QED
  BY <1>1 DEF Chain

\* task_init gives the first task the areas of the image and a stack.
LEMMA InitLists ==
    ASSUME Init
    PROVE  TypeOK /\ Linked
<1> DEFINE g == << <<>>, [t \in 1 .. MaxTasks |-> 0] >>
           vs == [i \in DOMAIN image |-> Segment(image[i])]
           chosen == {i \in DOMAIN image : image[i].p_type = "PT_LOAD"}
           loaded == load_elf(g, 1)
           h == do_mmap(loaded, 1, Stack)
<1>1. /\ image \in Layouts /\ node = h[1] /\ mmap = h[2] /\ nr_tasks = 1 /\ halted = "no"
      /\ pages = [t \in 1 .. MaxTasks |-> [p \in VPages |-> NoPage]]
  BY DEF Init
<1>2. 1 \in 1 .. MaxTasks /\ image \in Seq(Phdr)
  BY <1>1, SegmentsAssumption
<1>3. Built(g, 1, g, 1, 0, {})
  <2>1. g[1] = <<>> /\ g[2] = [t \in 1 .. MaxTasks |-> 0]
    OBVIOUS
  <2> HIDE DEF g
  <2> QED
    BY <1>2, <2>1 DEF Built, Heads, Chain
<1>4. Len(vs) \in Nat /\ chosen \in SUBSET (1 .. Len(vs)) /\ DOMAIN vs = 1 .. Len(vs)
  BY <1>2
<1>5. \A i \in DOMAIN image : Segment(image[i]) \in Area
  <2> SUFFICES ASSUME NEW i \in DOMAIN image PROVE Segment(image[i]) \in Area
    OBVIOUS
  <2>1. image[i] \in Phdr
    BY <1>2
  <2> QED
    BY <2>1 DEF Segment, Area, Phdr
<1>6. \A i \in chosen : vs[i] \in Area
  BY <1>5
<1>7. {vs[i] : i \in chosen} = {Segment(ph) : ph \in Loads}
  BY DEF Loads
<1>8. loaded = MmapAll(g, 1, vs, chosen)
  BY Zenon DEF load_elf
<1>9. PICK last : Built(loaded, 1, g, 1, last, {Segment(ph) : ph \in Loads})
  <2> DEFINE all == {Segment(ph) : ph \in Loads}
  <2>1. all = {} \cup {vs[i] : i \in chosen} /\ Chosen(vs, chosen)
    BY <1>4, <1>6, <1>7 DEF Chosen
  <2> HIDE DEF g, vs, chosen, loaded, all
  <2>2. 1 \in Nat \ {0}
    OBVIOUS
  <2>3. Grown(MmapAll(g, 1, vs, chosen), 1, g, 1, 0, all, vs, chosen)
    BY <1>2, <1>3, <1>4, <2>1, <2>2, MmapAllBuilds
  <2> QED
    BY <1>8, <2>3 DEF Grown, all
<1>11. Stack \in Area
  BY SegmentsAssumption, StackBelow DEF Stack, Area, Perms
<1>12. Built(h, 1, g, 1, last + 1, ImageAreas) /\ last \in Nat
  <2> DEFINE next == last + 1
             A == {Segment(ph) : ph \in Loads}
             B == ImageAreas
  <2>1. B = A \cup {Stack} /\ next = last + 1 /\ 1 \in Nat \ {0} /\ Built(loaded, 1, g, 1, last, A)
    BY <1>9 DEF ImageAreas
  <2>2. last \in Nat
    BY <1>9 DEF Built
  <2> HIDE DEF g, loaded, next, A, B
  <2>3. Built(h, 1, g, 1, next, B)
    BY <1>2, <1>11, <2>1, BuiltStep
  <2> QED
    BY <2>2, <2>3 DEF next, B
<1>13. PICK len : len = last + 1 /\ len \in Nat \ {0}
  BY <1>12
<1> HIDE DEF g, loaded, h, vs, chosen
<1>14. Built(h, 1, g, 1, len, ImageAreas)
  BY <1>12, <1>13
<1>15. /\ len = Len(node) /\ node \in Seq(Vma)
       /\ \A n \in 1 .. len : node[n].vm_next \in 0 .. n - 1 /\ node[n].vm_prev \in 0 .. len
  <2>1. 1 \in Nat \ {0}
    OBVIOUS
  <2> QED
    BY <1>1, <1>2, <1>14, <2>1, NewNodes
<1>16. /\ mmap \in Heads /\ mmap[1] = len
       /\ \A u \in 1 .. MaxTasks : u # 1 => mmap[u] = 0
       /\ Chain(node, 1, 1, len, ImageAreas)
  <2>1. \A u \in 1 .. MaxTasks : g[2][u] = 0
    BY DEF g
  <2> QED
    BY <1>1, <1>13, <1>14, <1>15, <2>1, SMTT(30) DEF Built
<1>17. \A n \in DOMAIN node : node[n].vm_next < n
  BY <1>13, <1>15
<1>18. NodesTyped
  <2>1. mmap \in [1 .. MaxTasks -> 0 .. Len(node)]
    BY <1>2, <1>13, <1>15, <1>16 DEF Heads
  <2>2. \A n \in DOMAIN node : {node[n].vm_next, node[n].vm_prev} \subseteq 0 .. Len(node)
    BY <1>13, <1>15
  <2> QED
    BY <1>15, <2>1, <2>2 DEF NodesTyped
<1>19. Linked
  <2>1. Tasks = {1}
    BY <1>1 DEF Tasks
  <2>2. mmap[1] - mmap[1] + 1 = 1 /\ mmap[1] > 0 /\ mmap[1] <= mmap[1]
    BY <1>13, <1>16
  <2>3. ASSUME NEW t \in Tasks
        PROVE  /\ mmap[1] <= mmap[t]
               /\ Chain(node, t, mmap[t] - mmap[1] + 1, mmap[t], ImageAreas)
    <3>1. t = 1
      BY <2>1
    <3> QED
      BY <1>16, <2>2, <3>1
  <2> QED
    BY <1>17, <2>2, <2>3 DEF Linked
<1> QED
  BY <1>1, <1>2, <1>18, <1>19 DEF TypeOK, NodesTyped

\* do_fork gives the child a list of the areas of its parent and leaves the others alone.
LEMMA ForkLists ==
    ASSUME TypeOK, Linked, NEW t \in Tasks, do_fork(t)
    PROVE  NodesTyped' /\ Linked' /\ nr_tasks' \in 1 .. MaxTasks
<1>1. PICK child \in 1 .. MaxTasks : child = nr_tasks + 1
  BY SegmentsAssumption DEF do_fork, TypeOK
<1> DEFINE g == <<node, [mmap EXCEPT ![child] = ClearedList(t)]>>
           vs == Areas(t)
           h == MmapAll(g, child, vs, DOMAIN vs)
           k == mmap[1]
           last == mmap[t]
           len == Len(node)
           first == len + 1
<1>2. /\ node' = h[1] /\ mmap' = h[2] /\ nr_tasks' = child /\ image' = image
  BY <1>1, Zenon DEF do_fork
<1>3. /\ nr_tasks \in 1 .. MaxTasks /\ nr_tasks \in Nat \ {0} /\ MaxTasks \in Nat
      /\ len \in Nat /\ node \in Seq(Vma) /\ DOMAIN node = 1 .. len
      /\ mmap \in [1 .. MaxTasks -> 0 .. len]
  BY SegmentsAssumption DEF TypeOK
<1>4. /\ t \in 1 .. MaxTasks /\ k \in Nat \ {0} /\ last \in k .. len
      /\ List(t) = [i \in 1 .. k |-> last - i + 1]
  BY ListFacts DEF Down
<1>5. /\ vs = [i \in 1 .. k |-> AreaOf(node[last - i + 1])]
  BY <1>4 DEF Areas
<1>6. Len(vs) = k /\ DOMAIN vs = 1 .. k
  BY <1>4, <1>5
<1>7. {vs[i] : i \in DOMAIN vs} = ImageAreas
  <2>1. {AreaOf(node[n]) : n \in last - k + 1 .. last} = ImageAreas
    BY DEF Linked, Chain
  <2>2. \A i \in 1 .. k : last - i + 1 \in last - k + 1 .. last
    BY <1>4
  <2>3. \A n \in last - k + 1 .. last : last - n + 1 \in 1 .. k /\ last - (last - n + 1) + 1 = n
    BY <1>4, SMTT(30)
  <2>4. \A i \in DOMAIN vs : vs[i] \in ImageAreas
    BY <1>5, <1>6, <2>1, <2>2
  <2>5. \A v \in ImageAreas : \E i \in DOMAIN vs : v = vs[i]
    <3> SUFFICES ASSUME NEW v \in ImageAreas PROVE \E i \in DOMAIN vs : v = vs[i]
      OBVIOUS
    <3>1. PICK n \in last - k + 1 .. last : v = AreaOf(node[n])
      BY <2>1
    <3>2. vs[last - n + 1] = AreaOf(node[n])
      BY <1>5, <2>3
    <3> QED
      BY <1>6, <2>3, <3>1, <3>2
  <2> HIDE DEF vs
  <2> QED
    BY <2>4, <2>5
<1>8. Built(g, child, g, first, len, {})
  <2>1. g[1] = node /\ g[2] = [mmap EXCEPT ![child] = 0]
    BY DEF ClearedList
  <2>2. g[2] \in Heads /\ g[2][child] = 0
    BY <1>3, <2>1 DEF Heads
  <2>3. first - 1 = len
    BY <1>3
  <2>4. \A n \in first .. len : FALSE
    BY <1>3
  <2>5. Chain(node, child, first, len, {})
    BY <2>4 DEF Chain
  <2>6. \A u \in 1 .. MaxTasks : u # child => g[2][u] = g[2][u]
    OBVIOUS
  <2>7. len = Len(g[1]) /\ first - 1 <= len
    BY <1>3, <2>1, <2>3
  <2> HIDE DEF g, first, len
  <2> QED
    BY <1>3, <2>1, <2>2, <2>3, <2>5, <2>7 DEF Built
<1>9. PICK end : end = len + k /\ Built(h, child, g, first, end, ImageAreas)
  <2> DEFINE all == ImageAreas
             chosen == DOMAIN vs
  <2>1. \A v \in ImageAreas : v \in Area
    BY ImageFacts
  <2>2. Chosen(vs, chosen)
    <3> HIDE DEF vs
    <3> QED
      BY <1>6, <1>7, <2>1 DEF Chosen
  <2>3. all = {} \cup {vs[i] : i \in chosen} /\ chosen = 1 .. Len(vs)
    BY <1>6, <1>7
  <2>4. Len(vs) \in Nat /\ first \in Nat \ {0}
    BY <1>3, <1>4, <1>6
  <2>5. h = MmapAll(g, child, vs, chosen)
    OBVIOUS
  <2> HIDE DEF g, vs, h, chosen, first, len, all
  <2>6. Grown(MmapAll(g, child, vs, chosen), child, g, first, len, all, vs, chosen)
    BY <1>1, <1>8, <2>2, <2>3, <2>4, MmapAllBuilds
  <2> QED
    BY <1>6, <2>3, <2>5, <2>6 DEF Grown, all
<1>11. /\ \A n \in 1 .. len : node'[n] = node[n]
       /\ \A u \in 1 .. MaxTasks : u # child => mmap'[u] = mmap[u]
  <2>1. /\ \A n \in 1 .. first - 1 : h[1][n] = g[1][n]
        /\ \A u \in 1 .. MaxTasks : u # child => h[2][u] = g[2][u]
    BY <1>9 DEF Built
  <2>2. g[1] = node /\ \A u \in 1 .. MaxTasks : u # child => g[2][u] = mmap[u]
    BY <1>3
  <2>3. first - 1 = len
    BY <1>3
  <2> HIDE DEF g, h, first, len
  <2> QED
    BY <1>2, <2>1, <2>2, <2>3
<1>12. first \in Nat \ {0} /\ first - 1 = len /\ end = len + k /\ end # len
  BY <1>3, <1>4, <1>9
<1> HIDE DEF g, h, vs, first, len, k, last
<1>13. /\ end \in Nat /\ node' \in Seq(Vma) /\ end = Len(node')
       /\ \A n \in first .. end : node'[n].vm_next \in 0 .. n - 1 /\ node'[n].vm_prev \in 0 .. end
  BY <1>1, <1>2, <1>9, <1>12, NewNodes
<1>14. /\ mmap' \in Heads /\ mmap'[child] = end
       /\ Chain(node', child, first, end, ImageAreas)
  BY <1>2, <1>9, <1>12, <1>13 DEF Built
<1>15. mmap'[1] = k
  <2>1. 1 \in 1 .. MaxTasks /\ 1 # child
    BY <1>1, <1>3
  <2> QED
    BY <1>11, <2>1 DEF k
<1>16. ASSUME NEW n \in 1 .. end
       PROVE  node'[n].vm_next \in 0 .. n - 1 /\ node'[n].vm_prev \in 0 .. end
  <2>1. CASE n \in 1 .. len
    <3>1. node'[n] = node[n] /\ node[n] \in Vma
      BY <1>3, <1>11, <2>1
    <3>2. node[n].vm_next < n /\ {node[n].vm_next, node[n].vm_prev} \subseteq 0 .. len
      BY <1>3, <2>1 DEF Linked, TypeOK, len
    <3> QED
      BY <1>3, <1>4, <1>12, <3>1, <3>2, SMTT(30)
  <2>2. CASE n \notin 1 .. len
    BY <1>3, <1>12, <1>13, <2>2
  <2> QED
    BY <2>1, <2>2
<1>17. NodesTyped'
  <2>1. \A u \in 1 .. MaxTasks : mmap'[u] \in 0 .. end
    <3> SUFFICES ASSUME NEW u \in 1 .. MaxTasks PROVE mmap'[u] \in 0 .. end
      OBVIOUS
    <3>1. CASE u = child
      BY <1>13, <1>14, <3>1
    <3>2. CASE u # child
      <4>1. mmap'[u] \in 0 .. len
        BY <1>3, <1>11, <3>2
      <4> QED
        BY <1>3, <1>4, <1>12, <4>1
    <3> QED
      BY <3>1, <3>2
  <2>2. mmap' \in [1 .. MaxTasks -> 0 .. end]
    BY <1>14, <2>1 DEF Heads
  <2>3. DOMAIN node' = 1 .. end
    BY <1>13
  <2> QED
    BY <1>13, <1>16, <2>2, <2>3 DEF NodesTyped
<1>18. ASSUME NEW u \in 1 .. child
       PROVE  /\ mmap'[1] <= mmap'[u]
              /\ Chain(node', u, mmap'[u] - mmap'[1] + 1, mmap'[u], ImageAreas)
  <2>1. CASE u = child
    <3>1. mmap'[u] = end /\ end - k + 1 = first /\ k <= end
      BY <1>3, <1>4, <1>12, <1>13, <1>14, <2>1
    <3> QED
      BY <1>14, <1>15, <2>1, <3>1
  <2>2. CASE u # child
    <3>1. u \in Tasks /\ u \in 1 .. MaxTasks
      BY <1>1, <1>3, <2>2 DEF Tasks
    <3>2. mmap'[u] = mmap[u]
      BY <1>11, <2>2, <3>1
    <3>3. /\ k <= mmap[u] /\ mmap[u] \in 0 .. len
          /\ Chain(node, u, mmap[u] - k + 1, mmap[u], ImageAreas)
      BY <1>3, <3>1 DEF Linked, k
    <3>4. \A n \in mmap[u] - k + 1 .. mmap[u] : node'[n] = node[n]
      <4>1. \A n \in mmap[u] - k + 1 .. mmap[u] : n \in 1 .. len
        BY <1>3, <1>4, <3>3
      <4> QED
        BY <1>11, <4>1
    <3>5. Chain(node', u, mmap[u] - k + 1, mmap[u], ImageAreas)
      BY <3>3, <3>4, ChainKept
    <3> QED
      BY <1>15, <3>2, <3>3, <3>5
  <2> QED
    BY <2>1, <2>2
<1>19. ImageAreas' = ImageAreas
  BY <1>2 DEF ImageAreas, Loads
<1>20. Linked'
  <2>1. Tasks' = 1 .. child
    BY <1>2 DEF Tasks
  <2>2. \A n \in DOMAIN node' : node'[n].vm_next < n
    <3>1. DOMAIN node' = 1 .. end
      BY <1>13
    <3> QED
      BY <1>13, <1>16, <3>1
  <2> QED
    BY <1>4, <1>15, <1>18, <1>19, <2>1, <2>2 DEF Linked
<1> QED
  BY <1>1, <1>2, <1>17, <1>20

-----------------------------------------------------------------------------

\* What a task sees at a page.
Page == {NoPage} \cup [perm : SUBSET Perms, bytes : [Offsets -> Stored .. ImageSize]]

\* A page at which address a is to be found.
Sound(page, a, loads, areas) ==
    page # NoPage =>
        /\ \A v \in areas : Within(v, a) => v.flags \ {"ANON", "W"} \subseteq page.perm
        /\ \A ph \in loads :
              InFile(ph, a) =>
                  page.bytes[a % PageSize] \in {ph.p_offset + (a - ph.p_vaddr), Stored}

\* PermsOfArea and SegmentsLoaded, page by page.
PagesSound == \A t \in Tasks, a \in Addrs : Sound(pages[t][PageOf(a)], a, Loads, ImageAreas)

\* PagesSound says what the two invariants of the pages say.
LEMMA SoundPages == (PagesApart => PagesSound) <=> PermsOfArea /\ SegmentsLoadedApart
BY DEF PagesSound, Sound, PermsOfArea, SegmentsLoadedApart, SegmentsLoaded, IsMapped, ByteAt

\* A VMA of an image is anonymous and the stack, or has the numbers of a program header.
LEMMA AreaVma ==
    ASSUME TypeOK, NEW v \in Vma, AreaOf(v) \in ImageAreas
    PROVE  /\ "ANON" \in v.vm_flags => AreaOf(v) = Stack
           /\ "ANON" \notin v.vm_flags =>
                 \E ph \in Loads : /\ ph \in Phdr /\ AreaOf(v) = Segment(ph)
                                   /\ v.vm_start = ph.p_vaddr
                                   /\ v.vm_end = ph.p_vaddr + ph.p_memsz
                                   /\ v.vm_pgoff = ph.p_offset
                                   /\ v.vm_flags = ph.p_flags
<1>1. CASE AreaOf(v) = Stack
  <2>1. "ANON" \in v.vm_flags
    <3>1. AreaOf(v).flags = v.vm_flags /\ Stack.flags = {"R", "W", "ANON"}
      BY DEF AreaOf, Stack
    <3> QED
      BY <1>1, <3>1
  <2> QED
    BY <1>1, <2>1
<1>2. CASE AreaOf(v) # Stack
  <2>1. PICK ph \in Loads : AreaOf(v) = Segment(ph)
    BY <1>2 DEF ImageAreas
  <2>2. ph \in Phdr
    BY ImageFacts
  <2>3. /\ v.vm_start = ph.p_vaddr /\ v.vm_end - v.vm_start = ph.p_memsz
        /\ v.vm_pgoff = ph.p_offset /\ v.vm_flags = ph.p_flags
    BY <2>1 DEF AreaOf, Segment
  <2>4. v.vm_end = ph.p_vaddr + ph.p_memsz
    BY <2>2, <2>3 DEF Vma, Phdr
  <2>5. "ANON" \notin v.vm_flags
    BY <2>2, <2>3 DEF Phdr, Perms
  <2> QED
    BY <2>1, <2>2, <2>3, <2>4, <2>5
<1> QED
  BY <1>1, <1>2

\* The copy of do_page_fault puts at every address of the page the byte that belongs
\* there, whatever address of the page was touched: its two maxima and minima cut the
\* segment's part out of the page.
LEMMA FilledByte ==
    ASSUME NEW v \in Vma, NEW b \in Addrs, NEW fill, NEW o \in Offsets,
           NEW c, c = RoundDown(b) + o
    PROVE  Filled(v, b, fill)[o] =
              IF "ANON" \notin v.vm_flags /\ v.vm_start <= c /\ c < v.vm_end
              THEN v.vm_pgoff + (c - v.vm_start) ELSE fill
<1> DEFINE first == Larger(RoundDown(b), v.vm_start)
<1>1. /\ b \in Int /\ RoundDown(b) \in Int /\ RoundUp(b + 1) = RoundDown(b) + PageSize
      /\ PageSize \in Nat
  BY PageFacts, Division, SegmentsAssumption DEF Addrs
<1>2. o \in Nat /\ o < PageSize /\ v.vm_start \in Nat /\ v.vm_end \in Nat /\ v.vm_pgoff \in Nat
  BY <1>1 DEF Offsets, Vma
<1>3. Filled(v, b, fill)[o] = IF "ANON" \notin v.vm_flags /\ first <= c /\ c < CopyEnd(v, b)
                              THEN FileStart(v, b) + (c - first) ELSE fill
  BY DEF Filled
<1>4. first <= c <=> v.vm_start <= c
  BY <1>1, <1>2 DEF Larger
<1>5. c < CopyEnd(v, b) <=> c < v.vm_end
  BY <1>1, <1>2 DEF CopyEnd, Smaller
<1>6. FileStart(v, b) + (c - first) = v.vm_pgoff + (c - v.vm_start)
  <2>1. first \in Int
    BY <1>1, <1>2 DEF Larger
  <2>2. FileStart(v, b) = v.vm_pgoff + (first - v.vm_start)
    BY DEF FileStart
  <2> HIDE DEF first
  <2> QED
    BY <1>1, <1>2, <2>1, <2>2
<1> HIDE DEF first
<1> QED
  BY <1>3, <1>4, <1>5, <1>6

\* do_page_fault copies bytes of the image only.
LEMMA FilledTyped ==
    ASSUME TypeOK, NEW v \in Vma, AreaOf(v) \in ImageAreas, NEW b \in Addrs,
           NEW fill \in {Zero, Stale}
    PROVE  [perm |-> PagePerm(v), bytes |-> Filled(v, b, fill)] \in Page
<1>1. PagePerm(v) \in SUBSET Perms
  BY DEF PagePerm, Vma
<1>2. ImageSize \in Nat /\ fill \in Stored .. ImageSize
  BY SegmentsAssumption DEF Zero, Stale, Stored
<1>3. ASSUME NEW o \in Offsets
      PROVE  Filled(v, b, fill)[o] \in Stored .. ImageSize
  <2> DEFINE c == RoundDown(b) + o
  <2>1. Filled(v, b, fill)[o] = IF "ANON" \notin v.vm_flags /\ v.vm_start <= c /\ c < v.vm_end
                                THEN v.vm_pgoff + (c - v.vm_start) ELSE fill
    BY FilledByte
  <2>2. c \in Int
    <3>1. b \in Int /\ PageSize \in Nat
      BY SegmentsAssumption DEF Addrs
    <3>2. RoundDown(b) \in Int /\ o \in Int
      BY <3>1, Division DEF Offsets
    <3> QED
      BY <3>2
  <2> HIDE DEF c
  <2>3. CASE "ANON" \notin v.vm_flags /\ v.vm_start <= c /\ c < v.vm_end
    <3>1. PICK ph \in Loads : /\ ph \in Phdr /\ v.vm_start = ph.p_vaddr
                              /\ v.vm_end = ph.p_vaddr + ph.p_memsz
                              /\ v.vm_pgoff = ph.p_offset
      BY <2>3, AreaVma
    <3>2. ph.p_offset + ph.p_memsz <= ImageSize
      BY ImageFacts
    <3>3. v.vm_pgoff + (c - v.vm_start) \in Stored .. ImageSize
      BY <1>2, <2>2, <2>3, <3>1, <3>2 DEF Phdr, Stored
    <3> QED
      BY <2>1, <2>3, <3>3
  <2> QED
    BY <1>2, <2>1, <2>3
<1>4. Filled(v, b, fill) \in [Offsets -> Stored .. ImageSize]
  <2> DEFINE f == Filled(v, b, fill)
  <2>1. f = [o \in Offsets |-> f[o]]
    BY DEF Filled
  <2> HIDE DEF f
  <2> QED
    BY <1>3, <2>1 DEF f
<1> QED
  BY <1>1, <1>4 DEF Page

\* A page filled for one area is right for every address on it.
LEMMA FilledSound ==
    ASSUME TypeOK, PagesApart, NEW v \in Vma, AreaOf(v) \in ImageAreas, NEW b \in Addrs,
           Within(AreaOf(v), b), NEW fill, NEW a \in Addrs, PageOf(a) = PageOf(b)
    PROVE  Sound([perm |-> PagePerm(v), bytes |-> Filled(v, b, fill)], a,
               Loads, ImageAreas)
<1>1. \A w \in ImageAreas : Within(w, a) => w = AreaOf(v)
  BY Apart
<1>2. \A w \in ImageAreas : Within(w, a) => w.flags \ {"ANON", "W"} \subseteq PagePerm(v)
  <2>1. AreaOf(v).flags = v.vm_flags
    BY DEF AreaOf
  <2> QED
    BY <1>1, <2>1 DEF PagePerm
<1>3. ASSUME NEW ph \in Loads, InFile(ph, a)
      PROVE  Filled(v, b, fill)[a % PageSize] = ph.p_offset + (a - ph.p_vaddr)
  <2>1. Segment(ph) \in ImageAreas /\ Within(Segment(ph), a)
    BY <1>3 DEF ImageAreas, Within, Segment, InFile, Holds
  <2>2. Segment(ph) = AreaOf(v) /\ ph \in Phdr
    BY <1>1, <2>1, ImageFacts
  <2>3. /\ v.vm_start = ph.p_vaddr /\ v.vm_end - v.vm_start = ph.p_memsz
        /\ v.vm_pgoff = ph.p_offset /\ v.vm_flags = ph.p_flags
    BY <2>2 DEF AreaOf, Segment
  <2>4. "ANON" \notin v.vm_flags /\ v.vm_start <= a /\ a < v.vm_end
    BY <1>3, <2>2, <2>3 DEF Phdr, Perms, InFile, Holds, Vma
  <2>5. (a % PageSize) \in Offsets /\ a = RoundDown(b) + (a % PageSize)
    <3>1. RoundDown(a) = RoundDown(b) /\ a \in Int
      BY DEF PageOf, RoundDown, Addrs
    <3> QED
      BY <3>1, Division
  <2>6. Filled(v, b, fill)[a % PageSize] = v.vm_pgoff + (a - v.vm_start)
    <3> DEFINE o == a % PageSize
    <3>1. o \in Offsets /\ a = RoundDown(b) + o
      BY <2>5
    <3> HIDE DEF o
    <3>2. Filled(v, b, fill)[o] = IF "ANON" \notin v.vm_flags /\ v.vm_start <= a /\ a < v.vm_end
                                  THEN v.vm_pgoff + (a - v.vm_start) ELSE fill
      BY <3>1, FilledByte
    <3> QED
      BY <2>4, <3>2 DEF o
  <2> QED
    BY <2>3, <2>6
<1> QED
  BY <1>2, <1>3 DEF Sound

-----------------------------------------------------------------------------

\* A page that is right for its addresses may be put in the place of another.
LEMMA SetPageKeeps ==
    ASSUME IInv, NEW t \in Tasks, NEW p \in VPages, NEW page \in Page,
           pages' = [pages EXCEPT ![t][p] = page], UNCHANGED <<image, nr_tasks>>,
           PagesApart => \A a \in Addrs : PageOf(a) = p => Sound(page, a, Loads, ImageAreas)
    PROVE  /\ pages' \in [1 .. MaxTasks -> [VPages -> Page]]
           /\ (PermsOfArea /\ SegmentsLoadedApart)'
<1>1. /\ pages \in [1 .. MaxTasks -> [VPages -> Page]] /\ t \in 1 .. MaxTasks
      /\ PagesApart => PagesSound
  BY ListFacts, SoundPages DEF IInv, TypeOK, Page
<1>2. \A u \in 1 .. MaxTasks, q \in VPages :
         pages'[u][q] = IF u = t /\ q = p THEN page ELSE pages[u][q]
  BY <1>1
<1>3. pages' \in [1 .. MaxTasks -> [VPages -> Page]]
  BY <1>1
<1>4. ASSUME PagesApart, NEW u \in Tasks, NEW a \in Addrs
      PROVE  Sound(pages'[u][PageOf(a)], a, Loads, ImageAreas)
  <2>1. /\ u \in 1 .. MaxTasks /\ PageOf(a) \in VPages
        /\ Sound(pages[u][PageOf(a)], a, Loads, ImageAreas)
    BY <1>1, <1>4, ListFacts, PageFacts DEF PagesSound, IInv
  <2> QED
    BY <1>2, <1>4, <2>1
<1>5. Tasks' = Tasks /\ Loads' = Loads /\ ImageAreas' = ImageAreas
  BY DEF Tasks, Loads, ImageAreas
<1>6. (PagesApart => PagesSound)'
  <2>1. PagesApart' => PagesApart
    BY <1>5 DEF PagesApart
  <2>2. PagesApart => \A u \in Tasks', a \in Addrs :
                          Sound(pages'[u][PageOf(a)], a, Loads', ImageAreas')
    BY <1>4, <1>5
  <2> QED
    BY <2>1, <2>2 DEF PagesSound
<1> QED
  BY <1>3, <1>6, SoundPages, PTL

\* A fault that is not an error has an area that permits the access.
LEMMA AreaFound ==
    ASSUME TypeOK, Linked, NEW t \in Tasks, NEW a \in Addrs, NEW access, access \in FlagsAt(t, a),
           NEW v, v = node[find_vma(t, a)]
    PROVE  /\ v \in Vma /\ access \in v.vm_flags
           /\ AreaOf(v) \in ImageAreas /\ Within(AreaOf(v), a)
<1>1. find_vma(t, a) # 0
  BY DEF FlagsAt
<1>2. find_vma(t, a) \in 1 .. Len(node)
  BY <1>1, FindVma
<1>3. v \in Vma
  BY <1>2 DEF TypeOK
<1> QED
  BY <1>1, <1>3, FindVma DEF FlagsAt

\* do_page_fault maps a page that is right for its addresses, and with the bytes of the
\* page that was there if there was one: a page that is mapped can only fault for a
\* store, as its area's other permissions are on it.
LEMMA FaultPage ==
    ASSUME IInv, NEW t \in Tasks, NEW a \in Addrs, NEW access \in Perms,
           do_page_fault(t, a, access)
    PROVE  \E page \in Page :
              /\ pages' = [pages EXCEPT ![t][PageOf(a)] = page]
              /\ PagesApart =>
                    /\ \A b \in Addrs : PageOf(b) = PageOf(a) =>
                                            Sound(page, b, Loads, ImageAreas)
                    /\ pages[t][PageOf(a)] # NoPage => page.bytes = pages[t][PageOf(a)].bytes
<1> DEFINE v == node[find_vma(t, a)]
           p == PageOf(a)
           old == pages[t][p]
<1>1. TypeOK /\ Linked /\ (PagesApart => PagesSound)
  BY SoundPages DEF IInv
<1>2. access \in FlagsAt(t, a) /\ access \notin old.perm
  BY DEF do_page_fault, Faults
<1>3. v \in Vma /\ access \in v.vm_flags /\ AreaOf(v) \in ImageAreas /\ Within(AreaOf(v), a)
  BY <1>1, <1>2, AreaFound
<1>4. p \in VPages /\ t \in 1 .. MaxTasks /\ old \in Page
  BY <1>1, PageFacts, ListFacts DEF TypeOK, Page
<1>5. CASE IsCow(t, a, access)
  <2> DEFINE page == [old EXCEPT !.perm = PagePerm(v)]
  <2>1. pages' = [pages EXCEPT ![t][p] = page]
    BY <1>5 DEF do_page_fault, SetPage
  <2>2. old # NoPage
    BY <1>5 DEF IsCow
  <2>3. PagePerm(v) \in SUBSET Perms
    BY <1>3 DEF PagePerm, Vma
  <2>4. page \in Page /\ page.bytes = old.bytes /\ page.perm = PagePerm(v)
    <3> HIDE DEF old, v
    <3>1. old \in [perm : SUBSET Perms, bytes : [Offsets -> Stored .. ImageSize]]
      BY <1>4, <2>2 DEF Page
    <3> QED
      BY <2>3, <3>1 DEF Page
  <2>5. ASSUME PagesApart, NEW b \in Addrs, PageOf(b) = p
        PROVE  Sound(page, b, Loads, ImageAreas)
    <3>1. \A w \in ImageAreas : Within(w, b) => w = AreaOf(v)
      BY <1>1, <1>3, <2>5, Apart
    <3>2. AreaOf(v).flags \ {"ANON", "W"} \subseteq PagePerm(v)
      BY DEF AreaOf, PagePerm
    <3>3. Sound(old, b, Loads, ImageAreas)
      BY <1>1, <2>5 DEF PagesSound
    <3> HIDE DEF old, page, v
    <3> QED
      BY <2>2, <2>4, <3>1, <3>2, <3>3 DEF Sound
  <2> HIDE DEF page, old, v
  <2> QED
    BY <2>1, <2>4, <2>5 DEF old
<1>6. CASE ~ IsCow(t, a, access)
  <2>1. PICK fill \in {Zero} \cup (IF nr_tasks > 1 THEN {Stale} ELSE {}) :
                 SetPage(t, a, [perm |-> PagePerm(v), bytes |-> Filled(v, a, fill)])
    BY <1>6 DEF do_page_fault
  <2> DEFINE page == [perm |-> PagePerm(v), bytes |-> Filled(v, a, fill)]
  <2>2. fill \in {Zero, Stale} /\ pages' = [pages EXCEPT ![t][p] = page]
    BY <2>1 DEF SetPage
  <2>3. page \in Page
    BY <1>1, <1>3, <2>2, FilledTyped
  <2>4. ASSUME PagesApart, NEW b \in Addrs, PageOf(b) = p
        PROVE  Sound(page, b, Loads, ImageAreas)
    BY <1>1, <1>3, <2>4, FilledSound
  <2>5. ASSUME PagesApart PROVE old = NoPage
    <3> SUFFICES ASSUME old # NoPage PROVE FALSE
      OBVIOUS
    <3>1. Sound(old, a, Loads, ImageAreas)
      BY <1>1, <2>5 DEF PagesSound
    <3>2. AreaOf(v).flags \ {"ANON", "W"} \subseteq old.perm
      BY <1>3, <3>1 DEF Sound
    <3>3. access = "W"
      BY <1>2, <1>3, <3>2 DEF AreaOf, Perms
    <3> QED
      BY <1>2, <1>6, <3>3 DEF IsCow
  <2> HIDE DEF page, old, v
  <2> QED
    BY <2>2, <2>3, <2>4, <2>5 DEF old
<1> QED
  BY <1>5, <1>6

\* A store changes one byte of a page that is mapped.
LEMMA StorePage ==
    ASSUME IInv, NEW t \in Tasks, NEW a \in StoreAddrs, Store(t, a)
    PROVE  /\ a \in Addrs
           /\ \E page \in Page :
                 /\ pages' = [pages EXCEPT ![t][PageOf(a)] = page]
                 /\ page.perm = pages[t][PageOf(a)].perm /\ pages[t][PageOf(a)] # NoPage
                 /\ page.bytes = [pages[t][PageOf(a)].bytes EXCEPT ![a % PageSize] = Stored]
                 /\ pages[t][PageOf(a)].bytes \in [Offsets -> Stored .. ImageSize]
<1> DEFINE p == PageOf(a)
           o == a % PageSize
           old == pages[t][p]
           bytes == [old.bytes EXCEPT ![o] = Stored]
           page == [old EXCEPT !.bytes = bytes]
<1>1. a \in Addrs
  BY SegmentsAssumption DEF Addrs
<1>2. TypeOK /\ Linked
  BY DEF IInv
<1>3. p \in VPages /\ t \in 1 .. MaxTasks /\ old \in Page /\ o \in Offsets
  <2>1. p \in VPages /\ t \in 1 .. MaxTasks
    BY <1>1, <1>2, PageFacts, ListFacts
  <2>2. o \in Offsets
    BY <1>1, Division DEF Addrs
  <2> QED
    BY <1>2, <2>1, <2>2 DEF TypeOK, Page
<1>4. "W" \in old.perm
  BY DEF Store, Faults
<1>5. old \in [perm : SUBSET Perms, bytes : [Offsets -> Stored .. ImageSize]] /\ old # NoPage
  <2> HIDE DEF old
  <2>1. old # NoPage
    BY <1>4 DEF NoPage
  <2> QED
    BY <1>3, <2>1 DEF Page
<1>6. pages' = [pages EXCEPT ![t][p] = page]
  BY DEF Store
<1> HIDE DEF old, p, o
<1>7. bytes \in [Offsets -> Stored .. ImageSize]
  BY <1>3, <1>5, SegmentsAssumption DEF Stored
<1> HIDE DEF bytes
<1>8. page \in Page /\ page.perm = old.perm /\ page.bytes = bytes
  BY <1>5, <1>7 DEF Page
<1> HIDE DEF page
<1> QED
  BY <1>1, <1>5, <1>6, <1>8 DEF old, p, o, bytes

\* A page on which a program stores stays right.
LEMMA StoreSound ==
    ASSUME IInv, NEW t \in Tasks, NEW a \in StoreAddrs, Store(t, a)
    PROVE  \E page \in Page :
              /\ pages' = [pages EXCEPT ![t][PageOf(a)] = page]
              /\ PagesApart => \A b \in Addrs : PageOf(b) = PageOf(a) =>
                                                   Sound(page, b, Loads, ImageAreas)
<1>1. a \in Addrs
  BY StorePage
<1> DEFINE old == pages[t][PageOf(a)]
<1>2. PICK page \in Page :
         /\ pages' = [pages EXCEPT ![t][PageOf(a)] = page]
         /\ page.perm = old.perm /\ old # NoPage
         /\ page.bytes = [old.bytes EXCEPT ![a % PageSize] = Stored]
         /\ old.bytes \in [Offsets -> Stored .. ImageSize]
  BY StorePage
<1>3. ASSUME PagesApart, NEW b \in Addrs, PageOf(b) = PageOf(a)
      PROVE  Sound(page, b, Loads, ImageAreas)
  <2>1. Sound(old, b, Loads, ImageAreas)
    BY <1>3, SoundPages DEF PagesSound, IInv
  <2> DEFINE o == b % PageSize
  <2>2. o \in Offsets
    BY Division DEF Addrs
  <2> HIDE DEF old, o
  <2>3. page.bytes[o] \in {old.bytes[o], Stored}
    BY <1>2, <2>2
  <2> QED
    BY <1>2, <2>1, <2>3 DEF Sound, o
<1> QED
  BY <1>2, <1>3

\* do_fork takes the permission to write from the pages of both tasks and leaves their
\* bytes.
LEMMA ForkPages ==
    ASSUME IInv, NEW t \in Tasks, do_fork(t)
    PROVE  /\ pages' \in [1 .. MaxTasks -> [VPages -> Page]]
           /\ (PermsOfArea /\ SegmentsLoadedApart)'
           /\ \A u \in Tasks, p \in VPages : /\ pages[u][p] # NoPage => pages'[u][p] # NoPage
                                             /\ pages'[u][p].bytes = pages[u][p].bytes
<1>1. PICK child \in 1 .. MaxTasks : child = nr_tasks + 1
  BY SegmentsAssumption DEF do_fork, IInv, TypeOK
<1>2. /\ pages' = [pages EXCEPT ![t] = ReadOnly(t), ![child] = ReadOnly(t)]
      /\ nr_tasks' = child /\ image' = image
  BY <1>1, Zenon DEF do_fork
<1>3. /\ pages \in [1 .. MaxTasks -> [VPages -> Page]] /\ nr_tasks \in 1 .. MaxTasks
      /\ \A u \in Tasks : u \in 1 .. MaxTasks /\ u # child
      /\ PagesApart => PagesSound
  <2>1. \A u \in Tasks : u \in 1 .. MaxTasks /\ u # child
    BY <1>1, SegmentsAssumption DEF IInv, TypeOK, Tasks
  <2> QED
    BY <2>1, SoundPages DEF IInv, TypeOK, Page
<1>4. ASSUME NEW p \in VPages
      PROVE  /\ ReadOnly(t)[p] \in Page /\ ReadOnly(t)[p].bytes = pages[t][p].bytes
             /\ ReadOnly(t)[p].perm = pages[t][p].perm \ {"W"}
             /\ ReadOnly(t)[p] = NoPage <=> pages[t][p] = NoPage
  <2> DEFINE old == pages[t][p]
             new == ReadOnly(t)[p]
  <2>1. old \in Page /\ new = [old EXCEPT !.perm = old.perm \ {"W"}]
    BY <1>3 DEF ReadOnly
  <2> HIDE DEF old, new
  <2>2. CASE old = NoPage
    <3>1. old = [perm |-> {}, bytes |-> <<>>]
      BY <2>2 DEF NoPage
    <3>2. new = [perm |-> {}, bytes |-> <<>>]
      BY <2>1, <3>1
    <3>3. new = old
      BY <3>1, <3>2
    <3>4. old.perm = {}
      BY <3>1
    <3> QED
      BY <2>1, <2>2, <3>3, <3>4 DEF old, new
  <2>3. CASE old # NoPage
    <3>1. old \in [perm : SUBSET Perms, bytes : [Offsets -> Stored .. ImageSize]]
      BY <2>1, <2>3 DEF Page
    <3>2. /\ new \in [perm : SUBSET Perms, bytes : [Offsets -> Stored .. ImageSize]]
          /\ new.bytes = old.bytes /\ new.perm = old.perm \ {"W"}
      BY <2>1, <3>1
    <3>3. new # NoPage
      <4> SUFFICES ASSUME new = NoPage PROVE FALSE
        OBVIOUS
      <4>1. old.bytes = <<>>
        BY <3>2 DEF NoPage
      <4>2. DOMAIN old.bytes = Offsets /\ DOMAIN <<>> = {}
        BY <3>1
      <4>3. 0 \in Offsets
        BY SegmentsAssumption DEF Offsets
      <4> QED
        BY <4>1, <4>2, <4>3
    <3> QED
      BY <2>3, <3>2, <3>3 DEF old, new, Page
  <2> QED
    BY <2>2, <2>3
<1>5. ReadOnly(t) = [p \in VPages |-> ReadOnly(t)[p]]
  BY DEF ReadOnly
<1>6. ReadOnly(t) \in [VPages -> Page]
  BY <1>4, <1>5
<1>7. pages' \in [1 .. MaxTasks -> [VPages -> Page]]
  BY <1>2, <1>3, <1>6
<1>8. \A u \in 1 .. MaxTasks : pages'[u] = IF u = t \/ u = child THEN ReadOnly(t) ELSE pages[u]
  BY <1>2, <1>3
<1>9. ASSUME NEW u \in Tasks, NEW p \in VPages
      PROVE  /\ pages[u][p] # NoPage => pages'[u][p] # NoPage
             /\ pages'[u][p].bytes = pages[u][p].bytes
  BY <1>3, <1>4, <1>8
<1>10. Tasks' = Tasks \cup {child} /\ Loads' = Loads /\ ImageAreas' = ImageAreas
  <2>1. Tasks' = Tasks \cup {child}
    BY <1>1, <1>2, <1>3, SegmentsAssumption DEF Tasks
  <2> QED
    BY <1>2, <2>1 DEF Loads, ImageAreas
<1>11. ASSUME PagesApart, NEW u \in Tasks', NEW a \in Addrs
       PROVE  Sound(pages'[u][PageOf(a)], a, Loads, ImageAreas)
  <2> DEFINE p == PageOf(a)
  <2>1. p \in VPages
    BY PageFacts
  <2>2. CASE u = t \/ u = child
    <3> DEFINE old == pages[t][p]
               new == ReadOnly(t)[p]
    <3>1. pages'[u][p] = new
      BY <1>1, <1>3, <1>8, <2>2
    <3>2. Sound(old, a, Loads, ImageAreas)
      BY <1>3, <1>11 DEF PagesSound
    <3>3. new.bytes = old.bytes /\ new.perm = old.perm \ {"W"} /\ (new = NoPage <=> old = NoPage)
      BY <1>4, <2>1
    <3> HIDE DEF old, new
    <3>4. Sound(new, a, Loads, ImageAreas)
      BY <3>2, <3>3 DEF Sound
    <3> QED
      BY <3>1, <3>4
  <2>3. CASE u # t /\ u # child
    <3>1. u \in Tasks /\ pages'[u] = pages[u]
      BY <1>3, <1>8, <1>10, <2>3
    <3> QED
      BY <1>3, <1>11, <3>1 DEF PagesSound
  <2> QED
    BY <2>2, <2>3
<1>12. (PagesApart => PagesSound)'
  <2>1. PagesApart' => PagesApart
    BY <1>10 DEF PagesApart
  <2>2. PagesApart => \A u \in Tasks', a \in Addrs :
                          Sound(pages'[u][PageOf(a)], a, Loads', ImageAreas')
    BY <1>10, <1>11
  <2> QED
    BY <2>1, <2>2 DEF PagesSound
<1>13. (PermsOfArea /\ SegmentsLoadedApart)'
  BY <1>12, SoundPages, PTL
<1> QED
  BY <1>7, <1>9, <1>13

\* The lists are what they were if no one calls do_mmap.
LEMMA NodesKept ==
    ASSUME TypeOK, Linked, UNCHANGED <<image, node, mmap, nr_tasks>>
    PROVE  NodesTyped' /\ Linked'
<1>1. NodesTyped'
  BY DEF TypeOK, NodesTyped
<1>2. Tasks' = Tasks /\ Loads' = Loads /\ ImageAreas' = ImageAreas
  BY DEF Tasks, Loads, ImageAreas
<1>3. Linked'
  BY <1>2 DEF Linked
<1> QED
  BY <1>1, <1>3

\* At first nothing is mapped.
LEMMA InitPages ==
    ASSUME Init
    PROVE  PermsOfArea /\ SegmentsLoadedApart
<1>1. Tasks = {1} /\ 1 \in 1 .. MaxTasks
  BY SegmentsAssumption DEF Init, Tasks
<1>2. \A t \in Tasks, a \in Addrs : ~ IsMapped(t, a)
  BY <1>1, PageFacts DEF Init, IsMapped
<1> QED
  BY <1>2 DEF PermsOfArea, SegmentsLoadedApart, SegmentsLoaded

\* task_init establishes the invariant.
LEMMA InitInvariant == Init => IInv
BY InitLists, InitPages DEF IInv

\* Every step preserves the invariant.
LEMMA NextInvariant == IInv /\ [Next]_vars => IInv'
<1> SUFFICES ASSUME IInv, [Next]_vars PROVE IInv'
  OBVIOUS
<1>1. TypeOK /\ Linked
  BY DEF IInv
<1>2. /\ image \in Layouts /\ nr_tasks \in 1 .. MaxTasks
      /\ halted \in {"no", "no_vma", "no_permission"}
      /\ pages \in [1 .. MaxTasks -> [VPages -> Page]] /\ PermsOfArea /\ SegmentsLoadedApart
  BY DEF IInv, TypeOK, Page
<1>3. ASSUME NEW t \in Tasks, NEW a \in Addrs, NEW access \in Perms, do_page_fault(t, a, access)
      PROVE  IInv'
  <2>1. UNCHANGED <<image, node, mmap, nr_tasks, halted>>
    BY <1>3, Zenon DEF do_page_fault
  <2>2. NodesTyped' /\ Linked'
    BY <1>1, <2>1, NodesKept
  <2>3. PICK page \in Page :
           /\ pages' = [pages EXCEPT ![t][PageOf(a)] = page]
           /\ PagesApart => \A b \in Addrs : PageOf(b) = PageOf(a) =>
                                                Sound(page, b, Loads, ImageAreas)
    BY <1>3, FaultPage
  <2>4. /\ pages' \in [1 .. MaxTasks -> [VPages -> Page]]
        /\ (PermsOfArea /\ SegmentsLoadedApart)'
    <3> DEFINE p == PageOf(a)
    <3>1. p \in VPages
      BY PageFacts
    <3>2. /\ pages' = [pages EXCEPT ![t][p] = page]
          /\ PagesApart => \A b \in Addrs : PageOf(b) = p => Sound(page, b, Loads, ImageAreas)
      BY <2>3
    <3> HIDE DEF p
    <3> QED
      BY <2>1, <3>1, <3>2, SetPageKeeps
  <2>5. image' \in Layouts /\ nr_tasks' \in 1 .. MaxTasks
        /\ halted' \in {"no", "no_vma", "no_permission"}
    BY <1>2, <2>1
  <2> QED
    BY <2>2, <2>4, <2>5 DEF IInv, TypeOK, NodesTyped, Page
<1>4. ASSUME NEW t \in Tasks, NEW a \in Addrs, NEW access \in Perms, BadAccess(t, a, access)
      PROVE  IInv'
  <2>1. UNCHANGED <<image, node, mmap, pages, nr_tasks>> /\ halted' \in {"no_vma", "no_permission"}
    BY <1>4 DEF BadAccess
  <2>2. TypeOK'
    BY <1>1, <2>1 DEF TypeOK
  <2>3. Linked'
    BY <1>1, <2>1, NodesKept
  <2>4. Tasks' = Tasks /\ Loads' = Loads /\ ImageAreas' = ImageAreas
    BY <2>1 DEF Tasks, Loads, ImageAreas
  <2>5. (PermsOfArea /\ SegmentsLoadedApart)'
    BY <1>2, <2>1, <2>4 DEF PermsOfArea, SegmentsLoadedApart, SegmentsLoaded, PagesApart,
                            IsMapped, ByteAt
  <2> QED
    BY <2>2, <2>3, <2>5 DEF IInv
<1>5. ASSUME NEW t \in Tasks, NEW a \in StoreAddrs, Store(t, a)
      PROVE  IInv'
  <2>1. UNCHANGED <<image, node, mmap, nr_tasks, halted>>
    BY <1>5, Zenon DEF Store
  <2>2. NodesTyped' /\ Linked'
    BY <1>1, <2>1, NodesKept
  <2>3. PICK page \in Page :
           /\ pages' = [pages EXCEPT ![t][PageOf(a)] = page]
           /\ PagesApart => \A b \in Addrs : PageOf(b) = PageOf(a) =>
                                                Sound(page, b, Loads, ImageAreas)
    BY <1>5, StoreSound
  <2>4. /\ pages' \in [1 .. MaxTasks -> [VPages -> Page]]
        /\ (PermsOfArea /\ SegmentsLoadedApart)'
    <3> DEFINE p == PageOf(a)
    <3>1. p \in VPages
      BY <1>5, StorePage, PageFacts
    <3>2. /\ pages' = [pages EXCEPT ![t][p] = page]
          /\ PagesApart => \A b \in Addrs : PageOf(b) = p => Sound(page, b, Loads, ImageAreas)
      BY <2>3
    <3> HIDE DEF p
    <3> QED
      BY <2>1, <3>1, <3>2, SetPageKeeps
  <2>5. image' \in Layouts /\ nr_tasks' \in 1 .. MaxTasks
        /\ halted' \in {"no", "no_vma", "no_permission"}
    BY <1>2, <2>1
  <2> QED
    BY <2>2, <2>4, <2>5 DEF IInv, TypeOK, NodesTyped, Page
<1>6. ASSUME NEW t \in Tasks, do_fork(t) PROVE IInv'
  <2>1. UNCHANGED <<image, halted>>
    BY <1>6, Zenon DEF do_fork
  <2>2. NodesTyped' /\ Linked' /\ nr_tasks' \in 1 .. MaxTasks
    BY <1>1, <1>6, ForkLists
  <2>3. /\ pages' \in [1 .. MaxTasks -> [VPages -> Page]]
        /\ (PermsOfArea /\ SegmentsLoadedApart)'
    BY <1>6, ForkPages
  <2>4. image' \in Layouts /\ halted' \in {"no", "no_vma", "no_permission"}
    BY <1>2, <2>1
  <2> QED
    BY <2>2, <2>3, <2>4 DEF IInv, TypeOK, NodesTyped, Page
<1>7. CASE UNCHANGED vars
  <2>1. UNCHANGED <<image, node, mmap, pages, nr_tasks, halted>>
    BY <1>7 DEF vars
  <2>2. TypeOK'
    BY <1>1, <2>1 DEF TypeOK
  <2>3. Linked'
    BY <1>1, <2>1, NodesKept
  <2>4. Tasks' = Tasks /\ Loads' = Loads /\ ImageAreas' = ImageAreas
    BY <2>1 DEF Tasks, Loads, ImageAreas
  <2>5. (PermsOfArea /\ SegmentsLoadedApart)'
    BY <1>2, <2>1, <2>4 DEF PermsOfArea, SegmentsLoadedApart, SegmentsLoaded, PagesApart,
                            IsMapped, ByteAt
  <2> QED
    BY <2>2, <2>3, <2>5 DEF IInv
<1> QED
  BY <1>3, <1>4, <1>5, <1>6, <1>7, Zenon DEF Next, Halted

\* The lists, the permissions and the bytes of every task are right together: the bytes
\* because find_vma finds the area of the page, and they stay because the permissions
\* make every fault on a mapped page one of copy on write.
THEOREM InductiveInvariant == Spec => []IInv
BY InitInvariant, NextInvariant, PTL DEF Spec

\* do_page_fault puts every byte of a segment in its place, whatever the layout of the
\* image and the order of accesses, and do_fork and copy on write keep it there.
THEOREM SegmentsStayLoaded == Spec => []SegmentsLoadedApart
<1>1. IInv => SegmentsLoadedApart
  BY DEF IInv
<1> QED
  BY InductiveInvariant, <1>1, PTL

-----------------------------------------------------------------------------

\* From the lists of the invariant find_vma gets what the program headers say.
LEMMA FoundAreas == IInv => AreasFound
<1> SUFFICES ASSUME IInv PROVE AreasFound
  OBVIOUS
<1>1. TypeOK /\ Linked
  BY DEF IInv
<1>2. ASSUME NEW t \in Tasks, NEW i \in DOMAIN List(t)
      PROVE  /\ node[List(t)[i]].vm_mm = t
             /\ node[List(t)[i]].vm_prev = IF i = 1 THEN 0 ELSE List(t)[i - 1]
  <2> DEFINE k == mmap[1]
             last == mmap[t]
             l == List(t)
  <2>1. /\ k \in Nat \ {0} /\ last \in Nat /\ k <= last
        /\ l = [j \in 1 .. k |-> last - j + 1]
    BY <1>1, ListFacts DEF TypeOK, Down
  <2>2. Chain(node, t, last - k + 1, last, ImageAreas)
    BY <1>1 DEF Linked
  <2>3. i \in 1 .. k
    BY <1>2, <2>1
  <2> HIDE DEF l, k, last
  <2>4. l[i] = last - i + 1 /\ (i # 1 => l[i - 1] = last - i + 1 + 1)
    <3>1. l[i] = last - i + 1
      BY <2>1, <2>3
    <3>2. ASSUME i # 1 PROVE l[i - 1] = last - i + 1 + 1
      <4>1. i - 1 \in 1 .. k /\ last - (i - 1) + 1 = last - i + 1 + 1
        BY <2>1, <2>3, <3>2
      <4> QED
        BY <2>1, <4>1
    <3> QED
      BY <3>1, <3>2
  <2>5. last - i + 1 \in last - k + 1 .. last /\ (last - i + 1 = last <=> i = 1)
    BY <2>1, <2>3
  <2> QED
    BY <2>2, <2>4, <2>5 DEF Chain, l
<1>3. ASSUME NEW t \in Tasks, NEW a \in Addrs, NEW n, n = find_vma(t, a)
      PROVE  IF a >= Stack.addr THEN n # 0 /\ node[n].vm_flags = Stack.flags
             ELSE IF \E ph \in Loads : Holds(ph, a)
             THEN n # 0 /\ \E ph \in Loads :
                       /\ Holds(ph, a) /\ node[n].vm_flags = ph.p_flags
                       /\ node[n].vm_pgoff - node[n].vm_start = ph.p_offset - ph.p_vaddr
             ELSE n = 0
  <2>1. /\ n = 0 => \A v \in ImageAreas : ~ Within(v, a)
        /\ n # 0 => /\ n \in 1 .. Len(node) /\ AreaOf(node[n]) \in ImageAreas
                    /\ Within(AreaOf(node[n]), a)
    BY <1>1, <1>3, FindVma
  <2>2. a \in Int /\ a < UserEnd /\ UserEnd \in Int /\ PageSize \in Int
    BY SegmentsAssumption DEF Addrs
  <2>3. Within(Stack, a) <=> a >= Stack.addr
    BY <2>2 DEF Within, Stack
  <2>4. \A ph \in Loads : /\ Within(Segment(ph), a) <=> Holds(ph, a)
                          /\ Holds(ph, a) => ~ (a >= Stack.addr)
                          /\ Segment(ph) \in ImageAreas
    <3> SUFFICES ASSUME NEW ph \in Loads
                 PROVE  /\ Within(Segment(ph), a) <=> Holds(ph, a)
                        /\ Holds(ph, a) => ~ (a >= Stack.addr)
                        /\ Segment(ph) \in ImageAreas
      OBVIOUS
    <3>1. ph \in Phdr /\ ph.p_vaddr + ph.p_memsz <= Stack.addr
      BY <1>1, ImageFacts
    <3>2. Holds(ph, a) => ~ (a >= Stack.addr)
      BY <2>2, <3>1 DEF Holds, Stack, Phdr
    <3> QED
      BY <3>2 DEF Within, Segment, Holds, ImageAreas
  <2>5. CASE a >= Stack.addr
    <3>1. n # 0
      BY <2>1, <2>3, <2>5 DEF ImageAreas
    <3>2. AreaOf(node[n]) = Stack
      BY <2>1, <2>4, <2>5, <3>1 DEF ImageAreas
    <3> QED
      BY <2>5, <3>1, <3>2 DEF AreaOf
  <2>6. CASE ~ (a >= Stack.addr)
    <3>1. CASE n = 0
      BY <2>1, <2>4, <2>6, <3>1
    <3>2. CASE n # 0
      <4>1. PICK ph \in Loads : AreaOf(node[n]) = Segment(ph)
        BY <2>1, <2>3, <2>6, <3>2 DEF ImageAreas
      <4>2. Holds(ph, a)
        BY <2>1, <2>4, <3>2, <4>1
      <4>3. /\ node[n].vm_flags = ph.p_flags
            /\ node[n].vm_pgoff = ph.p_offset /\ node[n].vm_start = ph.p_vaddr
        BY <4>1 DEF AreaOf, Segment
      <4> QED
        BY <2>6, <3>2, <4>2, <4>3
    <3> QED
      BY <3>1, <3>2
  <2> QED
    BY <2>5, <2>6
<1> QED
  BY <1>2, <1>3 DEF AreasFound

\* do_mmap links the lists of VMAs so that every task finds the image's areas in them,
\* after any number of calls of do_fork.
THEOREM ListsCorrect == Spec => []ListsSound
<1>1. IInv => ListsSound
  BY FoundAreas DEF ListsSound
<1> QED
  BY InductiveInvariant, <1>1, PTL

-----------------------------------------------------------------------------

\* What one task stored at one address is still there after the step.
StoreKept(t, a) ==
    IsMapped(t, a) /\ ByteAt(t, a) = Stored => pages'[t][PageOf(a)].bytes[a % PageSize] = Stored

\* What a program stored on the page old is on the page new.
StoresOn(old, new) ==
    \A o \in Offsets : old # NoPage /\ old.bytes[o] = Stored => new.bytes[o] = Stored

\* A page that holds what was stored on the one it replaces takes back no store.
LEMMA SetPageStores ==
    ASSUME TypeOK, NEW t \in 1 .. MaxTasks, NEW p \in VPages, NEW page,
           pages' = [pages EXCEPT ![t][p] = page],
           StoresOn(pages[t][p], page), NEW u \in 1 .. MaxTasks, NEW a \in Addrs
    PROVE  StoreKept(u, a)
<1>1. pages \in [1 .. MaxTasks -> [VPages -> Page]]
  BY DEF TypeOK, Page
<1>2. PageOf(a) \in VPages /\ (a % PageSize) \in Offsets
  BY PageFacts, Division DEF Addrs
<1>3. pages'[u][PageOf(a)] = IF u = t /\ PageOf(a) = p THEN page ELSE pages[u][PageOf(a)]
  BY <1>1, <1>2
<1> QED
  BY <1>2, <1>3 DEF StoreKept, StoresOn, IsMapped, ByteAt

\* No step takes back a store.
LEMMA NextKeepsStores ==
    ASSUME IInv, [Next]_vars, PagesApart, NEW u \in Tasks, NEW b \in Addrs
    PROVE  StoreKept(u, b)
<1>1. TypeOK /\ Linked
  BY DEF IInv
<1>2. u \in 1 .. MaxTasks /\ PageOf(b) \in VPages /\ (b % PageSize) \in Offsets
  BY <1>1, ListFacts, PageFacts, Division DEF Addrs
<1>3. ASSUME NEW t \in Tasks, NEW a \in Addrs, NEW access \in Perms, do_page_fault(t, a, access)
      PROVE  StoreKept(u, b)
  <2>1. PICK page \in Page :
           /\ pages' = [pages EXCEPT ![t][PageOf(a)] = page]
           /\ pages[t][PageOf(a)] # NoPage => page.bytes = pages[t][PageOf(a)].bytes
    BY <1>3, FaultPage
  <2> DEFINE p == PageOf(a)
  <2>2. p \in VPages /\ t \in 1 .. MaxTasks
    BY <1>1, PageFacts, ListFacts
  <2>3. pages' = [pages EXCEPT ![t][p] = page] /\ StoresOn(pages[t][p], page)
    BY <2>1 DEF StoresOn
  <2> HIDE DEF p
  <2> QED
    BY <1>1, <1>2, <2>2, <2>3, SetPageStores
<1>4. ASSUME NEW t \in Tasks, NEW a \in StoreAddrs, Store(t, a)
      PROVE  StoreKept(u, b)
  <2> DEFINE p == PageOf(a)
             old == pages[t][p]
  <2>1. PICK page \in Page :
           /\ pages' = [pages EXCEPT ![t][p] = page]
           /\ page.bytes = [old.bytes EXCEPT ![a % PageSize] = Stored]
           /\ old.bytes \in [Offsets -> Stored .. ImageSize]
    BY <1>4, StorePage
  <2>2. p \in VPages /\ t \in 1 .. MaxTasks
    BY <1>1, <1>4, StorePage, PageFacts, ListFacts
  <2>3. StoresOn(pages[t][p], page)
    <3>1. StoresOn(old, page)
      <4> HIDE DEF old
      <4> QED
        BY <2>1 DEF StoresOn
    <3> QED
      BY <3>1
  <2> HIDE DEF p
  <2> QED
    BY <1>1, <1>2, <2>1, <2>2, <2>3, SetPageStores
<1>5. ASSUME NEW t \in Tasks, do_fork(t) PROVE StoreKept(u, b)
  BY <1>2, <1>5, ForkPages DEF StoreKept, ByteAt
<1>6. CASE pages' = pages
  BY <1>6 DEF StoreKept, ByteAt
<1>7. ASSUME NEW t \in Tasks, NEW a \in Addrs, NEW access \in Perms, BadAccess(t, a, access)
      PROVE  pages' = pages
  BY <1>7, Zenon DEF BadAccess
<1>8. CASE UNCHANGED vars
  BY <1>6, <1>8 DEF vars
<1> QED
  BY <1>3, <1>4, <1>5, <1>6, <1>7, <1>8, Zenon DEF Next, Halted

\* do_page_fault never fills a page again on which a program has stored.
THEOREM StoresStay == Spec => StoresKept
<1>1. IInv /\ [Next]_vars =>
        [PagesApart => \A t \in Tasks, a \in Addrs : IsMapped(t, a) /\ ByteAt(t, a) = Stored =>
                           pages'[t][PageOf(a)].bytes[a % PageSize] = Stored]_vars
  BY NextKeepsStores DEF StoreKept
<1> QED
  BY InductiveInvariant, <1>1, PTL DEF Spec, StoresKept

-----------------------------------------------------------------------------
(* Buddy: the bitmap, its blocks and what they are counted.                 *)

\* The same downwards: a set of numbers with a bound has a greatest element.
LEMMA GreatestElement ==
    ASSUME NEW n \in Nat, NEW T, T \subseteq 0 .. n, T # {}
    PROVE  \E x \in T : \A y \in T : y <= x
<1> DEFINE U == {n - y : y \in T}
<1>1. U \subseteq Nat /\ U # {}
  <2>1. ASSUME NEW y \in T PROVE n - y \in Nat
    <3>1. y \in 0 .. n
      OBVIOUS
    <3> QED
      BY <3>1
  <2> QED
    BY <2>1
<1>2. PICK u \in U : \A w \in U : u <= w
  BY <1>1, LeastElement
<1>3. PICK x \in T : u = n - x
  OBVIOUS
<1>4. ASSUME NEW y \in T PROVE y <= x
  <2>1. n - y \in U /\ x \in 0 .. n /\ y \in 0 .. n
    OBVIOUS
  <2>2. n - x <= n - y
    BY <1>2, <1>3, <2>1
  <2> QED
    BY <2>1, <2>2
<1> QED
  BY <1>4

\* f is a at 0, and what G makes of an earlier value anywhere else.
Earlier(back, n) == \A i \in 1 .. n : back[i] \in 0 .. i - 1
Closed(G, n, S)  == \A i \in 1 .. n : \A v \in S : G[i][v] \in S
Recurs(f, n, S, a, back, G) ==
    /\ f \in [0 .. n -> S]
    /\ f[0] = a
    /\ \A i \in 1 .. n : f[i] = G[i][f[back[i]]]

\* A function may be defined at i by its value at an earlier place.
LEMMA Upward ==
    ASSUME NEW n \in Nat, NEW S, NEW a \in S, NEW back, NEW G,
           Earlier(back, n), Closed(G, n, S)
    PROVE  \E f : Recurs(f, n, S, a, back, G)
<1> USE DEF Earlier, Closed
<1> DEFINE Good(f, m) == f[0] = a /\ \A i \in 1 .. m : f[i] = G[i][f[back[i]]]
           T == {m \in 0 .. n : ~ \E f \in [0 .. m -> S] : Good(f, m)}
<1> SUFFICES ASSUME T # {} PROVE FALSE
  BY DEF Recurs
<1>1. PICK m \in T : \A k \in T : m <= k
  <2>1. T \subseteq Nat
    OBVIOUS
  <2> QED
    BY <2>1, LeastElement
<1>2. CASE m = 0
  <2> DEFINE f == [i \in 0 .. 0 |-> a]
  <2>1. f \in [0 .. 0 -> S] /\ Good(f, 0)
    OBVIOUS
  <2> QED
    BY <1>1, <1>2, <2>1
<1>3. CASE m > 0
  <2>1. m \in 1 .. n /\ m - 1 \in 0 .. n /\ m - 1 \notin T
    <3>1. m \in 0 .. n
      BY <1>1
    <3>2. m \in 1 .. n /\ m - 1 \in 0 .. n /\ ~ (m <= m - 1)
      BY <1>3, <3>1
    <3> HIDE DEF T
    <3> QED
      BY <1>1, <3>2
  <2>2. PICK f \in [0 .. m - 1 -> S] : Good(f, m - 1)
    BY <2>1
  <2> DEFINE g == [i \in 0 .. m |-> IF i = m THEN G[m][f[back[m]]] ELSE f[i]]
  <2>3. \A i \in 0 .. m - 1 : g[i] = f[i] /\ g[i] \in S
    BY <2>1
  <2>4. back[m] \in 0 .. m - 1
    BY <2>1
  <2>5. g[m] = G[m][g[back[m]]] /\ g[m] \in S
    BY <2>1, <2>3, <2>4, SMTT(30)
  <2>6. \A i \in 0 .. m : g[i] \in S
    BY <2>1, <2>3, <2>5
  <2>7. g \in [0 .. m -> S]
    BY <2>6
  <2>8. ASSUME NEW i \in 1 .. m PROVE g[i] = G[i][g[back[i]]]
    <3>1. CASE i = m
      BY <2>5, <3>1
    <3>2. CASE i # m
      <4>1. i \in 1 .. m - 1 /\ i \in 0 .. m - 1 /\ back[i] \in 0 .. m - 1
        BY <2>1, <3>2
      <4>2. g[i] = f[i] /\ g[back[i]] = f[back[i]]
        BY <2>3, <4>1
      <4>3. f[i] = G[i][f[back[i]]]
        BY <2>2, <4>1
      <4> QED
        BY <4>2, <4>3
    <3> QED
      BY <3>1, <3>2
  <2>9. g[0] = a
    BY <2>1, <2>2, <2>3
  <2>10. Good(g, m)
    BY <2>8, <2>9
  <2> HIDE DEF g, Good
  <2> QED
    BY <1>1, <2>7, <2>10
<1> QED
  BY <1>1, <1>2, <1>3

-----------------------------------------------------------------------------
(* The powers of two, and the shape of the tree.                           *)

LEMMA PowFacts ==
    /\ Pow \in [0 .. Depth -> Nat]
    /\ Pow[0] = 1
    /\ \A k \in 1 .. Depth : Pow[k] = 2 * Pow[k - 1]
<1> DEFINE back == [i \in 1 .. Depth |-> i - 1]
           G    == [i \in 1 .. Depth |-> [v \in Nat |-> 2 * v]]
           IsPow(f) == f = [k \in 0 .. Depth |-> IF k = 0 THEN 1 ELSE 2 * f[k - 1]]
<1>1. Depth \in Nat
  BY BuddyAssumption
<1>2. Earlier(back, Depth) /\ Closed(G, Depth, Nat) /\ 1 \in Nat
  BY <1>1 DEF Earlier, Closed
<1>3. \E f : Recurs(f, Depth, Nat, 1, back, G)
  <2> HIDE DEF back, G
  <2> QED
    BY <1>1, <1>2, Upward
<1>4. PICK f \in [0 .. Depth -> Nat] :
         f[0] = 1 /\ \A i \in 1 .. Depth : f[i] = G[i][f[back[i]]]
  <2> HIDE DEF back, G
  <2> QED
    BY <1>3 DEF Recurs
<1>5. \A i \in 1 .. Depth : f[i] = 2 * f[i - 1]
  <2> TAKE i \in 1 .. Depth
  <2>1. i - 1 \in 0 .. Depth
    BY <1>1
  <2>2. f[i - 1] \in Nat
    BY <2>1
  <2> QED
    BY <1>4, <2>2
<1>6. IsPow(f)
  BY <1>1, <1>4, <1>5
<1>7. Pow = CHOOSE g : IsPow(g)
  BY Zenon DEF Pow
<1>8. IsPow(Pow)
  <2> HIDE DEF IsPow
  <2> QED
    BY <1>6, <1>7, Zenon
<1>9. Pow[0] = 1 /\ \A k \in 1 .. Depth : Pow[k] = 2 * Pow[k - 1]
  BY <1>1, <1>8
<1>10. Pow = f
  <2> DEFINE T == {k \in 0 .. Depth : Pow[k] # f[k]}
  <2>1. T = {}
    <3> SUFFICES ASSUME T # {} PROVE FALSE
      OBVIOUS
    <3>1. PICK k \in T : \A m \in T : k <= m
      <4>1. T \subseteq Nat
        OBVIOUS
      <4> HIDE DEF T
      <4> QED
        BY <4>1, LeastElement
    <3>2. k \in 0 .. Depth /\ Pow[k] # f[k]
      OBVIOUS
    <3>3. k # 0
      BY <1>4, <1>9, <3>2
    <3>4. k - 1 \in 0 .. Depth /\ k \in 1 .. Depth /\ ~ (k <= k - 1)
      BY <1>1, <3>2, <3>3
    <3>5. Pow[k - 1] = f[k - 1]
      BY <3>1, <3>4
    <3> QED
      BY <1>5, <1>9, <3>2, <3>4, <3>5
  <2> QED
    BY <1>8, <2>1
<1> QED
  BY <1>4, <1>9, <1>10

\* A greater power of two is twice a smaller one at least, and a multiple of it.
LEMMA PowOrdered ==
    ASSUME NEW j \in 0 .. Depth, NEW k \in 0 .. Depth, j < k
    PROVE  Pow[j] > 0 /\ 2 * Pow[j] <= Pow[k] /\ \E c \in Nat : Pow[k] = c * Pow[j]
<1>1. Depth \in Nat
  BY BuddyAssumption
<1>2. ASSUME NEW i \in 0 .. Depth PROVE Pow[i] \in Nat
  BY PowFacts
<1>3. ASSUME NEW i \in 0 .. Depth PROVE Pow[i] > 0
  <2> DEFINE T == {m \in 0 .. Depth : ~ (Pow[m] > 0)}
  <2> SUFFICES ASSUME T # {} PROVE FALSE
    OBVIOUS
  <2>1. PICK m \in T : \A x \in T : m <= x
    <3>1. T \subseteq Nat
      OBVIOUS
    <3> HIDE DEF T
    <3> QED
      BY <3>1, LeastElement
  <2>2. m \in 0 .. Depth /\ ~ (Pow[m] > 0) /\ m # 0
    BY PowFacts
  <2>3. m - 1 \in 0 .. Depth /\ m \in 1 .. Depth /\ ~ (m <= m - 1)
    BY <1>1, <2>2
  <2>4. Pow[m - 1] > 0 /\ Pow[m - 1] \in Nat /\ Pow[m] = 2 * Pow[m - 1]
    BY <1>2, <2>1, <2>3, PowFacts
  <2> QED
    BY <2>2, <2>4
<1> DEFINE Good(i) == 2 * Pow[j] <= Pow[i] /\ \E c \in Nat : Pow[i] = c * Pow[j]
           T == {i \in j + 1 .. Depth : ~ Good(i)}
<1>4. T = {}
  <2> SUFFICES ASSUME T # {} PROVE FALSE
    OBVIOUS
  <2>1. PICK i \in T : \A x \in T : i <= x
    <3>1. T \subseteq Nat
      BY <1>1
    <3> HIDE DEF T
    <3> QED
      BY <3>1, LeastElement
  <2>2. /\ i \in j + 1 .. Depth /\ ~ Good(i) /\ i \in 1 .. Depth /\ i - 1 \in 0 .. Depth
        /\ ~ (i <= i - 1)
    BY <1>1
  <2>3. /\ Pow[i] = 2 * Pow[i - 1] /\ Pow[i - 1] \in Nat /\ Pow[i - 1] > 0
        /\ Pow[j] \in Nat /\ Pow[j] > 0
    BY <1>2, <1>3, <2>2, PowFacts
  <2>4. CASE i = j + 1
    <3>1. Pow[i] = 2 * Pow[j]
      BY <1>1, <2>3, <2>4
    <3> QED
      BY <2>2, <2>3, <3>1
  <2>5. CASE i # j + 1
    <3>1. i - 1 \in j + 1 .. Depth
      BY <1>1, <2>2, <2>5
    <3>2. Good(i - 1)
      <4> HIDE DEF Good
      <4> QED
        BY <2>1, <2>2, <3>1
    <3>3. PICK c \in Nat : Pow[i - 1] = c * Pow[j]
      BY <3>2
    <3>4. 2 * c \in Nat /\ Pow[i] = (2 * c) * Pow[j]
      BY <2>3, <3>3
    <3>5. 2 * Pow[j] <= Pow[i]
      BY <2>3, <3>2
    <3> QED
      BY <2>2, <3>4, <3>5
  <2> QED
    BY <2>4, <2>5
<1>5. k \in j + 1 .. Depth
  BY <1>1
<1> QED
  BY <1>3, <1>4, <1>5

\* The sizes of blocks.
LEMMA OrderFacts ==
    /\ Orders \subseteq Nat \ {0} /\ 1 \in Orders /\ Size \in Orders
    /\ \A s \in Orders : s <= Size /\ (s # 1 => \E h \in Orders : s = 2 * h)
    /\ \A s, t \in Orders : s < t => 2 * s <= t
    /\ \A s, t \in Orders : s <= t => \E c \in Nat : t = c * s
<1>1. Depth \in Nat /\ 0 \in 0 .. Depth /\ Depth \in 0 .. Depth
  BY BuddyAssumption
<1>2. \A k \in 0 .. Depth : Pow[k] \in Nat /\ Pow[k] \in Orders
  BY PowFacts DEF Orders
<1>3. 1 \in Orders /\ Size \in Orders
  BY <1>1, PowFacts DEF Orders, Size
<1>4. ASSUME NEW k \in 0 .. Depth
      PROVE  /\ Pow[k] > 0 /\ Pow[k] <= Size
             /\ Pow[k] # 1 => \E h \in Orders : Pow[k] = 2 * h
  <2>1. Pow[k] > 0 /\ Pow[k] <= Size
    <3>1. CASE k = Depth
      <4>1. CASE Depth = 0
        BY <1>1, <3>1, <4>1, PowFacts DEF Size
      <4>2. CASE Depth # 0
        <5>1. 0 < Depth
          BY <1>1, <4>2
        <5>2. Pow[0] > 0 /\ 2 * Pow[0] <= Pow[Depth]
          BY <1>1, <5>1, PowOrdered
        <5> QED
          BY <1>1, <1>2, <3>1, <5>2 DEF Size
      <4> QED
        BY <4>1, <4>2
    <3>2. CASE k # Depth
      <4>1. k < Depth
        BY <1>1, <3>2
      <4> QED
        BY <1>1, <1>2, <4>1, PowOrdered DEF Size
    <3> QED
      BY <3>1, <3>2
  <2>2. Pow[k] # 1 => \E h \in Orders : Pow[k] = 2 * h
    <3> SUFFICES ASSUME Pow[k] # 1 PROVE \E h \in Orders : Pow[k] = 2 * h
      OBVIOUS
    <3>1. k \in 1 .. Depth /\ k - 1 \in 0 .. Depth
      BY <1>1, PowFacts
    <3> QED
      BY <1>2, <3>1, PowFacts
  <2> QED
    BY <2>1, <2>2
<1>5. ASSUME NEW i \in 0 .. Depth, NEW k \in 0 .. Depth
      PROVE  /\ Pow[i] < Pow[k] => 2 * Pow[i] <= Pow[k]
             /\ Pow[i] <= Pow[k] => \E c \in Nat : Pow[k] = c * Pow[i]
  <2>1. CASE i < k
    BY <2>1, PowOrdered
  <2>2. CASE i = k
    <3>1. Pow[k] = 1 * Pow[i] /\ Pow[i] \in Nat
      BY <1>2, <2>2
    <3> QED
      BY <2>2, <3>1
  <2>3. CASE k < i
    <3>1. Pow[k] > 0 /\ 2 * Pow[k] <= Pow[i]
      BY <2>3, PowOrdered
    <3> QED
      BY <1>2, <3>1
  <2> QED
    BY <1>1, <2>1, <2>2, <2>3
<1>6. Orders \subseteq Nat \ {0}
  BY <1>2, <1>4 DEF Orders
<1>7. \A s \in Orders : s <= Size /\ (s # 1 => \E h \in Orders : s = 2 * h)
  <2> TAKE s \in Orders
  <2>1. PICK k \in 0 .. Depth : s = Pow[k]
    BY DEF Orders
  <2> QED
    BY <1>4, <2>1
<1>8. \A s, t \in Orders : (s < t => 2 * s <= t) /\ (s <= t => \E c \in Nat : t = c * s)
  <2> TAKE s, t \in Orders
  <2>1. PICK i \in 0 .. Depth, k \in 0 .. Depth : s = Pow[i] /\ t = Pow[k]
    BY DEF Orders
  <2> QED
    BY <1>5, <2>1
<1> QED
  BY <1>3, <1>6, <1>7, <1>8

\* PARENT goes up one node, LEFT_LEAF and RIGHT_LEAF down.
LEMMA ParentFacts ==
    /\ Size \in Nat \ {0}
    /\ \A i \in Nodes : i # 0 =>
          /\ PARENT(i) \in Nodes /\ PARENT(i) < i
          /\ i = LEFT_LEAF(PARENT(i)) \/ i = RIGHT_LEAF(PARENT(i))
    /\ \A i \in Nat : PARENT(LEFT_LEAF(i)) = i /\ PARENT(RIGHT_LEAF(i)) = i
<1>1. Size \in Nat \ {0}
  BY OrderFacts
<1>2. ASSUME NEW i \in Nodes, i # 0
      PROVE  /\ PARENT(i) \in Nodes /\ PARENT(i) < i
             /\ i = LEFT_LEAF(PARENT(i)) \/ i = RIGHT_LEAF(PARENT(i))
  BY <1>1, <1>2 DEF Nodes, PARENT, LEFT_LEAF, RIGHT_LEAF
<1>3. \A i \in Nat : PARENT(LEFT_LEAF(i)) = i /\ PARENT(RIGHT_LEAF(i)) = i
  BY DEF PARENT, LEFT_LEAF, RIGHT_LEAF
<1> QED
  BY <1>1, <1>2, <1>3

LEMMA NodeSizeFacts ==
    /\ NodeSize = [i \in Nodes |-> NodeSize[i]]
    /\ NodeSize[0] = Size
    /\ \A i \in Nodes : i # 0 => NodeSize[i] = NodeSize[PARENT(i)] \div 2
<1> DEFINE last == 2 * Size - 2
           back == [i \in 1 .. last |-> PARENT(i)]
           G    == [i \in 1 .. last |-> [v \in Nat |-> v \div 2]]
           IsSize(f) == f = [i \in Nodes |-> IF i = 0 THEN Size ELSE f[PARENT(i)] \div 2]
<1>1. last \in Nat /\ Size \in Nat /\ Nodes = 0 .. last
  BY ParentFacts DEF Nodes
<1>2. Earlier(back, last)
  <2> SUFFICES ASSUME NEW i \in 1 .. last PROVE back[i] \in 0 .. i - 1
    BY DEF Earlier
  <2>1. i \in Nodes /\ i # 0
    BY <1>1
  <2>2. PARENT(i) \in Nodes /\ PARENT(i) < i
    BY <2>1, ParentFacts
  <2> QED
    BY <1>1, <2>2
<1>3. Closed(G, last, Nat)
  BY <1>1 DEF Closed
<1>4. PICK f : Recurs(f, last, Nat, Size, back, G)
  <2> HIDE DEF back, G, last
  <2> QED
    BY <1>1, <1>2, <1>3, Upward
<1>5. f \in [Nodes -> Nat] /\ f[0] = Size
  BY <1>1, <1>4 DEF Recurs
<1>6. ASSUME NEW i \in Nodes, i # 0 PROVE f[i] = f[PARENT(i)] \div 2
  <2>1. i \in 1 .. last
    BY <1>1, <1>6
  <2>2. f[i] = G[i][f[back[i]]] /\ back[i] = PARENT(i)
    BY <1>4, <2>1 DEF Recurs
  <2>3. f[PARENT(i)] \in Nat
    BY <1>5, <1>6, ParentFacts
  <2> QED
    BY <2>1, <2>2, <2>3
<1>7. IsSize(f)
  BY <1>5, <1>6
<1>8. NodeSize = CHOOSE g : IsSize(g)
  BY Zenon DEF NodeSize
<1>9. IsSize(NodeSize)
  <2> HIDE DEF IsSize
  <2> QED
    BY <1>7, <1>8, Zenon
<1>10. 0 \in Nodes
  BY <1>1
<1>11. NodeSize = [i \in Nodes |-> NodeSize[i]]
  BY <1>9
<1> QED
  BY <1>9, <1>10, <1>11

LEMMA PathFacts ==
    /\ Path[0] = {0}
    /\ \A i \in Nodes : i # 0 => Path[i] = {i} \cup Path[PARENT(i)]
<1> DEFINE last == 2 * Size - 2
           back == [i \in 1 .. last |-> PARENT(i)]
           G    == [i \in 1 .. last |-> [v \in SUBSET Nat |-> {i} \cup v]]
           IsPath(f) == f = [i \in Nodes |-> IF i = 0 THEN {0} ELSE {i} \cup f[PARENT(i)]]
<1>1. last \in Nat /\ Size \in Nat /\ Nodes = 0 .. last
  BY ParentFacts DEF Nodes
<1>2. Earlier(back, last)
  <2> SUFFICES ASSUME NEW i \in 1 .. last PROVE back[i] \in 0 .. i - 1
    BY DEF Earlier
  <2>1. i \in Nodes /\ i # 0
    BY <1>1
  <2>2. PARENT(i) \in Nodes /\ PARENT(i) < i
    BY <2>1, ParentFacts
  <2> QED
    BY <1>1, <2>2
<1>3. Closed(G, last, SUBSET Nat) /\ {0} \in SUBSET Nat
  BY <1>1 DEF Closed
<1>4. PICK f : Recurs(f, last, SUBSET Nat, {0}, back, G)
  <2> HIDE DEF back, G, last
  <2> DEFINE S == SUBSET Nat
             a == {0}
  <2>1. a \in S /\ Closed(G, last, S)
    BY <1>3
  <2> HIDE DEF S, a
  <2>2. \E f : Recurs(f, last, S, a, back, G)
    BY <1>1, <1>2, <2>1, Upward
  <2> QED
    BY <2>2 DEF S, a
<1>5. f \in [Nodes -> SUBSET Nat] /\ f[0] = {0}
  BY <1>1, <1>4 DEF Recurs
<1>6. ASSUME NEW i \in Nodes, i # 0 PROVE f[i] = {i} \cup f[PARENT(i)]
  <2>1. i \in 1 .. last
    BY <1>1, <1>6
  <2>2. f[i] = G[i][f[back[i]]] /\ back[i] = PARENT(i)
    BY <1>4, <2>1 DEF Recurs
  <2>3. f[PARENT(i)] \in SUBSET Nat
    BY <1>5, <1>6, ParentFacts
  <2> QED
    BY <2>1, <2>2, <2>3
<1>7. IsPath(f)
  BY <1>5, <1>6
<1>8. Path = CHOOSE g : IsPath(g)
  BY Zenon DEF Path
<1>9. IsPath(Path)
  <2> HIDE DEF IsPath
  <2> QED
    BY <1>7, <1>8, Zenon
<1>10. 0 \in Nodes
  BY <1>1
<1> QED
  BY <1>9, <1>10

-----------------------------------------------------------------------------
\* Half of an even number, and products with it.
LEMMA Halves ==
    ASSUME NEW h \in Nat, NEW p \in Nat
    PROVE  /\ (2 * h) \div 2 = h
           /\ (2 * p + 1 + 1) * h = (p + 1) * (2 * h)
           /\ (2 * p + 2 + 1) * h = (p + 1) * (2 * h) + h
  OBVIOUS

\* The children of a node that is larger than a page are its halves.
LEMMA HalvesOf ==
    ASSUME NEW i \in Nat, LEFT_LEAF(i) \in Nodes \/ RIGHT_LEAF(i) \in Nodes, NEW h \in Nat,
           NodeSize[i] = 2 * h
    PROVE  /\ LEFT_LEAF(i) \in Nodes =>
                 NodeSize[LEFT_LEAF(i)] = h /\ FirstPfn(LEFT_LEAF(i)) = FirstPfn(i)
           /\ RIGHT_LEAF(i) \in Nodes =>
                 NodeSize[RIGHT_LEAF(i)] = h /\ FirstPfn(RIGHT_LEAF(i)) = FirstPfn(i) + h
<1>1. LEFT_LEAF(i) # 0 /\ RIGHT_LEAF(i) # 0 /\ Size \in Nat
  BY ParentFacts DEF LEFT_LEAF, RIGHT_LEAF
<1> DEFINE IsHalf(j) == NodeSize[j] = NodeSize[PARENT(j)] \div 2
<1>half. \A j \in Nodes : j # 0 => IsHalf(j)
  BY NodeSizeFacts, Zenon
<1>2. LEFT_LEAF(i) \in Nodes => NodeSize[LEFT_LEAF(i)] = h
  BY <1>1, <1>half, ParentFacts, Halves
<1>3. RIGHT_LEAF(i) \in Nodes => NodeSize[RIGHT_LEAF(i)] = h
  BY <1>1, <1>half, ParentFacts, Halves
<1>4. (LEFT_LEAF(i) + 1) * h = (i + 1) * (2 * h)
      /\ (RIGHT_LEAF(i) + 1) * h = (i + 1) * (2 * h) + h
      /\ (i + 1) * (2 * h) \in Nat
  BY Halves DEF LEFT_LEAF, RIGHT_LEAF
<1>5. LEFT_LEAF(i) \in Nodes => FirstPfn(LEFT_LEAF(i)) = FirstPfn(i)
  BY <1>2, <1>4 DEF FirstPfn
<1>6. RIGHT_LEAF(i) \in Nodes => FirstPfn(RIGHT_LEAF(i)) = FirstPfn(i) + h
  <2> DEFINE m == (i + 1) * (2 * h)
  <2>1. m \in Nat /\ FirstPfn(i) = m - Size
    BY <1>4 DEF FirstPfn
  <2>2. RIGHT_LEAF(i) \in Nodes => FirstPfn(RIGHT_LEAF(i)) = m + h - Size
    <3> DEFINE r == RIGHT_LEAF(i)
    <3>1. (r + 1) * h = m + h
      BY <1>4
    <3>2. r \in Nodes => FirstPfn(r) = (r + 1) * h - Size
      BY <1>3, Zenon DEF FirstPfn
    <3> HIDE DEF r, m
    <3>3. r \in Nodes => FirstPfn(r) = m + h - Size
      BY <1>1, <2>1, <3>1, <3>2
    <3> QED
      BY <3>3, Zenon DEF r
  <2> HIDE DEF m
  <2> QED
    BY <1>1, <2>1, <2>2
<1> QED
  BY <1>2, <1>3, <1>5, <1>6

\* Every node stands for a whole block of pages of the machine, a leaf for one.
LEMMA Geometry ==
    ASSUME NEW i \in Nodes
    PROVE  /\ NodeSize[i] \in Orders
           /\ 0 <= FirstPfn(i) /\ FirstPfn(i) + NodeSize[i] <= Size
<1> DEFINE Good(n) == /\ NodeSize[n] \in Orders
                      /\ 0 <= FirstPfn(n) /\ FirstPfn(n) + NodeSize[n] <= Size
           T == {n \in Nodes : ~ Good(n)}
<1> SUFFICES ASSUME T # {} PROVE FALSE
  OBVIOUS
<1>1. Size \in Nat \ {0} /\ Nodes \subseteq Nat
  BY ParentFacts DEF Nodes
<1>2. PICK n \in T : \A m \in T : n <= m
  <2>1. T \subseteq Nat
    BY <1>1
  <2> HIDE DEF T
  <2> QED
    BY <2>1, LeastElement
<1>3. n \in Nodes /\ n \in Nat /\ ~ Good(n)
  BY <1>1
<1>4. CASE n = 0
  <2>1. NodeSize[0] = Size /\ FirstPfn(0) = 0
    BY <1>1, NodeSizeFacts DEF FirstPfn
  <2>2. Good(0)
    BY <1>1, <2>1, OrderFacts
  <2> QED
    BY <1>3, <1>4, <2>2
<1>5. CASE n # 0
  <2> DEFINE p == PARENT(n)
  <2>1. /\ p \in Nodes /\ p \in Nat /\ p < n
        /\ n = LEFT_LEAF(p) \/ n = RIGHT_LEAF(p)
    BY <1>1, <1>3, <1>5, ParentFacts
  <2> HIDE DEF p, Good
  <2>2. Good(p)
    BY <1>1, <1>2, <1>3, <2>1
  <2>3. /\ NodeSize[p] \in Orders /\ NodeSize[p] \in Nat /\ FirstPfn(p) \in Int
        /\ 0 <= FirstPfn(p) /\ FirstPfn(p) + NodeSize[p] <= Size
        /\ FirstPfn(p) = (p + 1) * NodeSize[p] - Size
    <3>1. NodeSize[p] \in Orders /\ NodeSize[p] \in Nat
      BY <2>2, OrderFacts DEF Good
    <3>2. FirstPfn(p) = (p + 1) * NodeSize[p] - Size
      BY Zenon DEF FirstPfn
    <3>3. (p + 1) * NodeSize[p] - Size \in Int
      BY <1>1, <2>1, <3>1
    <3> QED
      BY <2>2, <3>1, <3>2, <3>3 DEF Good
  <2>4. NodeSize[p] # 1
    <3> SUFFICES ASSUME NodeSize[p] = 1 PROVE FALSE
      OBVIOUS
    <3>1. p + 1 >= Size
      BY <1>1, <2>1, <2>3
    <3> QED
      BY <1>1, <1>3, <2>1, <3>1 DEF Nodes, LEFT_LEAF, RIGHT_LEAF
  <2>5. PICK h \in Orders : NodeSize[p] = 2 * h
    BY <2>3, <2>4, OrderFacts
  <2>6. h \in Nat
    BY OrderFacts
  <2>7. /\ NodeSize[n] = h
        /\ FirstPfn(n) = FirstPfn(p) \/ FirstPfn(n) = FirstPfn(p) + h
    BY <1>3, <2>1, <2>5, <2>6, HalvesOf
  <2>8. Good(n)
    BY <1>1, <2>3, <2>5, <2>6, <2>7 DEF Good
  <2> QED
    BY <1>3, <2>8
<1> QED
  BY <1>4, <1>5

\* Leaves are single pages; a larger node has two halves.
LEMMA Shape ==
    ASSUME NEW i \in Nodes
    PROVE  /\ NodeSize[i] = 1 => i = Leaf(FirstPfn(i)) /\ FirstPfn(i) \in Pfns
           /\ NodeSize[i] > 1 =>
                 \E h \in Orders :
                    /\ NodeSize[i] = 2 * h
                    /\ LEFT_LEAF(i) \in Nodes /\ RIGHT_LEAF(i) \in Nodes
                    /\ NodeSize[LEFT_LEAF(i)] = h /\ NodeSize[RIGHT_LEAF(i)] = h
                    /\ FirstPfn(LEFT_LEAF(i)) = FirstPfn(i)
                    /\ FirstPfn(RIGHT_LEAF(i)) = FirstPfn(i) + h
<1> DEFINE s == NodeSize[i]
<1>1. /\ Size \in Nat \ {0} /\ i \in Nat /\ s \in Orders /\ s \in Nat \ {0}
      /\ 0 <= FirstPfn(i) /\ FirstPfn(i) + s <= Size
      /\ FirstPfn(i) = (i + 1) * s - Size
  <2>1. Size \in Nat \ {0} /\ i \in Nat
    BY ParentFacts DEF Nodes
  <2>2. s \in Orders /\ 0 <= FirstPfn(i) /\ FirstPfn(i) + s <= Size
    BY Geometry
  <2>3. s \in Nat \ {0}
    BY <2>2, OrderFacts
  <2>4. FirstPfn(i) = (i + 1) * s - Size
    BY Zenon DEF FirstPfn
  <2> QED
    BY <2>1, <2>2, <2>3, <2>4, Zenon
<1> HIDE DEF s
<1>2. s = 1 => i = Leaf(FirstPfn(i)) /\ FirstPfn(i) \in Pfns
  <2> SUFFICES ASSUME s = 1 PROVE i = Leaf(FirstPfn(i)) /\ FirstPfn(i) \in Pfns
    OBVIOUS
  <2>1. FirstPfn(i) = i + 1 - Size
    BY <1>1
  <2> QED
    BY <1>1, <2>1 DEF Leaf, Pfns
<1>3. ASSUME s > 1
      PROVE  \E h \in Orders :
                    /\ s = 2 * h
                    /\ LEFT_LEAF(i) \in Nodes /\ RIGHT_LEAF(i) \in Nodes
                    /\ NodeSize[LEFT_LEAF(i)] = h /\ NodeSize[RIGHT_LEAF(i)] = h
                    /\ FirstPfn(LEFT_LEAF(i)) = FirstPfn(i)
                    /\ FirstPfn(RIGHT_LEAF(i)) = FirstPfn(i) + h
  <2>1. s # 1
    BY <1>3
  <2>2. PICK h \in Orders : s = 2 * h
    BY <1>1, <2>1, OrderFacts
  <2>3. h \in Nat \ {0} /\ i < Size - 1
    <3>1. h \in Nat \ {0}
      BY OrderFacts
    <3>2. (i + 1) * s + s <= 2 * Size
      BY <1>1
    <3>3. (i + 1) * s + s = 2 * (i + 2) * h
      BY <1>1, <2>2, <3>1
    <3>4. (i + 2) * h <= Size
      BY <1>1, <3>1, <3>2, <3>3
    <3>5. (i + 2) * h >= i + 2
      BY <1>1, <3>1
    <3> QED
      BY <1>1, <3>1, <3>4, <3>5
  <2>4. LEFT_LEAF(i) \in Nodes /\ RIGHT_LEAF(i) \in Nodes
    BY <1>1, <2>3 DEF Nodes, LEFT_LEAF, RIGHT_LEAF
  <2> QED
    BY <1>1, <2>2, <2>3, <2>4, HalvesOf DEF s
<1> QED
  BY <1>2, <1>3 DEF s

\* What a path from a node to the root goes through.
PathSound(i) ==
    /\ i \in Path[i] /\ 0 \in Path[i]
    /\ \A j \in Path[i] :
          /\ j \in Nodes /\ j <= i /\ Path[j] \subseteq Path[i]
          /\ FirstPfn(j) <= FirstPfn(i)
          /\ FirstPfn(i) + NodeSize[i] <= FirstPfn(j) + NodeSize[j]
          /\ j # i => NodeSize[j] > 1 /\ (LEFT_LEAF(j) \in Path[i] \/ RIGHT_LEAF(j) \in Path[i])
    /\ \A j, k \in Path[i] : j \in Path[k] \/ k \in Path[j]

\* Every node above the first is half of a node on its path.
LEMMA ParentOf ==
    ASSUME NEW i \in Nodes, i # 0, NEW p, p = PARENT(i)
    PROVE  /\ p \in Nodes /\ p < i /\ ~ (i <= p) /\ NodeSize[p] > 1
           /\ i = LEFT_LEAF(p) \/ i = RIGHT_LEAF(p)
           /\ FirstPfn(p) <= FirstPfn(i)
           /\ FirstPfn(i) + NodeSize[i] <= FirstPfn(p) + NodeSize[p]
<1>1. /\ p \in Nodes /\ p < i /\ Size \in Nat \ {0}
      /\ i = LEFT_LEAF(p) \/ i = RIGHT_LEAF(p)
  BY ParentFacts
<1>2. p \in Nat /\ i \in Nat
  BY <1>1 DEF Nodes
<1>3. NodeSize[p] \in Nat \ {0} /\ FirstPfn(p) \in Int
  <2>1. NodeSize[p] \in Nat \ {0}
    BY <1>1, Geometry, OrderFacts
  <2> QED
    BY <1>1, <1>2, <2>1 DEF FirstPfn
<1>4. NodeSize[p] # 1
  <2> SUFFICES ASSUME NodeSize[p] = 1 PROVE FALSE
    OBVIOUS
  <2>1. p = Leaf(FirstPfn(p)) /\ FirstPfn(p) \in Pfns
    BY <1>1, Shape
  <2>2. p >= Size - 1
    BY <1>1, <1>2, <1>3, <2>1 DEF Leaf, Pfns
  <2> QED
    BY <1>1, <1>2, <2>2 DEF Nodes, LEFT_LEAF, RIGHT_LEAF
<1>5. NodeSize[p] > 1
  BY <1>3, <1>4
<1>6. PICK h \in Orders :
         /\ NodeSize[p] = 2 * h
         /\ LEFT_LEAF(p) \in Nodes /\ RIGHT_LEAF(p) \in Nodes
         /\ NodeSize[LEFT_LEAF(p)] = h /\ NodeSize[RIGHT_LEAF(p)] = h
         /\ FirstPfn(LEFT_LEAF(p)) = FirstPfn(p)
         /\ FirstPfn(RIGHT_LEAF(p)) = FirstPfn(p) + h
  BY <1>1, <1>5, Shape
<1>7. h \in Nat
  BY OrderFacts
<1>8. /\ FirstPfn(p) <= FirstPfn(i)
      /\ FirstPfn(i) + NodeSize[i] <= FirstPfn(p) + NodeSize[p]
  <2>1. CASE i = LEFT_LEAF(p)
    BY <1>3, <1>6, <1>7, <2>1
  <2>2. CASE i = RIGHT_LEAF(p)
    BY <1>3, <1>6, <1>7, <2>2
  <2> QED
    BY <1>1, <2>1, <2>2
<1>9. ~ (i <= p)
  BY <1>1, <1>2
<1> QED
  BY <1>1, <1>5, <1>8, <1>9

\* Numbers at the nodes.
LEMMA NodeNumbers ==
    ASSUME NEW i \in Nodes
    PROVE  /\ i \in Nat /\ NodeSize[i] \in Nat \ {0} /\ FirstPfn(i) \in Int
           /\ Size \in Nat \ {0} /\ 0 \in Nodes
<1>1. i \in Nat /\ Size \in Nat \ {0} /\ 0 \in Nodes
  BY ParentFacts DEF Nodes
<1>2. NodeSize[i] \in Nat \ {0}
  BY Geometry, OrderFacts
<1>3. FirstPfn(i) \in Int
  BY <1>1, <1>2 DEF FirstPfn
<1> QED
  BY <1>1, <1>2, <1>3

LEMMA PathStep ==
    ASSUME NEW i \in Nodes, i # 0, NEW p, p = PARENT(i), PathSound(p)
    PROVE  PathSound(i)
<1>1. Path[i] = {i} \cup Path[p]
  BY PathFacts
<1>2. /\ p \in Nodes /\ p < i /\ NodeSize[p] > 1
      /\ i = LEFT_LEAF(p) \/ i = RIGHT_LEAF(p)
      /\ FirstPfn(p) <= FirstPfn(i)
      /\ FirstPfn(i) + NodeSize[i] <= FirstPfn(p) + NodeSize[p]
  BY ParentOf
<1>3. /\ i \in Nat /\ p \in Nat /\ NodeSize[i] \in Nat /\ NodeSize[p] \in Nat
      /\ FirstPfn(i) \in Int /\ FirstPfn(p) \in Int
  BY <1>2, NodeNumbers
<1>4. i \in Path[i] /\ 0 \in Path[i]
  BY <1>1 DEF PathSound
<1>5. ASSUME NEW j \in Path[i]
      PROVE  /\ j \in Nodes /\ j <= i /\ Path[j] \subseteq Path[i]
             /\ FirstPfn(j) <= FirstPfn(i)
             /\ FirstPfn(i) + NodeSize[i] <= FirstPfn(j) + NodeSize[j]
             /\ j # i => NodeSize[j] > 1
                          /\ (LEFT_LEAF(j) \in Path[i] \/ RIGHT_LEAF(j) \in Path[i])
  <2>1. CASE j = i
    BY <1>3, <2>1
  <2>2. CASE j # i
    <3>1. j \in Path[p]
      BY <1>1, <2>2
    <3>2. /\ j \in Nodes /\ j <= p /\ Path[j] \subseteq Path[p]
          /\ FirstPfn(j) <= FirstPfn(p)
          /\ FirstPfn(p) + NodeSize[p] <= FirstPfn(j) + NodeSize[j]
          /\ j # p => NodeSize[j] > 1
                      /\ (LEFT_LEAF(j) \in Path[p] \/ RIGHT_LEAF(j) \in Path[p])
      BY <3>1 DEF PathSound
    <3>3. j \in Nat /\ NodeSize[j] \in Nat /\ FirstPfn(j) \in Int
      BY <3>2, NodeNumbers
    <3>4. /\ j <= i /\ FirstPfn(j) <= FirstPfn(i)
          /\ FirstPfn(i) + NodeSize[i] <= FirstPfn(j) + NodeSize[j]
      BY <1>2, <1>3, <3>2, <3>3
    <3>5. NodeSize[j] > 1 /\ (LEFT_LEAF(j) \in Path[i] \/ RIGHT_LEAF(j) \in Path[i])
      <4>1. CASE j = p
        BY <1>1, <1>2, <4>1
      <4>2. CASE j # p
        BY <1>1, <3>2, <4>2
      <4> QED
        BY <4>1, <4>2
    <3> QED
      BY <1>1, <3>2, <3>4, <3>5
  <2> QED
    BY <2>1, <2>2
<1>6. ASSUME NEW j \in Path[i], NEW k \in Path[i]
      PROVE  j \in Path[k] \/ k \in Path[j]
  <2>1. \A x, y \in Path[p] : x \in Path[y] \/ y \in Path[x]
    BY DEF PathSound
  <2>2. j = i \/ j \in Path[p]
    BY <1>1
  <2>3. k = i \/ k \in Path[p]
    BY <1>1
  <2> QED
    BY <2>1, <2>2, <2>3
<1> QED
  BY <1>4, <1>5, <1>6 DEF PathSound

LEMMA PathsSound ==
    ASSUME NEW i \in Nodes PROVE PathSound(i)
<1> DEFINE T == {n \in Nodes : ~ PathSound(n)}
<1> SUFFICES ASSUME T # {} PROVE FALSE
  OBVIOUS
<1>1. PICK n \in T : \A m \in T : n <= m
  <2>1. T \subseteq Nat
    BY NodeNumbers
  <2> HIDE DEF T
  <2> QED
    BY <2>1, LeastElement
<1>2. n \in Nodes /\ n \in Nat /\ ~ PathSound(n)
  BY NodeNumbers
<1>3. CASE n = 0
  <2>1. Path[0] = {0} /\ 0 \in Nodes /\ NodeSize[0] \in Nat /\ FirstPfn(0) \in Int
    BY PathFacts, NodeNumbers
  <2>2. PathSound(0)
    BY <2>1 DEF PathSound
  <2> QED
    BY <1>2, <1>3, <2>2
<1>4. CASE n # 0
  <2> DEFINE p == PARENT(n)
  <2>1. p \in Nodes /\ p < n /\ p \in Nat
    BY <1>2, <1>4, ParentOf, NodeNumbers
  <2>2. PathSound(p)
    <3> HIDE DEF p
    <3> QED
      BY <1>1, <1>2, <2>1
  <2> QED
    BY <1>2, <1>4, <2>2, PathStep
<1> QED
  BY <1>3, <1>4

\* The path of a page's leaf goes through the nodes it lies under and no other.
LEMMA LeafPath ==
    ASSUME NEW p \in Pfns
    PROVE  /\ Leaf(p) \in Nodes /\ NodeSize[Leaf(p)] = 1 /\ FirstPfn(Leaf(p)) = p
           /\ \A i \in Nodes : p \in PagesUnder(i) <=> i \in Path[Leaf(p)]
<1>1. p \in Nat /\ p < Size /\ Size \in Nat \ {0}
  BY ParentFacts DEF Pfns
<1>2. Leaf(p) \in Nodes
  BY <1>1 DEF Leaf, Nodes
<1>3. NodeSize[Leaf(p)] = 1
  <2> DEFINE s == NodeSize[Leaf(p)]
  <2>1. s \in Nat \ {0} /\ (s > 1 => LEFT_LEAF(Leaf(p)) \in Nodes)
    BY <1>2, NodeNumbers, Shape
  <2>2. LEFT_LEAF(Leaf(p)) \notin Nodes
    BY <1>1 DEF Leaf, LEFT_LEAF, Nodes
  <2> QED
    BY <2>1, <2>2
<1>4. FirstPfn(Leaf(p)) = p
  <2>1. FirstPfn(Leaf(p)) = (Leaf(p) + 1) * 1 - Size
    BY <1>3, Zenon DEF FirstPfn
  <2> QED
    BY <1>1, <2>1 DEF Leaf
<1>5. ASSUME NEW i \in Path[Leaf(p)] PROVE p \in PagesUnder(i)
  <2>1. PathSound(Leaf(p))
    BY <1>2, PathsSound
  <2>2. i \in Nodes /\ FirstPfn(i) <= p /\ p + 1 <= FirstPfn(i) + NodeSize[i]
    BY <1>3, <1>4, <2>1 DEF PathSound
  <2> QED
    BY <1>1, <2>2, NodeNumbers DEF PagesUnder
<1> DEFINE T == {i \in Nodes : p \in PagesUnder(i) /\ i \notin Path[Leaf(p)]}
<1>6. T = {}
  <2> SUFFICES ASSUME T # {} PROVE FALSE
    OBVIOUS
  <2> DEFINE last == 2 * Size - 2
  <2>1. PICK i \in T : \A j \in T : j <= i
    <3>1. last \in Nat /\ T \subseteq 0 .. last
      BY <1>1 DEF Nodes
    <3> HIDE DEF T, last
    <3> QED
      BY <3>1, GreatestElement
  <2>2. i \in Nodes /\ p \in PagesUnder(i) /\ i \notin Path[Leaf(p)]
    OBVIOUS
  <2>3. i \in Nat /\ NodeSize[i] \in Nat \ {0} /\ FirstPfn(i) \in Int
    BY <2>2, NodeNumbers
  <2>4. FirstPfn(i) <= p /\ p < FirstPfn(i) + NodeSize[i]
    BY <1>1, <2>2, <2>3 DEF PagesUnder
  <2>5. CASE NodeSize[i] = 1
    <3>1. FirstPfn(i) = p
      BY <1>1, <2>3, <2>4, <2>5
    <3>2. i = Leaf(p)
      BY <2>2, <2>5, <3>1, Shape
    <3> QED
      BY <1>2, <2>2, <3>2, PathsSound DEF PathSound
  <2>6. CASE NodeSize[i] # 1
    <3>1. NodeSize[i] > 1
      BY <2>3, <2>6
    <3> DEFINE l == LEFT_LEAF(i)
               r == RIGHT_LEAF(i)
    <3>2. PICK h \in Orders :
            /\ NodeSize[i] = 2 * h /\ l \in Nodes /\ r \in Nodes
            /\ NodeSize[l] = h /\ NodeSize[r] = h
            /\ FirstPfn(l) = FirstPfn(i) /\ FirstPfn(r) = FirstPfn(i) + h
      BY <2>2, <3>1, Shape
    <3>3. h \in Nat
      BY OrderFacts
    <3>4. l > i /\ r > i
      BY <2>3 DEF LEFT_LEAF, RIGHT_LEAF
    <3>5. PARENT(l) = i /\ PARENT(r) = i /\ l # 0 /\ r # 0
      BY <2>3, <3>4, ParentFacts
    <3>6. Path[l] = {l} \cup Path[i] /\ Path[r] = {r} \cup Path[i] /\ i \in Path[i]
      BY <2>2, <3>2, <3>5, PathFacts, PathsSound DEF PathSound
    <3> HIDE DEF l, r
    <3>7. p \in PagesUnder(l) \/ p \in PagesUnder(r)
      BY <1>1, <2>3, <2>4, <3>2, <3>3 DEF PagesUnder
    <3>8. l \notin T /\ r \notin T
      <4> HIDE DEF T
      <4> QED
        BY <2>1, <2>3, <3>2, <3>4, NodeNumbers
    <3>9. l \in Path[Leaf(p)] \/ r \in Path[Leaf(p)]
      BY <3>2, <3>7, <3>8
    <3> QED
      BY <1>2, <2>2, <3>6, <3>9, PathsSound DEF PathSound
  <2> QED
    BY <2>5, <2>6
<1> QED
  BY <1>2, <1>3, <1>4, <1>5, <1>6

-----------------------------------------------------------------------------
(* Recursion from the leaves up.                                           *)

\* f is at a node what G makes of its values at the children.
ClosedTree(G, S) == \A i \in Nodes : \A u, v \in S : G[i][u][v] \in S
OverTree(f, S, G, d) ==
    /\ f \in [Nodes -> S]
    /\ \A i \in Nodes : f[i] = IF NodeSize[i] > 1
                                THEN G[i][f[LEFT_LEAF(i)]][f[RIGHT_LEAF(i)]]
                                ELSE G[i][d][d]

\* The same for the nodes from m on.
FromNode(f, m, S, G, d) ==
    /\ f \in [m .. 2 * Size - 2 -> S]
    /\ \A i \in m .. 2 * Size - 2 : f[i] = IF NodeSize[i] > 1
                                            THEN G[i][f[LEFT_LEAF(i)]][f[RIGHT_LEAF(i)]]
                                            ELSE G[i][d][d]

LEMMA FromNodeStep ==
    ASSUME NEW S, NEW G, NEW d \in S, ClosedTree(G, S), NEW i \in Nodes, NEW m, m = i + 1,
           NEW f, FromNode(f, m, S, G, d)
    PROVE  \E g : FromNode(g, i, S, G, d)
<1> DEFINE last == 2 * Size - 2
           l == LEFT_LEAF(i)
           r == RIGHT_LEAF(i)
           value == IF NodeSize[i] > 1 THEN G[i][f[l]][f[r]] ELSE G[i][d][d]
           g == [x \in i .. last |-> IF x = i THEN value ELSE f[x]]
<1>1. i \in Nat /\ last \in Nat /\ i \in i .. last /\ Nodes = 0 .. last
  BY NodeNumbers DEF Nodes
<1>2. NodeSize[i] > 1 => l \in m .. last /\ r \in m .. last
  <2> SUFFICES ASSUME NodeSize[i] > 1 PROVE l \in m .. last /\ r \in m .. last
    OBVIOUS
  <2>1. l \in Nodes /\ r \in Nodes
    BY Shape
  <2> QED
    BY <1>1, <2>1 DEF LEFT_LEAF, RIGHT_LEAF
<1>3. f \in [m .. last -> S]
  BY DEF FromNode
<1> HIDE DEF l, r, last
<1>4. value \in S
  BY <1>2, <1>3 DEF ClosedTree
<1>5. ASSUME NEW x \in m .. last PROVE g[x] = f[x] /\ g[x] \in S /\ x # i /\ x \in i .. last
  <2>1. x # i /\ x \in i .. last
    BY <1>1
  <2> QED
    BY <1>3, <2>1
<1>6. g[i] = value
  BY <1>1
<1>7. ASSUME NEW x \in i .. last PROVE x = i \/ x \in m .. last
  BY <1>1
<1> HIDE DEF g
<1>8. ASSUME NEW x \in i .. last PROVE g[x] \in S
  BY <1>4, <1>5, <1>6, <1>7
<1>9. g = [x \in i .. last |-> g[x]]
  BY DEF g
<1>10. g \in [i .. last -> S]
  BY <1>8, <1>9
<1>11. ASSUME NEW x \in i .. last
       PROVE  g[x] = IF NodeSize[x] > 1
                     THEN G[x][g[LEFT_LEAF(x)]][g[RIGHT_LEAF(x)]] ELSE G[x][d][d]
  <2>1. CASE x = i
    <3>1. NodeSize[i] > 1 => g[l] = f[l] /\ g[r] = f[r]
      BY <1>2, <1>5
    <3> QED
      BY <1>6, <2>1, <3>1 DEF l, r
  <2>2. CASE x # i
    <3>1. x \in m .. last
      BY <1>7, <2>2
    <3>2. x \in Nodes /\ x \in Nat
      BY <1>1 DEF last
    <3>3. NodeSize[x] > 1 => LEFT_LEAF(x) \in m .. last /\ RIGHT_LEAF(x) \in m .. last
      <4> SUFFICES ASSUME NodeSize[x] > 1
                   PROVE  LEFT_LEAF(x) \in m .. last /\ RIGHT_LEAF(x) \in m .. last
        OBVIOUS
      <4>1. LEFT_LEAF(x) \in Nodes /\ RIGHT_LEAF(x) \in Nodes
        BY <3>2, Shape
      <4> QED
        BY <1>1, <3>1, <3>2, <4>1 DEF LEFT_LEAF, RIGHT_LEAF
    <3>4. f[x] = IF NodeSize[x] > 1
                 THEN G[x][f[LEFT_LEAF(x)]][f[RIGHT_LEAF(x)]] ELSE G[x][d][d]
      BY <3>1 DEF FromNode, last
    <3> QED
      BY <1>5, <3>1, <3>3, <3>4
  <2> QED
    BY <2>1, <2>2
<1>12. FromNode(g, i, S, G, d)
  BY <1>10, <1>11 DEF FromNode, last
<1> QED
  BY <1>12

LEMMA Downward ==
    ASSUME NEW S, NEW G, NEW d \in S, ClosedTree(G, S)
    PROVE  \E f : OverTree(f, S, G, d)
<1> DEFINE last == 2 * Size - 2
           T == {m \in 0 .. last + 1 : \E f : FromNode(f, m, S, G, d)}
<1>1. last \in Nat /\ Nodes = 0 .. last
  BY ParentFacts DEF Nodes
<1>2. last + 1 \in T
  <2> DEFINE f == [x \in {} |-> d]
  <2>1. last + 1 .. last = {}
    BY <1>1
  <2>2. FromNode(f, last + 1, S, G, d)
    BY <2>1 DEF FromNode
  <2>3. last + 1 \in 0 .. last + 1
    BY <1>1
  <2> HIDE DEF f
  <2> QED
    BY <2>2, <2>3
<1>3. PICK m \in T : \A k \in T : m <= k
  <2>1. T \subseteq Nat /\ T # {}
    BY <1>1, <1>2
  <2> HIDE DEF T
  <2> QED
    BY <2>1, LeastElement
<1>4. m = 0
  <2> SUFFICES ASSUME m # 0 PROVE FALSE
    OBVIOUS
  <2> DEFINE i == m - 1
  <2>1. m \in 0 .. last + 1
    OBVIOUS
  <2>2. i \in Nodes /\ m = i + 1 /\ i \in 0 .. last + 1 /\ ~ (m <= i)
    BY <1>1, <2>1
  <2>3. PICK f : FromNode(f, m, S, G, d)
    OBVIOUS
  <2> HIDE DEF i
  <2>4. \E g : FromNode(g, i, S, G, d)
    BY <2>2, <2>3, FromNodeStep
  <2>5. i \in T
    BY <2>2, <2>4
  <2> HIDE DEF T
  <2> QED
    BY <1>3, <2>2, <2>5
<1>5. PICK f : FromNode(f, 0, S, G, d)
  BY <1>3, <1>4
<1>6. OverTree(f, S, G, d)
  BY <1>1, <1>5 DEF FromNode, OverTree
<1> QED
  BY <1>6

-----------------------------------------------------------------------------
(* Writing a node and its ancestors.                                       *)

Values == {0} \cup Orders

\* The values of a node.
Bounded(bm) == bm \in [Nodes -> Values] /\ \A i \in Nodes : bm[i] <= NodeSize[i]

\* What Update makes of a tree: the node gets its value, its ancestors are computed anew,
\* and nothing else changes.
Updated(u, bm, i, s, merge) ==
    /\ u \in [Nodes -> Nat]
    /\ u[i] = s
    /\ \A j \in Path[i] : j # i =>
          u[j] = Join(merge, NodeSize[j], u[LEFT_LEAF(j)], u[RIGHT_LEAF(j)])
    /\ \A j \in Nodes : j \notin Path[i] => u[j] = bm[j]

LEMMA ChildrenOf ==
    ASSUME NEW i \in Nodes, NodeSize[i] > 1
    PROVE  /\ LEFT_LEAF(i) \in Nodes /\ RIGHT_LEAF(i) \in Nodes
           /\ ~ (LEFT_LEAF(i) <= i) /\ ~ (RIGHT_LEAF(i) <= i)
<1>1. LEFT_LEAF(i) \in Nodes /\ RIGHT_LEAF(i) \in Nodes
  BY Shape
<1>2. i \in Nat
  BY NodeNumbers
<1> QED
  BY <1>1, <1>2 DEF LEFT_LEAF, RIGHT_LEAF

LEMMA UpdateNodes ==
    ASSUME NEW bm, bm \in [Nodes -> Nat], NEW i \in Nodes, NEW s \in Nat, NEW merge
    PROVE  Updated(Update(bm, i, s, merge), bm, i, s, merge)
<1> DEFINE G == [j \in Nodes |-> [v \in Nat |-> [w \in Nat |->
                    IF j = i THEN s
                    ELSE IF j \in Path[i] THEN Join(merge, NodeSize[j], v, w)
                         ELSE bm[j]]]]
           IsNew(f) == f = [j \in Nodes |->
                    IF j = i THEN s
                    ELSE IF j \in Path[i]
                         THEN Join(merge, NodeSize[j], f[LEFT_LEAF(j)], f[RIGHT_LEAF(j)])
                         ELSE bm[j]]
<1>1. ASSUME NEW j \in Nodes, NEW v \in Nat, NEW w \in Nat
      PROVE  Join(merge, NodeSize[j], v, w) \in Nat
  <2>1. NodeSize[j] \in Nat
    BY NodeNumbers
  <2> QED
    BY <2>1 DEF Join, MAX
<1>2. ASSUME NEW j \in Nodes, NEW v \in Nat, NEW w \in Nat
      PROVE  /\ G[j][v][w] \in Nat
             /\ G[j][v][w] = IF j = i THEN s
                             ELSE IF j \in Path[i] THEN Join(merge, NodeSize[j], v, w)
                             ELSE bm[j]
  BY <1>1
<1> HIDE DEF G
<1>3. PICK f : OverTree(f, Nat, G, 0)
  <2>1. ClosedTree(G, Nat)
    BY <1>2 DEF ClosedTree
  <2> QED
    BY <2>1, Downward
<1>4. f \in [Nodes -> Nat]
  BY <1>3 DEF OverTree
<1>5. ASSUME NEW j \in Nodes
      PROVE  f[j] = IF j = i THEN s
                    ELSE IF j \in Path[i]
                         THEN Join(merge, NodeSize[j], f[LEFT_LEAF(j)], f[RIGHT_LEAF(j)])
                         ELSE bm[j]
  <2>1. CASE NodeSize[j] > 1
    <3>1. f[LEFT_LEAF(j)] \in Nat /\ f[RIGHT_LEAF(j)] \in Nat
      BY <1>4, <2>1, Shape
    <3>2. f[j] = G[j][f[LEFT_LEAF(j)]][f[RIGHT_LEAF(j)]]
      BY <1>3, <2>1 DEF OverTree
    <3> QED
      BY <1>2, <3>1, <3>2
  <2>2. CASE ~ (NodeSize[j] > 1)
    <3>1. j = i \/ j \notin Path[i]
      BY <2>2, PathsSound DEF PathSound
    <3>2. f[j] = G[j][0][0]
      BY <1>3, <2>2 DEF OverTree
    <3> QED
      BY <1>2, <3>1, <3>2
  <2> QED
    BY <2>1, <2>2
<1>6. IsNew(f)
  BY <1>4, <1>5
<1> DEFINE u == CHOOSE g : IsNew(g)
<1>7. IsNew(u)
  <2> HIDE DEF IsNew
  <2> QED
    BY <1>6, Zenon
<1>8. Update(bm, i, s, merge) = u
  BY Zenon DEF Update
<1> HIDE DEF u
<1>9. ASSUME NEW j \in Nodes
      PROVE  u[j] = IF j = i THEN s
                    ELSE IF j \in Path[i]
                         THEN Join(merge, NodeSize[j], u[LEFT_LEAF(j)], u[RIGHT_LEAF(j)])
                         ELSE bm[j]
  BY <1>7
<1>10. u = f
  <2> DEFINE T == {j \in Nodes : u[j] # f[j]}
             last == 2 * Size - 2
  <2>1. T = {}
    <3> SUFFICES ASSUME T # {} PROVE FALSE
      OBVIOUS
    <3>1. PICK j \in T : \A k \in T : k <= j
      <4>1. last \in Nat /\ T \subseteq 0 .. last
        BY NodeNumbers DEF Nodes
      <4> HIDE DEF T, last
      <4> QED
        BY <4>1, GreatestElement
    <3>2. j \in Nodes /\ j \in Nat /\ u[j] # f[j]
      BY NodeNumbers
    <3>3. j \in Path[i] /\ j # i
      BY <1>5, <1>9, <3>2
    <3>4. NodeSize[j] > 1
      BY <3>3, PathsSound DEF PathSound
    <3>5. LEFT_LEAF(j) \in Nodes /\ RIGHT_LEAF(j) \in Nodes
      BY <3>2, <3>4, Shape
    <3>6. ~ (LEFT_LEAF(j) <= j) /\ ~ (RIGHT_LEAF(j) <= j)
      BY <3>2, <3>4, ChildrenOf
    <3>7. LEFT_LEAF(j) \notin T /\ RIGHT_LEAF(j) \notin T
      <4> HIDE DEF T
      <4> QED
        BY <3>1, <3>6
    <3>8. u[LEFT_LEAF(j)] = f[LEFT_LEAF(j)] /\ u[RIGHT_LEAF(j)] = f[RIGHT_LEAF(j)]
      BY <3>5, <3>7
    <3> QED
      BY <1>5, <1>9, <3>2, <3>8
  <2>2. u = [j \in Nodes |-> u[j]]
    BY <1>7
  <2> HIDE DEF IsNew
  <2> QED
    BY <1>4, <2>1, <2>2
<1>11. u \in [Nodes -> Nat]
  BY <1>4, <1>10
<1>12. \A j \in Path[i] : j \in Nodes
  BY PathsSound DEF PathSound
<1> HIDE DEF IsNew
<1>13. Updated(u, bm, i, s, merge)
  BY <1>9, <1>11, <1>12, PathsSound DEF Updated, PathSound
<1> QED
  BY <1>8, <1>13

\* What a node's value x says of its children's, v and w.
JoinSound(j, v, w, x, merge) ==
    /\ x \in Values /\ x <= NodeSize[j] /\ v <= x /\ w <= x
    /\ x < NodeSize[j] => x = v \/ x = w
    /\ x = 0 => v = 0 /\ w = 0
    /\ ~ merge => x < NodeSize[j]
    /\ x = NodeSize[j] => v = NodeSize[LEFT_LEAF(j)] /\ w = NodeSize[RIGHT_LEAF(j)]
    /\ v # NodeSize[LEFT_LEAF(j)] \/ w # NodeSize[RIGHT_LEAF(j)] \/ merge
          => x = Join(TRUE, NodeSize[j], v, w)
    /\ v = NodeSize[LEFT_LEAF(j)] /\ w = NodeSize[RIGHT_LEAF(j)] /\ merge => x = NodeSize[j]

LEMMA JoinFacts ==
    ASSUME NEW j \in Nodes, NodeSize[j] > 1, NEW v \in Values, NEW w \in Values,
           v <= NodeSize[LEFT_LEAF(j)], w <= NodeSize[RIGHT_LEAF(j)], NEW merge \in BOOLEAN
    PROVE  JoinSound(j, v, w, Join(merge, NodeSize[j], v, w), merge)
<1> DEFINE s == NodeSize[j]
           x == Join(merge, NodeSize[j], v, w)
<1>1. PICK h \in Orders : s = 2 * h /\ NodeSize[LEFT_LEAF(j)] = h /\ NodeSize[RIGHT_LEAF(j)] = h
  BY Shape
<1>2. /\ s \in Orders /\ s \in Nat \ {0} /\ h \in Nat \ {0} /\ v \in Nat /\ w \in Nat
      /\ v <= h /\ w <= h
  BY <1>1, OrderFacts, Geometry DEF Values
<1>3. x = s \/ x = v \/ x = w
  BY DEF Join, MAX
<1>4. x \in Values
  BY <1>2, <1>3 DEF Values
<1>5. x = IF merge /\ v + w = s THEN s ELSE IF v > w THEN v ELSE w
  BY DEF Join, MAX
<1>6. Join(TRUE, NodeSize[j], v, w) = IF v + w = s THEN s ELSE IF v > w THEN v ELSE w
  BY DEF Join, MAX
<1> DEFINE y == Join(TRUE, NodeSize[j], v, w)
<1> HIDE DEF x, y
<1>7. JoinSound(j, v, w, x, merge)
  <2>1. CASE merge
    <3>1. x = IF v + w = s THEN s ELSE IF v > w THEN v ELSE w
      BY <1>5, <2>1
    <3>2. y = x
      BY <1>6, <3>1 DEF y
    <3> HIDE DEF s
    <3>3. /\ x <= s /\ v <= x /\ w <= x
          /\ x < s => x = v \/ x = w
          /\ x = 0 => v = 0 /\ w = 0
          /\ x = s <=> v = h /\ w = h
      BY <1>1, <1>2, <3>1
    <3> QED
      BY <1>1, <1>4, <2>1, <3>2, <3>3 DEF JoinSound, y, s
  <2>2. CASE ~ merge
    <3>1. x = IF v > w THEN v ELSE w
      BY <1>5, <2>2
    <3>2. y = IF v + w = s THEN s ELSE IF v > w THEN v ELSE w
      BY <1>6 DEF y
    <3> HIDE DEF s
    <3>3. /\ x <= s /\ v <= x /\ w <= x /\ x < s
          /\ x = v \/ x = w
          /\ x = 0 => v = 0 /\ w = 0
          /\ v # h \/ w # h => x = y
          /\ x # s
      BY <1>1, <1>2, <3>1, <3>2
    <3> QED
      BY <1>1, <1>4, <2>2, <3>3 DEF JoinSound, y, s
  <2> QED
    BY <2>1, <2>2
<1> QED
  BY <1>7 DEF x

LEMMA UpdateBounded ==
    ASSUME NEW bm, Bounded(bm), NEW i \in Nodes, NEW s \in Values, s <= NodeSize[i],
           NEW merge \in BOOLEAN, NEW u, u = Update(bm, i, s, merge)
    PROVE  Bounded(u) /\ Updated(u, bm, i, s, merge)
<1>1. bm \in [Nodes -> Nat] /\ s \in Nat
  <2>1. Values \subseteq Nat
    BY OrderFacts DEF Values
  <2> QED
    BY <2>1 DEF Bounded
<1>2. Updated(u, bm, i, s, merge)
  BY <1>1, UpdateNodes
<1> DEFINE last == 2 * Size - 2
           Good(j) == u[j] \in Values /\ u[j] <= NodeSize[j]
           T == {j \in Nodes : ~ Good(j)}
<1>3. T = {}
  <2> SUFFICES ASSUME T # {} PROVE FALSE
    OBVIOUS
  <2>1. PICK j \in T : \A k \in T : k <= j
    <3>1. last \in Nat /\ T \subseteq 0 .. last
      BY NodeNumbers DEF Nodes
    <3> HIDE DEF T, last
    <3> QED
      BY <3>1, GreatestElement
  <2>2. j \in Nodes /\ j \in Nat /\ ~ Good(j)
    BY NodeNumbers
  <2>3. j # i /\ j \in Path[i]
    BY <1>2, <2>2 DEF Updated, Bounded
  <2>4. /\ NodeSize[j] > 1
        /\ u[j] = Join(merge, NodeSize[j], u[LEFT_LEAF(j)], u[RIGHT_LEAF(j)])
    BY <1>2, <2>3, PathsSound DEF PathSound, Updated
  <2>5. LEFT_LEAF(j) \in Nodes /\ RIGHT_LEAF(j) \in Nodes
    BY <2>2, <2>4, Shape
  <2>6. ~ (LEFT_LEAF(j) <= j) /\ ~ (RIGHT_LEAF(j) <= j)
    BY <2>2, <2>4, ChildrenOf
  <2>7. LEFT_LEAF(j) \notin T /\ RIGHT_LEAF(j) \notin T
    <3> HIDE DEF T
    <3> QED
      BY <2>1, <2>6
  <2>8. Good(LEFT_LEAF(j)) /\ Good(RIGHT_LEAF(j))
    BY <2>5, <2>7
  <2>9. Good(j)
    <3> DEFINE v == u[LEFT_LEAF(j)]
               w == u[RIGHT_LEAF(j)]
    <3>1. /\ v \in Values /\ w \in Values
          /\ v <= NodeSize[LEFT_LEAF(j)] /\ w <= NodeSize[RIGHT_LEAF(j)]
      BY <2>8
    <3>2. j \in Nodes /\ NodeSize[j] > 1
      BY <2>2, <2>4
    <3> HIDE DEF v, w
    <3>3. JoinSound(j, v, w, Join(merge, NodeSize[j], v, w), merge)
      BY <3>1, <3>2, JoinFacts
    <3> QED
      BY <2>4, <3>3 DEF v, w, JoinSound
  <2> QED
    BY <2>2, <2>9
<1>4. \A j \in Nodes : Good(j)
  BY <1>3
<1>5. u \in [Nodes -> Nat]
  BY <1>2 DEF Updated
<1>6. Bounded(u)
  BY <1>4, <1>5 DEF Bounded
<1> QED
  BY <1>2, <1>6

-----------------------------------------------------------------------------
(* What a sound tree says.                                                 *)

PoolSound(bm) == Bounded(bm) /\ TreeSound(bm)

\* The children of a whole node and of a block are whole; of any other zero node, zero.
LEMMA ChildrenSound ==
    ASSUME NEW bm, PoolSound(bm), NEW i \in Nodes, NodeSize[i] > 1
    PROVE  /\ Whole(bm, i) \/ IsBlock(bm, i)
                 => Whole(bm, LEFT_LEAF(i)) /\ Whole(bm, RIGHT_LEAF(i))
           /\ bm[i] = 0 /\ ~ IsBlock(bm, i) => bm[LEFT_LEAF(i)] = 0 /\ bm[RIGHT_LEAF(i)] = 0
           /\ bm[i] # 0 => bm[i] = Join(TRUE, NodeSize[i], bm[LEFT_LEAF(i)], bm[RIGHT_LEAF(i)])
           /\ JoinSound(i, bm[LEFT_LEAF(i)], bm[RIGHT_LEAF(i)],
                        Join(TRUE, NodeSize[i], bm[LEFT_LEAF(i)], bm[RIGHT_LEAF(i)]), TRUE)
<1> DEFINE l == LEFT_LEAF(i)
           r == RIGHT_LEAF(i)
           v == bm[l]
           w == bm[r]
<1>1. /\ l \in Nodes /\ r \in Nodes /\ NodeSize[i] # 0
      /\ NodeSize[l] # 0 /\ NodeSize[r] # 0
  <2>1. l \in Nodes /\ r \in Nodes
    BY ChildrenOf
  <2> HIDE DEF l, r
  <2> QED
    BY <2>1, NodeNumbers
<1>2. v \in Values /\ w \in Values /\ v <= NodeSize[l] /\ w <= NodeSize[r]
  BY <1>1 DEF PoolSound, Bounded
<1>3. \/ bm[i] = Join(TRUE, NodeSize[i], v, w)
      \/ bm[i] = 0 /\ v = NodeSize[l] /\ w = NodeSize[r]
  BY DEF PoolSound, TreeSound, NodeSound, Whole
<1>4. IsBlock(bm, i) <=> bm[i] = 0 /\ v # 0
  BY DEF IsBlock
<1>5. JoinSound(i, v, w, Join(TRUE, NodeSize[i], v, w), TRUE)
  <2> HIDE DEF v, w
  <2>1. v <= NodeSize[LEFT_LEAF(i)] /\ w <= NodeSize[RIGHT_LEAF(i)] /\ TRUE \in BOOLEAN
    BY <1>2
  <2> QED
    BY <1>2, <2>1, JoinFacts
<1> DEFINE x == Join(TRUE, NodeSize[i], v, w)
<1>6. /\ x = 0 => v = 0 /\ w = 0
      /\ x = NodeSize[i] => v = NodeSize[l] /\ w = NodeSize[r]
  BY <1>5 DEF JoinSound
<1> HIDE DEF x, v, w, l, r
<1>7. Whole(bm, i) \/ IsBlock(bm, i) => v = NodeSize[l] /\ w = NodeSize[r]
  BY <1>1, <1>3, <1>4, <1>6 DEF x, Whole
<1>8. bm[i] = 0 /\ ~ IsBlock(bm, i) => v = 0 /\ w = 0
  BY <1>1, <1>3, <1>4, <1>6 DEF x
<1>9. bm[i] # 0 => bm[i] = x
  BY <1>3 DEF x
<1> QED
  BY <1>5, <1>7, <1>8, <1>9 DEF v, w, l, r, x, Whole

\* Below a whole node, and below a block, every node is whole.
LEMMA WholeBelow ==
    ASSUME NEW bm, PoolSound(bm), NEW i \in Nodes, Whole(bm, i) \/ IsBlock(bm, i),
           NEW k \in Nodes, i \in Path[k], k # i
    PROVE  Whole(bm, k)
<1> DEFINE T == {n \in Nodes : i \in Path[n] /\ n # i /\ ~ Whole(bm, n)}
<1> SUFFICES ASSUME T # {} PROVE FALSE
  OBVIOUS
<1>1. PICK n \in T : \A m \in T : n <= m
  <2>1. T \subseteq Nat
    BY NodeNumbers
  <2> HIDE DEF T
  <2> QED
    BY <2>1, LeastElement
<1>2. n \in Nodes /\ n \in Nat /\ i \in Path[n] /\ n # i /\ ~ Whole(bm, n)
  BY NodeNumbers
<1>3. n # 0
  BY <1>2, PathFacts
<1> DEFINE p == PARENT(n)
<1>4. /\ p \in Nodes /\ ~ (n <= p) /\ NodeSize[p] > 1
      /\ n = LEFT_LEAF(p) \/ n = RIGHT_LEAF(p)
  BY <1>2, <1>3, ParentOf
<1>5. i \in Path[p]
  BY <1>2, <1>3, PathFacts
<1> HIDE DEF p
<1>6. Whole(bm, p) \/ IsBlock(bm, p)
  <2>1. CASE p = i
    BY <2>1
  <2>2. CASE p # i
    <3>1. p \notin T
      <4> HIDE DEF T
      <4> QED
        BY <1>1, <1>4
    <3> QED
      BY <1>4, <1>5, <2>2, <3>1
  <2> QED
    BY <2>1, <2>2
<1> QED
  BY <1>2, <1>4, <1>6, ChildrenSound

\* No block lies below another.
LEMMA OneBlock ==
    ASSUME NEW bm, PoolSound(bm), NEW x \in Nodes, NEW i \in Path[x], NEW k \in Path[x],
           IsBlock(bm, i), bm[k] = 0, IsBlock(bm, k) \/ i \in Path[k]
    PROVE  i = k
<1>1. i \in Nodes /\ k \in Nodes /\ NodeSize[i] # 0 /\ NodeSize[k] # 0
  BY PathsSound, NodeNumbers DEF PathSound
<1>2. i \in Path[k] \/ k \in Path[i]
  BY PathsSound DEF PathSound
<1>3. CASE i \in Path[k]
  BY <1>1, <1>3, WholeBelow DEF Whole
<1>4. CASE k \in Path[i] /\ IsBlock(bm, k)
  BY <1>1, <1>4, WholeBelow DEF Whole, IsBlock
<1> QED
  BY <1>2, <1>3, <1>4

\* A page that is not free lies in a block.
LEMMA FreeOrBlock ==
    ASSUME NEW bm, PoolSound(bm), NEW p \in Pfns, NEW z \in Path[Leaf(p)], bm[z] = 0
    PROVE  \E i \in Path[Leaf(p)] : IsBlock(bm, i)
<1> DEFINE x == Leaf(p)
           last == 2 * Size - 2
           T == {i \in Path[x] : bm[i] = 0}
<1>1. x \in Nodes /\ NodeSize[x] = 1
  BY LeafPath
<1>2. PICK i \in T : \A k \in T : k <= i
  <2>1. last \in Nat /\ T \subseteq 0 .. last /\ T # {}
    BY <1>1, PathsSound, NodeNumbers DEF PathSound, Nodes
  <2> HIDE DEF T, last
  <2> QED
    BY <2>1, GreatestElement
<1>3. i \in Path[x] /\ bm[i] = 0
  OBVIOUS
<1> HIDE DEF x, last
<1>4. i \in Nodes
  BY <1>1, <1>3, PathsSound DEF PathSound
<1>5. IsBlock(bm, i)
  <2> SUFFICES ASSUME ~ IsBlock(bm, i) PROVE FALSE
    OBVIOUS
  <2>1. NodeSize[i] > 1
    BY <1>3 DEF IsBlock
  <2>2. i # x
    BY <1>1, <2>1
  <2>3. LEFT_LEAF(i) \in Path[x] \/ RIGHT_LEAF(i) \in Path[x]
    BY <1>1, <1>3, <2>2, PathsSound DEF PathSound
  <2>4. bm[LEFT_LEAF(i)] = 0 /\ bm[RIGHT_LEAF(i)] = 0
    BY <1>3, <1>4, <2>1, ChildrenSound
  <2>5. ~ (LEFT_LEAF(i) <= i) /\ ~ (RIGHT_LEAF(i) <= i)
    BY <1>4, <2>1, ChildrenOf
  <2> QED
    BY <1>2, <2>3, <2>4, <2>5
<1> QED
  BY <1>3, <1>5 DEF x

-----------------------------------------------------------------------------
(* The way down.                                                           *)

\* at is the walk of Descend: from every node, the one where it ends.
Descents(at, bm, n) ==
    \A i \in Nodes : NodeSize[i] >= n =>
        at[i] = IF NodeSize[i] = n THEN i
                ELSE IF bm[LEFT_LEAF(i)] >= n THEN at[LEFT_LEAF(i)] ELSE at[RIGHT_LEAF(i)]

\* A node that is larger than n has halves that are not smaller.
LEMMA HalfLargeEnough ==
    ASSUME NEW n \in Orders, NEW i \in Nodes, NodeSize[i] >= n, NodeSize[i] # n
    PROVE  \E h \in Orders :
              /\ n <= h /\ h <= NodeSize[i] /\ NodeSize[i] > 1
              /\ LEFT_LEAF(i) \in Nodes /\ RIGHT_LEAF(i) \in Nodes
              /\ NodeSize[LEFT_LEAF(i)] = h /\ NodeSize[RIGHT_LEAF(i)] = h
              /\ NodeSize[i] = 2 * h
              /\ FirstPfn(LEFT_LEAF(i)) = FirstPfn(i)
              /\ FirstPfn(RIGHT_LEAF(i)) = FirstPfn(i) + h
<1>1. n \in Nat \ {0} /\ NodeSize[i] \in Nat \ {0} /\ NodeSize[i] \in Orders
  BY OrderFacts, Geometry
<1>2. n < NodeSize[i] /\ NodeSize[i] > 1
  BY <1>1
<1>3. 2 * n <= NodeSize[i]
  BY <1>1, <1>2, OrderFacts
<1>4. PICK h \in Orders :
              /\ NodeSize[i] = 2 * h
              /\ LEFT_LEAF(i) \in Nodes /\ RIGHT_LEAF(i) \in Nodes
              /\ NodeSize[LEFT_LEAF(i)] = h /\ NodeSize[RIGHT_LEAF(i)] = h
              /\ FirstPfn(LEFT_LEAF(i)) = FirstPfn(i)
              /\ FirstPfn(RIGHT_LEAF(i)) = FirstPfn(i) + h
  BY <1>2, Shape
<1>5. h \in Nat /\ n <= h /\ h <= NodeSize[i]
  <2>1. h \in Nat
    BY OrderFacts
  <2> QED
    BY <1>1, <1>3, <1>4, <2>1
<1> QED
  BY <1>2, <1>4, <1>5

LEMMA DescendWalks ==
    ASSUME NEW bm, NEW n \in Orders
    PROVE  \E at : Descents(at, bm, n) /\ Descend(bm, n) = at[0]
<1> DEFINE D == {j \in Nodes : NodeSize[j] >= n}
           G == [i \in Nodes |-> [v \in Nodes |-> [w \in Nodes |->
                    IF NodeSize[i] = n THEN i
                    ELSE IF bm[LEFT_LEAF(i)] >= n THEN v ELSE w]]]
           IsWalk(f) == f = [i \in D |->
                    IF NodeSize[i] = n THEN i
                    ELSE IF bm[LEFT_LEAF(i)] >= n THEN f[LEFT_LEAF(i)] ELSE f[RIGHT_LEAF(i)]]
<1>1. ASSUME NEW i \in Nodes, NEW v \in Nodes, NEW w \in Nodes
      PROVE  /\ G[i][v][w] \in Nodes
             /\ G[i][v][w] = IF NodeSize[i] = n THEN i
                             ELSE IF bm[LEFT_LEAF(i)] >= n THEN v ELSE w
  OBVIOUS
<1> HIDE DEF G
<1>2. PICK f : OverTree(f, Nodes, G, 0)
  <2>1. ClosedTree(G, Nodes) /\ 0 \in Nodes
    <3>1. 0 \in Nodes
      BY ParentFacts DEF Nodes
    <3> QED
      BY <1>1, <3>1 DEF ClosedTree
  <2> QED
    BY <2>1, Downward
<1>3. f \in [Nodes -> Nodes]
  BY <1>2 DEF OverTree
<1> DEFINE g == [i \in D |-> f[i]]
<1>4. ASSUME NEW i \in D, NodeSize[i] # n
      PROVE  i \in Nodes /\ LEFT_LEAF(i) \in D /\ RIGHT_LEAF(i) \in D /\ NodeSize[i] > 1
  <2>1. i \in Nodes /\ NodeSize[i] >= n
    OBVIOUS
  <2>2. PICK h \in Orders :
              /\ n <= h /\ NodeSize[i] > 1
              /\ LEFT_LEAF(i) \in Nodes /\ RIGHT_LEAF(i) \in Nodes
              /\ NodeSize[LEFT_LEAF(i)] = h /\ NodeSize[RIGHT_LEAF(i)] = h
    BY <1>4, <2>1, HalfLargeEnough
  <2>3. h \in Nat /\ n \in Nat
    BY OrderFacts
  <2> QED
    BY <2>1, <2>2, <2>3
<1>5. ASSUME NEW i \in D
      PROVE  f[i] = IF NodeSize[i] = n THEN i
                    ELSE IF bm[LEFT_LEAF(i)] >= n THEN f[LEFT_LEAF(i)] ELSE f[RIGHT_LEAF(i)]
  <2>1. i \in Nodes /\ NodeSize[i] >= n /\ 0 \in Nodes
    BY NodeNumbers
  <2>2. CASE NodeSize[i] > 1
    <3>1. LEFT_LEAF(i) \in Nodes /\ RIGHT_LEAF(i) \in Nodes
      BY <2>1, <2>2, Shape
    <3>2. f[LEFT_LEAF(i)] \in Nodes /\ f[RIGHT_LEAF(i)] \in Nodes
      BY <1>3, <3>1
    <3>3. f[i] = G[i][f[LEFT_LEAF(i)]][f[RIGHT_LEAF(i)]]
      BY <1>2, <2>1, <2>2 DEF OverTree
    <3> QED
      BY <1>1, <2>1, <3>2, <3>3
  <2>3. CASE ~ (NodeSize[i] > 1)
    <3>1. NodeSize[i] = n
      BY <1>4, <2>3
    <3>2. f[i] = G[i][0][0]
      BY <1>2, <2>1, <2>3 DEF OverTree
    <3> QED
      BY <1>1, <2>1, <3>1, <3>2
  <2> QED
    BY <2>2, <2>3
<1>6. \A i \in D : g[i] = f[i]
  OBVIOUS
<1>7. IsWalk(g)
  <2> HIDE DEF D
  <2>1. ASSUME NEW i \in D
        PROVE  g[i] = IF NodeSize[i] = n THEN i
                      ELSE IF bm[LEFT_LEAF(i)] >= n THEN g[LEFT_LEAF(i)] ELSE g[RIGHT_LEAF(i)]
    <3> HIDE DEF g
    <3> QED
      BY <1>4, <1>5, <1>6
  <2> QED
    BY <2>1
<1> DEFINE at == CHOOSE a : IsWalk(a)
<1>8. IsWalk(at)
  <2> HIDE DEF IsWalk, g
  <2> QED
    BY <1>7, Zenon
<1>9. Descend(bm, n) = at[0]
  BY Zenon DEF Descend
<1> HIDE DEF at
<1>10. ASSUME NEW i \in D
       PROVE  at[i] = IF NodeSize[i] = n THEN i
                      ELSE IF bm[LEFT_LEAF(i)] >= n THEN at[LEFT_LEAF(i)] ELSE at[RIGHT_LEAF(i)]
  <2> HIDE DEF D
  <2> QED
    BY <1>8
<1>11. Descents(at, bm, n)
  BY <1>10 DEF Descents
<1> QED
  BY <1>9, <1>11

\* From node i the walk comes to x, the lowest of the nodes of the size with room all
\* the way.
HasRoom(bm, n, i, x) == \A j \in Path[x] : i \in Path[j] => bm[j] >= n
Reaches(bm, n, i, x) ==
    /\ x \in Nodes /\ NodeSize[x] = n /\ i \in Path[x] /\ HasRoom(bm, n, i, x)
    /\ \A k \in Nodes :
          NodeSize[k] = n /\ i \in Path[k] /\ HasRoom(bm, n, i, k) => FirstPfn(x) <= FirstPfn(k)

\* Paths through a child go through the node.
LEMMA PathOfChild ==
    ASSUME NEW i \in Nodes, NodeSize[i] > 1, NEW c, c = LEFT_LEAF(i) \/ c = RIGHT_LEAF(i)
    PROVE  /\ c \in Nodes /\ Path[c] = {c} \cup Path[i] /\ i \in Path[c]
           /\ \A x \in Nodes : c \in Path[x] => i \in Path[x]
<1>1. c \in Nodes /\ i \in Nat
  BY ChildrenOf, NodeNumbers
<1>2. c # 0 /\ PARENT(c) = i
  <2>1. PARENT(c) = i
    BY <1>1, ParentFacts
  <2>2. c # 0
    BY <1>1 DEF LEFT_LEAF, RIGHT_LEAF
  <2> QED
    BY <2>1, <2>2
<1>3. Path[c] = {c} \cup Path[i] /\ i \in Path[c]
  BY <1>1, <1>2, PathFacts, PathsSound DEF PathSound
<1>4. \A x \in Nodes : c \in Path[x] => i \in Path[x]
  BY <1>3, PathsSound DEF PathSound
<1> QED
  BY <1>1, <1>3, <1>4

LEMMA ReachStep ==
    ASSUME NEW bm, NEW n \in Orders, NEW i \in Nodes, NodeSize[i] >= n, NodeSize[i] # n,
           bm[i] >= n, NEW c, bm[c] >= n,
           c = LEFT_LEAF(i) \/ (c = RIGHT_LEAF(i) /\ ~ (bm[LEFT_LEAF(i)] >= n)),
           NEW x, Reaches(bm, n, c, x)
    PROVE  Reaches(bm, n, i, x)
<1> DEFINE l == LEFT_LEAF(i)
           r == RIGHT_LEAF(i)
<1>1. PICK h \in Orders :
              /\ n <= h /\ h <= NodeSize[i] /\ NodeSize[i] > 1
              /\ l \in Nodes /\ r \in Nodes
              /\ NodeSize[l] = h /\ NodeSize[r] = h
              /\ NodeSize[i] = 2 * h
              /\ FirstPfn(l) = FirstPfn(i) /\ FirstPfn(r) = FirstPfn(i) + h
  BY HalfLargeEnough
<1>2. h \in Nat /\ n \in Nat
  BY OrderFacts
<1>3. /\ Path[l] = {l} \cup Path[i] /\ i \in Path[l]
      /\ Path[r] = {r} \cup Path[i] /\ i \in Path[r]
      /\ \A y \in Nodes : l \in Path[y] \/ r \in Path[y] => i \in Path[y]
  BY <1>1, PathOfChild
<1>4. c \in {l, r} /\ c \in Nodes
  BY <1>1
<1> HIDE DEF l, r
<1>5. x \in Nodes /\ NodeSize[x] = n /\ c \in Path[x] /\ HasRoom(bm, n, c, x) /\ i \in Path[x]
  BY <1>3, <1>4 DEF Reaches
<1>6. HasRoom(bm, n, i, x)
  <2> SUFFICES ASSUME NEW j \in Path[x], i \in Path[j] PROVE bm[j] >= n
    BY DEF HasRoom
  <2>1. j \in Path[c] \/ c \in Path[j]
    BY <1>5, PathsSound DEF PathSound
  <2>2. CASE c \in Path[j]
    BY <1>5, <2>2 DEF HasRoom
  <2>3. CASE j \in Path[c]
    <3>1. j = c \/ j \in Path[i]
      BY <1>3, <1>4, <2>3
    <3>2. CASE j = c
      BY <3>2
    <3>3. CASE j \in Path[i]
      <4>1. j \in Nodes /\ j <= i /\ i <= j
        BY <3>3, PathsSound DEF PathSound
      <4>2. j \in Nat /\ i \in Nat
        BY <4>1, NodeNumbers
      <4>3. j = i
        BY <4>1, <4>2
      <4> QED
        BY <4>3
    <3> QED
      BY <3>1, <3>2, <3>3
  <2> QED
    BY <2>1, <2>2, <2>3
<1>7. ASSUME NEW k \in Nodes, NodeSize[k] = n, i \in Path[k], HasRoom(bm, n, i, k)
      PROVE  FirstPfn(x) <= FirstPfn(k)
  <2>1. k # i
    BY <1>7
  <2>2. l \in Path[k] \/ r \in Path[k]
    BY <1>7, <2>1, PathsSound DEF PathSound, l, r
  <2>3. CASE c \in Path[k]
    <3>1. HasRoom(bm, n, c, k)
      <4> SUFFICES ASSUME NEW j \in Path[k], c \in Path[j] PROVE bm[j] >= n
        BY DEF HasRoom
      <4>1. j \in Nodes
        BY <1>7, PathsSound DEF PathSound
      <4>2. i \in Path[j]
        BY <1>3, <1>4, <4>1
      <4> QED
        BY <1>7, <4>2 DEF HasRoom
    <3> QED
      BY <1>7, <2>3, <3>1 DEF Reaches
  <2>4. CASE c \notin Path[k]
    <3>1. CASE c = l
      <4>1. r \in Path[k] /\ l \in Path[x]
        BY <1>5, <2>2, <2>4, <3>1
      <4>2. /\ FirstPfn(r) <= FirstPfn(k)
            /\ FirstPfn(x) + NodeSize[x] <= FirstPfn(l) + NodeSize[l]
        BY <1>5, <4>1, PathsSound DEF PathSound
      <4>3. FirstPfn(x) \in Int /\ FirstPfn(k) \in Int /\ FirstPfn(i) \in Int
        BY <1>5, NodeNumbers
      <4> QED
        BY <1>1, <1>2, <1>5, <4>2, <4>3
    <3>2. CASE c # l
      <4>1. l \in Path[k] /\ ~ (bm[l] >= n)
        BY <1>4, <2>2, <2>4, <3>2 DEF l, r
      <4> QED
        BY <1>3, <1>7, <4>1 DEF HasRoom
    <3> QED
      BY <3>1, <3>2
  <2> QED
    BY <2>3, <2>4
<1> QED
  BY <1>5, <1>6, <1>7 DEF Reaches

LEMMA WalkReaches ==
    ASSUME NEW bm, PoolSound(bm), NEW n \in Orders, NEW at, Descents(at, bm, n),
           NEW i \in Nodes, NodeSize[i] >= n, bm[i] >= n
    PROVE  Reaches(bm, n, i, at[i])
<1> DEFINE last == 2 * Size - 2
           T == {j \in Nodes : NodeSize[j] >= n /\ bm[j] >= n /\ ~ Reaches(bm, n, j, at[j])}
<1> SUFFICES ASSUME T # {} PROVE FALSE
  OBVIOUS
<1>1. PICK j \in T : \A k \in T : k <= j
  <2>1. last \in Nat /\ T \subseteq 0 .. last
    BY NodeNumbers DEF Nodes
  <2> HIDE DEF T, last
  <2> QED
    BY <2>1, GreatestElement
<1>2. /\ j \in Nodes /\ NodeSize[j] >= n /\ bm[j] >= n /\ ~ Reaches(bm, n, j, at[j])
      /\ j \in Nat /\ NodeSize[j] \in Nat /\ FirstPfn(j) \in Int /\ n \in Nat \ {0}
  BY NodeNumbers, OrderFacts
<1>3. at[j] = IF NodeSize[j] = n THEN j
              ELSE IF bm[LEFT_LEAF(j)] >= n THEN at[LEFT_LEAF(j)] ELSE at[RIGHT_LEAF(j)]
  BY <1>2 DEF Descents
<1>4. CASE NodeSize[j] = n
  <2>1. at[j] = j
    BY <1>3, <1>4
  <2>2. HasRoom(bm, n, j, j)
    <3> SUFFICES ASSUME NEW k \in Path[j], j \in Path[k] PROVE bm[k] >= n
      BY DEF HasRoom
    <3>1. k \in Nodes /\ k <= j /\ j <= k
      BY <1>2, PathsSound DEF PathSound
    <3>2. k \in Nat
      BY <3>1, NodeNumbers
    <3>3. k = j
      BY ONLY <1>2, <3>1, <3>2
    <3> QED
      BY <1>2, <3>3
  <2>3. ASSUME NEW k \in Nodes, j \in Path[k] PROVE FirstPfn(j) <= FirstPfn(k)
    BY <2>3, PathsSound DEF PathSound
  <2>4. Reaches(bm, n, j, j)
    BY <1>2, <1>4, <2>2, <2>3, PathsSound DEF Reaches, PathSound
  <2> QED
    BY <1>2, <2>1, <2>4
<1>5. CASE NodeSize[j] # n
  <2> DEFINE l == LEFT_LEAF(j)
             r == RIGHT_LEAF(j)
             v == bm[l]
             w == bm[r]
             x == Join(TRUE, NodeSize[j], v, w)
  <2>1. PICK h \in Orders :
              /\ n <= h /\ h <= NodeSize[j] /\ NodeSize[j] > 1
              /\ l \in Nodes /\ r \in Nodes
              /\ NodeSize[l] = h /\ NodeSize[r] = h /\ NodeSize[j] = 2 * h
    BY <1>2, <1>5, HalfLargeEnough
  <2>2. h \in Nat /\ Values \subseteq Nat
    BY OrderFacts DEF Values
  <2>3. ~ (l <= j) /\ ~ (r <= j)
    BY <1>2, <2>1, ChildrenOf
  <2>4. v \in Nat /\ w \in Nat /\ bm[j] # 0
    <3>1. v \in Values /\ w \in Values /\ bm[j] \in Values
      BY <1>2, <2>1 DEF PoolSound, Bounded
    <3> HIDE DEF v, w
    <3> QED
      BY <1>2, <2>2, <3>1
  <2>5. bm[j] = x /\ JoinSound(j, v, w, x, TRUE)
    BY <1>2, <2>1, <2>4, ChildrenSound
  <2>6. v >= n \/ w >= n
    <3> HIDE DEF x, v, w
    <3>1. /\ x \in Nat /\ x <= NodeSize[j]
          /\ x < NodeSize[j] => x = v \/ x = w
          /\ x = NodeSize[j] => v = h
      BY <2>1, <2>2, <2>5 DEF JoinSound
    <3> QED
      BY <1>2, <2>1, <2>2, <2>4, <2>5, <3>1
  <2>7. l \notin T /\ r \notin T
    <3> HIDE DEF T, l, r
    <3> QED
      BY <1>1, <2>3
  <2> DEFINE c == IF bm[l] >= n THEN l ELSE r
  <2>8. /\ c \in Nodes /\ NodeSize[c] >= n /\ bm[c] >= n /\ at[j] = at[c]
        /\ c \notin T
        /\ c = l \/ (c = r /\ ~ (bm[l] >= n))
    <3>1. h >= n
      BY <1>2, <2>1, <2>2
    <3> HIDE DEF T, l, r
    <3> QED
      BY <1>3, <1>5, <2>1, <2>6, <2>7, <3>1 DEF l, r
  <2> HIDE DEF c
  <2>9. Reaches(bm, n, c, at[c])
    BY <2>8
  <2> HIDE DEF T
  <2>10. Reaches(bm, n, j, at[c])
    BY <1>2, <1>5, <2>8, <2>9, ReachStep
  <2> QED
    BY <1>2, <2>8, <2>10
<1> QED
  BY <1>4, <1>5

\* buddy_alloc comes to the lowest block of the size.
LEMMA DescendReaches ==
    ASSUME NEW bm, PoolSound(bm), NEW n \in Orders, bm[0] >= n
    PROVE  Reaches(bm, n, 0, Descend(bm, n))
<1>1. PICK at : Descents(at, bm, n) /\ Descend(bm, n) = at[0]
  BY DescendWalks
<1>2. 0 \in Nodes /\ Size \in Nat /\ NodeSize[0] = Size
  BY ParentFacts, NodeSizeFacts DEF Nodes
<1>3. n \in Nat /\ n <= Size
  BY OrderFacts
<1>4. NodeSize[0] >= n
  BY <1>2, <1>3
<1>5. Reaches(bm, n, 0, at[0])
  BY <1>1, <1>2, <1>4, WalkReaches
<1> QED
  BY <1>1, <1>5

-----------------------------------------------------------------------------
(* Taking a block and giving it back.                                      *)

\* Nothing changes at a node that is not on the path, nor at its children.
LEMMA OffPath ==
    ASSUME NEW bm, NEW i \in Nodes, NEW s, NEW merge, NEW u, Updated(u, bm, i, s, merge),
           NEW k \in Nodes, k \notin Path[i]
    PROVE  /\ u[k] = bm[k]
           /\ NodeSize[k] > 1 => /\ u[LEFT_LEAF(k)] = bm[LEFT_LEAF(k)]
                                 /\ u[RIGHT_LEAF(k)] = bm[RIGHT_LEAF(k)]
<1>1. u[k] = bm[k]
  BY DEF Updated
<1>2. ASSUME NodeSize[k] > 1, NEW c, c = LEFT_LEAF(k) \/ c = RIGHT_LEAF(k)
      PROVE  u[c] = bm[c]
  <2>1. c \in Nodes /\ (c \in Path[i] => k \in Path[i])
    BY <1>2, PathOfChild
  <2> QED
    BY <2>1 DEF Updated
<1> QED
  BY <1>1, <1>2

\* A value written at i leaves a sound tree, if the halves of i are whole and nothing above
\* is a block: zero makes a block of it, its size makes it free.
SoundWith(u, bm, i, s) ==
    /\ PoolSound(u)
    /\ \A k \in Nodes : k \notin Path[i] => (IsBlock(u, k) <=> IsBlock(bm, k))
    /\ \A k \in Path[i] : k # i => ~ IsBlock(u, k)
    /\ IsBlock(u, i) <=> s = 0

LEMMA UpdateSound ==
    ASSUME NEW bm, PoolSound(bm), NEW i \in Nodes, NEW s, s = 0 \/ s = NodeSize[i],
           NEW merge \in BOOLEAN, merge \/ s = 0,
           NodeSize[i] > 1 => Whole(bm, LEFT_LEAF(i)) /\ Whole(bm, RIGHT_LEAF(i)),
           NEW u, u = Update(bm, i, s, merge)
    PROVE  SoundWith(u, bm, i, s)
<1>1. s \in Values /\ s <= NodeSize[i] /\ NodeSize[i] \in Nat \ {0}
  <2>1. NodeSize[i] \in Orders /\ NodeSize[i] \in Nat \ {0}
    BY Geometry, OrderFacts
  <2> QED
    BY <2>1 DEF Values
<1>2. Bounded(u) /\ Updated(u, bm, i, s, merge)
  BY <1>1, UpdateBounded DEF PoolSound
<1>3. ASSUME NEW k \in Nodes, NodeSize[k] > 1
      PROVE  /\ LEFT_LEAF(k) \in Nodes /\ RIGHT_LEAF(k) \in Nodes
             /\ u[LEFT_LEAF(k)] \in Values /\ u[RIGHT_LEAF(k)] \in Values
             /\ u[LEFT_LEAF(k)] <= NodeSize[LEFT_LEAF(k)]
             /\ u[RIGHT_LEAF(k)] <= NodeSize[RIGHT_LEAF(k)]
             /\ NodeSize[LEFT_LEAF(k)] # 0
  <2>1. LEFT_LEAF(k) \in Nodes /\ RIGHT_LEAF(k) \in Nodes
    BY <1>3, ChildrenOf
  <2>2. NodeSize[LEFT_LEAF(k)] # 0
    BY <2>1, NodeNumbers
  <2> QED
    BY <1>2, <2>1, <2>2 DEF Bounded
<1>4. ASSUME NEW k \in Path[i], k # i
      PROVE  /\ k \in Nodes /\ NodeSize[k] > 1
             /\ u[k] = Join(merge, NodeSize[k], u[LEFT_LEAF(k)], u[RIGHT_LEAF(k)])
             /\ JoinSound(k, u[LEFT_LEAF(k)], u[RIGHT_LEAF(k)], u[k], merge)
  <2> DEFINE v == u[LEFT_LEAF(k)]
             w == u[RIGHT_LEAF(k)]
  <2>1. k \in Nodes /\ NodeSize[k] > 1
    BY <1>4, PathsSound DEF PathSound
  <2>2. u[k] = Join(merge, NodeSize[k], v, w)
    BY <1>2, <1>4 DEF Updated
  <2>3. /\ v \in Values /\ w \in Values
        /\ v <= NodeSize[LEFT_LEAF(k)] /\ w <= NodeSize[RIGHT_LEAF(k)]
    BY <1>3, <2>1
  <2> HIDE DEF v, w
  <2>4. JoinSound(k, v, w, Join(merge, NodeSize[k], v, w), merge)
    BY <2>1, <2>3, JoinFacts
  <2> QED
    BY <2>1, <2>2, <2>4 DEF v, w
<1>5. ASSUME NEW k \in Path[i], ~ merge PROVE u[k] # NodeSize[k]
  <2>1. CASE k = i
    BY <1>1, <1>2, <1>5, <2>1 DEF Updated
  <2>2. CASE k # i
    <3>1. u[k] < NodeSize[k] /\ k \in Nodes
      BY <1>4, <1>5, <2>2 DEF JoinSound
    <3>2. NodeSize[k] \in Nat
      BY <3>1, NodeNumbers
    <3> QED
      BY <3>1, <3>2
  <2> QED
    BY <2>1, <2>2
<1>6. ASSUME NodeSize[i] > 1
      PROVE  /\ u[LEFT_LEAF(i)] = NodeSize[LEFT_LEAF(i)]
             /\ u[RIGHT_LEAF(i)] = NodeSize[RIGHT_LEAF(i)]
  <2>1. ASSUME NEW c, c = LEFT_LEAF(i) \/ c = RIGHT_LEAF(i) PROVE u[c] = bm[c]
    <3>1. c \in Nodes /\ c \notin Path[i]
      BY <1>6, <2>1, ChildrenOf, PathsSound DEF PathSound
    <3> QED
      BY <1>2, <3>1 DEF Updated
  <2> QED
    BY <1>6, <2>1 DEF Whole
<1>7. ASSUME NEW k \in Nodes, NodeSize[k] > 1 PROVE NodeSound(u, k)
  <2>1. CASE k \notin Path[i]
    <3>1. /\ u[k] = bm[k] /\ u[LEFT_LEAF(k)] = bm[LEFT_LEAF(k)]
          /\ u[RIGHT_LEAF(k)] = bm[RIGHT_LEAF(k)]
      BY <1>2, <1>7, <2>1, OffPath
    <3>2. NodeSound(bm, k)
      BY <1>7 DEF PoolSound, TreeSound
    <3> QED
      BY <3>1, <3>2 DEF NodeSound, Whole
  <2>2. CASE k = i
    <3>1. /\ u[i] = s /\ u[LEFT_LEAF(i)] = NodeSize[LEFT_LEAF(i)]
          /\ u[RIGHT_LEAF(i)] = NodeSize[RIGHT_LEAF(i)]
      BY <1>2, <1>6, <1>7, <2>2 DEF Updated
    <3>2. CASE s = 0
      BY <2>2, <3>1, <3>2 DEF NodeSound, Whole
    <3>3. CASE s = NodeSize[i]
      <4> DEFINE v == u[LEFT_LEAF(i)]
                 w == u[RIGHT_LEAF(i)]
      <4>1. /\ v \in Values /\ w \in Values /\ TRUE \in BOOLEAN
            /\ v <= NodeSize[LEFT_LEAF(i)] /\ w <= NodeSize[RIGHT_LEAF(i)] /\ NodeSize[i] > 1
        BY <1>3, <1>7, <2>2
      <4>2. v = NodeSize[LEFT_LEAF(i)] /\ w = NodeSize[RIGHT_LEAF(i)]
        BY <3>1
      <4> HIDE DEF v, w
      <4>3. JoinSound(i, v, w, Join(TRUE, NodeSize[i], v, w), TRUE)
        BY <4>1, JoinFacts
      <4>4. Join(TRUE, NodeSize[i], v, w) = NodeSize[i]
        BY <4>2, <4>3 DEF JoinSound
      <4> QED
        BY <2>2, <3>1, <3>3, <4>4 DEF NodeSound, v, w
    <3> QED
      BY <3>2, <3>3
  <2>3. CASE k \in Path[i] /\ k # i
    <3>1. /\ u[k] = Join(merge, NodeSize[k], u[LEFT_LEAF(k)], u[RIGHT_LEAF(k)])
          /\ JoinSound(k, u[LEFT_LEAF(k)], u[RIGHT_LEAF(k)], u[k], merge)
      BY <1>4, <2>3
    <3>2. \/ u[LEFT_LEAF(k)] # NodeSize[LEFT_LEAF(k)]
          \/ u[RIGHT_LEAF(k)] # NodeSize[RIGHT_LEAF(k)]
          \/ merge
      <4>1. LEFT_LEAF(k) \in Path[i] \/ RIGHT_LEAF(k) \in Path[i]
        BY <2>3, PathsSound DEF PathSound
      <4> QED
        BY <1>5, <4>1
    <3>3. u[k] = Join(TRUE, NodeSize[k], u[LEFT_LEAF(k)], u[RIGHT_LEAF(k)])
      BY <3>1, <3>2 DEF JoinSound
    <3> QED
      BY <3>3 DEF NodeSound
  <2> QED
    BY <2>1, <2>2, <2>3
<1>8. PoolSound(u)
  BY <1>2, <1>7 DEF PoolSound, TreeSound, Bounded
<1>9. ASSUME NEW k \in Nodes, k \notin Path[i]
      PROVE  IsBlock(u, k) <=> IsBlock(bm, k)
  BY <1>2, <1>9, OffPath DEF IsBlock
<1>10. ASSUME NEW k \in Path[i], k # i PROVE ~ IsBlock(u, k)
  BY <1>4, <1>10 DEF IsBlock, JoinSound
<1>11. IsBlock(u, i) <=> s = 0
  <2>1. u[i] = s
    BY <1>2 DEF Updated
  <2>2. NodeSize[i] > 1 => u[LEFT_LEAF(i)] # 0
    BY <1>3, <1>6
  <2> QED
    BY <2>1, <2>2 DEF IsBlock
<1> QED
  BY <1>8, <1>9, <1>10, <1>11 DEF SoundWith

\* buddy_alloc makes a block of the lowest free one that is large enough.
LEMMA TakenSound ==
    ASSUME NEW bm, PoolSound(bm), NEW n \in Orders, bm[0] >= n,
           NEW i, i = Descend(bm, n), NEW u, u = Taken(bm, n)
    PROVE  /\ PoolSound(u) /\ i \in Nodes /\ NodeSize[i] = n
           /\ \A j \in Path[i] : bm[j] >= n
           /\ Whole(bm, i)
           /\ \A k \in Nodes : IsBlock(u, k) <=> k = i \/ IsBlock(bm, k)
           /\ \A k \in Nodes :
                 NodeSize[k] = n /\ (\A j \in Path[k] : bm[j] >= n) => FirstPfn(i) <= FirstPfn(k)
<1>1. Reaches(bm, n, 0, i)
  BY DescendReaches
<1>2. i \in Nodes /\ NodeSize[i] = n /\ n \in Nat \ {0}
  BY <1>1, OrderFacts DEF Reaches
<1>3. ASSUME NEW k \in Nodes
      PROVE  /\ 0 \in Path[k]
             /\ HasRoom(bm, n, 0, k) <=> \A j \in Path[k] : bm[j] >= n
  BY PathsSound DEF PathSound, HasRoom
<1>4. \A j \in Path[i] : bm[j] >= n
  BY <1>1, <1>2, <1>3 DEF Reaches
<1>5. \A k \in Nodes :
        NodeSize[k] = n /\ (\A j \in Path[k] : bm[j] >= n) => FirstPfn(i) <= FirstPfn(k)
  BY <1>1, <1>3 DEF Reaches
<1>6. Whole(bm, i)
  <2>1. bm[i] \in Values /\ bm[i] <= n /\ bm[i] >= n
    BY <1>2, <1>4, PathsSound DEF PathSound, PoolSound, Bounded
  <2>2. Values \subseteq Nat
    BY OrderFacts DEF Values
  <2>3. bm[i] = n
    <3>1. bm[i] \in Nat /\ n \in Nat
      BY <1>2, <2>1, <2>2
    <3> QED
      BY <2>1, <3>1
  <2> QED
    BY <1>2, <2>3 DEF Whole
<1>7. NodeSize[i] > 1 => Whole(bm, LEFT_LEAF(i)) /\ Whole(bm, RIGHT_LEAF(i))
  BY <1>2, <1>6, ChildrenSound
<1>8. u = Update(bm, i, 0, FALSE)
  BY DEF Taken
<1>9. /\ PoolSound(u)
      /\ \A k \in Nodes : k \notin Path[i] => (IsBlock(u, k) <=> IsBlock(bm, k))
      /\ \A k \in Path[i] : k # i => ~ IsBlock(u, k)
      /\ IsBlock(u, i)
  <2>1. SoundWith(u, bm, i, 0)
    BY <1>2, <1>7, <1>8, UpdateSound
  <2> QED
    BY <2>1 DEF SoundWith
<1>10. ASSUME NEW k \in Path[i] PROVE ~ IsBlock(bm, k)
  <2>1. bm[k] # 0
    BY <1>2, <1>4
  <2> QED
    BY <2>1 DEF IsBlock
<1>11. \A k \in Nodes : IsBlock(u, k) <=> k = i \/ IsBlock(bm, k)
  BY <1>2, <1>9, <1>10
<1> QED
  BY <1>2, <1>4, <1>5, <1>6, <1>9, <1>11

\* buddy_free finds the block that a page lies in and frees it whole.
LEMMA FreedSound ==
    ASSUME NEW bm, PoolSound(bm), NEW i \in Nodes, IsBlock(bm, i), NEW p \in PagesUnder(i),
           p \in Pfns, NEW u, u = Freed(bm, p)
    PROVE  /\ PoolSound(u)
           /\ \A k \in Nodes : IsBlock(u, k) <=> k # i /\ IsBlock(bm, k)
<1>1. Leaf(p) \in Nodes /\ i \in Path[Leaf(p)] /\ bm[i] = 0
  BY LeafPath DEF IsBlock
<1> DEFINE Z == {k \in Path[Leaf(p)] : bm[k] = 0 \/ k = 0}
<1>2. i \in Z
  BY <1>1
<1>3. ASSUME NEW k \in Z PROVE i >= k /\ k \in Nat
  <2>1. k \in Path[Leaf(p)] /\ (bm[k] = 0 \/ k = 0)
    OBVIOUS
  <2>2. k \in Nodes /\ k \in Nat /\ i \in Nat
    BY <1>1, <2>1, PathsSound, NodeNumbers DEF PathSound
  <2>3. i \in Path[k] \/ k \in Path[i]
    BY <1>1, <2>1, PathsSound DEF PathSound
  <2>4. CASE k \in Path[i]
    <3>1. k <= i
      BY <2>4, PathsSound DEF PathSound
    <3> QED
      BY <2>2, <3>1
  <2>5. CASE i \in Path[k] /\ bm[k] = 0
    <3>1. i = k
      BY <1>1, <2>1, <2>5, OneBlock
    <3> QED
      BY <2>2, <3>1
  <2>6. CASE k = 0
    BY <2>2, <2>6
  <2> QED
    BY <2>1, <2>3, <2>4, <2>5, <2>6
<1>4. Climb(bm, p) = i
  <2> DEFINE m == CHOOSE x \in Z : \A y \in Z : x >= y
  <2>1. m \in Z /\ \A y \in Z : m >= y
    <3> HIDE DEF Z
    <3> QED
      BY <1>2, <1>3, Zenon
  <2>2. Climb(bm, p) = m
    BY Zenon DEF Climb, Max
  <2> HIDE DEF m, Z
  <2> QED
    BY <1>2, <1>3, <2>1, <2>2
<1>5. u = Update(bm, i, NodeSize[i], TRUE)
  BY <1>1, <1>4 DEF Freed
<1>6. NodeSize[i] > 1 => Whole(bm, LEFT_LEAF(i)) /\ Whole(bm, RIGHT_LEAF(i))
  BY ChildrenSound
<1>7. NodeSize[i] # 0
  BY NodeNumbers
<1>8. /\ PoolSound(u)
      /\ \A k \in Nodes : k \notin Path[i] => (IsBlock(u, k) <=> IsBlock(bm, k))
      /\ \A k \in Path[i] : k # i => ~ IsBlock(u, k)
      /\ IsBlock(u, i) <=> NodeSize[i] = 0
  <2> DEFINE s == NodeSize[i]
  <2>1. TRUE \in BOOLEAN /\ u = Update(bm, i, s, TRUE) /\ s = NodeSize[i]
    BY <1>5
  <2> HIDE DEF s
  <2> DEFINE merge == TRUE
  <2>2. merge \in BOOLEAN /\ (merge \/ s = 0) /\ (s = 0 \/ s = NodeSize[i])
        /\ u = Update(bm, i, s, merge)
    BY <2>1
  <2> HIDE DEF merge
  <2>3. SoundWith(u, bm, i, s)
    BY <1>6, <2>2, UpdateSound
  <2> QED
    BY <2>3 DEF s, SoundWith
<1>9. ASSUME NEW k \in Path[i], k # i PROVE ~ IsBlock(bm, k)
  <2>1. i \in Path[i] /\ k \in Nodes
    BY PathsSound DEF PathSound
  <2> QED
    BY <1>9, <2>1, OneBlock DEF IsBlock
<1> QED
  BY <1>7, <1>8, <1>9

-----------------------------------------------------------------------------
(* The pages of blocks.                                                    *)

\* A block holds its first page, and no other block has the same.
LEMMA FirstPage ==
    ASSUME NEW i \in Nodes
    PROVE  FirstPfn(i) \in Pfns /\ FirstPfn(i) \in PagesUnder(i)
<1>1. /\ FirstPfn(i) \in Int /\ NodeSize[i] \in Nat \ {0} /\ Size \in Nat
      /\ 0 <= FirstPfn(i) /\ FirstPfn(i) + NodeSize[i] <= Size
  BY NodeNumbers, Geometry
<1> QED
  BY <1>1 DEF Pfns, PagesUnder

LEMMA DistinctBlocks ==
    ASSUME NEW bm, PoolSound(bm), NEW i \in Nodes, NEW k \in Nodes, IsBlock(bm, i), IsBlock(bm, k),
           NEW p \in Pfns, p \in PagesUnder(i), p \in PagesUnder(k)
    PROVE  i = k
<1>1. Leaf(p) \in Nodes /\ i \in Path[Leaf(p)] /\ k \in Path[Leaf(p)]
  BY LeafPath
<1> QED
  BY <1>1, OneBlock DEF IsBlock

\* Pages with references are the first pages of blocks.
Counted(bm, refs) ==
    \A p \in Pfns : refs[p] > 0 <=> \E i \in Nodes : IsBlock(bm, i) /\ FirstPfn(i) = p

LEMMA CountedFacts == CountedBlocks <=> Counted(bitmap, ref_cnt)
<1>1. {b.pfn : b \in Blocks} = {FirstPfn(i) : i \in {j \in Nodes : IsBlock(bitmap, j)}}
  <2>1. ASSUME NEW b \in Blocks
        PROVE  b.pfn \in {FirstPfn(i) : i \in {j \in Nodes : IsBlock(bitmap, j)}}
    BY DEF Blocks
  <2>2. ASSUME NEW i \in Nodes, IsBlock(bitmap, i)
        PROVE  \E b \in Blocks : b.pfn = FirstPfn(i)
    <3> DEFINE b == [pfn |-> FirstPfn(i), size |-> NodeSize[i]]
    <3>1. b \in Blocks
      BY <2>2 DEF Blocks
    <3>2. b.pfn = FirstPfn(i)
      OBVIOUS
    <3> QED
      BY <3>1, <3>2
  <2> QED
    BY <2>1, <2>2
<1>2. \A i \in Nodes : FirstPfn(i) \in Pfns
  BY FirstPage
<1> QED
  BY <1>1, <1>2 DEF CountedBlocks, Counted

\* fixsize gives the smallest size that holds n pages.
LEMMA FixSize ==
    ASSUME NEW n \in Nat
    PROVE  /\ fixsize(n) = 2 * Size \/ (fixsize(n) \in Orders /\ n <= fixsize(n))
           /\ \A s \in Orders : n <= s => fixsize(n) <= s
<1> DEFINE S == {s \in Orders : n <= s} \cup {2 * Size}
           m == CHOOSE x \in S : \A y \in S : x <= y
<1>1. S \subseteq Nat /\ S # {}
  <2>1. Orders \subseteq Nat
    BY OrderFacts
  <2>2. 2 * Size \in Nat
    BY OrderFacts
  <2> HIDE DEF Size, Orders
  <2> QED
    BY <2>1, <2>2, Zenon
<1>2. m \in S /\ \A y \in S : m <= y
  <2> HIDE DEF S
  <2>1. \E x \in S : \A y \in S : x <= y
    BY <1>1, LeastElement
  <2> QED
    BY <2>1, Zenon
<1>3. fixsize(n) = m
  BY Zenon DEF fixsize, Min
<1> HIDE DEF m
<1> QED
  BY <1>2, <1>3

-----------------------------------------------------------------------------
(* The tree that buddy_init makes.                                         *)

\* The first pages are blocks of one page each, and there is no other block.
Booted(bm, k) ==
    /\ PoolSound(bm)
    /\ \A i \in Nodes : IsBlock(bm, i) <=> NodeSize[i] = 1 /\ FirstPfn(i) < k

LEMMA UntouchedBooted == Booted(Untouched, 0)
<1>1. ASSUME NEW i \in Nodes PROVE NodeSize[i] \in Values /\ NodeSize[i] # 0
  BY Geometry, NodeNumbers DEF Values
<1>2. Bounded(NodeSize)
  <2>1. NodeSize \in [Nodes -> Values]
    BY <1>1, NodeSizeFacts
  <2>2. \A i \in Nodes : NodeSize[i] <= NodeSize[i]
    BY NodeNumbers
  <2> QED
    BY <2>1, <2>2 DEF Bounded
<1>3. ASSUME NEW i \in Nodes, NodeSize[i] > 1 PROVE NodeSound(NodeSize, i)
  <2>1. PICK h \in Orders : /\ NodeSize[i] = 2 * h
                            /\ NodeSize[LEFT_LEAF(i)] = h /\ NodeSize[RIGHT_LEAF(i)] = h
    BY <1>3, Shape
  <2>2. h \in Nat
    BY OrderFacts
  <2>3. h + h = 2 * h
    BY <2>2
  <2>4. Join(TRUE, NodeSize[i], h, h) = NodeSize[i]
    BY <2>1, <2>3 DEF Join
  <2> QED
    BY <2>1, <2>4 DEF NodeSound
<1>4. PoolSound(NodeSize)
  BY <1>2, <1>3 DEF PoolSound, TreeSound, Bounded
<1>5. ASSUME NEW i \in Nodes PROVE ~ IsBlock(NodeSize, i) /\ ~ (FirstPfn(i) < 0)
  BY <1>1, Geometry, NodeNumbers DEF IsBlock
<1> QED
  BY <1>4, <1>5 DEF Booted, Untouched

\* A page that lies in no block can be had.
LEMMA FreePage ==
    ASSUME NEW bm, PoolSound(bm), NEW p \in Pfns,
           \A i \in Nodes : IsBlock(bm, i) => p \notin PagesUnder(i)
    PROVE  \A z \in Path[Leaf(p)] : bm[z] >= 1
<1> SUFFICES ASSUME NEW z \in Path[Leaf(p)], ~ (bm[z] >= 1) PROVE FALSE
  OBVIOUS
<1>1. Leaf(p) \in Nodes
  BY LeafPath
<1>2. z \in Nodes
  BY <1>1, PathsSound DEF PathSound
<1>3. bm[z] \in Nat
  <2>1. bm[z] \in Values /\ Values \subseteq Nat
    BY <1>2, OrderFacts DEF PoolSound, Bounded, Values
  <2> QED
    BY <2>1
<1>4. bm[z] = 0
  BY <1>3
<1>5. PICK i \in Path[Leaf(p)] : IsBlock(bm, i)
  BY <1>4, FreeOrBlock
<1>6. i \in Nodes
  BY <1>1, PathsSound DEF PathSound
<1> QED
  BY <1>5, <1>6, LeafPath

LEMMA BootStep ==
    ASSUME NEW k \in 1 .. Reserved, NEW bm, NEW j, j = k - 1, Booted(bm, j),
           NEW u, u = Taken(bm, 1)
    PROVE  Booted(u, k)
<1>1. Size \in Nat /\ Reserved \in 1 .. Size
  BY BuddyAssumption, OrderFacts
<1>2. j \in Pfns /\ j \in Nat /\ k = j + 1
  BY <1>1 DEF Pfns
<1>3. 1 \in Orders /\ PoolSound(bm)
  BY OrderFacts DEF Booted
<1> DEFINE x == Leaf(j)
<1>4. x \in Nodes /\ NodeSize[x] = 1 /\ FirstPfn(x) = j
  BY <1>2, LeafPath
<1>5. \A z \in Path[x] : bm[z] >= 1
  <2>1. ASSUME NEW i \in Nodes, IsBlock(bm, i) PROVE j \notin PagesUnder(i)
    <3>1. NodeSize[i] = 1 /\ FirstPfn(i) < j /\ FirstPfn(i) \in Int
      BY <2>1, NodeNumbers DEF Booted
    <3> QED
      BY <1>2, <3>1 DEF PagesUnder
  <2> QED
    BY <1>2, <1>3, <2>1, FreePage
<1>6. bm[0] >= 1
  BY <1>4, <1>5, PathsSound DEF PathSound
<1> DEFINE i == Descend(bm, 1)
<1> HIDE DEF x, i
<1>7. /\ PoolSound(u) /\ i \in Nodes /\ NodeSize[i] = 1 /\ Whole(bm, i)
      /\ \A n \in Nodes : IsBlock(u, n) <=> n = i \/ IsBlock(bm, n)
      /\ \A n \in Nodes :
            NodeSize[n] = 1 /\ (\A z \in Path[n] : bm[z] >= 1) => FirstPfn(i) <= FirstPfn(n)
  BY <1>3, <1>6, TakenSound DEF i
<1>8. FirstPfn(i) = j
  <2>1. FirstPfn(i) <= j /\ FirstPfn(i) \in Int
    BY <1>4, <1>5, <1>7, NodeNumbers
  <2>2. ~ IsBlock(bm, i)
    BY <1>7 DEF Whole, IsBlock
  <2>3. ~ (FirstPfn(i) < j)
    BY <1>7, <2>2 DEF Booted
  <2> QED
    BY <1>2, <2>1, <2>3
<1>9. ASSUME NEW n \in Nodes
      PROVE  IsBlock(u, n) <=> NodeSize[n] = 1 /\ FirstPfn(n) < k
  <2>1. FirstPfn(n) \in Int
    BY NodeNumbers
  <2>2. FirstPfn(n) < k <=> FirstPfn(n) < j \/ FirstPfn(n) = j
    BY <1>2, <2>1
  <2>3. NodeSize[n] = 1 /\ FirstPfn(n) = j => n = i
    BY <1>7, <1>8, Shape
  <2> QED
    BY <1>7, <1>8, <2>2, <2>3 DEF Booted
<1> QED
  BY <1>7, <1>9 DEF Booted

\* f holds the trees on the way, as long as they are what they should be.
BootsUp(f) ==
    /\ f[0] = Untouched
    /\ \A k \in 1 .. Reserved : Booted(f[k - 1], k - 1) => f[k] = Taken(f[k - 1], 1)

LEMMA BootInduction ==
    ASSUME NEW f, BootsUp(f), NEW n \in 0 .. Reserved
    PROVE  Booted(f[n], n)
<1> DEFINE T == {k \in 0 .. Reserved : ~ Booted(f[k], k)}
<1> SUFFICES ASSUME T # {} PROVE FALSE
  OBVIOUS
<1>1. Reserved \in Nat
  BY BuddyAssumption, OrderFacts
<1>2. PICK k \in T : \A m \in T : k <= m
  <2>1. T \subseteq Nat
    OBVIOUS
  <2> HIDE DEF T
  <2> QED
    BY <2>1, LeastElement
<1>3. k \in 0 .. Reserved /\ ~ Booted(f[k], k)
  OBVIOUS
<1>4. k # 0
  BY <1>3, UntouchedBooted DEF BootsUp
<1> DEFINE j == k - 1
<1>5. k \in 1 .. Reserved /\ j \in 0 .. Reserved /\ ~ (k <= j)
  BY <1>1, <1>3, <1>4
<1>6. j \notin T
  <2> HIDE DEF j, T
  <2> QED
    BY <1>2, <1>5
<1>7. Booted(f[j], j)
  BY <1>5, <1>6
<1>8. f[k] = Taken(f[j], 1)
  BY <1>5, <1>7 DEF BootsUp
<1> DEFINE bm == f[j]
           u  == f[k]
<1>9. j = k - 1
  OBVIOUS
<1>10. Booted(bm, j) /\ u = Taken(bm, 1)
  BY <1>7, <1>8
<1> HIDE DEF j, bm, u
<1>11. Booted(u, k)
  BY <1>5, <1>9, <1>10, BootStep
<1> QED
  BY <1>3, <1>11 DEF u

LEMMA BootTreeBooted == Booted(BootTree, Reserved)
<1> DEFINE S == [Nodes -> Values]
           back == [k \in 1 .. Reserved |-> k - 1]
           G == [k \in 1 .. Reserved |->
                    [v \in S |-> IF Taken(v, 1) \in S THEN Taken(v, 1) ELSE v]]
           IsBoot(f) ==
               f = [k \in 0 .. Reserved |-> IF k = 0 THEN Untouched ELSE Taken(f[k - 1], 1)]
<1>1. Reserved \in Nat
  BY BuddyAssumption, OrderFacts
<1>2. Untouched \in S
  BY UntouchedBooted DEF Booted, PoolSound, Bounded
<1>3. Earlier(back, Reserved) /\ Closed(G, Reserved, S)
  <2>1. Earlier(back, Reserved)
    BY <1>1 DEF Earlier
  <2>2. Closed(G, Reserved, S)
    BY Zenon DEF Closed
  <2> QED
    BY <2>1, <2>2
<1>4. PICK f : Recurs(f, Reserved, S, Untouched, back, G)
  <2> DEFINE a == Untouched
  <2>1. a \in S
    BY <1>2
  <2> HIDE DEF a, S, back, G
  <2>2. \E f : Recurs(f, Reserved, S, a, back, G)
    BY <1>1, <1>3, <2>1, Upward
  <2> QED
    BY <2>2 DEF a
<1>5. /\ f \in [0 .. Reserved -> S] /\ f[0] = Untouched
      /\ \A k \in 1 .. Reserved : f[k] = G[k][f[back[k]]]
  <2> HIDE DEF S, G, back
  <2> QED
    BY <1>4, Zenon DEF Recurs
<1>6. ASSUME NEW k \in 1 .. Reserved, Booted(f[k - 1], k - 1)
      PROVE  f[k] = Taken(f[k - 1], 1)
  <2> DEFINE j == k - 1
             bm == f[j]
             u == Taken(bm, 1)
  <2>1. j = k - 1 /\ j \in 0 .. Reserved /\ Booted(bm, j)
    BY <1>1, <1>6
  <2>2. bm \in S
    BY <1>5, <2>1
  <2>3. u = Taken(bm, 1)
    OBVIOUS
  <2>4. u \in S
    <3> HIDE DEF j, bm, u
    <3>1. Booted(u, k)
      BY <2>1, <2>3, BootStep
    <3> QED
      BY <3>1 DEF Booted, PoolSound, Bounded
  <2>5. f[k] = G[k][bm]
    BY <1>5
  <2>6. G[k][bm] = u
    <3> HIDE DEF S
    <3>1. G[k][bm] = IF Taken(bm, 1) \in S THEN Taken(bm, 1) ELSE bm
      <4> HIDE DEF bm
      <4> QED
        BY <2>2, Zenon
    <3> HIDE DEF bm, G
    <3> QED
      BY <2>4, <3>1, Zenon
  <2> QED
    BY <2>5, <2>6
<1>7. BootsUp(f)
  BY <1>5, <1>6 DEF BootsUp
<1>8. ASSUME NEW k \in 1 .. Reserved PROVE f[k] = Taken(f[k - 1], 1)
  <2> DEFINE j == k - 1
  <2>1. j \in 0 .. Reserved
    BY <1>1
  <2> HIDE DEF j
  <2>2. Booted(f[j], j)
    BY <1>7, <2>1, BootInduction
  <2> QED
    BY <1>6, <2>2 DEF j
<1>9. IsBoot(f)
  <2>1. f = [k \in 0 .. Reserved |-> f[k]]
    BY <1>5
  <2>2. ASSUME NEW k \in 0 .. Reserved
        PROVE  f[k] = IF k = 0 THEN Untouched ELSE Taken(f[k - 1], 1)
    <3>1. k = 0 \/ k \in 1 .. Reserved
      BY <1>1
    <3> QED
      BY <1>5, <1>8, <3>1, Zenon
  <2> QED
    BY <2>1, <2>2, Zenon
<1> DEFINE bm == CHOOSE g : IsBoot(g)
<1>10. IsBoot(bm)
  <2> HIDE DEF IsBoot
  <2> QED
    BY <1>9, Zenon
<1>11. BootTree = bm[Reserved]
  BY Zenon DEF BootTree
<1>12. BootsUp(bm)
  <2> HIDE DEF bm
  <2>1. 0 \in 0 .. Reserved
    BY <1>1
  <2>2. bm[0] = Untouched
    BY <1>10, <2>1, Zenon
  <2>3. ASSUME NEW k \in 1 .. Reserved PROVE bm[k] = Taken(bm[k - 1], 1)
    <3>1. k \in 0 .. Reserved /\ k # 0
      BY <1>1
    <3> QED
      BY <1>10, <3>1, Zenon
  <2> QED
    BY <2>2, <2>3 DEF BootsUp
<1> HIDE DEF bm
<1>13. Reserved \in 0 .. Reserved
  BY <1>1
<1> QED
  BY <1>11, <1>12, <1>13, BootInduction

-----------------------------------------------------------------------------
(* Blocks and counts in every state.                                       *)

\* The type, the tree and the counts, of a state given by its parts.
Kept(bm, refs) ==
    /\ PoolSound(bm)
    /\ refs \in [Pfns -> 0 .. MaxRef]
    /\ Counted(bm, refs)

KeptNow == Kept(bitmap, ref_cnt) /\ ret \in Pfns

LEMMA KeptFacts == BlocksSound <=> KeptNow
<1>1. BuddyTypeOK /\ TreeSound(bitmap)
         <=> PoolSound(bitmap) /\ ref_cnt \in [Pfns -> 0 .. MaxRef] /\ ret \in Pfns
  BY DEF BuddyTypeOK, TreeSound, PoolSound, Bounded, Values
<1> QED
  BY <1>1, CountedFacts DEF BlocksSound, Kept, KeptNow

LEMMA KeptNext == KeptNow' => BlocksSound'
  BY KeptFacts, PTL

\* A request that is served is for a size of blocks.
LEMMA ServedSize ==
    ASSUME NEW bm, PoolSound(bm), NEW n \in Nat, bm[0] >= fixsize(n)
    PROVE  fixsize(n) \in Orders /\ n <= fixsize(n)
<1>1. bm[0] \in Values /\ bm[0] <= Size /\ Size \in Nat \ {0}
  BY NodeNumbers, NodeSizeFacts, ParentFacts DEF PoolSound, Bounded, Nodes
<1>2. bm[0] \in Nat
  <2>1. Values \subseteq Nat
    BY OrderFacts DEF Values
  <2> QED
    BY <1>1, <2>1
<1>3. fixsize(n) # 2 * Size
  BY <1>1, <1>2
<1> QED
  BY <1>3, FixSize

LEMMA KeptInitially ==
    Kept(BootTree, [p \in Pfns |-> IF p < Reserved THEN 1 ELSE 0])
<1> DEFINE refs == [p \in Pfns |-> IF p < Reserved THEN 1 ELSE 0]
<1>1. MaxRef \in Nat \ {0} /\ Reserved \in Nat
  BY BuddyAssumption, OrderFacts
<1>2. refs \in [Pfns -> 0 .. MaxRef]
  BY <1>1
<1>3. ASSUME NEW p \in Pfns
      PROVE  refs[p] > 0 <=> \E i \in Nodes : IsBlock(BootTree, i) /\ FirstPfn(i) = p
  <2>1. refs[p] > 0 <=> p < Reserved
    OBVIOUS
  <2>2. \A i \in Nodes : IsBlock(BootTree, i) <=> NodeSize[i] = 1 /\ FirstPfn(i) < Reserved
    BY BootTreeBooted DEF Booted
  <2>3. Leaf(p) \in Nodes /\ NodeSize[Leaf(p)] = 1 /\ FirstPfn(Leaf(p)) = p
    BY LeafPath
  <2> HIDE DEF refs
  <2> QED
    BY <2>1, <2>2, <2>3
<1> QED
  BY <1>2, <1>3, BootTreeBooted DEF Kept, Counted, Booted

\* Taking a block and counting its first page.
LEMMA KeptByAlloc ==
    ASSUME NEW bm, NEW refs, Kept(bm, refs), NEW n \in Orders, bm[0] >= n,
           NEW p, p = FirstPfn(Descend(bm, n)), NEW r, r = [refs EXCEPT ![p] = 1]
    PROVE  Kept(Taken(bm, n), r) /\ p \in Pfns
<1> DEFINE i == Descend(bm, n)
           u == Taken(bm, n)
<1>1. i = Descend(bm, n) /\ u = Taken(bm, n) /\ p = FirstPfn(i)
  OBVIOUS
<1> HIDE DEF i, u
<1>2. PoolSound(u) /\ i \in Nodes /\ \A k \in Nodes : IsBlock(u, k) <=> k = i \/ IsBlock(bm, k)
  BY <1>1, TakenSound DEF Kept
<1>3. p \in Pfns
  BY <1>1, <1>2, FirstPage
<1>4. MaxRef \in Nat \ {0}
  BY BuddyAssumption
<1>5. refs \in [Pfns -> 0 .. MaxRef] /\ r \in [Pfns -> 0 .. MaxRef]
  BY <1>3, <1>4 DEF Kept
<1>6. ASSUME NEW q \in Pfns
      PROVE  r[q] > 0 <=> \E k \in Nodes : IsBlock(u, k) /\ FirstPfn(k) = q
  <2>1. refs[q] > 0 <=> \E k \in Nodes : IsBlock(bm, k) /\ FirstPfn(k) = q
    BY DEF Kept, Counted
  <2>2. CASE q = p
    BY <1>1, <1>2, <1>5, <2>2
  <2>3. CASE q # p
    <3>1. r[q] = refs[q]
      BY <1>5, <2>3
    <3> QED
      BY <1>1, <1>2, <2>1, <2>3, <3>1
  <2> QED
    BY <2>2, <2>3
<1> QED
  BY <1>1, <1>2, <1>3, <1>5, <1>6 DEF Kept, Counted

\* u is bm without the block that starts at p.
WithoutBlock(u, bm, p) ==
    \E i \in Nodes :
        /\ IsBlock(bm, i) /\ FirstPfn(i) = p
        /\ \A k \in Nodes : IsBlock(u, k) <=> k # i /\ IsBlock(bm, k)

\* Freeing a block whose first page has lost its last reference.
LEMMA KeptByFree ==
    ASSUME NEW bm, NEW refs, Kept(bm, refs), NEW p \in Pfns, refs[p] = 1,
           NEW r, r = [refs EXCEPT ![p] = 0]
    PROVE  Kept(Freed(bm, p), r) /\ WithoutBlock(Freed(bm, p), bm, p)
<1>1. PICK i \in Nodes : IsBlock(bm, i) /\ FirstPfn(i) = p
  BY DEF Kept, Counted
<1> DEFINE u == Freed(bm, p)
<1>2. u = Freed(bm, p)
  OBVIOUS
<1> HIDE DEF u
<1>3. PoolSound(u) /\ \A k \in Nodes : IsBlock(u, k) <=> k # i /\ IsBlock(bm, k)
  BY <1>1, <1>2, FreedSound, FirstPage DEF Kept
<1>4. refs \in [Pfns -> 0 .. MaxRef] /\ r \in [Pfns -> 0 .. MaxRef]
  <2>1. MaxRef \in Nat \ {0}
    BY BuddyAssumption
  <2> QED
    BY <2>1 DEF Kept
<1>5. ASSUME NEW q \in Pfns
      PROVE  r[q] > 0 <=> \E k \in Nodes : IsBlock(u, k) /\ FirstPfn(k) = q
  <2>1. refs[q] > 0 <=> \E k \in Nodes : IsBlock(bm, k) /\ FirstPfn(k) = q
    BY DEF Kept, Counted
  <2>2. CASE q = p
    <3>1. ~ (r[q] > 0)
      BY <1>4, <2>2
    <3>2. ASSUME NEW k \in Nodes, IsBlock(bm, k), FirstPfn(k) = q PROVE k = i
      <4>1. p \in PagesUnder(i) /\ p \in PagesUnder(k)
        BY <1>1, <2>2, <3>2, FirstPage
      <4> QED
        BY <1>1, <3>2, <4>1, DistinctBlocks DEF Kept
    <3> QED
      BY <1>3, <3>1, <3>2
  <2>3. CASE q # p
    <3>1. r[q] = refs[q]
      BY <1>4, <2>3
    <3> QED
      BY <1>1, <1>3, <2>1, <2>3, <3>1
  <2> QED
    BY <2>2, <2>3
<1> QED
  BY <1>1, <1>2, <1>3, <1>4, <1>5 DEF Kept, Counted, WithoutBlock

\* Counting a reference more or less, as long as there was and is one.
LEMMA KeptByCount ==
    ASSUME NEW bm, NEW refs, Kept(bm, refs), NEW p \in Pfns, refs[p] > 0,
           NEW c \in 1 .. MaxRef, NEW r, r = [refs EXCEPT ![p] = c]
    PROVE  Kept(bm, r)
<1>1. refs \in [Pfns -> 0 .. MaxRef] /\ MaxRef \in Nat
  BY BuddyAssumption DEF Kept
<1>2. r \in [Pfns -> 0 .. MaxRef]
  BY <1>1
<1>3. ASSUME NEW q \in Pfns PROVE r[q] > 0 <=> refs[q] > 0
  BY <1>1
<1> QED
  BY <1>2, <1>3 DEF Kept, Counted

\* BlocksSound is inductive as it stands: the first pages of blocks, and no others, have
\* references, and what buddy_free climbs to is what buddy_alloc has handed out.
THEOREM BlocksStaySound == BuddySpec => []BlocksSound
<1>1. buddy_init => BlocksSound
  <2> SUFFICES ASSUME buddy_init PROVE BlocksSound
    OBVIOUS
  <2>1. Kept(bitmap, ref_cnt)
    BY KeptInitially DEF buddy_init
  <2>2. ret \in Pfns
    BY ParentFacts DEF buddy_init, Pfns
  <2> QED
    BY <2>1, <2>2, KeptFacts DEF KeptNow
<1>2. BlocksSound /\ [BuddyNext]_pool => BlocksSound'
  <2> SUFFICES ASSUME BlocksSound, [BuddyNext]_pool PROVE BlocksSound'
    OBVIOUS
  <2>1. Kept(bitmap, ref_cnt) /\ ret \in Pfns
    BY KeptFacts DEF KeptNow
  <2>2. Kept(bitmap', ref_cnt') /\ ret' \in Pfns => BlocksSound'
    BY KeptNext DEF KeptNow
  <2>3. ref_cnt \in [Pfns -> 0 .. MaxRef] /\ MaxRef \in Nat
    BY <2>1, BuddyAssumption DEF Kept
  <2>4. ASSUME NEW n \in Requests, Alloc(n) PROVE BlocksSound'
    <3> DEFINE size == fixsize(n)
               p == FirstPfn(Descend(bitmap, size))
    <3>1. n \in Nat /\ bitmap[0] >= size
      BY <2>4, BuddyAssumption DEF Alloc
    <3>2. size \in Orders
      BY <2>1, <3>1, ServedSize DEF Kept
    <3>3. bitmap' = Taken(bitmap, size) /\ ref_cnt' = [ref_cnt EXCEPT ![p] = 1] /\ ret' = p
      BY <2>4, Zenon DEF Alloc
    <3>4. p = FirstPfn(Descend(bitmap, size))
      OBVIOUS
    <3> HIDE DEF p, size
    <3>5. Kept(bitmap', ref_cnt') /\ p \in Pfns
      BY <2>1, <3>1, <3>2, <3>3, <3>4, KeptByAlloc
    <3> QED
      BY <2>2, <3>3, <3>5
  <2>5. ASSUME NEW n \in Requests, AllocFails(n) PROVE BlocksSound'
    <3>1. ret' \in Pfns
      BY <2>5, ParentFacts DEF AllocFails, Pfns
    <3> QED
      BY <2>1, <2>2, <2>5, <3>1 DEF AllocFails
  <2>6. ASSUME NEW p \in Held, GetPage(p) PROVE BlocksSound'
    <3> DEFINE c == ref_cnt[p] + 1
    <3>1. p \in Pfns /\ ref_cnt[p] > 0 /\ c \in 1 .. MaxRef
      BY <2>3, <2>6 DEF Held, GetPage
    <3>2. ref_cnt' = [ref_cnt EXCEPT ![p] = c] /\ UNCHANGED <<bitmap, ret>>
      BY <2>6 DEF GetPage
    <3> HIDE DEF c
    <3>3. Kept(bitmap, ref_cnt')
      BY <2>1, <3>1, <3>2, KeptByCount
    <3> QED
      BY <2>1, <2>2, <3>2, <3>3
  <2>7. ASSUME NEW p \in Held, PutPage(p) PROVE BlocksSound'
    <3> DEFINE c == ref_cnt[p] - 1
    <3>1. p \in Pfns /\ ref_cnt[p] > 0 /\ ref_cnt[p] \in 0 .. MaxRef
      BY <2>3 DEF Held
    <3>2. ref_cnt' = [ref_cnt EXCEPT ![p] = c] /\ UNCHANGED ret
      BY <2>7 DEF PutPage
    <3>3. CASE LastReference(p)
      <4>1. bitmap' = Freed(bitmap, p) /\ ref_cnt[p] = 1
        BY <2>7, <3>3 DEF PutPage, LastReference
      <4>2. ref_cnt' = [ref_cnt EXCEPT ![p] = 0]
        BY <3>2, <4>1
      <4>3. Kept(bitmap', ref_cnt')
        BY <2>1, <3>1, <4>1, <4>2, KeptByFree
      <4> QED
        BY <2>1, <2>2, <3>2, <4>3
    <3>4. CASE ~ LastReference(p)
      <4>1. bitmap' = bitmap /\ ref_cnt[p] # 1
        BY <2>7, <3>4 DEF PutPage, LastReference
      <4>2. c \in 1 .. MaxRef
        BY <2>3, <3>1, <4>1
      <4> HIDE DEF c
      <4>3. Kept(bitmap, ref_cnt')
        BY <2>1, <3>1, <3>2, <4>2, KeptByCount
      <4> QED
        BY <2>1, <2>2, <3>2, <4>1, <4>3
    <3> QED
      BY <3>3, <3>4
  <2>8. ASSUME UNCHANGED pool PROVE BlocksSound'
    BY <2>1, <2>2, <2>8 DEF pool
  <2> QED
    BY <2>4, <2>5, <2>6, <2>7, <2>8 DEF BuddyNext
<1> QED
  BY <1>1, <1>2, PTL DEF BuddySpec

-----------------------------------------------------------------------------
(* The largest free blocks.                                                *)

\* Numbers in the tree.
LEMMA TreeNumbers ==
    ASSUME NEW bm, PoolSound(bm), NEW i \in Nodes
    PROVE  /\ bm[i] \in Nat /\ bm[i] <= NodeSize[i] /\ NodeSize[i] \in Nat \ {0}
           /\ bm[i] # 0 => bm[i] \in Orders
<1>1. Values \subseteq Nat
  BY OrderFacts DEF Values
<1>2. bm[i] \in Values /\ bm[i] <= NodeSize[i]
  BY DEF PoolSound, Bounded
<1> QED
  BY <1>1, <1>2, NodeNumbers DEF Values

\* The pages with no zero above them.
FreeIn(bm, p) == \A z \in Path[Leaf(p)] : bm[z] # 0

\* The pages of a child are pages of the node.
LEMMA PagesOfChild ==
    ASSUME NEW i \in Nodes, NodeSize[i] > 1, NEW c, c = LEFT_LEAF(i) \/ c = RIGHT_LEAF(i)
    PROVE  c \in Nodes /\ ~ (c <= i) /\ PagesUnder(c) \subseteq PagesUnder(i)
<1>1. c \in Nodes /\ ~ (c <= i)
  BY ChildrenOf
<1>2. i \in Path[c]
  BY PathOfChild
<1>3. /\ FirstPfn(i) <= FirstPfn(c)
      /\ FirstPfn(c) + NodeSize[c] <= FirstPfn(i) + NodeSize[i]
  BY <1>1, <1>2, PathsSound DEF PathSound
<1>4. /\ FirstPfn(i) \in Int /\ FirstPfn(c) \in Int
      /\ NodeSize[i] \in Nat /\ NodeSize[c] \in Nat
  BY <1>1, NodeNumbers
<1> QED
  BY <1>1, <1>3, <1>4 DEF PagesUnder

\* A node whose pages are all free is whole.
LEMMA FreeIsWhole ==
    ASSUME NEW bm, PoolSound(bm), NEW k \in Nodes,
           \A p \in Pfns : p \in PagesUnder(k) => FreeIn(bm, p)
    PROVE  Whole(bm, k)
<1> DEFINE AllFree(j) == \A p \in Pfns : p \in PagesUnder(j) => FreeIn(bm, p)
           last == 2 * Size - 2
           T == {j \in Nodes : AllFree(j) /\ ~ Whole(bm, j)}
<1> SUFFICES ASSUME T # {} PROVE FALSE
  OBVIOUS
<1>1. last \in Nat /\ T \subseteq 0 .. last
  BY ParentFacts DEF Nodes
<1>2. PICK j \in T : \A y \in T : y <= j
  <2> HIDE DEF T, last
  <2> QED
    BY <1>1, GreatestElement
<1>3. j \in Nodes /\ AllFree(j) /\ ~ Whole(bm, j)
  OBVIOUS
<1>4. bm[j] # 0
  <2> DEFINE p == FirstPfn(j)
  <2>1. p \in Pfns /\ p \in PagesUnder(j)
    BY <1>3, FirstPage
  <2>2. FreeIn(bm, p)
    BY <1>3, <2>1
  <2> HIDE DEF p
  <2>3. j \in Path[Leaf(p)]
    BY <1>3, <2>1, LeafPath
  <2> QED
    BY <2>2, <2>3 DEF FreeIn
<1>5. bm[j] \in Nat /\ bm[j] <= NodeSize[j] /\ NodeSize[j] \in Nat \ {0}
  BY <1>3, TreeNumbers
<1>6. CASE NodeSize[j] > 1
  <2>1. ASSUME NEW c, c = LEFT_LEAF(j) \/ c = RIGHT_LEAF(j) PROVE Whole(bm, c)
    <3>1. c \in Nodes /\ ~ (c <= j) /\ PagesUnder(c) \subseteq PagesUnder(j)
      BY <1>3, <1>6, <2>1, PagesOfChild
    <3>2. c \notin T
      <4> HIDE DEF T
      <4> QED
        BY <1>2, <3>1
    <3>3. AllFree(c)
      BY <1>3, <3>1
    <3> QED
      BY <3>1, <3>2, <3>3
  <2> DEFINE v == bm[LEFT_LEAF(j)]
             w == bm[RIGHT_LEAF(j)]
  <2>2. v = NodeSize[LEFT_LEAF(j)] /\ w = NodeSize[RIGHT_LEAF(j)]
    BY <2>1 DEF Whole
  <2>3. /\ bm[j] = Join(TRUE, NodeSize[j], v, w)
        /\ JoinSound(j, v, w, Join(TRUE, NodeSize[j], v, w), TRUE)
    BY <1>3, <1>4, <1>6, ChildrenSound
  <2> HIDE DEF v, w
  <2>4. bm[j] = NodeSize[j]
    BY <2>2, <2>3 DEF JoinSound
  <2> QED
    BY <1>3, <2>4 DEF Whole
<1>7. CASE ~ (NodeSize[j] > 1)
  <2>1. bm[j] = NodeSize[j]
    BY <1>4, <1>5, <1>7
  <2> QED
    BY <1>3, <2>1 DEF Whole
<1> QED
  BY <1>6, <1>7

\* What is free below a node that can be reached fits into its value.
LEMMA FreeFits ==
    ASSUME NEW bm, PoolSound(bm), NEW k \in Nodes,
           \A p \in Pfns : p \in PagesUnder(k) => FreeIn(bm, p),
           NEW i \in Path[k]
    PROVE  NodeSize[k] <= bm[i]
<1>1. ASSUME NEW z \in Path[k] PROVE z \in Nodes /\ bm[z] # 0
  <2> DEFINE p == FirstPfn(k)
  <2>1. p \in Pfns /\ p \in PagesUnder(k)
    BY FirstPage
  <2>2. FreeIn(bm, p)
    BY <2>1
  <2> HIDE DEF p
  <2>3. Leaf(p) \in Nodes /\ k \in Path[Leaf(p)]
    BY <2>1, LeafPath
  <2>4. z \in Path[Leaf(p)]
    BY <1>1, <2>3, PathsSound DEF PathSound
  <2> QED
    BY <1>1, <2>2, <2>4, PathsSound DEF FreeIn, PathSound
<1>2. bm[k] = NodeSize[k]
  BY FreeIsWhole DEF Whole
<1> DEFINE last == 2 * Size - 2
           T == {z \in Path[k] : ~ (NodeSize[k] <= bm[z])}
<1> SUFFICES ASSUME T # {} PROVE FALSE
  OBVIOUS
<1>3. last \in Nat /\ T \subseteq 0 .. last
  BY <1>1, ParentFacts DEF Nodes
<1>4. PICK z \in T : \A y \in T : y <= z
  <2> HIDE DEF T, last
  <2> QED
    BY <1>3, GreatestElement
<1>5. z \in Path[k] /\ z \in Nodes /\ ~ (NodeSize[k] <= bm[z]) /\ bm[z] # 0
  BY <1>1
<1>6. NodeSize[k] \in Nat
  BY NodeNumbers
<1>7. z # k
  BY <1>2, <1>5, <1>6
<1>8. PICK c : (c = LEFT_LEAF(z) \/ c = RIGHT_LEAF(z)) /\ c \in Path[k] /\ NodeSize[z] > 1
  BY <1>5, <1>7, PathsSound DEF PathSound
<1>9. c \in Nodes /\ ~ (c <= z)
  BY <1>5, <1>8, ChildrenOf
<1>10. NodeSize[k] <= bm[c]
  <2>1. c \notin T
    <3> HIDE DEF T
    <3> QED
      BY <1>4, <1>9
  <2> QED
    BY <1>8, <2>1
<1>11. bm[c] <= bm[z]
  <2> DEFINE v == bm[LEFT_LEAF(z)]
             w == bm[RIGHT_LEAF(z)]
  <2>1. /\ bm[z] = Join(TRUE, NodeSize[z], v, w)
        /\ JoinSound(z, v, w, Join(TRUE, NodeSize[z], v, w), TRUE)
    BY <1>5, <1>8, ChildrenSound
  <2>2. bm[c] = v \/ bm[c] = w
    BY <1>8
  <2> HIDE DEF v, w
  <2> QED
    BY <2>1, <2>2 DEF JoinSound
<1>12. bm[z] \in Nat /\ bm[c] \in Nat
  BY <1>5, <1>9, TreeNumbers
<1> QED
  BY <1>5, <1>6, <1>10, <1>11, <1>12

\* All the pages of a whole node are free if nothing above it is zero.
LEMMA WholeIsFree ==
    ASSUME NEW bm, PoolSound(bm), NEW x \in Nodes, Whole(bm, x), \A z \in Path[x] : bm[z] # 0,
           NEW p \in Pfns, p \in PagesUnder(x)
    PROVE  FreeIn(bm, p)
<1> SUFFICES ASSUME NEW z \in Path[Leaf(p)] PROVE bm[z] # 0
  BY DEF FreeIn
<1>1. Leaf(p) \in Nodes /\ x \in Path[Leaf(p)]
  BY LeafPath
<1>2. z \in Nodes /\ (z \in Path[x] \/ x \in Path[z])
  BY <1>1, PathsSound DEF PathSound
<1>3. CASE z \in Path[x]
  BY <1>3
<1>4. CASE x \in Path[z] /\ z # x
  <2>1. Whole(bm, z)
    BY <1>2, <1>4, WholeBelow
  <2> QED
    BY <1>2, <2>1, NodeNumbers DEF Whole
<1>5. z = x => z \in Path[x]
  BY PathsSound DEF PathSound
<1> QED
  BY <1>2, <1>3, <1>4, <1>5

\* A node that can be reached has a free block of the size it states.
LEMMA FreeFound ==
    ASSUME NEW bm, PoolSound(bm), NEW i \in Nodes, bm[i] # 0,
           \A j \in Path[i] \ {i} : bm[j] # 0
    PROVE  \E x \in Nodes :
              /\ NodeSize[x] = bm[i] /\ i \in Path[x]
              /\ \A p \in Pfns : p \in PagesUnder(x) => FreeIn(bm, p)
<1> DEFINE n == bm[i]
<1>1. n \in Orders /\ NodeSize[i] >= n /\ n \in Nat \ {0} /\ bm[i] >= n
  <2>1. /\ bm[i] \in Nat /\ bm[i] <= NodeSize[i] /\ NodeSize[i] \in Nat \ {0}
        /\ bm[i] \in Orders
    BY TreeNumbers
  <2> QED
    BY <2>1
<1>2. n = bm[i]
  OBVIOUS
<1> HIDE DEF n
<1>3. PICK at : Descents(at, bm, n)
  BY <1>1, DescendWalks
<1> DEFINE x == at[i]
<1>4. Reaches(bm, n, i, x)
  BY <1>1, <1>3, WalkReaches
<1> HIDE DEF x
<1>5. x \in Nodes /\ NodeSize[x] = n /\ i \in Path[x] /\ HasRoom(bm, n, i, x)
  BY <1>4 DEF Reaches
<1>6. ASSUME NEW z \in Path[x] PROVE bm[z] # 0
  <2>1. z \in Nodes /\ (i \in Path[z] \/ z \in Path[i])
    BY <1>5, PathsSound DEF PathSound
  <2>2. CASE i \in Path[z]
    <3>1. bm[z] >= n
      BY <1>5, <2>2 DEF HasRoom
    <3>2. bm[z] \in Nat
      BY <2>1, TreeNumbers
    <3> QED
      BY <1>1, <3>1, <3>2
  <2>3. CASE i \notin Path[z]
    <3>1. z # i
      BY <2>1, <2>3, PathsSound DEF PathSound
    <3> QED
      BY <2>1, <2>3, <3>1
  <2> QED
    BY <2>2, <2>3
<1>7. Whole(bm, x)
  <2>1. x \in Path[x]
    BY <1>5, PathsSound DEF PathSound
  <2>2. bm[x] >= n
    BY <1>5, <2>1 DEF HasRoom
  <2>3. bm[x] \in Nat /\ bm[x] <= n
    BY <1>5, TreeNumbers
  <2>4. bm[x] = n
    BY <1>1, <2>2, <2>3
  <2> QED
    BY <1>5, <2>4 DEF Whole
<1>8. ASSUME NEW p \in Pfns, p \in PagesUnder(x) PROVE FreeIn(bm, p)
  BY <1>5, <1>6, <1>7, <1>8, WholeIsFree
<1> QED
  BY <1>2, <1>5, <1>8

\* Whatever the order of the calls, halves are merged as soon as both are free: it follows
\* from the shape of the tree.
THEOREM LargestIsFree == BuddySpec => []LargestFree
<1>1. BlocksSound => LargestFree
  <2> SUFFICES ASSUME BlocksSound, NEW i \in Nodes,
                      \A j \in Path[i] \ {i} : bitmap[j] # 0
               PROVE  bitmap[i] = Max({0} \cup {NodeSize[k] : k \in
                          {j \in {k \in Nodes : PagesUnder(k) \subseteq FreePages} :
                              i \in Path[j]}})
    BY Zenon DEF LargestFree
  <2> DEFINE FreeBelow == {j \in {k \in Nodes : PagesUnder(k) \subseteq FreePages} :
                              i \in Path[j]}
             S == {0} \cup {NodeSize[k] : k \in FreeBelow}
  <2>1. PoolSound(bitmap)
    BY KeptFacts DEF KeptNow, Kept
  <2>2. bitmap[i] \in Nat
    BY <2>1, TreeNumbers
  <2>3. ASSUME NEW k \in FreeBelow
        PROVE  /\ k \in Nodes /\ i \in Path[k] /\ NodeSize[k] \in Nat
               /\ \A p \in Pfns : p \in PagesUnder(k) => FreeIn(bitmap, p)
    BY NodeNumbers DEF FreePages, FreeIn
  <2>4. \A y \in S : y \in Nat /\ y <= bitmap[i]
    <3>1. ASSUME NEW k \in FreeBelow PROVE NodeSize[k] \in Nat /\ NodeSize[k] <= bitmap[i]
      BY <2>1, <2>3, FreeFits
    <3> QED
      BY <2>2, <3>1
  <2>5. bitmap[i] \in S
    <3>1. CASE bitmap[i] = 0
      BY <3>1
    <3>2. CASE bitmap[i] # 0
      <4>1. PICK x \in Nodes :
               /\ NodeSize[x] = bitmap[i] /\ i \in Path[x]
               /\ \A p \in Pfns : p \in PagesUnder(x) => FreeIn(bitmap, p)
        BY <2>1, <3>2, FreeFound
      <4>2. PagesUnder(x) \subseteq Pfns
        <5>1. /\ 0 <= FirstPfn(x) /\ FirstPfn(x) + NodeSize[x] <= Size
              /\ FirstPfn(x) \in Int /\ NodeSize[x] \in Nat /\ Size \in Nat
          BY Geometry, NodeNumbers
        <5> QED
          BY <5>1 DEF PagesUnder, Pfns
      <4>3. x \in FreeBelow
        BY <4>1, <4>2 DEF FreePages, FreeIn
      <4> QED
        BY <4>1, <4>3
    <3> QED
      BY <3>1, <3>2
  <2> DEFINE m == CHOOSE x \in S : \A y \in S : x >= y
  <2>6. m \in S /\ \A y \in S : m >= y
    <3> HIDE DEF S
    <3>1. \A y \in S : bitmap[i] >= y
      BY <2>2, <2>4
    <3> QED
      BY <2>5, <3>1, Zenon
  <2>7. Max(S) = m
    BY Zenon DEF Max
  <2>8. m = bitmap[i]
    <3> HIDE DEF m, S
    <3> QED
      BY <2>2, <2>4, <2>5, <2>6
  <2> QED
    BY <2>7, <2>8, Zenon
<1> QED
  BY <1>1, BlocksStaySound, PTL

-----------------------------------------------------------------------------
(* The tree implements the blocks of PageFrames.                           *)

BlockAt(i)  == [pfn |-> FirstPfn(i), size |-> NodeSize[i]]
BlocksIn(bm) == {BlockAt(i) : i \in {j \in Nodes : IsBlock(bm, j)}}
FreePfns(bm) == Pfns \ UNION {Frames!PagesOf(b) : b \in BlocksIn(bm)}

LEMMA PagesOfBlock ==
    ASSUME NEW i \in Nodes
    PROVE  Frames!PagesOf(BlockAt(i)) = PagesUnder(i)
  BY DEF Frames!PagesOf, BlockAt, PagesUnder

\* What the tree shows as free is what the blocks in use leave.
LEMMA FreeOutside ==
    ASSUME NEW bm, PoolSound(bm), NEW p \in Pfns
    PROVE  p \in FreePfns(bm) <=> FreeIn(bm, p)
<1>1. p \in FreePfns(bm)
         <=> \A i \in Nodes : IsBlock(bm, i) => p \notin Frames!PagesOf(BlockAt(i))
  BY DEF FreePfns, BlocksIn
<1>2. p \in FreePfns(bm) <=> \A i \in Nodes : IsBlock(bm, i) => p \notin PagesUnder(i)
  BY <1>1, PagesOfBlock
<1>3. ASSUME \A i \in Nodes : IsBlock(bm, i) => p \notin PagesUnder(i)
      PROVE  FreeIn(bm, p)
  <2> SUFFICES ASSUME NEW z \in Path[Leaf(p)], bm[z] = 0 PROVE FALSE
    BY DEF FreeIn
  <2>1. PICK i \in Path[Leaf(p)] : IsBlock(bm, i)
    BY FreeOrBlock
  <2>2. i \in Nodes
    BY LeafPath, PathsSound DEF PathSound
  <2> QED
    BY <1>3, <2>1, <2>2, LeafPath
<1>4. ASSUME FreeIn(bm, p), NEW i \in Nodes, IsBlock(bm, i)
      PROVE  p \notin PagesUnder(i)
  BY <1>4, LeafPath DEF FreeIn, IsBlock
<1> QED
  BY <1>2, <1>3, <1>4

\* Multiples of s that are less than s apart are equal.
LEMMA SameMultiple ==
    ASSUME NEW s \in Nat \ {0}, NEW a \in Int, NEW d \in Int, a * s <= d * s, d * s < a * s + s
    PROVE  a = d
<1>1. ASSUME NEW x \in Int, NEW y \in Int, x < y PROVE x * s + s <= y * s
  <2>1. (y - x - 1) * s >= 0
    <3>1. y - x - 1 \in Nat
      BY <1>1
    <3> DEFINE w == y - x - 1
    <3>2. w \in Nat
      BY <3>1
    <3> HIDE DEF w
    <3>3. w * s >= 0
      BY <3>2
    <3> QED
      BY <3>3 DEF w
  <2> QED
    BY <2>1
<1>2. a * s \in Int /\ d * s \in Int
  OBVIOUS
<1>3. ~ (a < d) /\ ~ (d < a)
  BY <1>1, <1>2
<1> QED
  BY <1>3

\* Nodes stand for aligned blocks.
LEMMA NodesAligned ==
    ASSUME NEW i \in Nodes
    PROVE  FirstPfn(i) % NodeSize[i] = 0 /\ \E a \in Int : FirstPfn(i) = a * NodeSize[i]
<1> DEFINE s == NodeSize[i]
<1>1. s \in Nat \ {0} /\ s \in Orders /\ s <= Size /\ Size \in Orders /\ i \in Nat
      /\ FirstPfn(i) \in Int /\ Size \in Nat
  BY NodeNumbers, Geometry, OrderFacts
<1>2. FirstPfn(i) = (i + 1) * s - Size
  BY DEF FirstPfn
<1> HIDE DEF s
<1>3. PICK c \in Nat : Size = c * s
  BY <1>1, OrderFacts
<1> DEFINE a == i + 1 - c
<1>4. a \in Int /\ FirstPfn(i) = a * s
  BY <1>1, <1>2, <1>3
<1> HIDE DEF a
<1>5. (a * s) % s = 0
  BY <1>1, <1>4
<1> QED
  BY <1>4, <1>5 DEF s

\* An aligned block of pages has a node.
LEMMA NodeOf ==
    ASSUME NEW p \in Pfns, NEW s \in Orders, (p % s) = 0
    PROVE  \E k \in Nodes : NodeSize[k] = s /\ FirstPfn(k) = p
<1>1. Leaf(p) \in Nodes /\ NodeSize[Leaf(p)] = 1 /\ FirstPfn(Leaf(p)) = p
  BY LeafPath
<1>2. s \in Nat \ {0} /\ p \in Nat /\ s <= Size
  BY OrderFacts, ParentFacts DEF Pfns
<1> DEFINE last == 2 * Size - 2
           T == {j \in Path[Leaf(p)] : NodeSize[j] >= s}
<1>3. last \in Nat /\ T \subseteq 0 .. last /\ T \subseteq Nodes
  BY <1>1, ParentFacts, PathsSound DEF Nodes, PathSound
<1>4. 0 \in T
  BY <1>1, <1>2, NodeSizeFacts, ParentFacts, PathsSound DEF PathSound
<1>5. PICK j \in T : \A y \in T : y <= j
  <2> HIDE DEF T, last
  <2> QED
    BY <1>3, <1>4, GreatestElement
<1>6. j \in Path[Leaf(p)] /\ NodeSize[j] >= s /\ j \in Nodes /\ NodeSize[j] \in Nat
  BY <1>3, NodeNumbers
<1>7. NodeSize[j] = s
  <2> SUFFICES ASSUME NodeSize[j] # s PROVE FALSE
    OBVIOUS
  <2>1. PICK h \in Orders : /\ s <= h /\ NodeSize[j] > 1
                            /\ NodeSize[LEFT_LEAF(j)] = h /\ NodeSize[RIGHT_LEAF(j)] = h
    BY <1>6, HalfLargeEnough
  <2>2. h \in Nat
    BY OrderFacts
  <2>3. j # Leaf(p)
    BY <1>1, <2>1
  <2>4. PICK c \in Path[Leaf(p)] : c = LEFT_LEAF(j) \/ c = RIGHT_LEAF(j)
    BY <1>1, <1>6, <2>3, PathsSound DEF PathSound
  <2>5. ~ (c <= j) /\ c \in T
    <3>1. ~ (c <= j)
      BY <1>6, <2>1, <2>4, ChildrenOf
    <3>2. NodeSize[c] >= s
      BY <1>2, <2>1, <2>2, <2>4
    <3> QED
      BY <3>1, <3>2
  <2> HIDE DEF T
  <2> QED
    BY <1>5, <2>5
<1>8. p \in PagesUnder(j) /\ FirstPfn(j) \in Int
  BY <1>6, LeafPath, NodeNumbers
<1>9. PICK a \in Int : FirstPfn(j) = a * s
  BY <1>6, <1>7, NodesAligned
<1> DEFINE d == p \div s
<1>10. d \in Int /\ p = d * s
  BY <1>2
<1> HIDE DEF d, T
<1>11. FirstPfn(j) <= p /\ p < FirstPfn(j) + s
  <2> DEFINE f == FirstPfn(j)
  <2>1. f \in Int /\ p \in f .. f + s - 1
    BY <1>7, <1>8 DEF PagesUnder
  <2> HIDE DEF f
  <2>2. f <= p /\ p < f + s
    BY <1>2, <2>1
  <2> QED
    BY <2>2 DEF f
<1>12. a * s <= d * s /\ d * s < a * s + s
  BY <1>9, <1>10, <1>11
<1>13. a = d
  BY <1>2, <1>10, <1>12, SameMultiple
<1> QED
  BY <1>6, <1>7, <1>9, <1>10, <1>13

\* A request fits blocks of the size that fixsize gives, or none.
LEMMA FitsSize ==
    ASSUME NEW n \in Nat, NEW s
    PROVE  s \in Frames!Fits(n) <=> s = fixsize(n) /\ s \in Orders
<1>1. Size \in Nat \ {0} /\ Orders \subseteq Nat /\ \A t \in Orders : t <= Size
  BY OrderFacts
<1>2. fixsize(n) = 2 * Size \/ (fixsize(n) \in Orders /\ n <= fixsize(n))
  BY FixSize
<1>3. \A t \in Orders : n <= t => fixsize(n) <= t
  BY FixSize
<1> DEFINE f == fixsize(n)
<1> HIDE DEF f
<1>4. f = 2 * Size \/ (f \in Orders /\ n <= f)
  BY <1>2 DEF f
<1>5. \A t \in Orders : n <= t => f <= t
  BY <1>3 DEF f
<1>6. f \in Orders => n <= f
  <2> SUFFICES ASSUME f \in Orders PROVE n <= f
    OBVIOUS
  <2>1. f \in Nat /\ f <= Size
    BY <1>1
  <2>2. f # 2 * Size
    BY <1>1, <2>1
  <2> QED
    BY <1>4, <2>2
<1>7. ASSUME s \in Frames!Fits(n) PROVE s = f /\ s \in Orders
  <2>1. s \in Orders /\ n <= s /\ \A r \in Orders : n <= r => s <= r
    BY <1>7 DEF Frames!Fits
  <2>2. f <= s /\ s \in Nat /\ s <= Size
    BY <1>1, <1>5, <2>1
  <2>3. f # 2 * Size
    BY <1>1, <2>2
  <2>4. s <= f /\ f \in Nat
    BY <1>1, <1>4, <2>1, <2>3
  <2> QED
    BY <2>1, <2>2, <2>4
<1>8. ASSUME s = f, s \in Orders PROVE s \in Frames!Fits(n)
  BY <1>5, <1>6, <1>8 DEF Frames!Fits
<1> QED
  BY <1>7, <1>8 DEF f

\* A node with room for a block of its size, all the way up.
Room(bm, k, s) == NodeSize[k] = s /\ \A z \in Path[k] : bm[z] >= s

\* An aligned block is free exactly if its node has room.
LEMMA RoomIsFree ==
    ASSUME NEW bm, PoolSound(bm), NEW s \in Orders, NEW k \in Nodes, NodeSize[k] = s
    PROVE  Room(bm, k, s) <=> PagesUnder(k) \subseteq FreePfns(bm)
<1>1. s \in Nat \ {0}
  BY OrderFacts
<1>2. PagesUnder(k) \subseteq Pfns
  <2>1. /\ 0 <= FirstPfn(k) /\ FirstPfn(k) + NodeSize[k] <= Size
        /\ FirstPfn(k) \in Int /\ NodeSize[k] \in Nat /\ Size \in Nat
    BY Geometry, NodeNumbers
  <2> QED
    BY <2>1 DEF PagesUnder, Pfns
<1>3. ASSUME Room(bm, k, s), NEW p \in PagesUnder(k) PROVE p \in FreePfns(bm)
  <2>1. ASSUME NEW z \in Path[k] PROVE bm[z] # 0
    <3>1. bm[z] >= s /\ z \in Nodes
      BY <1>3, PathsSound DEF Room, PathSound
    <3>2. bm[z] \in Nat
      BY <3>1, TreeNumbers
    <3> QED
      BY <1>1, <3>1, <3>2
  <2>2. Whole(bm, k)
    <3>1. bm[k] >= s
      BY <1>3, PathsSound DEF Room, PathSound
    <3>2. bm[k] \in Nat /\ bm[k] <= s
      BY TreeNumbers
    <3>3. bm[k] = s
      BY <1>1, <3>1, <3>2
    <3> QED
      BY <3>3 DEF Whole
  <2> QED
    BY <1>2, <1>3, <2>1, <2>2, WholeIsFree, FreeOutside
<1>4. ASSUME PagesUnder(k) \subseteq FreePfns(bm) PROVE Room(bm, k, s)
  <2>1. \A p \in Pfns : p \in PagesUnder(k) => FreeIn(bm, p)
    BY <1>4, FreeOutside
  <2>2. ASSUME NEW z \in Path[k] PROVE bm[z] >= s
    <3>1. s <= bm[z]
      BY <2>1, <2>2, FreeFits
    <3>2. bm[z] \in Nat
      BY <2>2, PathsSound, TreeNumbers DEF PathSound
    <3> QED
      BY <1>1, <3>1, <3>2
  <2> QED
    BY <2>2 DEF Room
<1> QED
  BY <1>3, <1>4

\* The candidates for a request are the blocks of the nodes with room for its size.
LEMMA CandidatesAt ==
    ASSUME BlocksSound, NEW n \in Nat, NEW b
    PROVE  b \in Frames!Candidates(n)
              <=> \E k \in Nodes : /\ fixsize(n) \in Orders /\ Room(bitmap, k, fixsize(n))
                                   /\ b = BlockAt(k)
<1> DEFINE f == fixsize(n)
<1> HIDE DEF f
<1>1. PoolSound(bitmap)
  BY KeptFacts DEF KeptNow, Kept
<1>2. Blocks = BlocksIn(bitmap)
  BY DEF Blocks, BlocksIn, BlockAt
<1>3. Frames!Free = FreePfns(bitmap)
  BY <1>2 DEF Frames!Free, FreePfns
<1>4. \A s : s \in Frames!Fits(n) <=> s = f /\ s \in Orders
  BY FitsSize DEF f
<1>5. b \in Frames!Candidates(n)
         <=> /\ b \in [pfn : Pfns, size : Frames!Fits(n)]
             /\ (b.pfn % b.size) = 0
             /\ Frames!PagesOf(b) \subseteq FreePfns(bitmap)
  BY <1>3 DEF Frames!Candidates
<1>6. ASSUME b \in Frames!Candidates(n)
      PROVE  \E k \in Nodes : f \in Orders /\ Room(bitmap, k, f) /\ b = BlockAt(k)
  <2>1. b \in [pfn : Pfns, size : Frames!Fits(n)]
    BY <1>5, <1>6
  <2> DEFINE p == b.pfn
             s == b.size
  <2>2. p \in Pfns /\ s = f /\ s \in Orders /\ b = [pfn |-> p, size |-> s]
    BY <1>4, <2>1
  <2>3. (p % s) = 0
    BY <1>5, <1>6
  <2> HIDE DEF p, s
  <2>4. PICK k \in Nodes : NodeSize[k] = s /\ FirstPfn(k) = p
    BY <2>2, <2>3, NodeOf
  <2>5. b = BlockAt(k)
    BY <2>2, <2>4 DEF BlockAt
  <2>6. PagesUnder(k) \subseteq FreePfns(bitmap)
    BY <1>5, <1>6, <2>5, PagesOfBlock
  <2>7. Room(bitmap, k, s)
    BY <1>1, <2>2, <2>4, <2>6, RoomIsFree
  <2> QED
    BY <2>2, <2>5, <2>7
<1>7. ASSUME NEW k \in Nodes, f \in Orders, Room(bitmap, k, f), b = BlockAt(k)
      PROVE  b \in Frames!Candidates(n)
  <2>1. NodeSize[k] = f
    BY <1>7 DEF Room
  <2>2. PagesUnder(k) \subseteq FreePfns(bitmap)
    BY <1>1, <1>7, <2>1, RoomIsFree
  <2>3. FirstPfn(k) \in Pfns /\ (FirstPfn(k) % f) = 0
    BY <2>1, FirstPage, NodesAligned
  <2>4. b = [pfn |-> FirstPfn(k), size |-> f]
    BY <1>7, <2>1 DEF BlockAt
  <2>5. f \in Frames!Fits(n)
    BY <1>4, <1>7
  <2>6. b \in [pfn : Pfns, size : Frames!Fits(n)] /\ (b.pfn % b.size) = 0
    BY <2>3, <2>4, <2>5
  <2>7. Frames!PagesOf(b) \subseteq FreePfns(bitmap)
    BY <1>7, <2>2, PagesOfBlock
  <2> QED
    BY <1>5, <2>6, <2>7
<1> QED
  BY <1>6, <1>7 DEF f

LEMMA InitBlocks == buddy_init => Frames!Init
<1> SUFFICES ASSUME buddy_init PROVE Frames!Init
  OBVIOUS
<1>1. Reserved \in Nat /\ Reserved <= Size /\ Size \in Nat
  BY BuddyAssumption, OrderFacts
<1>2. bitmap = BootTree /\ \A i \in Nodes :
          IsBlock(BootTree, i) <=> NodeSize[i] = 1 /\ FirstPfn(i) < Reserved
  BY BootTreeBooted DEF Booted, buddy_init
<1>3. ASSUME NEW b \in Blocks PROVE b \in [pfn : 0 .. Reserved - 1, size : {1}]
  <2>1. PICK i \in Nodes : IsBlock(bitmap, i) /\ b = [pfn |-> FirstPfn(i), size |-> NodeSize[i]]
    BY DEF Blocks
  <2>2. NodeSize[i] = 1 /\ FirstPfn(i) < Reserved /\ FirstPfn(i) \in Pfns
    BY <1>2, <2>1, FirstPage
  <2>3. FirstPfn(i) \in 0 .. Reserved - 1
    BY <1>1, <2>2 DEF Pfns
  <2> QED
    BY <2>1, <2>2, <2>3
<1>4. ASSUME NEW b \in [pfn : 0 .. Reserved - 1, size : {1}] PROVE b \in Blocks
  <2> DEFINE p == b.pfn
  <2>1. p \in Pfns /\ p < Reserved /\ b = [pfn |-> p, size |-> 1]
    BY <1>1 DEF Pfns
  <2> HIDE DEF p
  <2> DEFINE i == Leaf(p)
  <2>2. i \in Nodes /\ NodeSize[i] = 1 /\ FirstPfn(i) = p
    BY <2>1, LeafPath
  <2> HIDE DEF i
  <2>3. IsBlock(bitmap, i)
    BY <1>2, <2>1, <2>2
  <2> QED
    BY <2>1, <2>2, <2>3 DEF Blocks
<1>5. Blocks = [pfn : 0 .. Reserved - 1, size : {1}]
  BY <1>3, <1>4
<1> QED
  BY <1>5 DEF buddy_init, Frames!Init

LEMMA AllocRefines ==
    ASSUME BlocksSound, NEW n \in Requests, Alloc(n) PROVE Frames!Next
<1> DEFINE size == fixsize(n)
           i == Descend(bitmap, size)
<1>1. PoolSound(bitmap) /\ n \in Nat /\ bitmap[0] >= size
  BY BuddyAssumption, KeptFacts DEF Alloc, KeptNow, Kept
<1>2. size \in Orders
  BY <1>1, ServedSize
<1>3. /\ bitmap' = Taken(bitmap, size) /\ ret' = FirstPfn(i)
      /\ ref_cnt' = [ref_cnt EXCEPT ![FirstPfn(i)] = 1]
  BY Zenon DEF Alloc
<1> DEFINE u == bitmap'
<1>4. i = Descend(bitmap, size) /\ u = Taken(bitmap, size)
  BY <1>3
<1>5. size = fixsize(n)
  OBVIOUS
<1> HIDE DEF i, u, size
<1>6. /\ i \in Nodes /\ NodeSize[i] = size
      /\ \A j \in Path[i] : bitmap[j] >= size
      /\ \A k \in Nodes : IsBlock(u, k) <=> k = i \/ IsBlock(bitmap, k)
      /\ \A k \in Nodes :
            NodeSize[k] = size /\ (\A j \in Path[k] : bitmap[j] >= size)
               => FirstPfn(i) <= FirstPfn(k)
  BY <1>1, <1>2, <1>4, TakenSound
<1> DEFINE b == BlockAt(i)
<1>7. b.pfn = FirstPfn(i) /\ b = BlockAt(i)
  BY DEF BlockAt
<1>8. Blocks' = Blocks \cup {b}
  <2>1. Blocks' = {BlockAt(k) : k \in {j \in Nodes : IsBlock(u, j)}}
    BY DEF Blocks, BlockAt, u
  <2>2. Blocks = {BlockAt(k) : k \in {j \in Nodes : IsBlock(bitmap, j)}}
    BY DEF Blocks, BlockAt
  <2>3. ASSUME NEW c PROVE c \in Blocks' <=> c \in Blocks \/ c = b
    BY <1>6, <2>1, <2>2
  <2> QED
    BY <2>3
<1> HIDE DEF b
<1>9. b \in Frames!Candidates(n)
  <2>1. Room(bitmap, i, size)
    BY <1>6 DEF Room
  <2> QED
    BY <1>1, <1>2, <1>5, <1>6, <1>7, <2>1, CandidatesAt
<1>10. ASSUME NEW c \in Frames!Candidates(n) PROVE b.pfn <= c.pfn
  <2>1. PICK k \in Nodes : Room(bitmap, k, size) /\ c = BlockAt(k)
    BY <1>1, <1>5, CandidatesAt
  <2>2. FirstPfn(i) <= FirstPfn(k)
    BY <1>6, <2>1 DEF Room
  <2> QED
    BY <1>7, <2>1, <2>2 DEF BlockAt
<1>11. b \in Frames!Lowest(Frames!Candidates(n))
  BY <1>9, <1>10 DEF Frames!Lowest
<1>12. Frames!Alloc(n)
  BY <1>3, <1>7, <1>8, <1>11 DEF Frames!Alloc
<1> QED
  BY <1>12 DEF Frames!Next

LEMMA AllocFailsRefines ==
    ASSUME BlocksSound, NEW n \in Requests, AllocFails(n) PROVE Frames!Next
<1>1. PoolSound(bitmap) /\ n \in Nat /\ bitmap[0] < fixsize(n)
  BY BuddyAssumption, KeptFacts DEF AllocFails, KeptNow, Kept
<1>2. ASSUME NEW b \in Frames!Candidates(n) PROVE FALSE
  <2> DEFINE f == fixsize(n)
  <2>1. PICK k \in Nodes : f \in Orders /\ Room(bitmap, k, f)
    BY <1>1, CandidatesAt
  <2>2. bitmap[0] < f
    BY <1>1
  <2> HIDE DEF f
  <2>3. bitmap[0] >= f
    BY <2>1, PathsSound DEF PathSound, Room
  <2>4. bitmap[0] \in Nat /\ f \in Nat
    BY <1>1, <2>1, TreeNumbers, NodeNumbers, OrderFacts
  <2> QED
    BY <2>2, <2>3, <2>4
<1>3. Frames!Candidates(n) = {}
  BY <1>2
<1>4. Blocks' = Blocks
  BY DEF AllocFails, Blocks, IsBlock
<1>5. Frames!Alloc(n)
  BY <1>3, <1>4 DEF AllocFails, Frames!Alloc
<1> QED
  BY <1>5 DEF Frames!Next

\* The block whose first page callers count.
LEMMA HeldBlock ==
    ASSUME BlocksSound, NEW p \in Held
    PROVE  \E i \in Nodes : /\ IsBlock(bitmap, i) /\ FirstPfn(i) = p
                            /\ BlockAt(i) \in Blocks /\ BlockAt(i).pfn = p
<1>1. p \in Pfns /\ ref_cnt[p] > 0
  BY DEF Held
<1>2. PICK i \in Nodes : IsBlock(bitmap, i) /\ FirstPfn(i) = p
  BY <1>1, KeptFacts DEF KeptNow, Kept, Counted
<1>3. BlockAt(i) \in Blocks
  BY <1>2 DEF Blocks, BlockAt
<1>4. BlockAt(i).pfn = p
  BY <1>2 DEF BlockAt
<1> QED
  BY <1>2, <1>3, <1>4

LEMMA GetRefines ==
    ASSUME BlocksSound, NEW p \in Held, GetPage(p) PROVE Frames!Next
<1>1. PICK i \in Nodes : BlockAt(i) \in Blocks /\ BlockAt(i).pfn = p
  BY HeldBlock
<1>2. Blocks' = Blocks
  BY DEF GetPage, Blocks, IsBlock
<1>3. p >= Reserved
  BY DEF Held
<1> DEFINE b == BlockAt(i)
<1>4. b \in Blocks /\ b.pfn = p
  BY <1>1
<1> HIDE DEF b
<1>5. Frames!Get(b)
  BY <1>2, <1>4 DEF GetPage, Frames!Get
<1> QED
  BY <1>3, <1>4, <1>5 DEF Frames!Next

LEMMA PutRefines ==
    ASSUME BlocksSound, NEW p \in Held, PutPage(p) PROVE Frames!Next
<1>1. PICK i \in Nodes : /\ IsBlock(bitmap, i) /\ FirstPfn(i) = p
                         /\ BlockAt(i) \in Blocks /\ BlockAt(i).pfn = p
  BY HeldBlock
<1>2. p >= Reserved /\ p \in Pfns
  BY DEF Held
<1> DEFINE b == BlockAt(i)
<1>3. b \in Blocks /\ b.pfn = p /\ b = BlockAt(i)
  BY <1>1
<1> HIDE DEF b
<1>4. PoolSound(bitmap) /\ Kept(bitmap, ref_cnt)
  BY KeptFacts DEF KeptNow, Kept
<1>5. CASE ref_cnt[p] # 1
  <2>1. Blocks' = Blocks
    BY <1>5 DEF PutPage, LastReference, Blocks, IsBlock
  <2>2. Frames!Put(b)
    BY <1>3, <1>5, <2>1 DEF PutPage, Frames!Put
  <2> QED
    BY <1>2, <1>3, <2>2 DEF Frames!Next
<1>6. CASE ref_cnt[p] = 1
  <2> DEFINE u == bitmap'
             r == [ref_cnt EXCEPT ![p] = 0]
  <2>1. u = Freed(bitmap, p)
    BY <1>6 DEF PutPage, LastReference
  <2>2. p \in PagesUnder(i)
    BY <1>1, FirstPage
  <2> HIDE DEF u
  <2>3. \A k \in Nodes : IsBlock(u, k) <=> k # i /\ IsBlock(bitmap, k)
    BY <1>1, <1>2, <1>4, <2>1, <2>2, FreedSound
  <2>4. ASSUME NEW k \in Nodes, IsBlock(bitmap, k) PROVE BlockAt(k) = b <=> k = i
    <3>1. ASSUME BlockAt(k) = b PROVE k = i
      <4>1. FirstPfn(k) = p
        BY <1>3, <3>1 DEF BlockAt
      <4>2. p \in PagesUnder(k)
        BY <4>1, FirstPage
      <4> QED
        BY <1>1, <1>2, <1>4, <2>2, <2>4, <4>2, DistinctBlocks
    <3> QED
      BY <1>3, <3>1
  <2>5. Blocks' = Blocks \ {b}
    <3>1. Blocks' = {BlockAt(k) : k \in {j \in Nodes : IsBlock(u, j)}}
      BY DEF Blocks, BlockAt, u
    <3>2. Blocks = {BlockAt(k) : k \in {j \in Nodes : IsBlock(bitmap, j)}}
      BY DEF Blocks, BlockAt
    <3>3. ASSUME NEW c PROVE c \in Blocks' <=> c \in Blocks /\ c # b
      BY <2>3, <2>4, <3>1, <3>2
    <3> QED
      BY <3>3
  <2>6. Frames!Put(b)
    BY <1>3, <1>6, <2>5 DEF PutPage, Frames!Put
  <2> QED
    BY <1>2, <1>3, <2>6 DEF Frames!Next
<1> QED
  BY <1>5, <1>6

\* The tree of sizes allocates and frees whole blocks of pages: a request is served by the
\* lowest aligned block of free pages, fails only if there is none, and a block goes back
\* whole.
THEOREM ImplementsPageFrames == BuddySpec => PageFramesSpec
<1>1. BlocksSound /\ [BuddyNext]_pool => [Frames!Next]_Frames!vars
  <2> SUFFICES ASSUME BlocksSound, [BuddyNext]_pool PROVE [Frames!Next]_Frames!vars
    OBVIOUS
  <2>1. ASSUME UNCHANGED pool PROVE UNCHANGED Frames!vars
    BY <2>1 DEF pool, Frames!vars, Blocks, IsBlock
  <2> QED
    BY <2>1, AllocRefines, AllocFailsRefines, GetRefines, PutRefines DEF BuddyNext
<1> QED
  BY <1>1, InitBlocks, BlocksStaySound, PTL DEF BuddySpec, PageFramesSpec, Frames!Spec
=============================================================================
