---------------------------- MODULE KernelProofs ----------------------------
(***************************************************************************)
(* Theorems about PageTable, for every memory, number of tasks, layout of  *)
(* the kernel and of the user pages: the tables of all tasks are trees     *)
(* that share nothing below the roots, nothing that is mapped is free, and *)
(* the kernel's own pages stay where they are; and about Sched, for every  *)
(* number of tasks and all priorities.                                     *)
(***************************************************************************)
EXTENDS PageTable, Sched, FiniteSetTheorems, WellFoundedInduction, TLAPS

-----------------------------------------------------------------------------
(* What a frame is for.  The invariant says that some assignment of kinds  *)
(* to frames fits what the tables lead to.                                 *)

FreeKind     == <<"free">>          \* in the allocator
RootKind     == <<"root">>          \* of the kernel or of a task
KeptKind     == <<"kept">>          \* the image's, or lost
Dir(r, i)    == <<"dir", r, i>>     \* entry i of root r leads to it
Tab(r, i, j) == <<"tab", r, i, j>>  \* entry j of that directory
Page(v)      == <<"page", v>>       \* mapped, if at all, at user page v

LEMMA KindsApart ==
    ASSUME NEW r, NEW i, NEW j, NEW s, NEW k, NEW l, NEW v, NEW u
    PROVE  /\ FreeKind # RootKind /\ FreeKind # KeptKind /\ RootKind # KeptKind
           /\ Dir(r, i) \notin {FreeKind, RootKind, KeptKind}
           /\ Tab(r, i, j) \notin {FreeKind, RootKind, KeptKind}
           /\ Page(v) \notin {FreeKind, RootKind, KeptKind}
           /\ Dir(r, i) # Tab(s, k, l) /\ Dir(r, i) # Page(v) /\ Tab(r, i, j) # Page(v)
           /\ Dir(r, i) = Dir(s, k) => r = s /\ i = k
           /\ Tab(r, i, j) = Tab(s, k, l) => r = s /\ i = k /\ j = l
           /\ Page(v) = Page(u) => v = u
  BY DEF FreeKind, RootKind, KeptKind, Dir, Tab, Page

LEMMA PathKinds ==
    \A r, i, j, v :
        /\ Dir(r, i) # FreeKind /\ Dir(r, i) # RootKind /\ Dir(r, i) # KeptKind
        /\ Tab(r, i, j) # FreeKind /\ Tab(r, i, j) # RootKind /\ Tab(r, i, j) # KeptKind
        /\ Page(v) # FreeKind /\ Page(v) # RootKind /\ Page(v) # KeptKind
  BY KindsApart

\* The way from a root to a leaf, in a memory w.
HasDir(w, r, i)       == Valid(w[r][i]) /\ w[r][i].ppn # Null
DirOf(w, r, i)        == w[r][i].ppn
HasTab(w, r, i, j)    == /\ HasDir(w, r, i) /\ Valid(w[DirOf(w, r, i)][j])
                         /\ w[DirOf(w, r, i)][j].ppn # Null
TabOf(w, r, i, j)     == w[DirOf(w, r, i)][j].ppn
HasLeaf(w, r, i, j, k) == HasTab(w, r, i, j) /\ Valid(w[TabOf(w, r, i, j)][k])
LeafOf(w, r, i, j, k) == IF HasLeaf(w, r, i, j, k) THEN w[TabOf(w, r, i, j)][k] ELSE Empty

\* The entries of a root under which its own tables hang.
RootIndices(r) == IF r = Swapper THEN Indices \ UserIndices(2) ELSE UserIndices(2)

EmptyPage == [i \in Indices |-> Empty]

\* The parts of the invariant, of a memory w with the free frames fr, the roots
\* R and the kinds kd.
Typed(w, fr) == w \in [Frames -> [Indices -> Words]] /\ fr \subseteq Frames \ Image

Kinded(fr, R, kd) ==
    /\ \A f \in Frames : f \in fr <=> kd[f] = FreeKind
    /\ R \subseteq Frames /\ Swapper \in R
    /\ \A r \in R : kd[r] = RootKind
    /\ \A f \in Image : f # Swapper => kd[f] = KeptKind
    /\ DOMAIN kd = Frames

\* The leaves of tasks are for the page of the path; those of the kernel lead
\* anywhere.
At(v, i, j, k) == Vpn(v, 2) = i /\ Vpn(v, 1) = j /\ Vpn(v, 0) = k
UserLeaf(kd, i, j, k, e) ==
    /\ e.ppn \in Frames
    /\ \E v \in UserPages : At(v, i, j, k) /\ kd[e.ppn] = Page(v)

GoodPath(w, kd, r, i, j, k) ==
    /\ Valid(w[r][i]) => w[r][i].bits = {"V"}
    /\ HasDir(w, r, i) => DirOf(w, r, i) \in Frames /\ kd[DirOf(w, r, i)] = Dir(r, i)
    /\ HasTab(w, r, i, j) =>
          TabOf(w, r, i, j) \in Frames /\ kd[TabOf(w, r, i, j)] = Tab(r, i, j)
    /\ r # Swapper /\ HasLeaf(w, r, i, j, k) =>
          UserLeaf(kd, i, j, k, LeafOf(w, r, i, j, k))

Paths(w, R, kd) ==
    \A r \in R : \A i \in RootIndices(r), j \in Indices, k \in Indices :
        GoodPath(w, kd, r, i, j, k)

\* Every root has the kernel's entries, and the kernel's has no others.
Copies(w, R) ==
    /\ \A r \in R : \A i \in RootIndices(Swapper) : w[r][i] = w[Swapper][i]
    /\ \A i \in UserIndices(2) : ~ Valid(w[Swapper][i])

MemInv(w, fr, R, kd) ==
    /\ Typed(w, fr) /\ Kinded(fr, R, kd)
    /\ Paths(w, R, kd) /\ Copies(w, R)

\* The allocator's lowest page is all that can hold something; in the midst of
\* a handler that has taken it, nothing free does, and all that is in use lies below.
Settled(w, fr) ==
    \A f \in fr : w[f] = EmptyPage /\ \A g \in Frames \ (Image \cup fr) : g < f
Tidy(w, fr) ==
    \A f \in fr : (\E h \in fr : h < f) =>
        w[f] = EmptyPage /\ \A g \in Frames \ (Image \cup fr) : g < f

-----------------------------------------------------------------------------
(* Indices.                                                                *)

\* Multiples of d compare as the factors do.
LEMMA Multiples ==
    ASSUME NEW p \in Int, NEW q \in Int, NEW d \in Nat \ {0}
    PROVE  /\ p * d < q * d => p + 1 <= q
           /\ p + 1 <= q => p * d + d <= q * d
  <1>1. p >= q => p * d >= q * d
    OBVIOUS
  <1>2. (p + 1) * d = p * d + d
    OBVIOUS
  <1>3. p + 1 <= q => (p + 1) * d <= q * d
    OBVIOUS
  <1> QED BY <1>1, <1>2, <1>3

\* Quotient and remainder, and that there is but one of each.
LEMMA Division ==
    ASSUME NEW a \in Nat, NEW d \in Nat \ {0}
    PROVE  /\ a \div d \in Nat /\ a % d \in 0 .. d - 1
           /\ a = (a \div d) * d + (a % d)
  <1>1. a \div d \in Int /\ a % d \in 0 .. d - 1 /\ a = d * (a \div d) + (a % d)
    OBVIOUS
  <1> DEFINE q == a \div d
             r == a % d
  <1>2. q \in Int /\ r \in 0 .. d - 1 /\ a = d * q + r
    BY <1>1
  <1> HIDE DEF q, r
  <1>3. a = q * d + r
    BY <1>2
  <1>4. 0 * d < (q + 1) * d
    BY <1>2, <1>3
  <1>5. 0 <= q
    <2>1. 0 * d < (q + 1) * d => 0 + 1 <= q + 1
      BY <1>2, Multiples
    <2> QED BY <1>2, <1>4, <2>1
  <1> QED BY <1>2, <1>3, <1>5 DEF q, r

LEMMA OneQuotient ==
    ASSUME NEW d \in Nat \ {0}, NEW p \in Int, NEW q \in Int, NEW r \in 0 .. d - 1,
           NEW s \in 0 .. d - 1, p * d + r = q * d + s
    PROVE  p = q /\ r = s
  <1>1. p * d \in Int /\ q * d \in Int
    OBVIOUS
  <1>2. p * d < q * d + d /\ q * d < p * d + d
    BY <1>1
  <1>3. ~ (p + 1 <= q) /\ ~ (q + 1 <= p)
    BY <1>1, <1>2, Multiples
  <1>4. p = q
    BY <1>3
  <1> QED BY <1>1, <1>4

\* Quotients of the numbers in one interval of length d.
LEMMA QuotientOf ==
    ASSUME NEW d \in Nat \ {0}, NEW a \in Nat, NEW q \in Int, NEW n, n = q * d,
           n <= a, a < n + d
    PROVE  a \div d = q /\ (a % d) = a - n
  <1> DEFINE p == a \div d
             r == a % d
             m == q * d
  <1>0. n = m
    OBVIOUS
  <1>1. m \in Int /\ m <= a /\ a < m + d
    OBVIOUS
  <1>2. p \in Nat /\ r \in 0 .. d - 1 /\ a = p * d + r
    BY Division
  <1>3. a - m \in 0 .. d - 1 /\ a = m + (a - m)
    BY <1>1
  <1> DEFINE s == a - m
  <1>4. s \in 0 .. d - 1 /\ p * d + r = q * d + s
    BY <1>2, <1>3
  <1> HIDE DEF p, r, s, m
  <1>5. p = q /\ r = s
    BY <1>2, <1>4, OneQuotient
  <1> QED BY <1>0, <1>5 DEF p, r, s, m

LEMMA VpnIndex ==
    ASSUME NEW v \in Nat
    PROVE  Vpn(v, 2) \in Indices /\ Vpn(v, 1) \in Indices /\ Vpn(v, 0) \in Indices
  <1>1. Fan \in Nat \ {0} /\ Fan * Fan \in Nat \ {0}
    BY SizesAssumption
  <1>2. v \div Fan \in Nat /\ v \div (Fan * Fan) \in Nat
    <2> DEFINE s == Fan * Fan
    <2>1. s \in Nat \ {0}
      BY <1>1
    <2> HIDE DEF s
    <2>2. v \div Fan \in Nat /\ v \div s \in Nat
      BY <1>1, <2>1, Division
    <2> QED BY <2>2 DEF s
  <1>3. \A a \in Nat : a % Fan \in 0 .. Fan - 1
    BY <1>1, Division
  <1> QED BY <1>2, <1>3 DEF Vpn, Indices

\* A page number is its three indices.
LEMMA VpnDigits ==
    ASSUME NEW v \in Nat, v < Fan * Fan * Fan
    PROVE  /\ Vpn(v, 2) = v \div (Fan * Fan)
           /\ v = (Vpn(v, 2) * Fan + Vpn(v, 1)) * Fan + Vpn(v, 0)
           /\ v % (Fan * Fan) = Vpn(v, 1) * Fan + Vpn(v, 0)
  <1>1. Fan \in Nat \ {0}
    BY SizesAssumption
  <1> DEFINE a == v \div Fan
             z == v % Fan
             b == a \div Fan
             y == a % Fan
             s == Fan * Fan
  <1>2. a \in Nat /\ z \in 0 .. Fan - 1 /\ v = a * Fan + z
    BY <1>1, Division
  <1> HIDE DEF a, z
  <1>3. b \in Nat /\ y \in 0 .. Fan - 1 /\ a = b * Fan + y
    BY <1>1, <1>2, Division
  <1> HIDE DEF b, y
  <1>4. s \in Nat \ {0} /\ y * Fan + z \in 0 .. s - 1
    <2>1. y * Fan \in Int /\ y * Fan >= 0
      BY <1>1, <1>3
    <2>2. y * Fan <= (Fan - 1) * Fan
      BY <1>1, <1>3
    <2>3. (Fan - 1) * Fan = s - Fan /\ s \in Nat \ {0}
      BY <1>1
    <2> DEFINE m == y * Fan
               l == (Fan - 1) * Fan
    <2>4. m \in Int /\ m >= 0 /\ m <= l /\ l = s - Fan
      BY <2>1, <2>2, <2>3
    <2> HIDE DEF s, m, l
    <2>5. m + z \in 0 .. s - 1
      BY <1>1, <1>2, <2>3, <2>4
    <2> QED BY <2>3, <2>5 DEF m
  <1>5. v = b * s + (y * Fan + z)
    <2>1. v = (b * Fan + y) * Fan + z
      BY <1>2, <1>3
    <2>2. (b * Fan + y) * Fan = b * (Fan * Fan) + y * Fan
      BY <1>1, <1>3
    <2>3. b * (Fan * Fan) \in Int /\ y * Fan \in Int /\ z \in Int
      BY <1>1, <1>2, <1>3
    <2> DEFINE p == b * (Fan * Fan)
               q == y * Fan
               o == (b * Fan + y) * Fan
    <2>4. v = o + z /\ o = p + q /\ p \in Int /\ q \in Int
      BY <2>1, <2>2, <2>3
    <2> HIDE DEF p, q, o
    <2>5. v = p + (q + z)
      BY <2>3, <2>4
    <2> QED BY <2>5 DEF p, q
  <1>6. v \div s = b /\ v % s = y * Fan + z
    <2> DEFINE t == y * Fan + z
               p == b * s
    <2>1. t \in 0 .. s - 1 /\ v = p + t /\ p \in Int /\ s \in Nat \ {0}
      BY <1>1, <1>3, <1>4, <1>5
    <2>2. p <= v /\ v < p + s
      <3> HIDE DEF s, t, p
      <3> QED BY <2>1
    <2>3. v \div s = b /\ (v % s) = v - p
      <3>1. PICK n : n = p
        OBVIOUS
      <3>2. n = b * s /\ n <= v /\ v < n + s
        BY <2>2, <3>1
      <3> HIDE DEF s, p
      <3> QED BY <1>3, <2>1, <3>1, <3>2, QuotientOf
    <2>4. v - p = t
      <3> HIDE DEF s, t, p
      <3> QED BY <2>1
    <2> QED BY <2>3, <2>4
  <1>7. b < Fan
    <2>1. b * s < Fan * s
      <3>1. Fan * s = Fan * Fan * Fan
        BY <1>1
      <3> DEFINE p == b * s
                 t == y * Fan + z
      <3>2. p \in Int /\ t \in 0 .. s - 1 /\ v = p + t
        BY <1>1, <1>3, <1>4, <1>5
      <3> DEFINE c == Fan * Fan * Fan
      <3>3. v < c /\ c \in Int
        BY <1>1
      <3>4. p < c
        <4> HIDE DEF p, t, c, s
        <4> QED BY <1>4, <3>2, <3>3
      <3> QED BY <3>1, <3>4
    <2>2. b + 1 <= Fan
      <3> HIDE DEF s
      <3> QED BY <1>1, <1>3, <1>4, <2>1, Multiples
    <2> QED BY <1>1, <1>3, <2>2
  <1>8. b % Fan = b
    <2>1. b \in 0 .. Fan - 1
      BY <1>1, <1>3, <1>7
    <2> QED BY <1>1, <2>1
  <1>9. Vpn(v, 0) = z /\ Vpn(v, 1) = y /\ Vpn(v, 2) = b
    BY <1>6, <1>8 DEF Vpn, z, y, a, s
  <1>10. v = (b * Fan + y) * Fan + z
    BY <1>2, <1>3
  <1> QED BY <1>6, <1>9, <1>10

LEMMA VpnInjective ==
    ASSUME NEW u \in Nat, NEW v \in Nat, u < Fan * Fan * Fan, v < Fan * Fan * Fan,
           Vpn(u, 2) = Vpn(v, 2), Vpn(u, 1) = Vpn(v, 1), Vpn(u, 0) = Vpn(v, 0)
    PROVE  u = v
  BY VpnDigits, Zenon

LEMMA IndexSets ==
    /\ UserIndices(2) \subseteq Indices
    /\ \A r : RootIndices(r) \subseteq Indices
    /\ \A v \in UserPages : v \in Nat
    /\ \A v \in MappedPages : v \in Nat
  <1>1. \A v \in UserPages \cup MappedPages : v \in Nat
    BY PagesAssumption, SizesAssumption
  <1>2. UserIndices(2) \subseteq Indices
    BY <1>1, VpnIndex DEF UserIndices
  <1> QED BY <1>1, <1>2 DEF RootIndices

-----------------------------------------------------------------------------
(* The way to a leaf depends on three frames only.                         *)

SamePath(w, x, r, i, j, k) ==
    /\ x[r][i] = w[r][i]
    /\ HasDir(x, r, i) <=> HasDir(w, r, i)
    /\ DirOf(x, r, i) = DirOf(w, r, i)
    /\ HasDir(w, r, i) => x[DirOf(w, r, i)][j] = w[DirOf(w, r, i)][j]
    /\ HasTab(x, r, i, j) <=> HasTab(w, r, i, j)
    /\ HasTab(w, r, i, j) => TabOf(x, r, i, j) = TabOf(w, r, i, j)
    /\ HasLeaf(x, r, i, j, k) <=> HasLeaf(w, r, i, j, k)
    /\ LeafOf(x, r, i, j, k) = LeafOf(w, r, i, j, k)

LEMMA SameFrames ==
    ASSUME NEW w, NEW x, NEW r, NEW i, NEW j, NEW k,
           x[r][i] = w[r][i],
           HasDir(w, r, i) => x[DirOf(w, r, i)][j] = w[DirOf(w, r, i)][j],
           HasTab(w, r, i, j) => x[TabOf(w, r, i, j)][k] = w[TabOf(w, r, i, j)][k]
    PROVE  SamePath(w, x, r, i, j, k)
  <1>1. (HasDir(x, r, i) <=> HasDir(w, r, i)) /\ DirOf(x, r, i) = DirOf(w, r, i)
    BY DEF HasDir, DirOf
  <1>2. HasTab(x, r, i, j) <=> HasTab(w, r, i, j)
    BY <1>1 DEF HasTab
  <1>3. HasTab(w, r, i, j) => TabOf(x, r, i, j) = TabOf(w, r, i, j)
    BY <1>1 DEF HasTab, TabOf
  <1>4. HasLeaf(x, r, i, j, k) <=> HasLeaf(w, r, i, j, k)
    BY <1>2, <1>3 DEF HasLeaf
  <1>5. LeafOf(x, r, i, j, k) = LeafOf(w, r, i, j, k)
    BY <1>2, <1>3, <1>4 DEF HasLeaf, LeafOf
  <1> QED BY <1>1, <1>2, <1>3, <1>4, <1>5 DEF SamePath

\* What a step leaves alone is the same if the frames of the kinds in question are.
LEMMA Elsewhere ==
    ASSUME NEW w, NEW x, NEW fr, NEW R, NEW kd, MemInv(w, fr, R, kd),
           NEW r \in R, NEW i \in RootIndices(r), NEW j \in Indices, NEW k \in Indices,
           x[r][i] = w[r][i],
           \A g \in Frames : kd[g] = Dir(r, i) => x[g][j] = w[g][j],
           \A g \in Frames : kd[g] = Tab(r, i, j) => x[g][k] = w[g][k]
    PROVE  SamePath(w, x, r, i, j, k)
  <1>0. GoodPath(w, kd, r, i, j, k)
    BY DEF MemInv, Paths
  <1>1. HasDir(w, r, i) => DirOf(w, r, i) \in Frames /\ kd[DirOf(w, r, i)] = Dir(r, i)
    BY <1>0 DEF GoodPath
  <1>2. HasTab(w, r, i, j) => TabOf(w, r, i, j) \in Frames /\ kd[TabOf(w, r, i, j)] = Tab(r, i, j)
    BY <1>0 DEF GoodPath
  <1> QED BY <1>1, <1>2, SameFrames

\* A path that is the same is as good as it was, and stays so when a frame gets
\* a kind that had none.
LEMMA GoodAsBefore ==
    ASSUME NEW w, NEW x, NEW kd, NEW r, NEW i, NEW j, NEW k,
           SamePath(w, x, r, i, j, k), GoodPath(w, kd, r, i, j, k)
    PROVE  GoodPath(x, kd, r, i, j, k)
  <1>1. Valid(x[r][i]) => x[r][i].bits = {"V"}
    BY DEF SamePath, GoodPath
  <1>2. HasDir(x, r, i) => DirOf(x, r, i) \in Frames /\ kd[DirOf(x, r, i)] = Dir(r, i)
    BY DEF SamePath, GoodPath
  <1>3. HasTab(x, r, i, j) => TabOf(x, r, i, j) \in Frames /\ kd[TabOf(x, r, i, j)] = Tab(r, i, j)
    BY DEF SamePath, GoodPath
  <1>4. r # Swapper /\ HasLeaf(x, r, i, j, k) => UserLeaf(kd, i, j, k, LeafOf(x, r, i, j, k))
    BY DEF SamePath, GoodPath
  <1> QED BY <1>1, <1>2, <1>3, <1>4 DEF GoodPath

KindsKept(kd, ke) == \A g \in Frames : kd[g] # FreeKind => ke[g] = kd[g]

LEMMA GoodIfKept ==
    ASSUME NEW w, NEW kd, NEW ke, KindsKept(kd, ke), NEW r, NEW i, NEW j, NEW k,
           GoodPath(w, kd, r, i, j, k)
    PROVE  GoodPath(w, ke, r, i, j, k)
  <1>1. Dir(r, i) # FreeKind /\ Tab(r, i, j) # FreeKind /\ \A v : Page(v) # FreeKind
    BY KindsApart
  <1>2. HasDir(w, r, i) => DirOf(w, r, i) \in Frames /\ ke[DirOf(w, r, i)] = Dir(r, i)
    BY <1>1 DEF GoodPath, KindsKept
  <1>3. HasTab(w, r, i, j) => TabOf(w, r, i, j) \in Frames /\ ke[TabOf(w, r, i, j)] = Tab(r, i, j)
    BY <1>1 DEF GoodPath, KindsKept
  <1>4. r # Swapper /\ HasLeaf(w, r, i, j, k) => UserLeaf(ke, i, j, k, LeafOf(w, r, i, j, k))
    BY <1>1 DEF GoodPath, KindsKept, UserLeaf
  <1> QED BY <1>2, <1>3, <1>4 DEF GoodPath

\* One word of memory is stored.
Stored(w, f, y, e) == [w EXCEPT ![f][y] = e]

Holds(w, x, f, y, e) ==
    /\ x \in [Frames -> [Indices -> Words]]
    /\ x[f][y] = e
    /\ \A g \in Frames, z \in Indices : <<g, z>> # <<f, y>> => x[g][z] = w[g][z]
    /\ \A g \in Frames : g # f => x[g] = w[g]

LEMMA StoredIs ==
    ASSUME NEW w \in [Frames -> [Indices -> Words]], NEW f \in Frames, NEW y \in Indices,
           NEW e \in Words, NEW x, x = Stored(w, f, y, e)
    PROVE  Holds(w, x, f, y, e)
  BY DEF Stored, Holds

\* An assignment of kinds with one of them changed.
Recast(kd, f, kind) == [kd EXCEPT ![f] = kind]

LEMMA RecastIs ==
    ASSUME NEW kd, DOMAIN kd = Frames, NEW f \in Frames, NEW kind
    PROVE  /\ Recast(kd, f, kind)[f] = kind
           /\ \A g \in Frames : g # f => Recast(kd, f, kind)[g] = kd[g]
           /\ DOMAIN Recast(kd, f, kind) = Frames
  BY DEF Recast

-----------------------------------------------------------------------------
(* The steps that handlers are made of: each keeps MemInv.                 *)

\* Nothing that was mapped has gone or changed, nothing new is mapped, and the
\* frames that only the kernel knows hold what they held.
SameLeaves(w, x, R) ==
    \A r \in R : \A i \in RootIndices(r), j \in Indices, k \in Indices :
        LeafOf(x, r, i, j, k) = LeafOf(w, r, i, j, k)
SameKept(w, x, kd) == \A f \in Frames : kd[f] = KeptKind => x[f] = w[f]

\* A page leaves the allocator, for a use that no table knows yet.
LEMMA Taking ==
    ASSUME NEW w, NEW fr, NEW R, NEW kd, MemInv(w, fr, R, kd),
           NEW f \in fr, NEW kind, kind # FreeKind
    PROVE  MemInv(w, fr \ {f}, R, Recast(kd, f, kind)) /\ KindsKept(kd, Recast(kd, f, kind))
  <1> DEFINE kd2 == Recast(kd, f, kind)
  <1>1. f \in Frames /\ f \notin Image /\ kd[f] = FreeKind /\ DOMAIN kd = Frames
    BY DEF MemInv, Typed, Kinded
  <1>2. kd2[f] = kind /\ (\A g \in Frames : g # f => kd2[g] = kd[g]) /\ DOMAIN kd2 = Frames
    BY <1>1, RecastIs
  <1> HIDE DEF kd2
  <1>3. Typed(w, fr \ {f}) /\ Copies(w, R)
    BY DEF MemInv, Typed
  <1>4. Kinded(fr \ {f}, R, kd2)
    <2>1. \A g \in Frames : g \in fr \ {f} <=> kd2[g] = FreeKind
      BY <1>1, <1>2 DEF MemInv, Kinded
    <2>2. \A r \in R : kd2[r] = RootKind
      <3>1. \A r \in R : r # f /\ r \in Frames /\ kd[r] = RootKind
        BY <1>1, KindsApart DEF MemInv, Kinded
      <3> QED BY <1>2, <3>1
    <2>3. \A g \in Image : g # Swapper => kd2[g] = KeptKind
      BY <1>1, <1>2, SizesAssumption DEF MemInv, Kinded
    <2> QED BY <1>2, <2>1, <2>2, <2>3 DEF MemInv, Kinded
  <1>5. KindsKept(kd, kd2)
    BY <1>1, <1>2 DEF KindsKept
  <1>6. Paths(w, R, kd2)
    BY <1>5, GoodIfKept DEF MemInv, Paths
  <1>7. MemInv(w, fr \ {f}, R, kd2)
    BY <1>3, <1>4, <1>6 DEF MemInv
  <1> QED BY <1>5, <1>7 DEF kd2

\* A link leads to no page, or to one that holds nothing.
Link(f) == [ppn |-> f, bits |-> {"V"}]

LEMMA LinkIs ==
    ASSUME NEW f \in Frames \cup {Null}
    PROVE  /\ Link(f) \in Words /\ Valid(Link(f)) /\ Link(f).ppn = f /\ Link(f).bits = {"V"}
  <1>1. {"V"} \in SUBSET Bits
    BY DEF Bits
  <1> QED BY <1>1 DEF Link, Words, Valid

LEMMA EmptyIs ==
    /\ Empty \in Words /\ ~ Valid(Empty) /\ EmptyPage \in [Indices -> Words]
    /\ \A j \in Indices : EmptyPage[j] = Empty
    /\ 0 \in Indices /\ Null \notin Frames
    /\ Swapper \in Frames /\ EarlyDir \in Frames
  <1>1. 0 \in Frames /\ 0 \in Indices /\ Swapper \in Frames /\ EarlyDir \in Frames
    <2>1. Ram \in Nat /\ Fan \in Nat \ {0}
      BY SizesAssumption
    <2>2. Swapper \in Frames /\ EarlyDir \in Frames
      BY SizesAssumption
    <2> QED BY <2>1, <2>2 DEF Frames, Indices
  <1>2. Empty \in Words /\ ~ Valid(Empty)
    BY <1>1 DEF Empty, Words, Valid
  <1>3. Null \notin Frames
    <2>1. Ram \in Nat
      BY SizesAssumption
    <2> QED BY <2>1 DEF Null, Frames
  <1> QED BY <1>1, <1>2, <1>3 DEF EmptyPage

\* The paths that go on as they did.
BesideDir(w, x, R, r, i) ==
    \A s \in R : \A l \in RootIndices(s), m \in Indices, n \in Indices :
        ~ (s = r /\ l = i) => SamePath(w, x, s, l, m, n)
BesideTab(w, x, R, r, i, j) ==
    \A s \in R : \A l \in RootIndices(s), m \in Indices, n \in Indices :
        ~ (s = r /\ l = i /\ m = j) => SamePath(w, x, s, l, m, n)

LEMMA LinkDir ==
    ASSUME NEW w, NEW fr, NEW R, NEW kd, MemInv(w, fr, R, kd),
           NEW r \in R, r = Swapper => R = {Swapper},
           NEW i \in RootIndices(r), ~ Valid(w[r][i]),
           NEW f, f = Null \/ (f \in Frames /\ kd[f] = Dir(r, i) /\ w[f] = EmptyPage),
           NEW x, x = Stored(w, r, i, Link(f))
    PROVE  /\ MemInv(x, fr, R, kd) /\ SameLeaves(w, x, R) /\ SameKept(w, x, kd)
           /\ BesideDir(w, x, R, r, i)
  <1>1. /\ w \in [Frames -> [Indices -> Words]] /\ fr \subseteq Frames \ Image
        /\ r \in Frames /\ i \in Indices /\ kd[r] = RootKind /\ R \subseteq Frames
        /\ \A s \in R : kd[s] = RootKind
        /\ Swapper \in R
    BY IndexSets DEF MemInv, Typed, Kinded
  <1>2. /\ Link(f) \in Words /\ Valid(Link(f)) /\ Link(f).ppn = f /\ Link(f).bits = {"V"}
    BY LinkIs
  <1>3. /\ x \in [Frames -> [Indices -> Words]] /\ x[r][i] = Link(f)
        /\ \A g \in Frames, z \in Indices : <<g, z>> # <<r, i>> => x[g][z] = w[g][z]
        /\ \A g \in Frames : g # r => x[g] = w[g]
    <2>1. Holds(w, x, r, i, Link(f))
      BY <1>1, <1>2, StoredIs
    <2> QED BY <2>1 DEF Holds
  <1>4. ASSUME NEW s \in R, NEW l \in RootIndices(s), NEW j \in Indices, NEW k \in Indices,
               <<s, l>> # <<r, i>>
        PROVE  SamePath(w, x, s, l, j, k)
    <2>1. x[s][l] = w[s][l]
      BY <1>1, <1>3, <1>4, IndexSets
    <2>2. /\ \A g \in Frames : kd[g] = Dir(s, l) => x[g] = w[g]
          /\ \A g \in Frames : kd[g] = Tab(s, l, j) => x[g] = w[g]
      <3>1. Dir(s, l) # RootKind /\ Tab(s, l, j) # RootKind
        BY PathKinds
      <3> QED BY <1>1, <1>3, <3>1
    <2> QED BY <2>1, <2>2, Elsewhere
  <1>5. ASSUME NEW j \in Indices, NEW k \in Indices
        PROVE  /\ GoodPath(x, kd, r, i, j, k)
               /\ LeafOf(x, r, i, j, k) = LeafOf(w, r, i, j, k)
    <2>1. ~ HasLeaf(w, r, i, j, k)
      BY DEF HasLeaf, HasTab, HasDir
    <2>2. DirOf(x, r, i) = f
      BY <1>2, <1>3 DEF DirOf
    <2>3. HasDir(x, r, i) => f \in Frames /\ kd[f] = Dir(r, i) /\ w[f] = EmptyPage
      BY <1>2, <1>3 DEF HasDir
    <2>4. f \in Frames /\ kd[f] = Dir(r, i) => x[f] = w[f]
      BY <1>1, <1>3, PathKinds, ZenonT(40)
    <2>5. HasDir(x, r, i) => ~ Valid(x[f][j])
      BY <2>3, <2>4, EmptyIs
    <2>6. ~ HasTab(x, r, i, j)
      BY <2>2, <2>5 DEF HasTab
    <2>7. ~ HasLeaf(x, r, i, j, k)
      BY <2>6 DEF HasLeaf
    <2> QED BY <1>2, <1>3, <2>1, <2>2, <2>3, <2>6, <2>7 DEF GoodPath, LeafOf
  <1>6. Paths(x, R, kd)
    <2> SUFFICES ASSUME NEW s \in R, NEW l \in RootIndices(s), NEW j \in Indices, NEW k \in Indices
                 PROVE  GoodPath(x, kd, s, l, j, k)
      BY DEF Paths
    <2>1. CASE <<s, l>> = <<r, i>>
      BY <1>5, <2>1
    <2>2. CASE <<s, l>> # <<r, i>>
      <3>1. SamePath(w, x, s, l, j, k)
        BY <1>4, <2>2
      <3>2. GoodPath(w, kd, s, l, j, k)
        BY DEF MemInv, Paths
      <3> QED BY <3>1, <3>2, GoodAsBefore
    <2> QED BY <2>1, <2>2
  <1>7. SameLeaves(w, x, R)
    <2> SUFFICES ASSUME NEW s \in R, NEW l \in RootIndices(s), NEW j \in Indices, NEW k \in Indices
                 PROVE  LeafOf(x, s, l, j, k) = LeafOf(w, s, l, j, k)
      BY DEF SameLeaves
    <2>1. CASE <<s, l>> = <<r, i>>
      BY <1>5, <2>1
    <2>2. CASE <<s, l>> # <<r, i>>
      BY <1>4, <2>2 DEF SamePath
    <2> QED BY <2>1, <2>2
  <1>8. SameKept(w, x, kd)
    BY <1>1, <1>3, KindsApart DEF SameKept
  <1>9. Copies(x, R)
    <2>1. CASE r = Swapper
      <3>1. i \notin UserIndices(2)
        BY <2>1 DEF RootIndices
      <3>2. \A l \in UserIndices(2) : x[Swapper][l] = w[Swapper][l]
        BY <1>1, <1>3, <2>1, <3>1, IndexSets
      <3>3. \A s \in R : s = Swapper
        BY <2>1
      <3> QED BY <3>2, <3>3 DEF MemInv, Copies
    <2>2. CASE r # Swapper
      <3>1. i \in UserIndices(2) /\ x[Swapper] = w[Swapper]
        BY <1>1, <1>3, <2>2 DEF RootIndices
      <3>2. \A s \in R : \A l \in RootIndices(Swapper) : x[s][l] = w[s][l]
        <4> SUFFICES ASSUME NEW s \in R, NEW l \in RootIndices(Swapper)
                     PROVE  x[s][l] = w[s][l]
          OBVIOUS
        <4>1. l \in Indices /\ l # i /\ s \in Frames
          BY <1>1, <3>1, IndexSets DEF RootIndices
        <4> QED BY <1>3, <4>1
      <3> QED BY <3>1, <3>2 DEF MemInv, Copies
    <2> QED BY <2>1, <2>2
  <1>10. Typed(x, fr) /\ Kinded(fr, R, kd)
    BY <1>1, <1>3 DEF MemInv, Typed
  <1>11. BesideDir(w, x, R, r, i)
    BY <1>4 DEF BesideDir
  <1> QED BY <1>6, <1>7, <1>8, <1>9, <1>10, <1>11 DEF MemInv


LEMMA LinkTab ==
    ASSUME NEW w, NEW fr, NEW R, NEW kd, MemInv(w, fr, R, kd),
           NEW r \in R, NEW i \in RootIndices(r), NEW j \in Indices,
           HasDir(w, r, i), ~ Valid(w[DirOf(w, r, i)][j]),
           NEW f, f = Null \/ (f \in Frames /\ kd[f] = Tab(r, i, j) /\ w[f] = EmptyPage),
           NEW x, x = Stored(w, DirOf(w, r, i), j, Link(f))
    PROVE  /\ MemInv(x, fr, R, kd) /\ SameLeaves(w, x, R) /\ SameKept(w, x, kd)
           /\ BesideTab(w, x, R, r, i, j)
  <1>0. PICK d \in Frames : d = DirOf(w, r, i) /\ kd[d] = Dir(r, i)
    <2>1. GoodPath(w, kd, r, i, j, j)
      BY DEF MemInv, Paths
    <2> QED BY <2>1 DEF GoodPath
  <1>1. /\ w \in [Frames -> [Indices -> Words]] /\ fr \subseteq Frames \ Image
        /\ i \in Indices /\ R \subseteq Frames /\ Swapper \in R
        /\ \A s \in R : kd[s] = RootKind
    BY IndexSets DEF MemInv, Typed, Kinded
  <1>2. /\ Link(f) \in Words /\ Valid(Link(f)) /\ Link(f).ppn = f /\ Link(f).bits = {"V"}
    BY LinkIs
  <1>a. d = DirOf(w, r, i) /\ x = Stored(w, d, j, Link(f))
    BY <1>0
  <1>3. /\ x \in [Frames -> [Indices -> Words]] /\ x[d][j] = Link(f)
        /\ \A g \in Frames, z \in Indices : <<g, z>> # <<d, j>> => x[g][z] = w[g][z]
        /\ \A g \in Frames : g # d => x[g] = w[g]
    <2>1. Holds(w, x, d, j, Link(f))
      BY <1>0, <1>1, <1>2, <1>a, StoredIs
    <2> QED BY <2>1 DEF Holds
  <1>b. \A s \in R : s # d /\ x[s] = w[s]
    <2>1. Dir(r, i) # RootKind
      BY PathKinds
    <2> QED BY <1>0, <1>1, <1>3, <2>1
  <1>4. ASSUME NEW s \in R, NEW l \in RootIndices(s), NEW m \in Indices, NEW k \in Indices,
               ~ (s = r /\ l = i /\ m = j)
        PROVE  SamePath(w, x, s, l, m, k)
    <2>1. x[s][l] = w[s][l]
      BY <1>b
    <2>2. \A g \in Frames : kd[g] = Dir(s, l) => x[g][m] = w[g][m]
      <3>1. Dir(s, l) = Dir(r, i) => s = r /\ l = i
        BY KindsApart
      <3> QED BY <1>0, <1>3, <1>4, <3>1
    <2>3. \A g \in Frames : kd[g] = Tab(s, l, m) => x[g][k] = w[g][k]
      <3>1. Tab(s, l, m) # Dir(r, i)
        BY KindsApart
      <3> QED BY <1>0, <1>3, <3>1
    <2> QED BY <2>1, <2>2, <2>3, Elsewhere
  <1>5. ASSUME NEW k \in Indices
        PROVE  /\ GoodPath(x, kd, r, i, j, k)
               /\ LeafOf(x, r, i, j, k) = LeafOf(w, r, i, j, k)
    <2>1. ~ HasLeaf(w, r, i, j, k)
      BY <1>a DEF HasLeaf, HasTab
    <2>2. DirOf(x, r, i) = d /\ HasDir(x, r, i)
      BY <1>a, <1>b DEF DirOf, HasDir
    <2>3. TabOf(x, r, i, j) = f
      BY <1>2, <1>3, <2>2 DEF TabOf
    <2>4. HasTab(x, r, i, j) => f \in Frames /\ kd[f] = Tab(r, i, j) /\ w[f] = EmptyPage
      BY <1>2, <1>3, <2>2 DEF HasTab
    <2>5. f \in Frames /\ kd[f] = Tab(r, i, j) => x[f] = w[f]
      <3>1. Tab(r, i, j) # Dir(r, i)
        BY KindsApart
      <3> QED BY <1>0, <1>3, <3>1
    <2>6. ~ HasLeaf(x, r, i, j, k)
      BY <2>3, <2>4, <2>5, EmptyIs DEF HasLeaf
    <2>7. GoodPath(w, kd, r, i, j, k)
      BY DEF MemInv, Paths
    <2>8. Valid(x[r][i]) => x[r][i].bits = {"V"}
      BY <1>b, <2>7 DEF GoodPath
    <2> QED BY <1>0, <2>1, <2>2, <2>3, <2>4, <2>6, <2>8 DEF GoodPath, LeafOf
  <1>6. Paths(x, R, kd)
    <2> SUFFICES ASSUME NEW s \in R, NEW l \in RootIndices(s), NEW m \in Indices, NEW k \in Indices
                 PROVE  GoodPath(x, kd, s, l, m, k)
      BY DEF Paths
    <2>1. CASE s = r /\ l = i /\ m = j
      BY <1>5, <2>1
    <2>2. CASE ~ (s = r /\ l = i /\ m = j)
      <3>1. SamePath(w, x, s, l, m, k)
        BY <1>4, <2>2
      <3>2. GoodPath(w, kd, s, l, m, k)
        BY DEF MemInv, Paths
      <3> QED BY <3>1, <3>2, GoodAsBefore
    <2> QED BY <2>1, <2>2
  <1>7. SameLeaves(w, x, R)
    <2> SUFFICES ASSUME NEW s \in R, NEW l \in RootIndices(s), NEW m \in Indices, NEW k \in Indices
                 PROVE  LeafOf(x, s, l, m, k) = LeafOf(w, s, l, m, k)
      BY DEF SameLeaves
    <2>1. CASE s = r /\ l = i /\ m = j
      BY <1>5, <2>1
    <2>2. CASE ~ (s = r /\ l = i /\ m = j)
      BY <1>4, <2>2 DEF SamePath
    <2> QED BY <2>1, <2>2
  <1>8. SameKept(w, x, kd)
    <2>1. Dir(r, i) # KeptKind
      BY PathKinds
    <2> QED BY <1>0, <1>3, <2>1 DEF SameKept
  <1>9. Copies(x, R)
    BY <1>1, <1>b DEF MemInv, Copies
  <1>10. Typed(x, fr) /\ Kinded(fr, R, kd)
    BY <1>1, <1>3 DEF MemInv, Typed
  <1>11. BesideTab(w, x, R, r, i, j)
    BY <1>4 DEF BesideTab
  <1> QED BY <1>6, <1>7, <1>8, <1>9, <1>10, <1>11 DEF MemInv

\* What storing a leaf does to the leaves.
NewLeaf(w, x, R, r, i, j, k, e) ==
    /\ LeafOf(x, r, i, j, k) = e
    /\ \A s \in R : \A l \in RootIndices(s), m \in Indices, n \in Indices :
          ~ (s = r /\ l = i /\ m = j /\ n = k) =>
             LeafOf(x, s, l, m, n) = LeafOf(w, s, l, m, n)

LEMMA WriteLeaf ==
    ASSUME NEW w, NEW fr, NEW R, NEW kd, MemInv(w, fr, R, kd),
           NEW r \in R, NEW i \in RootIndices(r), NEW j \in Indices, NEW k \in Indices,
           HasTab(w, r, i, j),
           NEW e \in Words, Valid(e), r # Swapper => UserLeaf(kd, i, j, k, e),
           NEW x, x = Stored(w, TabOf(w, r, i, j), k, e)
    PROVE  /\ MemInv(x, fr, R, kd) /\ NewLeaf(w, x, R, r, i, j, k, e) /\ SameKept(w, x, kd)
           /\ HasTab(x, r, i, j) /\ TabOf(x, r, i, j) = TabOf(w, r, i, j)
           /\ TabOf(w, r, i, j) \in Frames /\ kd[TabOf(w, r, i, j)] = Tab(r, i, j)
           /\ \A s \in R : \A l \in RootIndices(s), m \in Indices, n \in Indices :
                 ~ (s = r /\ l = i /\ m = j /\ n = k) => SamePath(w, x, s, l, m, n)
  <1>c. GoodPath(w, kd, r, i, j, k)
    BY DEF MemInv, Paths
  <1>0. PICK t \in Frames : t = TabOf(w, r, i, j) /\ kd[t] = Tab(r, i, j)
    BY <1>c DEF GoodPath
  <1>1. /\ w \in [Frames -> [Indices -> Words]] /\ fr \subseteq Frames \ Image
        /\ i \in Indices /\ R \subseteq Frames /\ Swapper \in R
        /\ \A s \in R : kd[s] = RootKind
    BY IndexSets DEF MemInv, Typed, Kinded
  <1>a. x = Stored(w, t, k, e)
    BY <1>0
  <1>3. /\ x \in [Frames -> [Indices -> Words]] /\ x[t][k] = e
        /\ \A g \in Frames, z \in Indices : <<g, z>> # <<t, k>> => x[g][z] = w[g][z]
        /\ \A g \in Frames : g # t => x[g] = w[g]
    <2>1. Holds(w, x, t, k, e)
      BY <1>0, <1>1, <1>a, StoredIs
    <2> QED BY <2>1 DEF Holds
  <1>b. \A s \in R : s # t /\ x[s] = w[s]
    <2>1. Tab(r, i, j) # RootKind
      BY PathKinds
    <2> QED BY <1>0, <1>1, <1>3, <2>1
  <1>4. ASSUME NEW s \in R, NEW l \in RootIndices(s), NEW m \in Indices, NEW n \in Indices,
               ~ (s = r /\ l = i /\ m = j /\ n = k)
        PROVE  SamePath(w, x, s, l, m, n)
    <2>1. x[s][l] = w[s][l]
      BY <1>b
    <2>2. \A g \in Frames : kd[g] = Dir(s, l) => x[g][m] = w[g][m]
      <3>1. Dir(s, l) # Tab(r, i, j)
        BY KindsApart
      <3> QED BY <1>0, <1>3, <3>1
    <2>3. \A g \in Frames : kd[g] = Tab(s, l, m) => x[g][n] = w[g][n]
      <3>1. Tab(s, l, m) = Tab(r, i, j) => s = r /\ l = i /\ m = j
        BY KindsApart
      <3> QED BY <1>0, <1>3, <1>4, <3>1
    <2> QED BY <2>1, <2>2, <2>3, Elsewhere, SMTT(30)
  <1>5. /\ GoodPath(x, kd, r, i, j, k)
        /\ LeafOf(x, r, i, j, k) = e
        /\ HasTab(x, r, i, j) /\ TabOf(x, r, i, j) = t
    <2>0. HasDir(w, r, i) /\ Valid(w[DirOf(w, r, i)][j]) /\ w[DirOf(w, r, i)][j].ppn = t /\ t # Null
      BY <1>0 DEF HasTab, TabOf
    <2>1. DirOf(x, r, i) = DirOf(w, r, i) /\ HasDir(x, r, i)
      BY <1>b, <2>0 DEF DirOf, HasDir
    <2>2. DirOf(w, r, i) \in Frames /\ kd[DirOf(w, r, i)] = Dir(r, i)
      BY <1>c, <2>0 DEF GoodPath
    <2>3. x[DirOf(w, r, i)] = w[DirOf(w, r, i)]
      <3>1. Dir(r, i) # Tab(r, i, j)
        BY KindsApart
      <3> QED BY <1>0, <1>3, <2>2, <3>1
    <2>4. TabOf(x, r, i, j) = t /\ HasTab(x, r, i, j)
      BY <2>0, <2>1, <2>3 DEF TabOf, HasTab
    <2>5. HasLeaf(x, r, i, j, k) /\ LeafOf(x, r, i, j, k) = e
      BY <1>3, <2>4 DEF HasLeaf, LeafOf
    <2>8. Valid(x[r][i]) => x[r][i].bits = {"V"}
      BY <1>b, <1>c DEF GoodPath
    <2> QED BY <1>0, <2>1, <2>2, <2>4, <2>5, <2>8 DEF GoodPath
  <1>6. Paths(x, R, kd)
    <2> SUFFICES ASSUME NEW s \in R, NEW l \in RootIndices(s), NEW m \in Indices, NEW n \in Indices
                 PROVE  GoodPath(x, kd, s, l, m, n)
      BY DEF Paths
    <2>1. CASE s = r /\ l = i /\ m = j /\ n = k
      BY <1>5, <2>1
    <2>2. CASE ~ (s = r /\ l = i /\ m = j /\ n = k)
      <3>1. SamePath(w, x, s, l, m, n)
        BY <1>4, <2>2
      <3>2. GoodPath(w, kd, s, l, m, n)
        BY DEF MemInv, Paths
      <3> QED BY <3>1, <3>2, GoodAsBefore
    <2> QED BY <2>1, <2>2
  <1>7. NewLeaf(w, x, R, r, i, j, k, e)
    BY <1>4, <1>5 DEF SamePath, NewLeaf
  <1>8. SameKept(w, x, kd)
    <2>1. Tab(r, i, j) # KeptKind
      BY PathKinds
    <2> QED BY <1>0, <1>3, <2>1 DEF SameKept
  <1>9. Copies(x, R)
    BY <1>1, <1>b DEF MemInv, Copies
  <1>10. Typed(x, fr) /\ Kinded(fr, R, kd)
    BY <1>1, <1>3 DEF MemInv, Typed
  <1>11. MemInv(x, fr, R, kd)
    BY <1>6, <1>9, <1>10 DEF MemInv
  <1> QED BY <1>0, <1>4, <1>5, <1>7, <1>8, <1>11


-----------------------------------------------------------------------------
(* The allocator.                                                          *)

LEMMA LeastElement ==
    ASSUME NEW T, T \subseteq Nat, T # {}
    PROVE  \E x \in T : \A y \in T : x <= y
  <1>1. IsWellFoundedOn(OpToRel(<, Nat), Nat)
    BY NatLessThanWellFounded, Zenon
  <1>2. \E x \in T : \A y \in T : ~ (<<y, x>> \in OpToRel(<, Nat))
    BY <1>1, WFMin, Zenon
  <1>3. PICK x \in T : \A y \in T : ~ (<<y, x>> \in OpToRel(<, Nat))
    BY <1>2
  <1>4. ASSUME NEW y \in T PROVE x <= y
    <2>1. x \in Nat /\ y \in Nat
      BY <1>3
    <2>2. ~ (<<y, x>> \in OpToRel(<, Nat))
      BY <1>3
    <2>3. ~ (y < x)
      BY <2>1, <2>2 DEF OpToRel
    <2> QED BY <2>1, <2>3
  <1> QED BY <1>3, <1>4

Mem(w, fr) == [word |-> w, free |-> fr]
Lowest(f, fr) == f \in fr /\ \A g \in fr : f <= g

LEMMA LowestIs ==
    ASSUME NEW fr, fr \subseteq Frames, fr # {}
    PROVE  Lowest(LowestOf(fr), fr)
  <1>1. fr \subseteq Nat
    <2>1. Ram \in Nat
      BY SizesAssumption
    <2> QED BY <2>1 DEF Frames
  <1>2. \E f \in fr : \A g \in fr : f <= g
    BY <1>1, LeastElement
  <1> QED BY <1>2 DEF LowestOf, Lowest

LEMMA KallocIs ==
    ASSUME NEW w, NEW fr, fr \subseteq Frames
    PROVE  /\ fr = {} => kalloc(Mem(w, fr)) = [mem |-> Mem(w, fr), page |-> Null]
           /\ fr # {} => \E f : /\ Lowest(f, fr)
                                /\ kalloc(Mem(w, fr)) = [mem |-> Mem(w, fr \ {f}), page |-> f]
  <1>1. ASSUME fr = {} PROVE kalloc(Mem(w, fr)) = [mem |-> Mem(w, fr), page |-> Null]
    BY <1>1 DEF kalloc, Mem
  <1>2. ASSUME fr # {}
        PROVE  kalloc(Mem(w, fr)) = [mem |-> Mem(w, fr \ {LowestOf(fr)}), page |-> LowestOf(fr)]
    BY <1>2 DEF kalloc, Mem
  <1> QED BY <1>1, <1>2, LowestIs

\* What is free stays clean and above everything in use, when the lowest page
\* is taken, when a page in use is written, and when one comes back.
LEMMA TakenLowest ==
    ASSUME NEW w, NEW fr, fr \subseteq Frames, NEW f, Lowest(f, fr), Tidy(w, fr)
    PROVE  Settled(w, fr \ {f})
  <1>0. fr \subseteq Int /\ Frames \subseteq Int
    BY SizesAssumption DEF Frames
  <1> SUFFICES ASSUME NEW g \in fr \ {f}
               PROVE  w[g] = EmptyPage /\ \A h \in Frames \ (Image \cup (fr \ {f})) : h < g
    BY DEF Settled
  <1>1. f \in fr /\ f < g
    BY <1>0 DEF Lowest
  <1>2. w[g] = EmptyPage /\ \A h \in Frames \ (Image \cup fr) : h < g
    BY <1>1 DEF Tidy
  <1> QED BY <1>1, <1>2

LEMMA SettledIsTidy ==
    ASSUME NEW w, NEW fr, Settled(w, fr)
    PROVE  Tidy(w, fr)
  BY DEF Settled, Tidy

LEMMA LowestClean ==
    ASSUME NEW w, NEW fr, fr \subseteq Frames, NEW f, Lowest(f, fr), Settled(w, fr)
    PROVE  Settled(w, fr \ {f}) /\ w[f] = EmptyPage
  <1>1. Settled(w, fr \ {f})
    BY TakenLowest, SettledIsTidy
  <1> QED BY <1>1 DEF Settled, Lowest

LEMMA StaysSettled ==
    ASSUME NEW w, NEW x, NEW fr, Settled(w, fr), \A f \in fr : x[f] = w[f]
    PROVE  Settled(x, fr)
  BY DEF Settled

LEMMA StaysTidy ==
    ASSUME NEW w, NEW x, NEW fr, fr \subseteq Frames \ Image, Settled(w, fr),
           NEW f \in Frames \ (Image \cup fr), \A g \in fr : x[g] = w[g]
    PROVE  Tidy(x, fr \cup {f})
  <1>0. fr \subseteq Int /\ Frames \subseteq Int
    BY SizesAssumption DEF Frames
  <1> SUFFICES ASSUME NEW g \in fr \cup {f}, NEW h \in fr \cup {f}, h < g
               PROVE  x[g] = EmptyPage /\ \A l \in Frames \ (Image \cup (fr \cup {f})) : l < g
    BY DEF Tidy
  <1>1. g # f
    <2> SUFFICES ASSUME g = f PROVE FALSE
      OBVIOUS
    <2>1. h \in fr /\ h < f
      BY <1>0
    <2>2. f < h
      BY <2>1 DEF Settled
    <2> QED BY <1>0, <2>1, <2>2
  <1> QED BY <1>1 DEF Settled


-----------------------------------------------------------------------------
(* create_mapping.                                                         *)

TakesLowest(w, fr, t, i) == \E f :
    /\ Lowest(f, fr)
    /\ Descend(Mem(w, fr), t, i) =
           [mem |-> Mem(Stored(w, t, i, Link(f)), fr \ {f}), next |-> f]

LEMMA DescendIs ==
    ASSUME NEW w, NEW fr, fr \subseteq Frames, NEW t, NEW i
    PROVE  /\ Valid(w[t][i]) =>
                Descend(Mem(w, fr), t, i) = [mem |-> Mem(w, fr), next |-> w[t][i].ppn]
           /\ ~ Valid(w[t][i]) /\ fr = {} =>
                Descend(Mem(w, fr), t, i) =
                    [mem |-> Mem(Stored(w, t, i, Link(Null)), fr), next |-> Null]
           /\ ~ Valid(w[t][i]) /\ fr # {} => TakesLowest(w, fr, t, i)
  <1>0. Mem(w, fr).word = w
    BY DEF Mem
  <1>1. ASSUME Valid(w[t][i])
        PROVE  Descend(Mem(w, fr), t, i) = [mem |-> Mem(w, fr), next |-> w[t][i].ppn]
    BY <1>0, <1>1 DEF Descend
  <1>2. ASSUME NEW gr, NEW f, kalloc(Mem(w, fr)) = [mem |-> Mem(w, gr), page |-> f],
               ~ Valid(w[t][i])
        PROVE  Descend(Mem(w, fr), t, i) =
                   [mem |-> Mem(Stored(w, t, i, Link(f)), gr), next |-> f]
    <2>1. kalloc(Mem(w, fr)).mem = Mem(w, gr) /\ kalloc(Mem(w, fr)).page = f
      BY <1>2
    <2>2. Descend(Mem(w, fr), t, i) =
              [mem |-> [Mem(w, gr) EXCEPT !.word[t][i] = Link(f)], next |-> f]
      BY <1>0, <1>2, <2>1, Zenon DEF Descend, Link
    <2>3. [Mem(w, gr) EXCEPT !.word[t][i] = Link(f)] = Mem(Stored(w, t, i, Link(f)), gr)
      BY DEF Mem, Stored
    <2> QED BY <2>2, <2>3
  <1>3. ASSUME ~ Valid(w[t][i]), fr = {}
        PROVE  Descend(Mem(w, fr), t, i) =
                    [mem |-> Mem(Stored(w, t, i, Link(Null)), fr), next |-> Null]
    <2>1. kalloc(Mem(w, fr)) = [mem |-> Mem(w, fr), page |-> Null]
      BY <1>3, KallocIs
    <2> QED BY <1>2, <1>3, <2>1, Zenon
  <1>4. ASSUME ~ Valid(w[t][i]), fr # {}
        PROVE  TakesLowest(w, fr, t, i)
    <2>1. PICK f : /\ Lowest(f, fr)
                   /\ kalloc(Mem(w, fr)) = [mem |-> Mem(w, fr \ {f}), page |-> f]
      BY <1>4, KallocIs
    <2>2. Descend(Mem(w, fr), t, i) =
              [mem |-> Mem(Stored(w, t, i, Link(f)), fr \ {f}), next |-> f]
      BY <1>2, <1>4, <2>1, Zenon
    <2> QED BY <2>1, <2>2 DEF TakesLowest
  <1> QED BY <1>1, <1>3, <1>4

\* The memory goes on from one that is sound and settled to another.
Onward(w, fr, kd, x, gr, ke, R) ==
    /\ MemInv(x, gr, R, ke) /\ Settled(x, gr)
    /\ SameKept(w, x, kd) /\ KindsKept(kd, ke)

\* A page has been taken for one kind of use, if any.
Gain(fr, kd, gr, ke, kind) ==
    \/ gr = fr /\ ke = kd
    \/ \E f \in fr : gr = fr \ {f} /\ ke = Recast(kd, f, kind)

LEMMA OnwardItself ==
    ASSUME NEW w, NEW fr, NEW kd, NEW R, MemInv(w, fr, R, kd), Settled(w, fr)
    PROVE  Onward(w, fr, kd, w, fr, kd, R)
  BY DEF Onward, SameKept, KindsKept

LEMMA OnwardAgain ==
    ASSUME NEW w, NEW fr, NEW kd, NEW x, NEW gr, NEW ke, NEW y, NEW hr, NEW kf, NEW R,
           MemInv(w, fr, R, kd),
           Onward(w, fr, kd, x, gr, ke, R), Onward(x, gr, ke, y, hr, kf, R)
    PROVE  Onward(w, fr, kd, y, hr, kf, R)
  <1>1. KeptKind # FreeKind
    BY KindsApart
  <1>2. SameKept(w, y, kd)
    BY <1>1 DEF Onward, SameKept, KindsKept
  <1>3. KindsKept(kd, kf)
    BY DEF Onward, KindsKept
  <1> QED BY <1>2, <1>3 DEF Onward

DownDir(w, fr, kd, R, r, i, x, gr, ke, n) ==
    /\ Descend(Mem(w, fr), r, i) = [mem |-> Mem(x, gr), next |-> n]
    /\ Onward(w, fr, kd, x, gr, ke, R) /\ SameLeaves(w, x, R)
    /\ Gain(fr, kd, gr, ke, Dir(r, i))
    /\ n # Null => HasDir(x, r, i) /\ DirOf(x, r, i) = n
    /\ n = Null => ~ HasDir(x, r, i)
    /\ Valid(w[r][i]) => x = w /\ gr = fr /\ ke = kd /\ n = w[r][i].ppn
    /\ ~ Valid(w[r][i]) /\ n = Null => fr = {} /\ gr = {} /\ ke = kd
    /\ ~ Valid(w[r][i]) /\ n # Null => n \in fr /\ gr = fr \ {n} /\ ke = Recast(kd, n, Dir(r, i))
    /\ \A g \in Frames : g # r => x[g] = w[g]
    /\ BesideDir(w, x, R, r, i)

LEMMA DownToDir ==
    ASSUME NEW w, NEW fr, NEW R, NEW kd, MemInv(w, fr, R, kd), Settled(w, fr),
           NEW r \in R, r = Swapper => R = {Swapper}, NEW i \in RootIndices(r)
    PROVE  \E x, gr, ke, n : DownDir(w, fr, kd, R, r, i, x, gr, ke, n)
  <1>0. /\ fr \subseteq Frames /\ i \in Indices /\ r \in Frames
        /\ kd[r] = RootKind /\ R \subseteq Frames /\ DOMAIN kd = Frames
        /\ \A f \in fr : kd[f] = FreeKind /\ f \notin Image
        /\ w \in [Frames -> [Indices -> Words]]
    BY IndexSets DEF MemInv, Typed, Kinded
  <1>a. Frames \cap {Null} = {}
    BY EmptyIs
  <1>1. CASE Valid(w[r][i])
    <2>1. Descend(Mem(w, fr), r, i) = [mem |-> Mem(w, fr), next |-> w[r][i].ppn]
      BY <1>0, <1>1, DescendIs
    <2>2. /\ Onward(w, fr, kd, w, fr, kd, R) /\ SameLeaves(w, w, R)
          /\ BesideDir(w, w, R, r, i)
      BY OnwardItself DEF SameLeaves, BesideDir, SamePath
    <2>3. DownDir(w, fr, kd, R, r, i, w, fr, kd, w[r][i].ppn)
      BY <1>1, <2>1, <2>2, Zenon DEF DownDir, Gain, HasDir, DirOf
    <2> QED BY <2>3
  <1>2. ASSUME NEW f, NEW gr, NEW ke, ~ Valid(w[r][i]), MemInv(w, gr, R, ke), Settled(w, gr),
               KindsKept(kd, ke),
               f = Null \/ (f \in Frames /\ ke[f] = Dir(r, i) /\ w[f] = EmptyPage),
               Descend(Mem(w, fr), r, i) =
                    [mem |-> Mem(Stored(w, r, i, Link(f)), gr), next |-> f],
               Gain(fr, kd, gr, ke, Dir(r, i)),
               f = Null => fr = {} /\ gr = {} /\ ke = kd,
               f # Null => f \in fr /\ gr = fr \ {f} /\ ke = Recast(kd, f, Dir(r, i))
        PROVE  \E x : DownDir(w, fr, kd, R, r, i, x, gr, ke, f)
    <2>1. PICK x : x = Stored(w, r, i, Link(f))
      OBVIOUS
    <2>2. /\ MemInv(x, gr, R, ke) /\ SameLeaves(w, x, R) /\ SameKept(w, x, ke)
          /\ BesideDir(w, x, R, r, i)
      BY <1>2, <2>1, LinkDir
    <2>3. Holds(w, x, r, i, Link(f))
      <3>1. Link(f) \in Words
        BY <1>2, LinkIs
      <3>2. w \in [Frames -> [Indices -> Words]] /\ r \in Frames /\ i \in Indices
        BY <1>0
      <3> HIDE <1>0, <1>2
      <3> QED BY <2>1, <3>1, <3>2, StoredIs
    <2>4. Valid(Link(f)) /\ Link(f).ppn = f
      BY <1>2, LinkIs
    <2>5. Settled(x, gr)
      <3>1. r \notin gr
        <4>1. RootKind # FreeKind /\ ke[r] = RootKind
          BY <1>2, KindsApart DEF MemInv, Kinded
        <4> QED BY <1>0, <1>2, <4>1 DEF MemInv, Kinded
      <3>2. gr \subseteq Frames
        BY <1>2 DEF MemInv, Typed
      <3> QED BY <1>2, <2>3, <3>1, <3>2, StaysSettled DEF Holds
    <2>6. SameKept(w, x, kd)
      <3>1. KeptKind # FreeKind
        BY KindsApart
      <3> QED BY <1>2, <2>2, <3>1 DEF SameKept, KindsKept
    <2>7. Onward(w, fr, kd, x, gr, ke, R)
      BY <1>2, <2>2, <2>5, <2>6 DEF Onward
    <2>8. /\ f # Null => HasDir(x, r, i) /\ DirOf(x, r, i) = f
          /\ f = Null => ~ HasDir(x, r, i)
      BY <2>3, <2>4 DEF Holds, HasDir, DirOf
    <2>9. \A g \in Frames : g # r => x[g] = w[g]
      BY <2>3 DEF Holds
    <2>10. Descend(Mem(w, fr), r, i) = [mem |-> Mem(x, gr), next |-> f]
      BY <1>2, <2>1, Zenon
    <2> QED BY <1>2, <2>2, <2>7, <2>8, <2>9, <2>10 DEF DownDir
  <1>3. CASE ~ Valid(w[r][i]) /\ fr = {}
    <2>1. Descend(Mem(w, fr), r, i) = [mem |-> Mem(Stored(w, r, i, Link(Null)), fr), next |-> Null]
      BY <1>0, <1>3, DescendIs
    <2>2. KindsKept(kd, kd) /\ Gain(fr, kd, fr, kd, Dir(r, i))
      BY DEF KindsKept, Gain
    <2> QED BY <1>2, <1>3, <2>1, <2>2
  <1>4. CASE ~ Valid(w[r][i]) /\ fr # {}
    <2>1. PICK f : /\ Lowest(f, fr)
                   /\ Descend(Mem(w, fr), r, i) =
                       [mem |-> Mem(Stored(w, r, i, Link(f)), fr \ {f}), next |-> f]
      <3>1. TakesLowest(w, fr, r, i)
        BY <1>0, <1>4, DescendIs
      <3> QED BY <3>1 DEF TakesLowest
    <2>2. f \in fr /\ f \in Frames /\ f # Null
      BY <1>0, <1>a, <2>1 DEF Lowest
    <2>3. PICK ke : ke = Recast(kd, f, Dir(r, i))
      OBVIOUS
    <2>4. MemInv(w, fr \ {f}, R, ke) /\ KindsKept(kd, ke)
      <3>1. Dir(r, i) # FreeKind
        BY PathKinds
      <3> QED BY <2>2, <2>3, <3>1, Taking
    <2>5. Settled(w, fr \ {f}) /\ w[f] = EmptyPage
      BY <1>0, <2>1, LowestClean
    <2>6. ke[f] = Dir(r, i)
      BY <1>0, <2>2, <2>3, RecastIs
    <2>7. Gain(fr, kd, fr \ {f}, ke, Dir(r, i))
      BY <2>2, <2>3 DEF Gain
    <2> QED BY <1>2, <1>4, <2>1, <2>2, <2>3, <2>4, <2>5, <2>6, <2>7
  <1> QED BY <1>1, <1>3, <1>4


DownTab(w, fr, kd, R, r, i, j, x, gr, ke, n) ==
    /\ Descend(Mem(w, fr), DirOf(w, r, i), j) = [mem |-> Mem(x, gr), next |-> n]
    /\ Onward(w, fr, kd, x, gr, ke, R) /\ SameLeaves(w, x, R)
    /\ Gain(fr, kd, gr, ke, Tab(r, i, j))
    /\ n # Null => HasTab(x, r, i, j) /\ TabOf(x, r, i, j) = n
    /\ n = Null => ~ HasTab(x, r, i, j)
    /\ Valid(w[DirOf(w, r, i)][j]) =>
          x = w /\ gr = fr /\ ke = kd /\ n = w[DirOf(w, r, i)][j].ppn
    /\ ~ Valid(w[DirOf(w, r, i)][j]) /\ n = Null => fr = {} /\ gr = {} /\ ke = kd
    /\ ~ Valid(w[DirOf(w, r, i)][j]) /\ n # Null =>
          n \in fr /\ gr = fr \ {n} /\ ke = Recast(kd, n, Tab(r, i, j))
    /\ \A s \in R : x[s] = w[s]
    /\ BesideTab(w, x, R, r, i, j)

LEMMA DownToTab ==
    ASSUME NEW w, NEW fr, NEW R, NEW kd, MemInv(w, fr, R, kd), Settled(w, fr),
           NEW r \in R, NEW i \in RootIndices(r), NEW j \in Indices, HasDir(w, r, i)
    PROVE  \E x, gr, ke, n : DownTab(w, fr, kd, R, r, i, j, x, gr, ke, n)
  <1>0. /\ fr \subseteq Frames /\ R \subseteq Frames /\ DOMAIN kd = Frames
        /\ \A f \in fr : kd[f] = FreeKind /\ f \notin Image
    BY IndexSets DEF MemInv, Typed, Kinded
  <1>w. w \in [Frames -> [Indices -> Words]]
    BY DEF MemInv, Typed
  <1>s. \A s \in R : kd[s] = RootKind
    BY DEF MemInv, Kinded
  <1>a. Frames \cap {Null} = {}
    BY EmptyIs
  <1>d. PICK d \in Frames : d = DirOf(w, r, i) /\ kd[d] = Dir(r, i)
    <2>1. GoodPath(w, kd, r, i, j, j)
      BY DEF MemInv, Paths
    <2> QED BY <2>1 DEF GoodPath
  <1>e. d \in Frames
    BY <1>d
  <1>1. CASE Valid(w[d][j])
    <2>1. Descend(Mem(w, fr), d, j) = [mem |-> Mem(w, fr), next |-> w[d][j].ppn]
      BY <1>0, <1>1, DescendIs
    <2>2. /\ Onward(w, fr, kd, w, fr, kd, R) /\ SameLeaves(w, w, R)
          /\ BesideTab(w, w, R, r, i, j)
      BY OnwardItself DEF SameLeaves, BesideTab, SamePath
    <2>3. DownTab(w, fr, kd, R, r, i, j, w, fr, kd, w[d][j].ppn)
      BY <1>d, <1>1, <2>1, <2>2, Zenon DEF DownTab, Gain, HasTab, TabOf
    <2> QED BY <2>3
  <1>2. ASSUME NEW f, NEW gr, NEW ke, ~ Valid(w[d][j]), MemInv(w, gr, R, ke), Settled(w, gr),
               KindsKept(kd, ke),
               f = Null \/ (f \in Frames /\ ke[f] = Tab(r, i, j) /\ w[f] = EmptyPage),
               Descend(Mem(w, fr), d, j) =
                    [mem |-> Mem(Stored(w, d, j, Link(f)), gr), next |-> f],
               Gain(fr, kd, gr, ke, Tab(r, i, j)),
               f = Null => fr = {} /\ gr = {} /\ ke = kd,
               f # Null => f \in fr /\ gr = fr \ {f} /\ ke = Recast(kd, f, Tab(r, i, j))
        PROVE  \E x : DownTab(w, fr, kd, R, r, i, j, x, gr, ke, f)
    <2>1. PICK x : x = Stored(w, DirOf(w, r, i), j, Link(f))
      OBVIOUS
    <2>2. /\ MemInv(x, gr, R, ke) /\ SameLeaves(w, x, R) /\ SameKept(w, x, ke)
          /\ BesideTab(w, x, R, r, i, j)
      <3>1. ~ Valid(w[DirOf(w, r, i)][j])
        BY <1>2, <1>d
      <3> QED BY <1>2, <2>1, <3>1, LinkTab
    <2>3. Holds(w, x, d, j, Link(f))
      <3>1. Link(f) \in Words
        BY <1>2, LinkIs
      <3>2. x = Stored(w, d, j, Link(f))
        BY <2>1, <1>d
      <3> QED BY ONLY <1>w, <1>e, <3>1, <3>2, StoredIs, j \in Indices
    <2>4. Valid(Link(f)) /\ Link(f).ppn = f
      BY <1>2, LinkIs
    <2>k. Dir(r, i) # FreeKind /\ Dir(r, i) # RootKind
      BY PathKinds
    <2>5. Settled(x, gr)
      <3>1. d \notin gr
        <4>1. ke[d] = Dir(r, i)
          BY <1>2, <1>d, <2>k DEF KindsKept
        <4> QED BY <1>2, <1>e, <2>k, <4>1 DEF MemInv, Kinded
      <3>2. gr \subseteq Frames
        BY <1>2 DEF MemInv, Typed
      <3> QED BY <1>2, <2>3, <3>1, <3>2, StaysSettled DEF Holds
    <2>6. SameKept(w, x, kd)
      <3>1. KeptKind # FreeKind
        BY KindsApart
      <3> QED BY <1>2, <2>2, <3>1 DEF SameKept, KindsKept
    <2>7. Onward(w, fr, kd, x, gr, ke, R)
      BY <1>2, <2>2, <2>5, <2>6 DEF Onward
    <2>9. \A s \in R : x[s] = w[s]
      <3>1. \A s \in R : s # d /\ s \in Frames
        BY <1>0, <1>s, <1>d, <2>k
      <3> QED BY <2>3, <3>1 DEF Holds
    <2>8. /\ f # Null => HasTab(x, r, i, j) /\ TabOf(x, r, i, j) = f
          /\ f = Null => ~ HasTab(x, r, i, j)
      <3>1. DirOf(x, r, i) = d /\ HasDir(x, r, i)
        BY <1>d, <2>9 DEF DirOf, HasDir
      <3>2. x[d][j] = Link(f)
        BY <2>3 DEF Holds
      <3> QED BY <2>4, <3>1, <3>2 DEF HasTab, TabOf
    <2>10. Descend(Mem(w, fr), DirOf(w, r, i), j) = [mem |-> Mem(x, gr), next |-> f]
      BY <1>2, <1>d, <2>1, Zenon
    <2>11. ~ Valid(w[DirOf(w, r, i)][j])
      BY <1>2, <1>d
    <2> QED BY <1>2, <2>2, <2>7, <2>8, <2>9, <2>10, <2>11 DEF DownTab
  <1>3. CASE ~ Valid(w[d][j]) /\ fr = {}
    <2>1. Descend(Mem(w, fr), d, j) = [mem |-> Mem(Stored(w, d, j, Link(Null)), fr), next |-> Null]
      BY <1>0, <1>3, DescendIs
    <2>2. KindsKept(kd, kd) /\ Gain(fr, kd, fr, kd, Tab(r, i, j))
      BY DEF KindsKept, Gain
    <2> QED BY <1>2, <1>3, <2>1, <2>2
  <1>4. CASE ~ Valid(w[d][j]) /\ fr # {}
    <2>1. PICK f : /\ Lowest(f, fr)
                   /\ Descend(Mem(w, fr), d, j) =
                       [mem |-> Mem(Stored(w, d, j, Link(f)), fr \ {f}), next |-> f]
      <3>1. TakesLowest(w, fr, d, j)
        BY <1>0, <1>4, DescendIs
      <3> QED BY <3>1 DEF TakesLowest
    <2>2. f \in fr /\ f \in Frames /\ f # Null
      BY <1>0, <1>a, <2>1 DEF Lowest
    <2>3. PICK ke : ke = Recast(kd, f, Tab(r, i, j))
      OBVIOUS
    <2>4. MemInv(w, fr \ {f}, R, ke) /\ KindsKept(kd, ke)
      <3>1. Tab(r, i, j) # FreeKind
        BY PathKinds
      <3> QED BY <2>2, <2>3, <3>1, Taking
    <2>5. Settled(w, fr \ {f}) /\ w[f] = EmptyPage
      BY <1>0, <2>1, LowestClean
    <2>6. ke[f] = Tab(r, i, j)
      BY <1>0, <2>2, <2>3, RecastIs
    <2>7. Gain(fr, kd, fr \ {f}, ke, Tab(r, i, j))
      BY <2>2, <2>3 DEF Gain
    <2> QED BY <1>2, <1>4, <2>1, <2>2, <2>3, <2>4, <2>5, <2>6, <2>7
  <1> QED BY <1>1, <1>3, <1>4

-----------------------------------------------------------------------------
(* The kernel's own tables: no frame is missing for them.                  *)

\* An entry was made when no frame was left: the walk ends there.
Lacking(w, r, i, j) ==
    /\ Valid(w[r][i])
    /\ \/ w[r][i].ppn = Null
       \/ Valid(w[DirOf(w, r, i)][j]) /\ w[DirOf(w, r, i)][j].ppn = Null

\* Every frame that was taken is a table of the kernel's map.
Linked(w, fr, kd) ==
    \A g \in Frames \ (Image \cup fr) : \E v \in MappedPages :
        \/ /\ kd[g] = Dir(Swapper, Vpn(v, 2))
           /\ HasDir(w, Swapper, Vpn(v, 2)) /\ DirOf(w, Swapper, Vpn(v, 2)) = g
        \/ /\ kd[g] = Tab(Swapper, Vpn(v, 2), Vpn(v, 1))
           /\ HasTab(w, Swapper, Vpn(v, 2), Vpn(v, 1))
           /\ TabOf(w, Swapper, Vpn(v, 2), Vpn(v, 1)) = g

Plenty(w, fr, kd) ==
    /\ Linked(w, fr, kd)
    /\ \A v \in MappedPages : ~ Lacking(w, Swapper, Vpn(v, 2), Vpn(v, 1))

LEMMA FramesFinite == IsFiniteSet(Frames) /\ IsFiniteSet(Frames \ Image)
  <1>1. Ram \in Nat
    BY SizesAssumption
  <1>2. IsFiniteSet(Frames)
    BY <1>1, FS_Interval DEF Frames
  <1> QED BY <1>2, FS_Subset

LEMMA KernelTablesFinite == IsFiniteSet(KernelTables)
  <1>1. IsFiniteSet(MappedPages)
    <2>1. Fan * Fan * Fan - 1 \in Int
      BY SizesAssumption
    <2> DEFINE b == Fan * Fan * Fan - 1
    <2> HIDE DEF b
    <2>2. IsFiniteSet(0 .. b)
      BY <2>1, FS_Interval DEF b
    <2>3. MappedPages \subseteq 0 .. b
      BY PagesAssumption DEF b
    <2> QED BY <2>2, <2>3, FS_Subset
  <1> DEFINE A == {<<Vpn(v, 2)>> : v \in MappedPages}
             B == {<<Vpn(v, 2), Vpn(v, 1)>> : v \in MappedPages}
             f == [v \in MappedPages |-> <<Vpn(v, 2)>>]
             g == [v \in MappedPages |-> <<Vpn(v, 2), Vpn(v, 1)>>]
  <1>2. f \in Surjection(MappedPages, A) /\ g \in Surjection(MappedPages, B)
    BY DEF Surjection
  <1>3. IsFiniteSet(A) /\ IsFiniteSet(B)
    <2> HIDE DEF A, B, f, g
    <2> QED BY <1>1, <1>2, FS_Surjection
  <1>4. IsFiniteSet(A \cup B)
    <2> HIDE DEF A, B
    <2> QED BY <1>3, FS_Union
  <1> QED BY <1>4 DEF KernelTables

LEMMA RoomLeft ==
    ASSUME EnoughForKernel, NEW w, NEW kd, Linked(w, {}, kd),
           NEW v \in MappedPages, ~ HasTab(w, Swapper, Vpn(v, 2), Vpn(v, 1))
    PROVE  FALSE
  <1> DEFINE S == Frames \ Image
             missing == <<Vpn(v, 2), Vpn(v, 1)>>
             T == KernelTables \ {missing}
             Name(g, u) == \/ /\ kd[g] = Dir(Swapper, Vpn(u, 2))
                              /\ HasDir(w, Swapper, Vpn(u, 2)) /\ DirOf(w, Swapper, Vpn(u, 2)) = g
                           \/ /\ kd[g] = Tab(Swapper, Vpn(u, 2), Vpn(u, 1))
                              /\ HasTab(w, Swapper, Vpn(u, 2), Vpn(u, 1))
                              /\ TabOf(w, Swapper, Vpn(u, 2), Vpn(u, 1)) = g
             page(g) == CHOOSE u \in MappedPages : Name(g, u)
             f == [g \in S |-> IF kd[g] = Dir(Swapper, Vpn(page(g), 2))
                               THEN <<Vpn(page(g), 2)>>
                               ELSE <<Vpn(page(g), 2), Vpn(page(g), 1)>>]
  <1>1. ASSUME NEW g \in S
        PROVE  page(g) \in MappedPages /\ Name(g, page(g))
    <2>1. \E u \in MappedPages : Name(g, u)
      BY DEF Linked
    <2> HIDE DEF Name
    <2> QED BY <2>1
  <1>2. missing \in KernelTables
    BY DEF KernelTables
  <1> HIDE DEF page
  <1>3. ASSUME NEW g \in S
        PROVE  \/ /\ f[g] = <<Vpn(page(g), 2)>>
                  /\ DirOf(w, Swapper, Vpn(page(g), 2)) = g
               \/ /\ f[g] = <<Vpn(page(g), 2), Vpn(page(g), 1)>>
                  /\ HasTab(w, Swapper, Vpn(page(g), 2), Vpn(page(g), 1))
                  /\ TabOf(w, Swapper, Vpn(page(g), 2), Vpn(page(g), 1)) = g
    <2>1. Dir(Swapper, Vpn(page(g), 2)) # Tab(Swapper, Vpn(page(g), 2), Vpn(page(g), 1))
      BY KindsApart
    <2>2. CASE kd[g] = Dir(Swapper, Vpn(page(g), 2))
      <3>1. f[g] = <<Vpn(page(g), 2)>>
        BY <2>2
      <3>2. DirOf(w, Swapper, Vpn(page(g), 2)) = g
        BY <1>1, <2>1, <2>2
      <3> QED BY <3>1, <3>2
    <2>3. CASE kd[g] # Dir(Swapper, Vpn(page(g), 2))
      <3>1. f[g] = <<Vpn(page(g), 2), Vpn(page(g), 1)>>
        BY <2>3
      <3> QED BY <1>1, <2>3, <3>1
    <2> QED BY <2>2, <2>3
  <1> HIDE DEF f
  <1>4. f \in [S -> T]
    <2>1. \A g \in S : f[g] \in T
      <3> SUFFICES ASSUME NEW g \in S PROVE f[g] \in T
        OBVIOUS
      <3>1. page(g) \in MappedPages
        BY <1>1
      <3>2. f[g] \in KernelTables
        BY <1>3, <3>1 DEF KernelTables
      <3>3. f[g] # missing
        <4> SUFFICES ASSUME f[g] = missing PROVE FALSE
          OBVIOUS
        <4>1. \A a, b, c : <<a>> # <<b, c>>
          OBVIOUS
        <4>2. /\ f[g] = <<Vpn(page(g), 2), Vpn(page(g), 1)>>
              /\ HasTab(w, Swapper, Vpn(page(g), 2), Vpn(page(g), 1))
          BY <1>3, <4>1
        <4>3. Vpn(page(g), 2) = Vpn(v, 2) /\ Vpn(page(g), 1) = Vpn(v, 1)
          BY <4>2
        <4> QED BY <4>2, <4>3
      <3> QED BY <3>2, <3>3
    <2>2. f = [g \in S |-> f[g]]
      BY DEF f
    <2> QED BY <2>1, <2>2
  <1>5. \A g, h \in S : f[g] = f[h] => g = h
    <2> SUFFICES ASSUME NEW g \in S, NEW h \in S, f[g] = f[h] PROVE g = h
      OBVIOUS
    <2>1. \A a, b, c : <<a>> # <<b, c>>
      OBVIOUS
    <2>2. CASE f[g] = <<Vpn(page(g), 2)>>
      <3>1. /\ f[h] = <<Vpn(page(h), 2)>> /\ DirOf(w, Swapper, Vpn(page(h), 2)) = h
            /\ DirOf(w, Swapper, Vpn(page(g), 2)) = g
        BY <1>3, <2>1, <2>2
      <3>2. Vpn(page(g), 2) = Vpn(page(h), 2)
        <4>1. <<Vpn(page(g), 2)>> = <<Vpn(page(h), 2)>>
          BY <2>2, <3>1, Zenon
        <4>2. \A a, b : <<a>> = <<b>> => a = b
          OBVIOUS
        <4> QED BY <4>1, <4>2, Zenon
      <3> QED BY <3>1, <3>2, Zenon
    <2>3. CASE f[g] # <<Vpn(page(g), 2)>>
      <3>1. /\ f[g] = <<Vpn(page(g), 2), Vpn(page(g), 1)>>
            /\ TabOf(w, Swapper, Vpn(page(g), 2), Vpn(page(g), 1)) = g
        BY <1>3, <2>3
      <3>2. /\ f[h] = <<Vpn(page(h), 2), Vpn(page(h), 1)>>
            /\ TabOf(w, Swapper, Vpn(page(h), 2), Vpn(page(h), 1)) = h
        BY <1>3, <2>1, <3>1
      <3>3. Vpn(page(g), 2) = Vpn(page(h), 2) /\ Vpn(page(g), 1) = Vpn(page(h), 1)
        <4>1. <<Vpn(page(g), 2), Vpn(page(g), 1)>> = <<Vpn(page(h), 2), Vpn(page(h), 1)>>
          BY <3>1, <3>2, Zenon
        <4>2. \A a, b, c, d : <<a, b>> = <<c, d>> => a = c /\ b = d
          OBVIOUS
        <4> QED BY <4>1, <4>2, Zenon
      <3> QED BY <3>1, <3>2, <3>3, Zenon
    <2> QED BY <2>2, <2>3
  <1> HIDE DEF missing, S, T
  <1>6. /\ IsFiniteSet(T) /\ IsFiniteSet(S) /\ Cardinality(T) = Cardinality(KernelTables) - 1
        /\ Cardinality(T) \in Nat /\ Cardinality(S) \in Nat
    <2>1. IsFiniteSet(T) /\ Cardinality(T) = Cardinality(KernelTables) - 1
      BY <1>2, KernelTablesFinite, FS_RemoveElement DEF T
    <2>2. IsFiniteSet(S)
      BY FramesFinite DEF S
    <2> QED BY <2>1, <2>2, FS_CardinalityType
  <1>7. Cardinality(T) < Cardinality(S)
    <2>1. Cardinality(KernelTables) <= Cardinality(S)
      BY DEF EnoughForKernel, S
    <2>2. Cardinality(KernelTables) \in Nat
      BY KernelTablesFinite, FS_CardinalityType
    <2> QED BY <1>6, <2>1, <2>2
  <1>8. \E x, y \in S : x # y /\ f[x] = f[y]
    BY <1>4, <1>6, <1>7, FS_PigeonHole
  <1> QED BY <1>5, <1>8

LEMMA MappedIndices ==
    ASSUME NEW u \in MappedPages
    PROVE  Vpn(u, 2) \in RootIndices(Swapper) /\ Vpn(u, 1) \in Indices /\ Vpn(u, 0) \in Indices
  <1>1. u \in Nat /\ Vpn(u, 2) \notin UserIndices(2)
    BY IndexSets, PagesAssumption
  <1> QED BY <1>1, VpnIndex DEF RootIndices

LEMMA DirPlenty ==
    ASSUME EnoughForKernel, NEW w, NEW fr, NEW kd, MemInv(w, fr, {Swapper}, kd),
           Settled(w, fr), Plenty(w, fr, kd), NEW v \in MappedPages, NEW i, i = Vpn(v, 2),
           NEW x, NEW gr, NEW ke, NEW n,
           DownDir(w, fr, kd, {Swapper}, Swapper, i, x, gr, ke, n)
    PROVE  n # Null /\ Plenty(x, gr, ke)
  <1>1. CASE Valid(w[Swapper][i])
    <2>1. x = w /\ gr = fr /\ ke = kd /\ n = w[Swapper][i].ppn
      BY <1>1 DEF DownDir
    <2>2. n # Null
      BY <1>1, <2>1 DEF Plenty, Lacking
    <2> QED BY <2>1, <2>2
  <1>2. CASE ~ Valid(w[Swapper][i])
    <2>1. n # Null
      <3> SUFFICES ASSUME n = Null PROVE FALSE
        OBVIOUS
      <3>1. fr = {}
        BY <1>2 DEF DownDir
      <3>2. ~ HasTab(w, Swapper, Vpn(v, 2), Vpn(v, 1))
        BY <1>2 DEF HasTab, HasDir
      <3>3. Linked(w, {}, kd)
        BY <3>1 DEF Plenty
      <3> QED BY <3>2, <3>3, RoomLeft
    <2>2. n \in fr /\ gr = fr \ {n} /\ ke = Recast(kd, n, Dir(Swapper, i))
      BY <1>2, <2>1 DEF DownDir
    <2>3. n \in Frames /\ n # Swapper /\ DOMAIN kd = Frames
      <3>1. FreeKind # RootKind
        BY KindsApart
      <3> QED BY <2>2, <3>1 DEF MemInv, Typed, Kinded
    <2>4. ke[n] = Dir(Swapper, i) /\ \A g \in Frames : g # n => ke[g] = kd[g]
      BY <2>2, <2>3, RecastIs
    <2>5. HasDir(x, Swapper, i) /\ DirOf(x, Swapper, i) = n
      BY <2>1 DEF DownDir
    <2>6. ASSUME NEW u \in MappedPages, Vpn(u, 2) # i
          PROVE  SamePath(w, x, Swapper, Vpn(u, 2), Vpn(u, 1), Vpn(u, 0))
      <3>1. BesideDir(w, x, {Swapper}, Swapper, i)
        BY DEF DownDir
      <3> QED BY <2>6, <3>1, MappedIndices DEF BesideDir
    <2>7. Linked(x, gr, ke)
      <3> SUFFICES ASSUME NEW g \in Frames \ (Image \cup gr)
                   PROVE  \E u \in MappedPages :
        \/ /\ ke[g] = Dir(Swapper, Vpn(u, 2))
           /\ HasDir(x, Swapper, Vpn(u, 2)) /\ DirOf(x, Swapper, Vpn(u, 2)) = g
        \/ /\ ke[g] = Tab(Swapper, Vpn(u, 2), Vpn(u, 1))
           /\ HasTab(x, Swapper, Vpn(u, 2), Vpn(u, 1))
           /\ TabOf(x, Swapper, Vpn(u, 2), Vpn(u, 1)) = g
        BY DEF Linked
      <3>1. CASE g = n
        BY <2>4, <2>5, <3>1
      <3>2. CASE g # n
        <4>1. g \in Frames \ (Image \cup fr) /\ ke[g] = kd[g]
          BY <2>2, <2>4, <3>2
        <4>2. PICK u \in MappedPages :
        \/ /\ kd[g] = Dir(Swapper, Vpn(u, 2))
           /\ HasDir(w, Swapper, Vpn(u, 2)) /\ DirOf(w, Swapper, Vpn(u, 2)) = g
        \/ /\ kd[g] = Tab(Swapper, Vpn(u, 2), Vpn(u, 1))
           /\ HasTab(w, Swapper, Vpn(u, 2), Vpn(u, 1))
           /\ TabOf(w, Swapper, Vpn(u, 2), Vpn(u, 1)) = g
          BY <4>1 DEF Plenty, Linked
        <4>3. HasDir(w, Swapper, Vpn(u, 2))
          BY <4>2 DEF HasTab
        <4>4. SamePath(w, x, Swapper, Vpn(u, 2), Vpn(u, 1), Vpn(u, 0))
          BY <1>2, <2>6, <4>3 DEF HasDir
        <4> QED BY <4>1, <4>2, <4>4 DEF SamePath
      <3> QED BY <3>1, <3>2
    <2>8. ASSUME NEW u \in MappedPages PROVE ~ Lacking(x, Swapper, Vpn(u, 2), Vpn(u, 1))
      <3>1. CASE Vpn(u, 2) = i
        <4>1. x[n] = EmptyPage
          BY <2>2, <2>3 DEF DownDir, Settled
        <4>2. ~ Valid(x[n][Vpn(u, 1)])
          BY <4>1, EmptyIs, MappedIndices
        <4> QED BY <2>1, <2>5, <3>1, <4>2 DEF Lacking, HasDir, DirOf
      <3>2. CASE Vpn(u, 2) # i
        <4>1. SamePath(w, x, Swapper, Vpn(u, 2), Vpn(u, 1), Vpn(u, 0))
          BY <2>6, <3>2
        <4>2. ~ Lacking(w, Swapper, Vpn(u, 2), Vpn(u, 1))
          BY DEF Plenty
        <4> QED BY <4>1, <4>2 DEF SamePath, Lacking, HasDir, DirOf
      <3> QED BY <3>1, <3>2
    <2> QED BY <2>1, <2>7, <2>8 DEF Plenty
  <1> QED BY <1>1, <1>2

LEMMA TabPlenty ==
    ASSUME EnoughForKernel, NEW w, NEW fr, NEW kd, MemInv(w, fr, {Swapper}, kd),
           Settled(w, fr), Plenty(w, fr, kd), NEW v \in MappedPages,
           NEW i, i = Vpn(v, 2), NEW j, j = Vpn(v, 1), HasDir(w, Swapper, i),
           NEW x, NEW gr, NEW ke, NEW n,
           DownTab(w, fr, kd, {Swapper}, Swapper, i, j, x, gr, ke, n)
    PROVE  n # Null /\ Plenty(x, gr, ke)
  <1> DEFINE d == DirOf(w, Swapper, i)
  <1>1. CASE Valid(w[d][j])
    <2>1. x = w /\ gr = fr /\ ke = kd /\ n = w[d][j].ppn
      BY <1>1 DEF DownTab
    <2>2. n # Null
      BY <1>1, <2>1 DEF Plenty, Lacking, HasDir
    <2> QED BY <2>1, <2>2
  <1>2. CASE ~ Valid(w[d][j])
    <2>1. n # Null
      <3> SUFFICES ASSUME n = Null PROVE FALSE
        OBVIOUS
      <3>1. fr = {}
        BY <1>2 DEF DownTab
      <3>2. ~ HasTab(w, Swapper, Vpn(v, 2), Vpn(v, 1))
        BY <1>2 DEF HasTab
      <3>3. Linked(w, {}, kd)
        BY <3>1 DEF Plenty
      <3> QED BY <3>2, <3>3, RoomLeft
    <2>2. n \in fr /\ gr = fr \ {n} /\ ke = Recast(kd, n, Tab(Swapper, i, j))
      BY <1>2, <2>1 DEF DownTab
    <2>3. n \in Frames /\ DOMAIN kd = Frames
      BY <2>2 DEF MemInv, Typed, Kinded
    <2>4. ke[n] = Tab(Swapper, i, j) /\ \A g \in Frames : g # n => ke[g] = kd[g]
      BY <2>2, <2>3, RecastIs
    <2>5. HasTab(x, Swapper, i, j) /\ TabOf(x, Swapper, i, j) = n
      BY <2>1 DEF DownTab
    <2>6. ASSUME NEW u \in MappedPages, ~ (Vpn(u, 2) = i /\ Vpn(u, 1) = j)
          PROVE  SamePath(w, x, Swapper, Vpn(u, 2), Vpn(u, 1), Vpn(u, 0))
      <3>1. BesideTab(w, x, {Swapper}, Swapper, i, j)
        BY DEF DownTab
      <3> QED BY <2>6, <3>1, MappedIndices DEF BesideTab
    <2>7. x[Swapper] = w[Swapper]
      BY DEF DownTab
    <2>8. Linked(x, gr, ke)
      <3> SUFFICES ASSUME NEW g \in Frames \ (Image \cup gr)
                   PROVE  \E u \in MappedPages :
        \/ /\ ke[g] = Dir(Swapper, Vpn(u, 2))
           /\ HasDir(x, Swapper, Vpn(u, 2)) /\ DirOf(x, Swapper, Vpn(u, 2)) = g
        \/ /\ ke[g] = Tab(Swapper, Vpn(u, 2), Vpn(u, 1))
           /\ HasTab(x, Swapper, Vpn(u, 2), Vpn(u, 1))
           /\ TabOf(x, Swapper, Vpn(u, 2), Vpn(u, 1)) = g
        BY DEF Linked
      <3>1. CASE g = n
        BY <2>4, <2>5, <3>1
      <3>2. CASE g # n
        <4>1. g \in Frames \ (Image \cup fr) /\ ke[g] = kd[g]
          BY <2>2, <2>4, <3>2
        <4>2. PICK u \in MappedPages :
        \/ /\ kd[g] = Dir(Swapper, Vpn(u, 2))
           /\ HasDir(w, Swapper, Vpn(u, 2)) /\ DirOf(w, Swapper, Vpn(u, 2)) = g
        \/ /\ kd[g] = Tab(Swapper, Vpn(u, 2), Vpn(u, 1))
           /\ HasTab(w, Swapper, Vpn(u, 2), Vpn(u, 1))
           /\ TabOf(w, Swapper, Vpn(u, 2), Vpn(u, 1)) = g
          BY <4>1 DEF Plenty, Linked
        <4>3. CASE /\ kd[g] = Dir(Swapper, Vpn(u, 2))
                   /\ HasDir(w, Swapper, Vpn(u, 2)) /\ DirOf(w, Swapper, Vpn(u, 2)) = g
          BY <2>7, <4>1, <4>3 DEF HasDir, DirOf
        <4>4. CASE /\ kd[g] = Tab(Swapper, Vpn(u, 2), Vpn(u, 1))
                   /\ HasTab(w, Swapper, Vpn(u, 2), Vpn(u, 1))
                   /\ TabOf(w, Swapper, Vpn(u, 2), Vpn(u, 1)) = g
          <5>1. ~ (Vpn(u, 2) = i /\ Vpn(u, 1) = j)
            BY <1>2, <4>4 DEF HasTab
          <5> QED BY <2>6, <4>1, <4>4, <5>1 DEF SamePath
        <4> QED BY <4>2, <4>3, <4>4
      <3> QED BY <3>1, <3>2
    <2>9. ASSUME NEW u \in MappedPages PROVE ~ Lacking(x, Swapper, Vpn(u, 2), Vpn(u, 1))
      <3>1. CASE Vpn(u, 2) = i /\ Vpn(u, 1) = j
        BY <2>1, <2>5, <3>1 DEF Lacking, HasTab, TabOf, HasDir
      <3>2. CASE ~ (Vpn(u, 2) = i /\ Vpn(u, 1) = j)
        <4>1. SamePath(w, x, Swapper, Vpn(u, 2), Vpn(u, 1), Vpn(u, 0))
          BY <2>6, <3>2
        <4>2. ~ Lacking(w, Swapper, Vpn(u, 2), Vpn(u, 1))
          BY DEF Plenty
        <4> QED BY <4>1, <4>2 DEF SamePath, Lacking, HasDir, DirOf
      <3> QED BY <3>1, <3>2
    <2> QED BY <2>1, <2>8, <2>9 DEF Plenty
  <1> QED BY <1>1, <1>2

LEMMA LeafPlenty ==
    ASSUME NEW w, NEW fr, NEW kd, MemInv(w, fr, {Swapper}, kd), Plenty(w, fr, kd),
           NEW i, NEW j, NEW t \in Frames, kd[t] = Tab(Swapper, i, j),
           NEW x, \A g \in Frames : g # t => x[g] = w[g]
    PROVE  Plenty(x, fr, kd)
  <1>1. x[Swapper] = w[Swapper]
    <2>1. kd[Swapper] = RootKind /\ Swapper \in Frames
      BY DEF MemInv, Kinded
    <2>2. Tab(Swapper, i, j) # RootKind
      BY PathKinds
    <2> QED BY <2>1, <2>2
  <1>2. ASSUME NEW u \in MappedPages, HasDir(w, Swapper, Vpn(u, 2))
        PROVE  x[DirOf(w, Swapper, Vpn(u, 2))] = w[DirOf(w, Swapper, Vpn(u, 2))]
    <2>1. GoodPath(w, kd, Swapper, Vpn(u, 2), Vpn(u, 1), Vpn(u, 0))
      BY MappedIndices DEF MemInv, Paths
    <2>2. Tab(Swapper, i, j) # Dir(Swapper, Vpn(u, 2))
      BY KindsApart
    <2> QED BY <1>2, <2>1, <2>2 DEF GoodPath
  <1>3. ASSUME NEW u \in MappedPages
        PROVE  /\ HasDir(x, Swapper, Vpn(u, 2)) <=> HasDir(w, Swapper, Vpn(u, 2))
               /\ DirOf(x, Swapper, Vpn(u, 2)) = DirOf(w, Swapper, Vpn(u, 2))
               /\ HasTab(x, Swapper, Vpn(u, 2), Vpn(u, 1)) <=> HasTab(w, Swapper, Vpn(u, 2), Vpn(u, 1))
               /\ HasTab(w, Swapper, Vpn(u, 2), Vpn(u, 1)) =>
                     TabOf(x, Swapper, Vpn(u, 2), Vpn(u, 1)) = TabOf(w, Swapper, Vpn(u, 2), Vpn(u, 1))
               /\ ~ Lacking(x, Swapper, Vpn(u, 2), Vpn(u, 1))
    <2>1. /\ HasDir(x, Swapper, Vpn(u, 2)) <=> HasDir(w, Swapper, Vpn(u, 2))
          /\ DirOf(x, Swapper, Vpn(u, 2)) = DirOf(w, Swapper, Vpn(u, 2))
      BY <1>1 DEF HasDir, DirOf
    <2>2. ~ Lacking(w, Swapper, Vpn(u, 2), Vpn(u, 1))
      BY DEF Plenty
    <2>3. ~ Lacking(x, Swapper, Vpn(u, 2), Vpn(u, 1))
      BY <1>1, <1>2, <2>1, <2>2 DEF Lacking, HasDir
    <2>4. HasTab(x, Swapper, Vpn(u, 2), Vpn(u, 1)) <=> HasTab(w, Swapper, Vpn(u, 2), Vpn(u, 1))
      BY <1>2, <2>1 DEF HasTab
    <2>5. HasTab(w, Swapper, Vpn(u, 2), Vpn(u, 1)) =>
             TabOf(x, Swapper, Vpn(u, 2), Vpn(u, 1)) = TabOf(w, Swapper, Vpn(u, 2), Vpn(u, 1))
      BY <1>2, <2>1 DEF HasTab, TabOf
    <2> QED BY <2>1, <2>3, <2>4, <2>5
  <1>4. Linked(x, fr, kd)
    <2>1. Linked(w, fr, kd)
      BY DEF Plenty
    <2> QED BY <1>3, <2>1 DEF Linked
  <1> QED BY <1>3, <1>4 DEF Plenty

-----------------------------------------------------------------------------
(* One turn, and all of them.                                              *)

\* One turn of create_mapping's loop: the page's leaf is written, unless a frame
\* is missing, now or when the entry was made.
Turned(w, fr, kd, R, r, v, ppn, bits, x, gr, ke, ok) ==
    /\ MapPage(Mem(w, fr), r, v, ppn, bits) = [mem |-> Mem(x, gr), ok |-> ok]
    /\ Onward(w, fr, kd, x, gr, ke, R)
    /\ ok => NewLeaf(w, x, R, r, Vpn(v, 2), Vpn(v, 1), Vpn(v, 0), [ppn |-> ppn, bits |-> bits])
    /\ ~ ok => /\ SameLeaves(w, x, R) /\ ~ HasTab(x, r, Vpn(v, 2), Vpn(v, 1))
               /\ gr = {} \/ Lacking(w, r, Vpn(v, 2), Vpn(v, 1))
    /\ r = Swapper /\ v \in MappedPages /\ EnoughForKernel /\ Plenty(w, fr, kd) =>
          ok /\ Plenty(x, gr, ke)

LEMMA MapPageIs ==
    ASSUME NEW m, NEW r, NEW v, NEW ppn, NEW bits, NEW m1, NEW n1,
           Descend(m, r, Vpn(v, 2)) = [mem |-> m1, next |-> n1]
    PROVE  /\ n1 = Null => MapPage(m, r, v, ppn, bits) = [mem |-> m1, ok |-> FALSE]
           /\ \A m2, n2 :
                n1 # Null /\ Descend(m1, n1, Vpn(v, 1)) = [mem |-> m2, next |-> n2] =>
                  /\ n2 = Null => MapPage(m, r, v, ppn, bits) = [mem |-> m2, ok |-> FALSE]
                  /\ n2 # Null => MapPage(m, r, v, ppn, bits) =
                        [mem |-> [m2 EXCEPT !.word[n2][Vpn(v, 0)] = [ppn |-> ppn, bits |-> bits]],
                         ok |-> TRUE]
  <1>0. Descend(m, r, Vpn(v, 2)).mem = m1 /\ Descend(m, r, Vpn(v, 2)).next = n1
    BY SMTT(30)
  <1>1. ASSUME n1 = Null PROVE MapPage(m, r, v, ppn, bits) = [mem |-> m1, ok |-> FALSE]
    BY <1>0, <1>1 DEF MapPage
  <1>2. ASSUME NEW m2, NEW n2, n1 # Null,
               Descend(m1, n1, Vpn(v, 1)) = [mem |-> m2, next |-> n2]
        PROVE  /\ n2 = Null => MapPage(m, r, v, ppn, bits) = [mem |-> m2, ok |-> FALSE]
               /\ n2 # Null => MapPage(m, r, v, ppn, bits) =
                    [mem |-> [m2 EXCEPT !.word[n2][Vpn(v, 0)] = [ppn |-> ppn, bits |-> bits]],
                     ok |-> TRUE]
    <2>1. Descend(m1, n1, Vpn(v, 1)).mem = m2 /\ Descend(m1, n1, Vpn(v, 1)).next = n2
      BY <1>2
    <2>2. ASSUME n2 = Null PROVE MapPage(m, r, v, ppn, bits) = [mem |-> m2, ok |-> FALSE]
      BY <1>0, <1>2, <2>1, <2>2 DEF MapPage
    <2>3. ASSUME n2 # Null
          PROVE  MapPage(m, r, v, ppn, bits) =
                    [mem |-> [m2 EXCEPT !.word[n2][Vpn(v, 0)] = [ppn |-> ppn, bits |-> bits]],
                     ok |-> TRUE]
      BY <1>0, <1>2, <2>1, <2>3 DEF MapPage
    <2> QED BY <2>2, <2>3
  <1> QED BY <1>1, <1>2

LEMMA MapPageTurns ==
    ASSUME NEW w, NEW fr, NEW R, NEW kd, MemInv(w, fr, R, kd), Settled(w, fr),
           NEW r \in R, r = Swapper => R = {Swapper},
           NEW v \in Nat, Vpn(v, 2) \in RootIndices(r),
           NEW ppn, NEW bits, [ppn |-> ppn, bits |-> bits] \in Words, "V" \in bits,
           r # Swapper => ppn \in Frames /\ v \in UserPages /\ kd[ppn] = Page(v)
    PROVE  \E x, gr, ke, ok : Turned(w, fr, kd, R, r, v, ppn, bits, x, gr, ke, ok)
  <1> DEFINE e == [ppn |-> ppn, bits |-> bits]
  <1>0. /\ Vpn(v, 1) \in Indices /\ Vpn(v, 0) \in Indices
        /\ e \in Words /\ Valid(e)
    BY VpnIndex DEF Valid
  <1>1. PICK i \in RootIndices(r), j \in Indices, k \in Indices :
            i = Vpn(v, 2) /\ j = Vpn(v, 1) /\ k = Vpn(v, 0)
    BY <1>0
  <1>2. PICK w1, f1, k1, n1 : DownDir(w, fr, kd, R, r, i, w1, f1, k1, n1)
    BY DownToDir
  <1>3. /\ MemInv(w1, f1, R, k1) /\ Settled(w1, f1)
        /\ Descend(Mem(w, fr), r, i) = [mem |-> Mem(w1, f1), next |-> n1]
    BY <1>2 DEF DownDir, Onward
  <1> DEFINE ForKernel == r = Swapper /\ v \in MappedPages /\ EnoughForKernel /\ Plenty(w, fr, kd)
  <1>6. ForKernel => n1 # Null /\ Plenty(w1, f1, k1)
    <2> SUFFICES ASSUME ForKernel PROVE n1 # Null /\ Plenty(w1, f1, k1)
      OBVIOUS
    <2>1. R = {Swapper} /\ r = Swapper /\ v \in MappedPages /\ i = Vpn(v, 2)
      BY <1>1
    <2>2. DownDir(w, fr, kd, {Swapper}, Swapper, i, w1, f1, k1, n1)
      BY <1>2, <2>1
    <2>3. MemInv(w, fr, {Swapper}, kd)
      BY <2>1
    <2> QED BY <2>1, <2>2, <2>3, DirPlenty
  <1>4. CASE n1 = Null
    <2>1. MapPage(Mem(w, fr), r, v, ppn, bits) = [mem |-> Mem(w1, f1), ok |-> FALSE]
      BY <1>1, <1>3, <1>4, MapPageIs
    <2>2. ~ HasTab(w1, r, i, j) /\ (f1 = {} \/ Lacking(w, r, i, j))
      BY <1>2, <1>4 DEF DownDir, HasTab, Lacking
    <2>3. Turned(w, fr, kd, R, r, v, ppn, bits, w1, f1, k1, FALSE)
      BY <1>1, <1>2, <1>4, <1>6, <2>1, <2>2 DEF Turned, DownDir
    <2> QED BY <2>3
  <1>5. CASE n1 # Null
    <2>1. HasDir(w1, r, i) /\ DirOf(w1, r, i) = n1
      BY <1>2, <1>5 DEF DownDir
    <2>2. PICK w2, f2, k2, n2 : DownTab(w1, f1, k1, R, r, i, j, w2, f2, k2, n2)
      BY <1>3, <2>1, DownToTab
    <2>3. /\ MemInv(w2, f2, R, k2) /\ Settled(w2, f2)
          /\ Descend(Mem(w1, f1), n1, j) = [mem |-> Mem(w2, f2), next |-> n2]
      BY <2>1, <2>2 DEF DownTab, Onward
    <2>4. Onward(w, fr, kd, w2, f2, k2, R) /\ SameLeaves(w, w2, R)
      <3>1. Onward(w, fr, kd, w1, f1, k1, R) /\ SameLeaves(w, w1, R)
        BY <1>2 DEF DownDir
      <3>2. Onward(w1, f1, k1, w2, f2, k2, R) /\ SameLeaves(w1, w2, R)
        BY <2>2 DEF DownTab
      <3>3. SameLeaves(w, w2, R)
        BY <3>1, <3>2 DEF SameLeaves
      <3> QED BY <3>1, <3>2, <3>3, OnwardAgain
    <2>7. ForKernel => n2 # Null /\ Plenty(w2, f2, k2)
      <3> SUFFICES ASSUME ForKernel PROVE n2 # Null /\ Plenty(w2, f2, k2)
        OBVIOUS
      <3>1. R = {Swapper} /\ r = Swapper /\ v \in MappedPages /\ i = Vpn(v, 2) /\ j = Vpn(v, 1)
        BY <1>1
      <3>2. DownTab(w1, f1, k1, {Swapper}, Swapper, i, j, w2, f2, k2, n2)
        BY <2>2, <3>1
      <3>3. MemInv(w1, f1, {Swapper}, k1) /\ HasDir(w1, Swapper, i) /\ Plenty(w1, f1, k1)
        BY <1>3, <1>6, <2>1, <3>1
      <3> QED BY <1>3, <3>1, <3>2, <3>3, TabPlenty
    <2>5. CASE n2 = Null
      <3>1. MapPage(Mem(w, fr), r, v, ppn, bits) = [mem |-> Mem(w2, f2), ok |-> FALSE]
        BY <1>1, <1>3, <1>5, <2>3, <2>5, MapPageIs
      <3>2. ~ HasTab(w2, r, i, j)
        BY <2>2, <2>5 DEF DownTab
      <3>3. f2 = {} \/ Lacking(w, r, i, j)
        <4> SUFFICES ASSUME f2 # {} PROVE Lacking(w, r, i, j)
          OBVIOUS
        <4>1. Valid(w1[n1][j]) /\ w1[n1][j].ppn = Null
          BY <2>1, <2>2, <2>5 DEF DownTab
        <4>2. CASE Valid(w[r][i])
          <5>1. w1 = w /\ n1 = DirOf(w, r, i)
            BY <1>2, <4>2 DEF DownDir, DirOf
          <5> QED BY <4>1, <4>2, <5>1 DEF Lacking
        <4>3. CASE ~ Valid(w[r][i])
          <5>1. n1 \in fr /\ k1 = Recast(kd, n1, Dir(r, i))
            BY <1>2, <1>5, <4>3 DEF DownDir
          <5>2. w[n1] = EmptyPage
            BY <5>1 DEF Settled
          <5>3. n1 \in Frames /\ n1 \notin R
            <6>1. FreeKind # RootKind
              BY KindsApart
            <6> QED BY <5>1, <6>1 DEF MemInv, Kinded, Typed
          <5>4. w1[n1] = EmptyPage
            <6>1. w1[n1] = w[n1]
              BY <1>2, <5>3 DEF DownDir
            <6> QED BY <5>2, <6>1
          <5> QED BY <4>1, <5>4, EmptyIs
        <4> QED BY <4>2, <4>3
      <3>4. Turned(w, fr, kd, R, r, v, ppn, bits, w2, f2, k2, FALSE)
        BY <1>1, <2>4, <2>5, <2>7, <3>1, <3>2, <3>3 DEF Turned
      <3> QED BY <3>4
    <2>6. CASE n2 # Null
      <3>1. HasTab(w2, r, i, j) /\ TabOf(w2, r, i, j) = n2
        BY <2>2, <2>6 DEF DownTab
      <3>2. PICK x : x = Stored(w2, n2, k, e)
        OBVIOUS
      <3>3. r # Swapper => UserLeaf(k2, i, j, k, e)
        <4> SUFFICES ASSUME r # Swapper PROVE UserLeaf(k2, i, j, k, e)
          OBVIOUS
        <4>1. ppn \in Frames /\ v \in UserPages /\ kd[ppn] = Page(v)
          OBVIOUS
        <4>2. k2[ppn] = Page(v)
          BY <2>4, <4>1, PathKinds DEF Onward, KindsKept
        <4> QED BY <1>1, <4>1, <4>2 DEF UserLeaf, At
      <3>4. PICK t : t = TabOf(w2, r, i, j)
        OBVIOUS
      <3>5. x = Stored(w2, TabOf(w2, r, i, j), k, e)
        BY <3>1, <3>2
      <3> HIDE DEF e
      <3>6. /\ MemInv(x, f2, R, k2) /\ NewLeaf(w2, x, R, r, i, j, k, e) /\ SameKept(w2, x, k2)
            /\ n2 \in Frames /\ k2[n2] = Tab(r, i, j)
        BY <1>0, <2>3, <3>1, <3>3, <3>5, WriteLeaf
      <3>7. Settled(x, f2)
        <4>1. n2 \notin f2
          BY <2>3, <3>6, PathKinds DEF MemInv, Kinded
        <4>2. \A g \in f2 : x[g] = w2[g]
          <5>1. Holds(w2, x, n2, k, e)
            BY <1>0, <2>3, <3>2, <3>6, StoredIs DEF MemInv, Typed
          <5> QED BY <2>3, <4>1, <5>1 DEF Holds, MemInv, Typed
        <4> QED BY <2>3, <4>2, StaysSettled
      <3>8. Onward(w, fr, kd, x, f2, k2, R)
        <4>1. Onward(w2, f2, k2, x, f2, k2, R)
          BY <3>6, <3>7 DEF Onward, KindsKept
        <4> QED BY <2>4, <4>1, OnwardAgain
      <3>9. NewLeaf(w, x, R, r, i, j, k, e)
        BY <2>4, <3>6 DEF NewLeaf, SameLeaves
      <3>10. MapPage(Mem(w, fr), r, v, ppn, bits) = [mem |-> Mem(x, f2), ok |-> TRUE]
        <4>1. [Mem(w2, f2) EXCEPT !.word[n2][k] = e] = Mem(x, f2)
          BY <3>2 DEF Mem, Stored
        <4>2. MapPage(Mem(w, fr), r, v, ppn, bits) =
                [mem |-> [Mem(w2, f2) EXCEPT !.word[n2][k] = e], ok |-> TRUE]
          BY <1>1, <1>3, <1>5, <2>3, <2>6, MapPageIs DEF e
        <4> QED BY <4>1, <4>2
      <3>11. Turned(w, fr, kd, R, r, v, ppn, bits, x, f2, k2, TRUE)
        <4>1. ForKernel => Plenty(x, f2, k2)
          <5> SUFFICES ASSUME ForKernel PROVE Plenty(x, f2, k2)
            OBVIOUS
          <5>1. R = {Swapper} /\ r = Swapper
            OBVIOUS
          <5>2. MemInv(w2, f2, {Swapper}, k2) /\ Plenty(w2, f2, k2)
            BY <2>3, <2>7, <5>1
          <5>3. \A g \in Frames : g # n2 => x[g] = w2[g]
            <6>1. Holds(w2, x, n2, k, e)
              BY <1>0, <2>3, <3>2, <3>6, StoredIs DEF MemInv, Typed
            <6> QED BY <6>1 DEF Holds
          <5>4. n2 \in Frames /\ k2[n2] = Tab(Swapper, i, j)
            BY <3>6, <5>1
          <5> QED BY <5>2, <5>3, <5>4, LeafPlenty
        <4> QED BY <1>1, <3>8, <3>9, <3>10, <4>1 DEF Turned, e
      <3> QED BY <3>11
    <2> QED BY <2>5, <2>6
  <1> QED BY <1>4, <1>5


-----------------------------------------------------------------------------
(* The loops: what the recursive functions are.                            *)

TurnAfter(s, root, va, pa, bits, k) ==
    IF s.ok
    THEN MapPage(s.mem, root, (va \div PageBytes) + k - 1, (pa \div PageBytes) + k - 1, bits)
    ELSE s

TurnsHold(f, m, root, va, pa, bits, n) ==
    /\ f[0] = [mem |-> m, ok |-> TRUE]
    /\ \A k \in 1 .. n : f[k] = TurnAfter(f[k - 1], root, va, pa, bits, k)

LEMMA TurnsAre ==
    ASSUME NEW m, NEW root, NEW va, NEW pa, NEW bits, NEW n \in Nat
    PROVE  TurnsHold(Turns(m, root, va, pa, bits, n), m, root, va, pa, bits, n)
  <1> DEFINE a == [mem |-> m, ok |-> TRUE]
             Step(s, k) == TurnAfter(s, root, va, pa, bits, k)
             Good(f, l) == f = [k \in 0 .. l |-> IF k = 0 THEN a ELSE Step(f[k - 1], k)]
             T == {l \in 0 .. n : ~ \E f : Good(f, l)}
             t == Turns(m, root, va, pa, bits, n)
  <1>1. t = CHOOSE f : Good(f, n)
    BY Zenon DEF Turns, TurnAfter
  <1>2. T = {}
    <2> HIDE DEF Step, a
    <2> SUFFICES ASSUME T # {} PROVE FALSE
      OBVIOUS
    <2>1. PICK l \in T : \A k \in T : l <= k
      <3>1. T \subseteq Nat
        OBVIOUS
      <3> HIDE DEF T
      <3> QED BY <3>1, LeastElement
    <2>2. l \in 0 .. n /\ ~ \E f : Good(f, l)
      BY <2>1
    <2>3. CASE l = 0
      <3> DEFINE f == [k \in 0 .. 0 |-> a]
      <3>1. f = [k \in 0 .. 0 |-> IF k = 0 THEN a ELSE Step(f[k - 1], k)]
        OBVIOUS
      <3> QED BY <2>2, <2>3, <3>1
    <2>4. CASE l # 0
      <3>1. l \in 1 .. n /\ l - 1 \in 0 .. n /\ l - 1 \notin T
        <4>1. l \in 1 .. n /\ l - 1 \in 0 .. n /\ ~ (l <= l - 1)
          BY <2>2, <2>4
        <4> HIDE DEF T
        <4> QED BY <2>1, <4>1
      <3>2. PICK f : Good(f, l - 1)
        BY <3>1
      <3> DEFINE g == [k \in 0 .. l |-> IF k = l THEN Step(f[l - 1], l) ELSE f[k]]
      <3>3. \A k \in 0 .. l - 1 : g[k] = f[k]
        BY <3>1
      <3>4. ASSUME NEW k \in 0 .. l
            PROVE  g[k] = IF k = 0 THEN a ELSE Step(g[k - 1], k)
        <4>1. CASE k = l
          BY <3>1, <3>3, <4>1
        <4>2. CASE k # l
          <5>1. k \in 0 .. l - 1
            BY <3>1, <4>2
          <5>2. f[k] = IF k = 0 THEN a ELSE Step(f[k - 1], k)
            BY <3>2, <5>1
          <5>3. k # 0 => k - 1 \in 0 .. l - 1
            BY <3>1, <5>1
          <5> QED BY <3>3, <5>1, <5>2, <5>3
        <4> QED BY <4>1, <4>2
      <3>5. g = [k \in 0 .. l |-> IF k = 0 THEN a ELSE Step(g[k - 1], k)]
        <4> DEFINE h == [k \in 0 .. l |-> IF k = 0 THEN a ELSE Step(g[k - 1], k)]
        <4>1. \A k \in 0 .. l : g[k] = h[k]
          <5> HIDE DEF g
          <5> QED BY <3>4
        <4>2. g = [k \in 0 .. l |-> g[k]] /\ h = [k \in 0 .. l |-> h[k]]
          OBVIOUS
        <4> HIDE DEF g, h
        <4>3. g = h
          BY <4>1, <4>2
        <4> QED BY <4>3 DEF h
      <3> HIDE DEF g
      <3> QED BY <2>2, <3>5
    <2> QED BY <2>3, <2>4
  <1>3. Good(t, n)
    <2>1. n \in 0 .. n
      OBVIOUS
    <2>2. \E f : Good(f, n)
      BY <1>2, <2>1
    <2> HIDE DEF Good, t
    <2> QED BY <1>1, <2>2, Zenon
  <1>4. t[0] = a /\ \A k \in 1 .. n : t[k] = Step(t[k - 1], k)
    <2> HIDE DEF t, a, Step
    <2>1. \A k \in 0 .. n : t[k] = IF k = 0 THEN a ELSE Step(t[k - 1], k)
      BY <1>3
    <2> QED BY <2>1
  <1> QED BY <1>4, Zenon DEF TurnsHold

SectionAfter(m, k) ==
    LET s == Sections[k] IN create_mapping(m, Swapper, s.start, s.pa, s.size, s.bits \cup {"V"})

MappedHolds(f, m, n) == f[0] = m /\ \A k \in 1 .. n : f[k] = SectionAfter(f[k - 1], k)

LEMMA MappedIs ==
    ASSUME NEW m
    PROVE  MappedHolds(Mapped(m), m, Len(Sections))
  <1> DEFINE n == Len(Sections)
             a == m
             Step(s, k) == SectionAfter(s, k)
             Good(f, l) == f = [k \in 0 .. l |-> IF k = 0 THEN a ELSE Step(f[k - 1], k)]
             T == {l \in 0 .. n : ~ \E f : Good(f, l)}
             t == Mapped(m)
  <1>1. t = CHOOSE f : Good(f, n)
    BY Zenon DEF Mapped, SectionAfter
  <1>0. n \in Nat
    BY PagesAssumption
  <1> HIDE DEF n
  <1>2. T = {}
    <2> HIDE DEF Step, a
    <2> SUFFICES ASSUME T # {} PROVE FALSE
      OBVIOUS
    <2>1. PICK l \in T : \A k \in T : l <= k
      <3>1. T \subseteq Nat
        BY <1>0
      <3> HIDE DEF T
      <3> QED BY <3>1, LeastElement
    <2>2. l \in 0 .. n /\ ~ \E f : Good(f, l)
      BY <2>1
    <2>3. CASE l = 0
      <3> DEFINE f == [k \in 0 .. 0 |-> a]
      <3>1. f = [k \in 0 .. 0 |-> IF k = 0 THEN a ELSE Step(f[k - 1], k)]
        OBVIOUS
      <3> QED BY <2>2, <2>3, <3>1
    <2>4. CASE l # 0
      <3>1. l \in 1 .. n /\ l - 1 \in 0 .. n /\ l - 1 \notin T
        <4>1. l \in 1 .. n /\ l - 1 \in 0 .. n /\ ~ (l <= l - 1)
          BY <1>0, <2>2, <2>4
        <4> HIDE DEF T
        <4> QED BY <2>1, <4>1
      <3>2. PICK f : Good(f, l - 1)
        BY <3>1
      <3> DEFINE g == [k \in 0 .. l |-> IF k = l THEN Step(f[l - 1], l) ELSE f[k]]
      <3>3. \A k \in 0 .. l - 1 : g[k] = f[k]
        BY <3>1
      <3>4. ASSUME NEW k \in 0 .. l
            PROVE  g[k] = IF k = 0 THEN a ELSE Step(g[k - 1], k)
        <4>1. CASE k = l
          BY <3>1, <3>3, <4>1
        <4>2. CASE k # l
          <5>1. k \in 0 .. l - 1
            BY <3>1, <4>2
          <5>2. f[k] = IF k = 0 THEN a ELSE Step(f[k - 1], k)
            BY <3>2, <5>1
          <5>3. k # 0 => k - 1 \in 0 .. l - 1
            BY <3>1, <5>1
          <5> QED BY <3>3, <5>1, <5>2, <5>3
        <4> QED BY <4>1, <4>2
      <3>5. g = [k \in 0 .. l |-> IF k = 0 THEN a ELSE Step(g[k - 1], k)]
        <4> DEFINE h == [k \in 0 .. l |-> IF k = 0 THEN a ELSE Step(g[k - 1], k)]
        <4>1. \A k \in 0 .. l : g[k] = h[k]
          <5> HIDE DEF g
          <5> QED BY <3>4
        <4>2. g = [k \in 0 .. l |-> g[k]] /\ h = [k \in 0 .. l |-> h[k]]
          OBVIOUS
        <4> HIDE DEF g, h
        <4>3. g = h
          BY <4>1, <4>2
        <4> QED BY <4>3 DEF h
      <3> HIDE DEF g
      <3> QED BY <2>2, <3>5
    <2> QED BY <2>3, <2>4
  <1>3. Good(t, n)
    <2>1. n \in 0 .. n
      BY <1>0
    <2>2. \E f : Good(f, n)
      BY <1>2, <2>1
    <2> HIDE DEF Good, t
    <2> QED BY <1>1, <2>2, Zenon
  <1>4. t[0] = a /\ \A k \in 1 .. n : t[k] = Step(t[k - 1], k)
    <2> HIDE DEF t, a, Step
    <2>1. \A k \in 0 .. n : t[k] = IF k = 0 THEN a ELSE Step(t[k - 1], k)
      BY <1>3
    <2> QED BY <1>0, <2>1
  <1> QED BY <1>4, Zenon DEF MappedHolds, n

SharedHolds(f, m, parent, child, pages, n) ==
    f[0] = m /\ \A k \in 1 .. n : f[k] = Share(f[k - 1], parent, child, pages[k])

LEMMA SharedIs ==
    ASSUME NEW m, NEW parent, NEW child, NEW pages \in Seq(UserPages)
    PROVE  SharedHolds(Shared(m, parent, child, pages), m, parent, child, pages, Len(pages))
  <1> DEFINE n == Len(pages)
             a == m
             Step(s, k) == Share(s, parent, child, pages[k])
             Good(f, l) == f = [k \in 0 .. l |-> IF k = 0 THEN a ELSE Step(f[k - 1], k)]
             T == {l \in 0 .. n : ~ \E f : Good(f, l)}
             t == Shared(m, parent, child, pages)
  <1>1. t = CHOOSE f : Good(f, n)
    BY Zenon DEF Shared
  <1>0. n \in Nat
    OBVIOUS
  <1> HIDE DEF n
  <1>2. T = {}
    <2> HIDE DEF Step, a
    <2> SUFFICES ASSUME T # {} PROVE FALSE
      OBVIOUS
    <2>1. PICK l \in T : \A k \in T : l <= k
      <3>1. T \subseteq Nat
        BY <1>0
      <3> HIDE DEF T
      <3> QED BY <3>1, LeastElement
    <2>2. l \in 0 .. n /\ ~ \E f : Good(f, l)
      BY <2>1
    <2>3. CASE l = 0
      <3> DEFINE f == [k \in 0 .. 0 |-> a]
      <3>1. f = [k \in 0 .. 0 |-> IF k = 0 THEN a ELSE Step(f[k - 1], k)]
        OBVIOUS
      <3> QED BY <2>2, <2>3, <3>1
    <2>4. CASE l # 0
      <3>1. l \in 1 .. n /\ l - 1 \in 0 .. n /\ l - 1 \notin T
        <4>1. l \in 1 .. n /\ l - 1 \in 0 .. n /\ ~ (l <= l - 1)
          BY <1>0, <2>2, <2>4
        <4> HIDE DEF T
        <4> QED BY <2>1, <4>1
      <3>2. PICK f : Good(f, l - 1)
        BY <3>1
      <3> DEFINE g == [k \in 0 .. l |-> IF k = l THEN Step(f[l - 1], l) ELSE f[k]]
      <3>3. \A k \in 0 .. l - 1 : g[k] = f[k]
        BY <3>1
      <3>4. ASSUME NEW k \in 0 .. l
            PROVE  g[k] = IF k = 0 THEN a ELSE Step(g[k - 1], k)
        <4>1. CASE k = l
          BY <3>1, <3>3, <4>1
        <4>2. CASE k # l
          <5>1. k \in 0 .. l - 1
            BY <3>1, <4>2
          <5>2. f[k] = IF k = 0 THEN a ELSE Step(f[k - 1], k)
            BY <3>2, <5>1
          <5>3. k # 0 => k - 1 \in 0 .. l - 1
            BY <3>1, <5>1
          <5> QED BY <3>3, <5>1, <5>2, <5>3
        <4> QED BY <4>1, <4>2
      <3>5. g = [k \in 0 .. l |-> IF k = 0 THEN a ELSE Step(g[k - 1], k)]
        <4> DEFINE h == [k \in 0 .. l |-> IF k = 0 THEN a ELSE Step(g[k - 1], k)]
        <4>1. \A k \in 0 .. l : g[k] = h[k]
          <5> HIDE DEF g
          <5> QED BY <3>4
        <4>2. g = [k \in 0 .. l |-> g[k]] /\ h = [k \in 0 .. l |-> h[k]]
          OBVIOUS
        <4> HIDE DEF g, h
        <4>3. g = h
          BY <4>1, <4>2
        <4> QED BY <4>3 DEF h
      <3> HIDE DEF g
      <3> QED BY <2>2, <3>5
    <2> QED BY <2>3, <2>4
  <1>3. Good(t, n)
    <2>1. n \in 0 .. n
      BY <1>0
    <2>2. \E f : Good(f, n)
      BY <1>2, <2>1
    <2> HIDE DEF Good, t
    <2> QED BY <1>1, <2>2, Zenon
  <1>4. t[0] = a /\ \A k \in 1 .. n : t[k] = Step(t[k - 1], k)
    <2> HIDE DEF t, a, Step
    <2>1. \A k \in 0 .. n : t[k] = IF k = 0 THEN a ELSE Step(t[k - 1], k)
      BY <1>3
    <2> QED BY <1>0, <2>1
  <1> QED BY <1>4, Zenon DEF SharedHolds, n

-----------------------------------------------------------------------------
(* setup_vm_final.                                                         *)

LEMMA Upto ==
    ASSUME NEW n \in Nat, NEW S, 0 \in S, \A k \in 1 .. n : k - 1 \in S => k \in S
    PROVE  \A k \in 0 .. n : k \in S
  <1> DEFINE T == {k \in 0 .. n : k \notin S}
  <1>1. T \subseteq Nat
    OBVIOUS
  <1> SUFFICES ASSUME T # {} PROVE FALSE
    OBVIOUS
  <1>2. PICK l \in T : \A k \in T : l <= k
    <2> HIDE DEF T
    <2> QED BY <1>1, LeastElement
  <1>3. l \in 0 .. n /\ l \notin S
    BY <1>2
  <1>4. l \in 1 .. n /\ l - 1 \in 0 .. n /\ ~ (l <= l - 1)
    BY <1>3
  <1>5. l - 1 \in S
    BY <1>2, <1>4
  <1> QED BY <1>3, <1>4, <1>5

LEMMA SectionFacts ==
    ASSUME NEW q \in DOMAIN Sections
    PROVE  /\ Sections[q].start \in Nat /\ Sections[q].pa \in Nat /\ Sections[q].size \in Nat
           /\ Sections[q].bits \in SUBSET Bits
           /\ PagesOf(Sections[q].size) \in Nat
           /\ Sections[q].start \div PageBytes \in Nat /\ Sections[q].pa \div PageBytes \in Nat
           /\ Covered(Sections[q]) \subseteq MappedPages
  <1>1. /\ Sections \in Seq([start : Nat, pa : Nat, size : Nat, bits : SUBSET Bits])
        /\ PageBytes \in Nat \ {0}
    BY PagesAssumption, SizesAssumption
  <1>2. Sections[q] \in [start : Nat, pa : Nat, size : Nat, bits : SUBSET Bits]
    <2> DEFINE S == [start : Nat, pa : Nat, size : Nat, bits : SUBSET Bits]
    <2>1. Sections \in Seq(S)
      BY <1>1
    <2> HIDE DEF S
    <2>2. Sections[q] \in S
      BY <2>1
    <2> QED BY <2>2 DEF S
  <1>3. /\ Sections[q].start \in Nat /\ Sections[q].pa \in Nat /\ Sections[q].size \in Nat
        /\ Sections[q].bits \in SUBSET Bits
    BY <1>2
  <1>4. Sections[q].start \div PageBytes \in Nat /\ Sections[q].pa \div PageBytes \in Nat
    BY <1>1, <1>3, Division
  <1>5. PagesOf(Sections[q].size) \in Nat
    <2>1. PICK a \in Nat : a = Sections[q].size + PageBytes - 1
      BY <1>1, <1>3, SMTT(30)
    <2>2. a \div PageBytes \in Nat
      BY <1>1, Division
    <2> QED BY <2>1, <2>2 DEF PagesOf
  <1>6. Covered(Sections[q]) \subseteq MappedPages
    BY DEF MappedPages
  <1> QED BY <1>3, <1>4, <1>5, <1>6

First(q) == Sections[q].start \div PageBytes
SectionLeaf(q, v) == [ppn  |-> (Sections[q].pa \div PageBytes) + v - First(q),
                      bits |-> Sections[q].bits \cup {"V"}]
LeafAt(w, r, v) == LeafOf(w, r, Vpn(v, 2), Vpn(v, 1), Vpn(v, 0))

LEMMA CoveredIs ==
    ASSUME NEW q \in DOMAIN Sections, NEW v \in Int
    PROVE  v \in Covered(Sections[q]) <=>
              First(q) <= v /\ v < First(q) + PagesOf(Sections[q].size)
  <1>1. First(q) \in Nat /\ PagesOf(Sections[q].size) \in Nat
    BY SectionFacts DEF First
  <1> DEFINE a == First(q)
             n == PagesOf(Sections[q].size)
  <1>2. Covered(Sections[q]) = {a + k - 1 : k \in 1 .. n}
    BY DEF Covered, First
  <1> HIDE DEF a, n
  <1>3. v \in {a + k - 1 : k \in 1 .. n} <=> a <= v /\ v < a + n
    <2>1. ASSUME a <= v, v < a + n PROVE v \in {a + k - 1 : k \in 1 .. n}
      <3>1. v - a + 1 \in 1 .. n /\ v = a + (v - a + 1) - 1
        BY <1>1, <2>1 DEF a, n
      <3> QED BY <3>1
    <2>2. ASSUME v \in {a + k - 1 : k \in 1 .. n} PROVE a <= v /\ v < a + n
      BY <1>1, <2>2 DEF a, n
    <2> QED BY <2>1, <2>2
  <1> QED BY <1>2, <1>3 DEF a, n

\* What is mapped after k turns over section q.
SoFar(w, x, q, k) ==
    \A v \in MappedPages :
        LeafAt(x, Swapper, v) = IF First(q) <= v /\ v < First(q) + k
                                THEN SectionLeaf(q, v) ELSE LeafAt(w, Swapper, v)

AfterTurns(w, fr, kd, q, s, k) ==
    \E x, gr, ke, ok :
        /\ s = [mem |-> Mem(x, gr), ok |-> ok]
        /\ Onward(w, fr, kd, x, gr, ke, {Swapper})
        /\ EnoughForKernel /\ Plenty(w, fr, kd) =>
              ok /\ Plenty(x, gr, ke) /\ SoFar(w, x, q, k)

LEMMA OneTurn ==
    ASSUME NEW w, NEW fr, NEW kd, MemInv(w, fr, {Swapper}, kd), NEW q \in DOMAIN Sections,
           NEW k \in 1 .. PagesOf(Sections[q].size), NEW s, AfterTurns(w, fr, kd, q, s, k - 1)
    PROVE  AfterTurns(w, fr, kd, q,
               TurnAfter(s, Swapper, Sections[q].start, Sections[q].pa,
                         Sections[q].bits \cup {"V"}, k), k)
  <1> DEFINE v    == First(q) + k - 1
             ppn  == (Sections[q].pa \div PageBytes) + k - 1
             bits == Sections[q].bits \cup {"V"}
             e    == [ppn |-> ppn, bits |-> bits]
  <1>1. PICK x, gr, ke, ok :
        /\ s = [mem |-> Mem(x, gr), ok |-> ok]
        /\ Onward(w, fr, kd, x, gr, ke, {Swapper})
        /\ EnoughForKernel /\ Plenty(w, fr, kd) =>
              ok /\ Plenty(x, gr, ke) /\ SoFar(w, x, q, k - 1)
    BY DEF AfterTurns
  <1>n. k \in Int /\ 1 <= k
    BY SectionFacts
  <1>f. First(q) \in Nat /\ (Sections[q].pa \div PageBytes) \in Nat
    BY SectionFacts DEF First
  <1>2. v \in MappedPages /\ v \in Nat
    <2>1. v \in Int /\ First(q) <= v /\ v < First(q) + PagesOf(Sections[q].size)
      BY <1>f, SectionFacts
    <2>2. v \in Covered(Sections[q])
      BY <2>1, CoveredIs
    <2> QED BY <2>2, SectionFacts, IndexSets
  <1>3. e \in Words /\ "V" \in bits
    <2>1. ppn \in Frames \cup Device
      BY PagesAssumption
    <2>2. bits \in SUBSET Bits
      BY SectionFacts DEF Bits
    <2> QED BY <2>1, <2>2 DEF Words
  <1>4. e = SectionLeaf(q, v)
    <2>1. ppn = (Sections[q].pa \div PageBytes) + v - First(q)
      BY <1>f, <1>n
    <2> QED BY <2>1 DEF SectionLeaf
  <1>5. TurnAfter(s, Swapper, Sections[q].start, Sections[q].pa, bits, k) =
            IF ok THEN MapPage(Mem(x, gr), Swapper, v, ppn, bits) ELSE s
    BY <1>1 DEF TurnAfter, First
  <1>6. CASE ~ ok
    <2>1. ~ (EnoughForKernel /\ Plenty(w, fr, kd))
      BY <1>1, <1>6
    <2>2. AfterTurns(w, fr, kd, q, s, k)
      BY <1>1, <2>1 DEF AfterTurns
    <2> QED BY <1>5, <1>6, <2>2
  <1>7. CASE ok
    <2>1. MemInv(x, gr, {Swapper}, ke) /\ Settled(x, gr)
      BY <1>1 DEF Onward
    <2>2. PICK y, hr, kf, on : Turned(x, gr, ke, {Swapper}, Swapper, v, ppn, bits, y, hr, kf, on)
      <3>1. Vpn(v, 2) \in RootIndices(Swapper) /\ Swapper \in {Swapper}
        BY <1>2, MappedIndices
      <3> HIDE DEF v, ppn, bits
      <3> QED BY <1>2, <1>3, <2>1, <3>1, MapPageTurns DEF e
    <2>3. Onward(w, fr, kd, y, hr, kf, {Swapper})
      <3>1. Onward(x, gr, ke, y, hr, kf, {Swapper})
        BY <2>2 DEF Turned
      <3> QED BY <1>1, <3>1, OnwardAgain
    <2>4. TurnAfter(s, Swapper, Sections[q].start, Sections[q].pa, bits, k) =
              [mem |-> Mem(y, hr), ok |-> on]
      BY <1>5, <1>7, <2>2 DEF Turned
    <2>5. ASSUME EnoughForKernel, Plenty(w, fr, kd)
          PROVE  on /\ Plenty(y, hr, kf) /\ SoFar(w, y, q, k)
      <3>1. on /\ Plenty(y, hr, kf)
        BY <1>1, <1>2, <2>2, <2>5 DEF Turned
      <3>2. NewLeaf(x, y, {Swapper}, Swapper, Vpn(v, 2), Vpn(v, 1), Vpn(v, 0), e)
        BY <2>2, <3>1 DEF Turned
      <3>3. SoFar(w, x, q, k - 1)
        BY <1>1, <2>5
      <3>4. ASSUME NEW u \in MappedPages
            PROVE  LeafAt(y, Swapper, u) = IF First(q) <= u /\ u < First(q) + k
                                           THEN SectionLeaf(q, u) ELSE LeafAt(w, Swapper, u)
        <4>0. u \in Nat
          BY IndexSets
        <4>1. CASE u = v
          <5>1. LeafAt(y, Swapper, u) = e
            BY <3>2, <4>1 DEF NewLeaf, LeafAt
          <5>2. First(q) <= u /\ u < First(q) + k
            BY <1>f, <1>n, <4>1
          <5> QED BY <1>4, <4>1, <5>1, <5>2
        <4>2. CASE u # v
          <5>1. ~ (Vpn(u, 2) = Vpn(v, 2) /\ Vpn(u, 1) = Vpn(v, 1) /\ Vpn(u, 0) = Vpn(v, 0))
            <6>1. u < Fan * Fan * Fan /\ v < Fan * Fan * Fan
              <7>1. Fan * Fan * Fan \in Int
                BY SizesAssumption
              <7> DEFINE b == Fan * Fan * Fan
              <7>2. u \in 0 .. b - 1 /\ v \in 0 .. b - 1
                <8> HIDE DEF v
                <8> QED BY <1>2, PagesAssumption
              <7> HIDE DEF b, v
              <7>3. u < b /\ v < b
                BY <7>1, <7>2 DEF b
              <7> QED BY <7>3 DEF b
            <6> HIDE DEF v
            <6> QED BY <1>2, <4>0, <4>2, <6>1, VpnInjective
          <5>2. LeafAt(y, Swapper, u) = LeafAt(x, Swapper, u)
            <6> HIDE DEF v, e
            <6> QED BY <3>2, <5>1, MappedIndices DEF NewLeaf, LeafAt
          <5>3. LeafAt(x, Swapper, u) = IF First(q) <= u /\ u < First(q) + (k - 1)
                                        THEN SectionLeaf(q, u) ELSE LeafAt(w, Swapper, u)
            BY <3>3 DEF SoFar
          <5>4. (First(q) <= u /\ u < First(q) + (k - 1)) <=> (First(q) <= u /\ u < First(q) + k)
            BY <1>f, <1>n, <4>0, <4>2
          <5> QED BY <5>2, <5>3, <5>4, Zenon
        <4> QED BY <4>1, <4>2
      <3> QED BY <3>1, <3>4 DEF SoFar
    <2> QED BY <2>3, <2>4, <2>5 DEF AfterTurns
  <1> QED BY <1>6, <1>7

\* Every page has the leaf of the last section over it, of the first n.
AllMapped(x, n) ==
    \A v \in MappedPages : \A i \in 1 .. n :
        v \in Covered(Sections[i]) /\ (\A j \in i + 1 .. n : v \notin Covered(Sections[j]))
            => LeafAt(x, Swapper, v) = SectionLeaf(i, v)

AfterSections(w, fr, kd, m, n) ==
    \E x, gr, ke :
        /\ m = Mem(x, gr)
        /\ Onward(w, fr, kd, x, gr, ke, {Swapper})
        /\ EnoughForKernel /\ Plenty(w, fr, kd) => Plenty(x, gr, ke) /\ AllMapped(x, n)

LEMMA OneSection ==
    ASSUME NEW w, NEW fr, NEW kd, MemInv(w, fr, {Swapper}, kd), NEW q \in DOMAIN Sections,
           NEW m, AfterSections(w, fr, kd, m, q - 1)
    PROVE  AfterSections(w, fr, kd, SectionAfter(m, q), q)
  <1>1. PICK x, gr, ke :
        /\ m = Mem(x, gr)
        /\ Onward(w, fr, kd, x, gr, ke, {Swapper})
        /\ EnoughForKernel /\ Plenty(w, fr, kd) => Plenty(x, gr, ke) /\ AllMapped(x, q - 1)
    BY DEF AfterSections
  <1>2. MemInv(x, gr, {Swapper}, ke) /\ Settled(x, gr)
    BY <1>1 DEF Onward
  <1>n. PICK n \in Nat : n = PagesOf(Sections[q].size)
    BY SectionFacts
  <1>b. PICK bits : bits = Sections[q].bits \cup {"V"}
    OBVIOUS
  <1>3. PICK t : t = Turns(m, Swapper, Sections[q].start, Sections[q].pa, bits, n)
    OBVIOUS
  <1>4. TurnsHold(t, m, Swapper, Sections[q].start, Sections[q].pa, bits, n)
    BY <1>3, TurnsAre
  <1>5. SectionAfter(m, q) = t[n].mem
    BY <1>n, <1>b, <1>3, Zenon DEF SectionAfter, create_mapping
  <1>6. \A k \in 0 .. n : AfterTurns(x, gr, ke, q, t[k], k)
    <2> DEFINE S == {k \in 0 .. n : AfterTurns(x, gr, ke, q, t[k], k)}
    <2>1. AfterTurns(x, gr, ke, q, t[0], 0)
      <3>1. t[0] = [mem |-> Mem(x, gr), ok |-> TRUE]
        BY <1>1, <1>4 DEF TurnsHold
      <3>2. Onward(x, gr, ke, x, gr, ke, {Swapper})
        BY <1>2, OnwardItself
      <3>3. SoFar(x, x, q, 0)
        <4> SUFFICES ASSUME NEW v \in MappedPages
                     PROVE  ~ (First(q) <= v /\ v < First(q) + 0)
          BY Zenon DEF SoFar
        <4>1. v \in Nat /\ First(q) \in Nat
          BY IndexSets, SectionFacts DEF First
        <4> QED BY <4>1
      <3> QED BY <3>1, <3>2, <3>3 DEF AfterTurns
    <2>2. ASSUME NEW k \in 1 .. n, AfterTurns(x, gr, ke, q, t[k - 1], k - 1)
          PROVE  AfterTurns(x, gr, ke, q, t[k], k)
      <3>1. k \in 1 .. PagesOf(Sections[q].size)
        BY <1>n
      <3>2. t[k] = TurnAfter(t[k - 1], Swapper, Sections[q].start, Sections[q].pa, bits, k)
        BY <1>4 DEF TurnsHold
      <3>3. AfterTurns(x, gr, ke, q,
               TurnAfter(t[k - 1], Swapper, Sections[q].start, Sections[q].pa,
                         Sections[q].bits \cup {"V"}, k), k)
        BY <1>2, <2>2, <3>1, OneTurn
      <3> QED BY <1>b, <3>2, <3>3, Zenon
    <2>3. 0 \in S
      BY <2>1
    <2>4. \A k \in 1 .. n : k - 1 \in S => k \in S
      BY <2>2
    <2>5. \A k \in 0 .. n : k \in S
      <3> HIDE DEF S
      <3> QED BY <2>3, <2>4, Upto
    <2> QED BY <2>5
  <1>7. AfterTurns(x, gr, ke, q, t[n], n)
    BY <1>6
  <1>8. PICK y, hr, kf, ok :
        /\ t[n] = [mem |-> Mem(y, hr), ok |-> ok]
        /\ Onward(x, gr, ke, y, hr, kf, {Swapper})
        /\ EnoughForKernel /\ Plenty(x, gr, ke) =>
              ok /\ Plenty(y, hr, kf) /\ SoFar(x, y, q, n)
    BY <1>7 DEF AfterTurns
  <1>9. Onward(w, fr, kd, y, hr, kf, {Swapper})
    BY <1>1, <1>8, OnwardAgain
  <1>10. SectionAfter(m, q) = Mem(y, hr)
    BY <1>5, <1>8
  <1>11. ASSUME EnoughForKernel, Plenty(w, fr, kd) PROVE Plenty(y, hr, kf) /\ AllMapped(y, q)
    <2>1. Plenty(y, hr, kf) /\ SoFar(x, y, q, n) /\ AllMapped(x, q - 1)
      BY <1>1, <1>8, <1>11
    <2>2. ASSUME NEW v \in MappedPages, NEW i \in 1 .. q, v \in Covered(Sections[i]),
                 \A j \in i + 1 .. q : v \notin Covered(Sections[j])
          PROVE  LeafAt(y, Swapper, v) = SectionLeaf(i, v)
      <3>0. q \in Nat /\ v \in Int
        BY PagesAssumption, IndexSets, SMTT(30)
      <3>1. v \in Covered(Sections[q]) <=> First(q) <= v /\ v < First(q) + n
        BY <1>n, <3>0, CoveredIs
      <3>2. LeafAt(y, Swapper, v) = IF v \in Covered(Sections[q])
                                    THEN SectionLeaf(q, v) ELSE LeafAt(x, Swapper, v)
        BY <2>1, <3>1 DEF SoFar
      <3>3. CASE i = q
        BY <2>2, <3>2, <3>3
      <3>4. CASE i # q
        <4>1. i \in 1 .. q - 1 /\ q \in i + 1 .. q
          BY <3>0, <3>4
        <4>2. v \notin Covered(Sections[q])
          BY <2>2, <4>1
        <4>3. \A j \in i + 1 .. q - 1 : v \notin Covered(Sections[j])
          BY <2>2, <3>0
        <4>4. LeafAt(x, Swapper, v) = SectionLeaf(i, v)
          BY <2>1, <2>2, <4>1, <4>3 DEF AllMapped
        <4> QED BY <3>2, <4>2, <4>4
      <3> QED BY <3>3, <3>4
    <2> QED BY <2>1, <2>2 DEF AllMapped
  <1> QED BY <1>9, <1>10, <1>11 DEF AfterSections

LEMMA SectionsMapped ==
    ASSUME NEW w, NEW fr, NEW kd, MemInv(w, fr, {Swapper}, kd), Settled(w, fr)
    PROVE  AfterSections(w, fr, kd, Mapped(Mem(w, fr))[Len(Sections)], Len(Sections))
  <1>1. PICK n \in Nat : n = Len(Sections) /\ DOMAIN Sections = 1 .. n
    BY PagesAssumption
  <1>2. PICK f : f = Mapped(Mem(w, fr))
    OBVIOUS
  <1>3. MappedHolds(f, Mem(w, fr), n)
    BY <1>1, <1>2, MappedIs
  <1> DEFINE S == {k \in 0 .. n : AfterSections(w, fr, kd, f[k], k)}
  <1>4. AfterSections(w, fr, kd, f[0], 0)
    <2>1. f[0] = Mem(w, fr) /\ Onward(w, fr, kd, w, fr, kd, {Swapper})
      BY <1>3, OnwardItself DEF MappedHolds
    <2>2. AllMapped(w, 0)
      BY DEF AllMapped
    <2> QED BY <2>1, <2>2 DEF AfterSections
  <1>5. ASSUME NEW k \in 1 .. n, AfterSections(w, fr, kd, f[k - 1], k - 1)
        PROVE  AfterSections(w, fr, kd, f[k], k)
    <2>1. f[k] = SectionAfter(f[k - 1], k) /\ k \in DOMAIN Sections
      BY <1>1, <1>3 DEF MappedHolds
    <2> QED BY <1>5, <2>1, OneSection
  <1>6. 0 \in S /\ \A k \in 1 .. n : k - 1 \in S => k \in S
    BY <1>4, <1>5
  <1>7. \A k \in 0 .. n : k \in S
    <2> HIDE DEF S
    <2> QED BY <1>6, Upto
  <1>8. AfterSections(w, fr, kd, f[n], n)
    BY <1>7
  <1> QED BY <1>1, <1>2, <1>8

-----------------------------------------------------------------------------
(* Roots and pages.                                                        *)

\* A page of memory is written as a whole.
Overwritten(w, f, page) == [w EXCEPT ![f] = page]

Beside(w, x, f) == \A g \in Frames : g # f => x[g] = w[g]
NoUserLeaf(w, f) ==
    \A i \in UserIndices(2), j \in Indices, k \in Indices : LeafOf(w, f, i, j, k) = Empty

\* A free page becomes a root: it has the kernel's entries, and no others.
LEMMA AddRoot ==
    ASSUME NEW w, NEW fr, NEW R, NEW kd, MemInv(w, fr, R, kd), NEW f \in fr,
           NEW p, p = w[Swapper], NEW x, x = Overwritten(w, f, p),
           NEW S, S = R \cup {f}, NEW hr, hr = fr \ {f}, NEW ke, ke = Recast(kd, f, RootKind)
    PROVE  /\ MemInv(x, hr, S, ke)
           /\ KindsKept(kd, ke)
           /\ SameLeaves(w, x, R) /\ SameKept(w, x, kd)
           /\ f \notin R /\ f \in Frames \ Image
           /\ Beside(w, x, f) /\ NoUserLeaf(x, f)
  <1>0. /\ f \in Frames /\ f \notin Image /\ kd[f] = FreeKind /\ DOMAIN kd = Frames
        /\ Swapper \in R /\ R \subseteq Frames
    BY DEF MemInv, Typed, Kinded
  <1>1. /\ w \in [Frames -> [Indices -> Words]] /\ fr \subseteq Frames \ Image
        /\ Swapper \in Frames /\ f # Swapper
    BY <1>0, SizesAssumption, EmptyIs DEF MemInv, Typed
  <1>2. ke[f] = RootKind /\ (\A g \in Frames : g # f => ke[g] = kd[g]) /\ DOMAIN ke = Frames
    BY <1>0, RecastIs
  <1>3. /\ x \in [Frames -> [Indices -> Words]] /\ x[f] = w[Swapper]
        /\ \A g \in Frames : g # f => x[g] = w[g]
    BY <1>0, <1>1 DEF Overwritten
  <1>k. KindsKept(kd, ke)
    BY <1>0, <1>2 DEF KindsKept
  <1>a. f \notin R /\ \A r \in R : kd[r] = RootKind
    <2>1. FreeKind # RootKind
      BY KindsApart
    <2> QED BY <1>0, <2>1 DEF MemInv, Kinded
  <1>4. ASSUME NEW r \in R, NEW i \in RootIndices(r), NEW j \in Indices, NEW k \in Indices
        PROVE  SamePath(w, x, r, i, j, k)
    <2>1. x[r][i] = w[r][i]
      BY <1>0, <1>3, <1>a
    <2>2. Dir(r, i) # FreeKind /\ Tab(r, i, j) # FreeKind
      BY PathKinds
    <2>3. /\ \A g \in Frames : kd[g] = Dir(r, i) => x[g][j] = w[g][j]
          /\ \A g \in Frames : kd[g] = Tab(r, i, j) => x[g][k] = w[g][k]
      BY <1>0, <1>3, <2>2
    <2> QED BY <2>1, <2>3, Elsewhere
  <1>5. ASSUME NEW i \in UserIndices(2) PROVE ~ Valid(x[f][i])
    BY <1>3 DEF MemInv, Copies
  <1>6. ASSUME NEW i \in UserIndices(2), NEW j \in Indices, NEW k \in Indices
        PROVE  /\ GoodPath(x, ke, f, i, j, k)
               /\ LeafOf(x, f, i, j, k) = Empty
    <2>1. ~ HasDir(x, f, i) /\ ~ HasTab(x, f, i, j) /\ ~ HasLeaf(x, f, i, j, k)
      BY <1>5 DEF HasDir, HasTab, HasLeaf
    <2> QED BY <1>5, <2>1 DEF GoodPath, LeafOf
  <1>7. Paths(x, S, ke)
    <2> SUFFICES ASSUME NEW r \in S, NEW i \in RootIndices(r), NEW j \in Indices, NEW k \in Indices
                 PROVE  GoodPath(x, ke, r, i, j, k)
      BY DEF Paths
    <2>1. CASE r = f
      BY <1>1, <1>6, <2>1 DEF RootIndices
    <2>2. CASE r # f
      <3>1. r \in R
        BY <2>2
      <3>2. SamePath(w, x, r, i, j, k) /\ GoodPath(w, kd, r, i, j, k)
        BY <1>4, <3>1 DEF MemInv, Paths
      <3> QED BY <1>k, <3>2, GoodAsBefore, GoodIfKept
    <2> QED BY <2>1, <2>2
  <1>8. SameLeaves(w, x, R)
    BY <1>4 DEF SameLeaves, SamePath
  <1>9. SameKept(w, x, kd)
    <2>1. FreeKind # KeptKind
      BY KindsApart
    <2> QED BY <1>0, <1>3, <2>1 DEF SameKept
  <1>10. Copies(x, S)
    <2>1. x[Swapper] = w[Swapper]
      BY <1>1, <1>3
    <2>2. \A r \in S : \A i \in RootIndices(Swapper) : x[r][i] = x[Swapper][i]
      <3> SUFFICES ASSUME NEW r \in S, NEW i \in RootIndices(Swapper)
                   PROVE  x[r][i] = x[Swapper][i]
        OBVIOUS
      <3>1. CASE r = f
        BY <1>3, <2>1, <3>1
      <3>2. CASE r # f
        <4>1. r \in R /\ r \in Frames
          BY <1>0, <3>2
        <4> QED BY <1>3, <2>1, <3>2, <4>1 DEF MemInv, Copies
      <3> QED BY <3>1, <3>2
    <2> QED BY <2>1, <2>2 DEF MemInv, Copies
  <1>11. Kinded(hr, S, ke)
    <2>1. \A g \in Frames : g \in hr <=> ke[g] = FreeKind
      <3>1. FreeKind # RootKind
        BY KindsApart
      <3> QED BY <1>0, <1>2, <3>1 DEF MemInv, Kinded
    <2>2. \A r \in S : ke[r] = RootKind
      BY <1>0, <1>2, <1>a
    <2>3. \A g \in Image : g # Swapper => ke[g] = KeptKind
      BY <1>0, <1>2, SizesAssumption DEF MemInv, Kinded
    <2> QED BY <1>0, <1>2, <2>1, <2>2, <2>3 DEF Kinded
  <1>12. MemInv(x, hr, S, ke)
    BY <1>1, <1>3, <1>7, <1>10, <1>11 DEF MemInv, Typed
  <1>13. NoUserLeaf(x, f)
    BY <1>6 DEF NoUserLeaf
  <1> QED BY <1>0, <1>3, <1>8, <1>9, <1>12, <1>13, <1>a, <1>k DEF Beside

\* A page that no leaf leads to goes back, with anything in it.
NoLeafTo(w, R, f) ==
    \A r \in R \ {Swapper} : \A i \in RootIndices(r), j \in Indices, k \in Indices :
        HasLeaf(w, r, i, j, k) => LeafOf(w, r, i, j, k).ppn # f

LEMMA FreePage ==
    ASSUME NEW w, NEW fr, NEW R, NEW kd, MemInv(w, fr, R, kd),
           NEW f \in Frames, NEW v, kd[f] = Page(v),
           NoLeafTo(w, R, f), NEW p \in [Indices -> Words], NEW x, x = Overwritten(w, f, p)
    PROVE  /\ \E ke : MemInv(x, fr \cup {f}, R, ke)
           /\ SameLeaves(w, x, R) /\ SameKept(w, x, kd)
           /\ f \notin fr /\ f \notin Image
           /\ \A g \in Frames : g # f => x[g] = w[g]
  <1>1. PICK ke : ke = Recast(kd, f, FreeKind)
    OBVIOUS
  <1>2. /\ w \in [Frames -> [Indices -> Words]] /\ fr \subseteq Frames \ Image
        /\ DOMAIN kd = Frames /\ R \subseteq Frames /\ Swapper \in R
        /\ \A r \in R : kd[r] = RootKind
    BY DEF MemInv, Typed, Kinded
  <1>3. ke[f] = FreeKind /\ (\A g \in Frames : g # f => ke[g] = kd[g]) /\ DOMAIN ke = Frames
    BY <1>1, <1>2, RecastIs
  <1>4. x \in [Frames -> [Indices -> Words]] /\ \A g \in Frames : g # f => x[g] = w[g]
    BY <1>2 DEF Overwritten
  <1>5. Page(v) # FreeKind /\ Page(v) # RootKind /\ Page(v) # KeptKind
    BY PathKinds
  <1>6. f \notin fr /\ f \notin Image /\ f \notin R
    <2>1. f \notin R
      BY <1>2, <1>5
    <2>2. f \notin fr
      BY <1>5 DEF MemInv, Kinded
    <2>3. f \notin Image
      BY <1>2, <1>5, <2>1 DEF MemInv, Kinded
    <2> QED BY <2>1, <2>2, <2>3
  <1>7. ASSUME NEW r \in R, NEW i \in RootIndices(r), NEW j \in Indices, NEW k \in Indices
        PROVE  SamePath(w, x, r, i, j, k) /\ GoodPath(x, ke, r, i, j, k)
    <2>1. x[r][i] = w[r][i]
      BY <1>2, <1>4, <1>6
    <2>2. Dir(r, i) # Page(v) /\ Tab(r, i, j) # Page(v)
      BY KindsApart
    <2>3. /\ \A g \in Frames : kd[g] = Dir(r, i) => x[g][j] = w[g][j]
          /\ \A g \in Frames : kd[g] = Tab(r, i, j) => x[g][k] = w[g][k]
      BY <1>4, <2>2
    <2>4. SamePath(w, x, r, i, j, k)
      BY <2>1, <2>3, Elsewhere
    <2>5. GoodPath(x, kd, r, i, j, k)
      BY <2>4, GoodAsBefore DEF MemInv, Paths
    <2>6. /\ HasDir(x, r, i) => ke[DirOf(x, r, i)] = Dir(r, i)
          /\ HasTab(x, r, i, j) => ke[TabOf(x, r, i, j)] = Tab(r, i, j)
      BY <1>3, <2>2, <2>5 DEF GoodPath
    <2>7. r # Swapper /\ HasLeaf(x, r, i, j, k) => UserLeaf(ke, i, j, k, LeafOf(x, r, i, j, k))
      <3> SUFFICES ASSUME r # Swapper, HasLeaf(x, r, i, j, k)
                   PROVE  UserLeaf(ke, i, j, k, LeafOf(x, r, i, j, k))
        OBVIOUS
      <3>1. LeafOf(x, r, i, j, k).ppn # f
        BY <2>4 DEF SamePath, NoLeafTo
      <3>2. UserLeaf(kd, i, j, k, LeafOf(x, r, i, j, k))
        BY <2>5 DEF GoodPath
      <3> QED BY <1>3, <3>1, <3>2 DEF UserLeaf
    <2> QED BY <2>4, <2>5, <2>6, <2>7 DEF GoodPath
  <1>8. Paths(x, R, ke) /\ SameLeaves(w, x, R)
    BY <1>7 DEF Paths, SameLeaves, SamePath
  <1>9. Copies(x, R)
    <2>1. \A r \in R : x[r] = w[r]
      BY <1>2, <1>4, <1>6
    <2> QED BY <1>2, <2>1 DEF MemInv, Copies
  <1>10. Kinded(fr \cup {f}, R, ke)
    <2>1. \A g \in Frames : g \in fr \cup {f} <=> ke[g] = FreeKind
      BY <1>3 DEF MemInv, Kinded
    <2>2. \A r \in R : ke[r] = RootKind
      BY <1>2, <1>3, <1>6
    <2>3. \A g \in Image : g # Swapper => ke[g] = KeptKind
      BY <1>3, <1>6, SizesAssumption DEF MemInv, Kinded
    <2> QED BY <1>2, <1>3, <2>1, <2>2, <2>3 DEF Kinded
  <1>11. MemInv(x, fr \cup {f}, R, ke)
    BY <1>2, <1>4, <1>6, <1>8, <1>9, <1>10 DEF MemInv, Typed
  <1>12. SameKept(w, x, kd)
    BY <1>4, <1>5 DEF SameKept
  <1> QED BY <1>4, <1>6, <1>8, <1>11, <1>12

\* Before any task: the memory that setup_vm_final finds, its root cleared.
LEMMA CleanMemory ==
    ASSUME NEW w \in [Frames -> [Indices -> Words]], w[Swapper] = EmptyPage
    PROVE  \E kd : /\ MemInv(w, Frames \ Image, {Swapper}, kd)
                   /\ Plenty(w, Frames \ Image, kd)
  <1> DEFINE fr == Frames \ Image
             kd == [f \in Frames |-> IF f \in fr THEN FreeKind
                                     ELSE IF f = Swapper THEN RootKind ELSE KeptKind]
  <1>0. Swapper \in Frames /\ Swapper \in Image /\ Image \subseteq Frames
    BY SizesAssumption
  <1>1. FreeKind # RootKind /\ FreeKind # KeptKind /\ RootKind # KeptKind
    BY KindsApart
  <1>2. Kinded(fr, {Swapper}, kd)
    BY <1>0, <1>1 DEF Kinded
  <1>3. \A i \in Indices : ~ Valid(w[Swapper][i])
    BY EmptyIs
  <1>4. Paths(w, {Swapper}, kd)
    <2> SUFFICES ASSUME NEW i \in RootIndices(Swapper), NEW j \in Indices, NEW k \in Indices
                 PROVE  GoodPath(w, kd, Swapper, i, j, k)
      BY DEF Paths
    <2>1. ~ Valid(w[Swapper][i])
      BY <1>3, IndexSets
    <2>2. ~ HasDir(w, Swapper, i) /\ ~ HasTab(w, Swapper, i, j)
      BY <2>1 DEF HasDir, HasTab
    <2> QED BY <2>1, <2>2 DEF GoodPath
  <1>5. Copies(w, {Swapper})
    BY <1>3, IndexSets DEF Copies
  <1>6. MemInv(w, fr, {Swapper}, kd)
    BY <1>2, <1>4, <1>5 DEF MemInv, Typed
  <1>7. Plenty(w, fr, kd)
    <2>1. Linked(w, fr, kd)
      BY <1>0 DEF Linked
    <2>2. \A v \in MappedPages : ~ Lacking(w, Swapper, Vpn(v, 2), Vpn(v, 1))
      <3>1. \A v \in MappedPages : Vpn(v, 2) \in Indices
        BY MappedIndices, IndexSets
      <3> QED BY <1>3, <3>1 DEF Lacking
    <2> QED BY <2>1, <2>2 DEF Plenty
  <1> QED BY <1>6, <1>7

\* The hardware's walk and find_pte find the leaf.
LEMMA WalkIs ==
    ASSUME NEW w, NEW fr, NEW R, NEW kd, MemInv(w, fr, R, kd), NEW r \in R,
           NEW v \in Nat, Vpn(v, 2) \in RootIndices(r)
    PROVE  /\ ~ HasLeaf(w, r, Vpn(v, 2), Vpn(v, 1), Vpn(v, 0)) =>
                 Walk(w, r, v) = None /\ LeafAt(w, r, v) = Empty
           /\ HasLeaf(w, r, Vpn(v, 2), Vpn(v, 1), Vpn(v, 0)) =>
                 /\ Walk(w, r, v) = [frame |-> LeafAt(w, r, v).ppn, bits |-> LeafAt(w, r, v).bits]
                 /\ find_pte(w, r, v) = TabOf(w, r, Vpn(v, 2), Vpn(v, 1))
                 /\ LeafAt(w, r, v) \in Words /\ Valid(LeafAt(w, r, v))
                 /\ Walk(w, r, v) # None
  <1>1. PICK i \in RootIndices(r), j \in Indices, k \in Indices :
            i = Vpn(v, 2) /\ j = Vpn(v, 1) /\ k = Vpn(v, 0)
    BY VpnIndex
  <1>2. GoodPath(w, kd, r, i, j, k)
    BY <1>1 DEF MemInv, Paths
  <1>3. w \in [Frames -> [Indices -> Words]]
    BY DEF MemInv, Typed
  <1> DEFINE e2 == w[r][i]
             e1 == w[e2.ppn][j]
             e0 == w[e1.ppn][k]
  <1>4. Valid(e2) => ~ IsLeaf(e2)
    BY <1>2, SMTT(30) DEF GoodPath, IsLeaf, Access
  <1>5. Walk(w, r, v) = IF ~ Valid(e2) \/ e2.ppn \notin Frames \/ ~ Valid(e1)
                           \/ e1.ppn \notin Frames \/ ~ Valid(e0)
                        THEN None ELSE [frame |-> e0.ppn, bits |-> e0.bits]
    <2> HIDE DEF e2
    <2>1. CASE ~ Valid(e2)
      BY <1>1, <2>1, Zenon DEF Walk, e2
    <2>2. CASE Valid(e2)
      BY <1>1, <1>4, <2>2 DEF Walk, e2
    <2> QED BY <2>1, <2>2
  <1>6. HasLeaf(w, r, i, j, k) <=>
            ~ (~ Valid(e2) \/ e2.ppn \notin Frames \/ ~ Valid(e1) \/ e1.ppn \notin Frames \/ ~ Valid(e0))
    <2>1. Null \notin Frames
      BY EmptyIs
    <2>2. HasDir(w, r, i) <=> Valid(e2) /\ e2.ppn \in Frames
      BY <1>2, <2>1 DEF HasDir, GoodPath, DirOf
    <2>3. HasTab(w, r, i, j) <=> HasDir(w, r, i) /\ Valid(e1) /\ e1.ppn \in Frames
      BY <1>2, <2>1, SMTT(30) DEF HasTab, GoodPath, DirOf, TabOf
    <2> QED BY <2>2, <2>3 DEF HasLeaf, TabOf, DirOf
  <1>7. ASSUME HasLeaf(w, r, i, j, k)
        PROVE  /\ LeafAt(w, r, v) = e0 /\ e0 \in Words /\ Valid(e0)
               /\ find_pte(w, r, v) = TabOf(w, r, Vpn(v, 2), Vpn(v, 1))
    <2>1. LeafAt(w, r, v) = e0
      BY <1>1, <1>7, SMTT(30) DEF LeafAt, LeafOf, TabOf, DirOf
    <2>2. e0 \in Words /\ Valid(e0)
      BY <1>3, <1>6, <1>7
    <2>3. find_pte(w, r, v) = TabOf(w, r, Vpn(v, 2), Vpn(v, 1))
      BY <1>1, <1>6, <1>7, SMTT(30) DEF find_pte, TabOf, DirOf
    <2> QED BY <2>1, <2>2, <2>3
  <1>8. ASSUME HasLeaf(w, r, i, j, k) PROVE Walk(w, r, v) # None
    <2>1. e0 \in Words /\ e0.ppn \in Int
      <3>1. e0 \in Words
        BY <1>7, <1>8
      <3>2. Frames \cup {Null} \cup Device \subseteq Int
        <4>1. Device \subseteq Int
          <5>1. Device \subseteq Nat \ Frames
            BY SizesAssumption, Zenon
          <5> QED BY ONLY <5>1
        <4>2. Frames \subseteq Int /\ Null \in Int
          BY ONLY TRUE DEF Frames, Null
        <4> QED BY ONLY <4>1, <4>2
      <3> QED BY <3>1, <3>2, ZenonT(40) DEF Words
    <2>2. [frame |-> e0.ppn, bits |-> e0.bits] \in [frame : Int, bits : SUBSET Bits]
      BY <2>1 DEF Words
    <2>3. None \notin [frame : Int, bits : SUBSET Bits]
      BY SizesAssumption
    <2> QED BY <1>5, <1>6, <1>8, <2>2, <2>3, ZenonT(40)
  <1>9. ~ HasLeaf(w, r, i, j, k) => LeafAt(w, r, v) = Empty
    BY <1>1 DEF LeafAt, LeafOf
  <1> HIDE DEF e2, e1, e0
  <1> QED BY <1>1, <1>5, <1>6, <1>7, <1>8, <1>9

-----------------------------------------------------------------------------
(* Pages and their leaves.                                                 *)

\* What the hardware makes of a leaf.
ToWalk(e) == IF Valid(e) THEN [frame |-> e.ppn, bits |-> e.bits] ELSE None

LEMMA WalkLeaf ==
    ASSUME NEW w, NEW fr, NEW R, NEW kd, MemInv(w, fr, R, kd), NEW r \in R,
           NEW v \in Nat, Vpn(v, 2) \in RootIndices(r)
    PROVE  /\ Walk(w, r, v) = ToWalk(LeafAt(w, r, v))
           /\ LeafAt(w, r, v) \in Words
           /\ Walk(w, r, v) # None <=> Valid(LeafAt(w, r, v))
           /\ ~ Valid(LeafAt(w, r, v)) => LeafAt(w, r, v) = Empty
           /\ Valid(LeafAt(w, r, v)) =>
                 /\ HasLeaf(w, r, Vpn(v, 2), Vpn(v, 1), Vpn(v, 0))
                 /\ find_pte(w, r, v) = TabOf(w, r, Vpn(v, 2), Vpn(v, 1))
  <1>1. CASE HasLeaf(w, r, Vpn(v, 2), Vpn(v, 1), Vpn(v, 0))
    BY <1>1, WalkIs DEF ToWalk
  <1>2. CASE ~ HasLeaf(w, r, Vpn(v, 2), Vpn(v, 1), Vpn(v, 0))
    <2>1. Walk(w, r, v) = None /\ LeafAt(w, r, v) = Empty
      BY <1>2, WalkIs
    <2> QED BY <2>1, EmptyIs DEF ToWalk
  <1> QED BY <1>1, <1>2

LEMMA UserIndex ==
    ASSUME NEW r, r # Swapper, NEW v \in UserPages
    PROVE  v \in Nat /\ v < Fan * Fan * Fan /\ Vpn(v, 2) \in RootIndices(r)
  <1>1. v \in Nat /\ v < Fan * Fan * Fan
    BY PagesAssumption, SizesAssumption
  <1> QED BY <1>1 DEF RootIndices, UserIndices

\* The page that a user leaf leads to is for the page of its path.
LEMMA UserLeafAt ==
    ASSUME NEW w, NEW fr, NEW R, NEW kd, MemInv(w, fr, R, kd), NEW r \in R, r # Swapper,
           NEW v \in UserPages, Valid(LeafAt(w, r, v))
    PROVE  LeafAt(w, r, v).ppn \in Frames /\ kd[LeafAt(w, r, v).ppn] = Page(v)
  <1>1. v \in Nat /\ v < Fan * Fan * Fan /\ Vpn(v, 2) \in RootIndices(r)
    BY UserIndex
  <1>2. PICK i \in RootIndices(r), j \in Indices, k \in Indices :
            i = Vpn(v, 2) /\ j = Vpn(v, 1) /\ k = Vpn(v, 0)
    BY <1>1, VpnIndex
  <1>3. HasLeaf(w, r, i, j, k) /\ LeafAt(w, r, v) = LeafOf(w, r, i, j, k)
    BY <1>1, <1>2, WalkLeaf DEF LeafAt
  <1>4. UserLeaf(kd, i, j, k, LeafOf(w, r, i, j, k))
    BY <1>2, <1>3 DEF MemInv, Paths, GoodPath
  <1>5. PICK u \in UserPages : At(u, i, j, k) /\ kd[LeafOf(w, r, i, j, k).ppn] = Page(u)
    BY <1>4 DEF UserLeaf
  <1>6. u \in Nat /\ u < Fan * Fan * Fan
    BY <1>5, UserIndex
  <1>7. u = v
    BY <1>1, <1>2, <1>5, <1>6, VpnInjective DEF At
  <1> QED BY <1>3, <1>4, <1>5, <1>7 DEF UserLeaf

\* A leaf of a task is the leaf of a user page.
LEMMA LeafHasPage ==
    ASSUME NEW w, NEW fr, NEW R, NEW kd, MemInv(w, fr, R, kd), NEW r \in R, r # Swapper,
           NEW i \in RootIndices(r), NEW j \in Indices, NEW k \in Indices,
           HasLeaf(w, r, i, j, k)
    PROVE  \E u \in UserPages : /\ At(u, i, j, k) /\ LeafAt(w, r, u) = LeafOf(w, r, i, j, k)
                                /\ Valid(LeafAt(w, r, u))
  <1>1. UserLeaf(kd, i, j, k, LeafOf(w, r, i, j, k))
    BY DEF MemInv, Paths, GoodPath
  <1>2. PICK u \in UserPages : At(u, i, j, k)
    BY <1>1 DEF UserLeaf
  <1>3. u \in Nat /\ Vpn(u, 2) \in RootIndices(r)
    BY <1>2, UserIndex
  <1>4. HasLeaf(w, r, Vpn(u, 2), Vpn(u, 1), Vpn(u, 0)) /\ LeafAt(w, r, u) = LeafOf(w, r, i, j, k)
    BY <1>2 DEF At, LeafAt
  <1>5. Valid(LeafAt(w, r, u))
    BY <1>3, <1>4, WalkIs
  <1> QED BY <1>2, <1>4, <1>5

\* The kernel's pages are alike under every root.
LEMMA KernelWalk ==
    ASSUME NEW w, NEW fr, NEW R, NEW kd, MemInv(w, fr, R, kd), NEW r \in R, NEW v \in MappedPages
    PROVE  Walk(w, r, v) = ToWalk(LeafAt(w, Swapper, v))
  <1>1. v \in Nat /\ Vpn(v, 2) \in RootIndices(Swapper) /\ Swapper \in R
    BY MappedIndices, IndexSets DEF MemInv, Kinded
  <1>2. w[r][Vpn(v, 2)] = w[Swapper][Vpn(v, 2)]
    BY <1>1 DEF MemInv, Copies
  <1>3. Walk(w, r, v) = Walk(w, Swapper, v)
    BY <1>2, Zenon DEF Walk
  <1> QED BY <1>1, <1>3, WalkLeaf

\* What a step does to the leaves of pages: nothing, or that of one user page is
\* written.
SameKernel(w, x) == \A u \in MappedPages : LeafAt(x, Swapper, u) = LeafAt(w, Swapper, u)
SamePages(w, x, R) ==
    /\ \A s \in R \ {Swapper}, u \in UserPages : LeafAt(x, s, u) = LeafAt(w, s, u)
    /\ SameKernel(w, x)
OnePage(w, x, R, r, v, e) ==
    /\ LeafAt(x, r, v) = e
    /\ \A s \in R \ {Swapper}, u \in UserPages :
          ~ (s = r /\ u = v) => LeafAt(x, s, u) = LeafAt(w, s, u)
    /\ SameKernel(w, x)

LEMMA PageIndices ==
    /\ \A s, u : s # Swapper /\ u \in UserPages =>
          Vpn(u, 2) \in RootIndices(s) /\ Vpn(u, 1) \in Indices /\ Vpn(u, 0) \in Indices
    /\ \A u \in MappedPages :
          Vpn(u, 2) \in RootIndices(Swapper) /\ Vpn(u, 1) \in Indices /\ Vpn(u, 0) \in Indices
  <1>1. ASSUME NEW s, NEW u, s # Swapper, u \in UserPages
        PROVE  Vpn(u, 2) \in RootIndices(s) /\ Vpn(u, 1) \in Indices /\ Vpn(u, 0) \in Indices
    BY <1>1, UserIndex, VpnIndex
  <1> QED BY <1>1, MappedIndices

LEMMA LeavesOfPages ==
    ASSUME NEW w, NEW x, NEW R, Swapper \in R, SameLeaves(w, x, R)
    PROVE  SamePages(w, x, R)
  <1>1. \A s \in R \ {Swapper}, u \in UserPages : LeafAt(x, s, u) = LeafAt(w, s, u)
    BY PageIndices DEF SameLeaves, LeafAt
  <1>2. SameKernel(w, x)
    BY PageIndices DEF SameLeaves, LeafAt, SameKernel
  <1> QED BY <1>1, <1>2 DEF SamePages

LEMMA NewLeafOfPage ==
    ASSUME NEW w, NEW x, NEW R, Swapper \in R, NEW r \in R, r # Swapper, NEW v \in UserPages,
           NEW e, NewLeaf(w, x, R, r, Vpn(v, 2), Vpn(v, 1), Vpn(v, 0), e)
    PROVE  OnePage(w, x, R, r, v, e)
  <1>1. LeafAt(x, r, v) = e
    BY DEF NewLeaf, LeafAt
  <1>2. ASSUME NEW s \in R \ {Swapper}, NEW u \in UserPages, ~ (s = r /\ u = v)
        PROVE  LeafAt(x, s, u) = LeafAt(w, s, u)
    <2>1. u \in Nat /\ u < Fan * Fan * Fan /\ v \in Nat /\ v < Fan * Fan * Fan
      BY UserIndex
    <2>2. ~ (s = r /\ Vpn(u, 2) = Vpn(v, 2) /\ Vpn(u, 1) = Vpn(v, 1) /\ Vpn(u, 0) = Vpn(v, 0))
      BY <1>2, <2>1, VpnInjective
    <2>3. Vpn(u, 2) \in RootIndices(s) /\ Vpn(u, 1) \in Indices /\ Vpn(u, 0) \in Indices
      BY PageIndices
    <2> QED BY <2>2, <2>3 DEF NewLeaf, LeafAt
  <1>3. ASSUME NEW u \in MappedPages PROVE LeafAt(x, Swapper, u) = LeafAt(w, Swapper, u)
    <2>1. Vpn(u, 2) \in RootIndices(Swapper) /\ Vpn(u, 1) \in Indices /\ Vpn(u, 0) \in Indices
      BY PageIndices
    <2> QED BY <2>1 DEF NewLeaf, LeafAt
  <1> QED BY <1>1, <1>2, <1>3 DEF OnePage, SameKernel

-----------------------------------------------------------------------------
(* The page fault.                                                         *)

LEMMA SwapperIn ==
    ASSUME NEW w, NEW fr, NEW R, NEW kd, MemInv(w, fr, R, kd)
    PROVE  /\ Swapper \in R /\ R \subseteq Frames /\ fr \subseteq Frames
           /\ fr \subseteq Frames \ Image
           /\ w \in [Frames -> [Indices -> Words]] /\ DOMAIN kd = Frames
  BY DEF MemInv, Typed, Kinded

\* What a fault on page v leaves: a memory as sound, with a leaf for the page,
\* unless a frame was missing, now or when the entry was made.
Faulted(w, R, kd, r, v, e, m) ==
    \E x, gr :
        /\ m = Mem(x, gr)
        /\ (\E ke : MemInv(x, gr, R, ke)) /\ Tidy(x, gr) /\ SameKept(w, x, kd)
        /\ \/ OnePage(w, x, R, r, v, e)
           \/ /\ SamePages(w, x, R)
              /\ gr = {} \/ Lacking(w, r, Vpn(v, 2), Vpn(v, 1))

LEMMA KeptAfter ==
    ASSUME NEW w, NEW x, NEW y, NEW kd, NEW ke, KindsKept(kd, ke),
           SameKept(w, x, kd), SameKept(x, y, ke)
    PROVE  SameKept(w, y, kd)
  <1>1. KeptKind # FreeKind
    BY KindsApart
  <1> QED BY <1>1 DEF SameKept, KindsKept

LEMMA FaultMaps ==
    ASSUME NEW w, NEW fr, NEW R, NEW kd, MemInv(w, fr, R, kd), Tidy(w, fr),
           NEW f, Lowest(f, fr), NEW r \in R, r # Swapper, NEW v \in UserPages,
           NEW bits \in SUBSET Bits, "V" \in bits
    PROVE  Faulted(w, R, kd, r, v, [ppn |-> f, bits |-> bits],
                   MapPage(Mem(w, fr \ {f}), r, v, f, bits).mem)
  <1> DEFINE e == [ppn |-> f, bits |-> bits]
  <1>1. f \in fr /\ fr \subseteq Frames /\ f \in Frames /\ Swapper \in R /\ DOMAIN kd = Frames
    BY SwapperIn DEF Lowest
  <1>2. PICK hr : hr = fr \ {f}
    OBVIOUS
  <1>3. PICK ke : ke = Recast(kd, f, Page(v))
    OBVIOUS
  <1>4. MemInv(w, hr, R, ke) /\ KindsKept(kd, ke) /\ ke[f] = Page(v)
    <2>1. Page(v) # FreeKind
      BY PathKinds
    <2>2. ke[f] = Page(v)
      BY <1>1, <1>3, RecastIs
    <2> QED BY <1>1, <1>2, <1>3, <2>1, <2>2, Taking
  <1>5. Settled(w, hr)
    BY <1>1, <1>2, TakenLowest
  <1>6. v \in Nat /\ Vpn(v, 2) \in RootIndices(r) /\ e \in Words
    BY <1>1, UserIndex DEF Words
  <1>7. PICK x, gr, kf, ok : Turned(w, hr, ke, R, r, v, f, bits, x, gr, kf, ok)
    BY <1>1, <1>4, <1>5, <1>6, MapPageTurns
  <1>8. MapPage(Mem(w, hr), r, v, f, bits).mem = Mem(x, gr)
    BY <1>7 DEF Turned
  <1>9. MemInv(x, gr, R, kf) /\ Tidy(x, gr) /\ SameKept(w, x, kd)
    <2>1. MemInv(x, gr, R, kf) /\ Settled(x, gr) /\ SameKept(w, x, ke)
      BY <1>7 DEF Turned, Onward
    <2>2. SameKept(w, w, kd)
      BY DEF SameKept
    <2> QED BY <1>4, <2>1, <2>2, KeptAfter, SettledIsTidy
  <1>10. CASE ok
    <2>1. NewLeaf(w, x, R, r, Vpn(v, 2), Vpn(v, 1), Vpn(v, 0), e)
      BY <1>7, <1>10 DEF Turned
    <2>2. OnePage(w, x, R, r, v, e)
      BY <1>1, <2>1, NewLeafOfPage
    <2> QED BY <1>2, <1>8, <1>9, <2>2 DEF Faulted
  <1>11. CASE ~ ok
    <2>1. SameLeaves(w, x, R) /\ (gr = {} \/ Lacking(w, r, Vpn(v, 2), Vpn(v, 1)))
      BY <1>7, <1>11 DEF Turned
    <2>2. SamePages(w, x, R)
      BY <1>1, <2>1, LeavesOfPages
    <2> QED BY <1>2, <1>8, <1>9, <2>1, <2>2 DEF Faulted
  <1> QED BY <1>10, <1>11

\* Writing one word and another page may be done in either order.
LEMMA Commute ==
    ASSUME NEW w \in [Frames -> [Indices -> Words]], NEW t \in Frames, NEW k \in Indices,
           NEW e \in Words, NEW g \in Frames, g # t, NEW p \in [Indices -> Words]
    PROVE  Stored(Overwritten(w, g, p), t, k, e) = Overwritten(Stored(w, t, k, e), g, p)
  <1>1. PICK x : x = Overwritten(w, g, p)
    OBVIOUS
  <1>2. PICK y : y = Stored(w, t, k, e)
    OBVIOUS
  <1>3. x \in [Frames -> [Indices -> Words]] /\ x[g] = p /\ \A h \in Frames : h # g => x[h] = w[h]
    BY <1>1 DEF Overwritten
  <1>4. /\ y \in [Frames -> [Indices -> Words]] /\ y[t] = [w[t] EXCEPT ![k] = e]
        /\ \A h \in Frames : h # t => y[h] = w[h]
    BY <1>2 DEF Stored
  <1>5. PICK a : a = Stored(x, t, k, e)
    OBVIOUS
  <1>6. PICK b : b = Overwritten(y, g, p)
    OBVIOUS
  <1>7. /\ a \in [Frames -> [Indices -> Words]] /\ a[t] = [x[t] EXCEPT ![k] = e]
        /\ \A h \in Frames : h # t => a[h] = x[h]
    BY <1>3, <1>5 DEF Stored
  <1>8. /\ b \in [Frames -> [Indices -> Words]] /\ b[g] = p
        /\ \A h \in Frames : h # g => b[h] = y[h]
    BY <1>4, <1>6 DEF Overwritten
  <1>9. \A h \in Frames : a[h] = b[h]
    <2>1. a[t] = b[t]
      BY <1>3, <1>4, <1>7, <1>8
    <2>2. a[g] = b[g]
      BY <1>3, <1>7, <1>8
    <2>3. \A h \in Frames : h # t /\ h # g => a[h] = b[h]
      BY <1>3, <1>4, <1>7, <1>8
    <2> QED BY <2>1, <2>2, <2>3
  <1>10. a = b
    BY <1>7, <1>8, <1>9
  <1> QED BY <1>1, <1>2, <1>5, <1>6, <1>10

\* With the tables there, a turn of create_mapping writes the leaf.
LEMMA MapPageInPlace ==
    ASSUME NEW w, NEW fr, fr \subseteq Frames, NEW r, NEW v, NEW a, NEW t,
           NEW i, NEW j, NEW k, i = Vpn(v, 2), j = Vpn(v, 1), k = Vpn(v, 0),
           Valid(w[r][i]), w[r][i].ppn = a, Valid(w[a][j]), w[a][j].ppn = t,
           a # Null, t # Null,
           NEW ppn, NEW bits, NEW e, e = [ppn |-> ppn, bits |-> bits],
           NEW x, x = Stored(w, t, k, e)
    PROVE  MapPage(Mem(w, fr), r, v, ppn, bits).mem = Mem(x, fr)
  <1>1. Descend(Mem(w, fr), r, i) = [mem |-> Mem(w, fr), next |-> a]
    BY DescendIs
  <1>2. Descend(Mem(w, fr), a, j) = [mem |-> Mem(w, fr), next |-> t]
    BY DescendIs
  <1>3. MapPage(Mem(w, fr), r, v, ppn, bits) =
           [mem |-> [Mem(w, fr) EXCEPT !.word[t][Vpn(v, 0)] = [ppn |-> ppn, bits |-> bits]],
            ok |-> TRUE]
    BY <1>1, <1>2, MapPageIs
  <1>4. [Mem(w, fr) EXCEPT !.word[t][Vpn(v, 0)] = [ppn |-> ppn, bits |-> bits]] = Mem(x, fr)
    BY DEF Mem, Stored
  <1> QED BY <1>3, <1>4

\* No task but the one with root r maps page g.
OnlyUnder(w, R, r, g) ==
    \A s \in R \ {Swapper}, u \in UserPages :
        Valid(LeafAt(w, s, u)) /\ LeafAt(w, s, u).ppn = g => s = r

\* A copy on write by the last task that maps the page: its frame is free before
\* the new one is mapped.  The tables are there, so none is taken.
LEMMA FaultReplaces ==
    ASSUME NEW w, NEW fr, NEW R, NEW kd, MemInv(w, fr, R, kd), Tidy(w, fr),
           NEW f, Lowest(f, fr), NEW r \in R, r # Swapper, NEW v \in UserPages,
           NEW bits \in SUBSET Bits, "V" \in bits,
           Valid(LeafAt(w, r, v)), NEW g, g = LeafAt(w, r, v).ppn,
           OnlyUnder(w, R, r, g), NEW p \in [Indices -> Words],
           NEW o, o = Overwritten(w, g, p), NEW gr, gr = (fr \ {f}) \cup {g},
           NEW e, e = [ppn |-> f, bits |-> bits],
           NEW m, m = MapPage(Mem(o, gr), r, v, f, bits).mem
    PROVE  Faulted(w, R, kd, r, v, e, m)
  <1>1. /\ f \in fr /\ fr \subseteq Frames /\ f \in Frames /\ Swapper \in R /\ DOMAIN kd = Frames
        /\ w \in [Frames -> [Indices -> Words]] /\ r \in Frames /\ R \subseteq Frames
    BY SwapperIn DEF Lowest
  <1>2. PICK hr : hr = fr \ {f}
    OBVIOUS
  <1>3. PICK ke : ke = Recast(kd, f, Page(v))
    OBVIOUS
  <1>4. /\ MemInv(w, hr, R, ke) /\ KindsKept(kd, ke) /\ ke[f] = Page(v)
        /\ \A h \in Frames : h # f => ke[h] = kd[h]
    <2>1. Page(v) # FreeKind
      BY PathKinds
    <2>2. ke[f] = Page(v) /\ \A h \in Frames : h # f => ke[h] = kd[h]
      BY <1>1, <1>3, RecastIs
    <2> QED BY <1>1, <1>2, <1>3, <2>1, <2>2, Taking
  <1>5. Settled(w, hr)
    BY <1>1, <1>2, TakenLowest
  <1>7. v \in Nat /\ Vpn(v, 2) \in RootIndices(r) /\ e \in Words /\ Valid(e)
    BY <1>1, UserIndex DEF Words, Valid
  <1>8. PICK i \in RootIndices(r), j \in Indices, k \in Indices :
            i = Vpn(v, 2) /\ j = Vpn(v, 1) /\ k = Vpn(v, 0)
    BY <1>7, VpnIndex
  <1>9. HasLeaf(w, r, i, j, k) /\ GoodPath(w, kd, r, i, j, k)
    BY <1>7, <1>8, WalkLeaf DEF MemInv, Paths
  <1>10. PICK a : a = DirOf(w, r, i)
    OBVIOUS
  <1>11. PICK t : t = TabOf(w, r, i, j)
    BY SMTT(30)
  <1>12. /\ HasTab(w, r, i, j)
         /\ a \in Frames /\ kd[a] = Dir(r, i) /\ Valid(w[r][i]) /\ w[r][i].ppn = a
         /\ t \in Frames /\ kd[t] = Tab(r, i, j) /\ Valid(w[a][j]) /\ w[a][j].ppn = t
    BY <1>9, <1>10, <1>11 DEF HasLeaf, HasTab, HasDir, GoodPath, DirOf, TabOf
  <1>13. g \in Frames /\ kd[g] = Page(v)
    BY UserLeafAt
  <1>14. kd[r] = RootKind /\ kd[f] = FreeKind
    BY <1>1 DEF MemInv, Kinded
  <1>15. g # r /\ g # a /\ g # t /\ g # f /\ t # f
    <2>1. /\ Dir(r, i) # Page(v) /\ Tab(r, i, j) # Page(v) /\ Page(v) # RootKind
          /\ Page(v) # FreeKind /\ Tab(r, i, j) # FreeKind
      BY KindsApart
    <2> QED BY <1>12, <1>13, <1>14, <2>1
  <1>18. gr = hr \cup {g}
    BY <1>2
  <1>19. \A h \in Frames : h # g => o[h] = w[h]
    BY <1>1 DEF Overwritten
  <1>20. PICK y : y = Stored(w, t, k, e)
    OBVIOUS
  <1>21. PICK x : x = Overwritten(y, g, p)
    OBVIOUS
  <1>22. m = Mem(x, gr)
    <2>1. gr \subseteq Frames /\ o[r] = w[r] /\ o[a] = w[a]
      BY <1>1, <1>2, <1>12, <1>13, <1>15, <1>18, <1>19
    <2>2. a # Null /\ t # Null
      BY <1>12, EmptyIs
    <2>3. Stored(o, t, k, e) = x
      <3>1. Stored(Overwritten(w, g, p), t, k, e) = Overwritten(Stored(w, t, k, e), g, p)
        <4>1. /\ w \in [Frames -> [Indices -> Words]] /\ t \in Frames /\ k \in Indices
              /\ e \in Words /\ g \in Frames /\ g # t /\ p \in [Indices -> Words]
          BY <1>1, <1>7, <1>12, <1>13, <1>15, <1>19
        <4> QED BY ONLY <4>1, Commute
      <3> QED BY <1>20, <1>21, <3>1, Zenon
    <2>4. Valid(o[r][i]) /\ o[r][i].ppn = a /\ Valid(o[a][j]) /\ o[a][j].ppn = t
      BY <1>12, <2>1
    <2>5. MapPage(Mem(o, gr), r, v, f, bits).mem = Mem(x, gr)
      BY ONLY <1>8, <2>1, <2>2, <2>3, <2>4, e = [ppn |-> f, bits |-> bits], MapPageInPlace
    <2> QED BY <2>5
  <1>23. /\ MemInv(y, hr, R, ke) /\ SameKept(w, y, ke)
         /\ NewLeaf(w, y, R, r, i, j, k, e)
    <2>1. UserLeaf(ke, i, j, k, e)
      BY <1>1, <1>4, <1>8 DEF UserLeaf, At
    <2> QED BY <1>4, <1>7, <1>11, <1>12, <1>20, <2>1, WriteLeaf
  <1>24. OnePage(w, y, R, r, v, e)
    <2>1. NewLeaf(w, y, R, r, Vpn(v, 2), Vpn(v, 1), Vpn(v, 0), e)
      BY <1>8, <1>23
    <2> QED BY <1>1, <2>1, NewLeafOfPage
  <1>25. ASSUME NEW s \in R \ {Swapper}, NEW l \in RootIndices(s), NEW q \in Indices,
                NEW n \in Indices, HasLeaf(y, s, l, q, n)
         PROVE  LeafOf(y, s, l, q, n).ppn # g
    <2>1. PICK u \in UserPages : LeafAt(y, s, u) = LeafOf(y, s, l, q, n) /\ Valid(LeafAt(y, s, u))
      BY <1>23, <1>25, LeafHasPage
    <2>2. CASE s = r /\ u = v
      BY <1>15, <1>24, <2>1, <2>2 DEF OnePage
    <2>3. CASE ~ (s = r /\ u = v)
      <3>1. LeafAt(y, s, u) = LeafAt(w, s, u)
        BY <1>24, <2>3 DEF OnePage
      <3>2. ASSUME LeafAt(w, s, u).ppn = g PROVE FALSE
        <4>1. s = r /\ Valid(LeafAt(w, s, u))
          BY <2>1, <3>1, <3>2 DEF OnlyUnder
        <4>2. kd[g] = Page(u)
          BY <3>2, <4>1, UserLeafAt
        <4>3. u = v
          BY <1>13, <4>2, KindsApart
        <4> QED BY <2>3, <4>1, <4>3
      <3> QED BY <2>1, <3>1, <3>2
    <2> QED BY <2>2, <2>3
  <1>26. ke[g] = Page(v) /\ NoLeafTo(y, R, g)
    BY <1>4, <1>13, <1>15, <1>25 DEF NoLeafTo
  <1>27. /\ \E kf : MemInv(x, gr, R, kf)
         /\ SameLeaves(y, x, R) /\ SameKept(y, x, ke)
         /\ g \notin hr /\ g \notin Image
         /\ \A h \in Frames : h # g => x[h] = y[h]
    <2>1. /\ MemInv(y, hr, R, ke) /\ g \in Frames /\ ke[g] = Page(v) /\ NoLeafTo(y, R, g)
          /\ p \in [Indices -> Words] /\ x = Overwritten(y, g, p)
      BY <1>13, <1>19, <1>21, <1>23, <1>26
    <2> QED BY ONLY <1>18, <2>1, FreePage
  <1>28. Tidy(x, gr)
    <2>1. \A h \in hr : x[h] = w[h]
      <3>1. \A h \in hr : h \in Frames /\ h # g /\ h # t
        <4>1. \A h \in hr : h \in fr /\ h \in Frames
          BY <1>1, <1>2
        <4>2. \A h \in fr : kd[h] = FreeKind
          BY <1>1 DEF MemInv, Kinded
        <4>3. Tab(r, i, j) # FreeKind
          BY PathKinds
        <4> QED BY <1>12, <1>27, <4>1, <4>2, <4>3
      <3>2. \A h \in Frames : h # t => y[h] = w[h]
        BY <1>1, <1>20 DEF Stored
      <3> QED BY <1>27, <3>1, <3>2
    <2>2. hr \subseteq Frames \ Image
      BY <1>2, SwapperIn
    <2>3. g \in Frames \ (Image \cup hr)
      BY <1>13, <1>27
    <2> QED BY <1>5, <1>18, <2>1, <2>2, <2>3, StaysTidy
  <1>29. SameKept(w, x, kd)
    <2>1. SameKept(w, x, ke)
      BY <1>23, <1>27 DEF SameKept
    <2>2. SameKept(w, w, kd)
      BY DEF SameKept
    <2> QED BY <1>4, <2>1, <2>2, KeptAfter
  <1>30. OnePage(w, x, R, r, v, e)
    <2>1. SamePages(y, x, R)
      BY <1>1, <1>27, LeavesOfPages
    <2>2. LeafAt(x, r, v) = LeafAt(y, r, v)
      BY <2>1 DEF SamePages
    <2>3. ASSUME NEW s \in R \ {Swapper}, NEW u \in UserPages, ~ (s = r /\ u = v)
          PROVE  LeafAt(x, s, u) = LeafAt(w, s, u)
      <3>1. LeafAt(x, s, u) = LeafAt(y, s, u)
        BY <2>1 DEF SamePages
      <3>2. LeafAt(y, s, u) = LeafAt(w, s, u)
        BY <1>24, <2>3 DEF OnePage
      <3> QED BY <3>1, <3>2
    <2>4. SameKernel(w, x)
      BY <1>24, <2>1 DEF OnePage, SamePages, SameKernel
    <2>5. LeafAt(y, r, v) = e
      BY <1>24 DEF OnePage
    <2> QED BY <2>2, <2>3, <2>4, <2>5 DEF OnePage
  <1>31. Faulted(w, R, kd, r, v, e, Mem(x, gr))
    BY <1>27, <1>28, <1>29, <1>30 DEF Faulted
  <1> QED BY <1>22, <1>31

-----------------------------------------------------------------------------
(* The fork.                                                               *)

\* A leaf without the W bit.
Faded(e) == [ppn |-> e.ppn, bits |-> e.bits \ {"W"}]

LEMMA FadedIs ==
    /\ Faded(Empty) = Empty
    /\ \A e \in Words : /\ Faded(e) \in Words /\ Faded(e).ppn = e.ppn
                        /\ Faded(e).bits = e.bits \ {"W"}
                        /\ Valid(Faded(e)) <=> Valid(e)
                        /\ Faded(Faded(e)) = Faded(e)
  <1>1. Faded(Empty) = Empty
    BY DEF Faded, Empty
  <1>2. ASSUME NEW e \in Words
        PROVE  /\ Faded(e) \in Words /\ Faded(e).ppn = e.ppn
               /\ Faded(e).bits = e.bits \ {"W"}
               /\ Valid(Faded(e)) <=> Valid(e)
               /\ Faded(Faded(e)) = Faded(e)
    BY DEF Faded, Words, Valid
  <1> QED BY <1>1, <1>2

LEMMA ClearWriteIs ==
    ASSUME NEW w \in [Frames -> [Indices -> Words]], NEW fr, NEW t \in Frames, NEW k \in Indices,
           NEW e, e = w[t][k]
    PROVE  ClearWrite(Mem(w, fr), t, k) = Mem(Stored(w, t, k, Faded(e)), fr)
  <1>1. e \in Words
    OBVIOUS
  <1>2. [e EXCEPT !.bits = e.bits \ {"W"}] = Faded(e)
    <2>1. PICK p, b : e = [ppn |-> p, bits |-> b]
      BY <1>1 DEF Words
    <2>2. e.ppn = p /\ e.bits = b
      BY <2>1
    <2>3. \A q, c, d : [[ppn |-> q, bits |-> c] EXCEPT !.bits = d] = [ppn |-> q, bits |-> d]
      OBVIOUS
    <2>4. [e EXCEPT !.bits = b \ {"W"}] = [ppn |-> p, bits |-> b \ {"W"}]
      BY ONLY <2>1, <2>3
    <2> QED BY <2>2, <2>4, Zenon DEF Faded
  <1>3. PICK m : m = Mem(w, fr)
    OBVIOUS
  <1>4. m.word = w /\ m = [word |-> w, free |-> fr]
    BY <1>3 DEF Mem
  <1>5. ClearWrite(m, t, k) = [m EXCEPT !.word = [w EXCEPT ![t] = [w[t] EXCEPT ![k] =
            [e EXCEPT !.bits = e.bits \ {"W"}]]]]
    BY <1>4, Zenon DEF ClearWrite
  <1>6. ClearWrite(m, t, k) = [m EXCEPT !.word = [w EXCEPT ![t] = [w[t] EXCEPT ![k] = Faded(e)]]]
    BY <1>2, <1>5, Zenon
  <1>7. Stored(w, t, k, Faded(e)) = [w EXCEPT ![t] = [w[t] EXCEPT ![k] = Faded(e)]]
    BY Zenon DEF Stored
  <1>8. \A a, b, c : [[word |-> a, free |-> b] EXCEPT !.word = c] = [word |-> c, free |-> b]
    OBVIOUS
  <1>9. [m EXCEPT !.word = Stored(w, t, k, Faded(e))] = Mem(Stored(w, t, k, Faded(e)), fr)
    <2>1. PICK c : c = Stored(w, t, k, Faded(e))
      OBVIOUS
    <2>2. [m EXCEPT !.word = c] = [word |-> c, free |-> fr]
      BY ONLY <1>4, <1>8
    <2> QED BY <2>1, <2>2, Zenon DEF Mem
  <1> QED BY <1>3, <1>6, <1>7, <1>9, Zenon

\* What the pages done so far look like, in the parent and in the child: w is the
\* memory when the child has just got its root.
Split(w, x, R, parent, child, done) ==
    /\ \A u \in UserPages : LeafAt(x, parent, u) =
          IF u \in done THEN Faded(LeafAt(w, parent, u)) ELSE LeafAt(w, parent, u)
    /\ \A u \in UserPages :
          \/ LeafAt(x, child, u) = Empty
          \/ /\ Valid(LeafAt(w, parent, u))
             /\ LeafAt(x, child, u) = Faded(LeafAt(w, parent, u))
    /\ \A s \in R \ {Swapper, parent, child}, u \in UserPages : LeafAt(x, s, u) = LeafAt(w, s, u)
    /\ SameKernel(w, x)

AfterShares(w, fr, kd, R, parent, child, done, m) ==
    \E x, gr, ke :
        /\ m = Mem(x, gr)
        /\ Onward(w, fr, kd, x, gr, ke, R)
        /\ Split(w, x, R, parent, child, done)

LEMMA OneShare ==
    ASSUME NEW w, NEW fr, NEW R, NEW kd, MemInv(w, fr, R, kd),
           NEW parent \in R \ {Swapper}, NEW child \in R \ {Swapper}, parent # child,
           NEW v \in UserPages, Walk(word, parent, v) = ToWalk(LeafAt(w, parent, v)),
           NEW done, NEW m, AfterShares(w, fr, kd, R, parent, child, done, m)
    PROVE  AfterShares(w, fr, kd, R, parent, child, done \cup {v}, Share(m, parent, child, v))
  <1>1. PICK x, gr, ke : /\ m = Mem(x, gr)
                         /\ Onward(w, fr, kd, x, gr, ke, R)
                         /\ Split(w, x, R, parent, child, done)
    BY DEF AfterShares
  <1>2. PICK e : e = LeafAt(w, parent, v)
    OBVIOUS
  <1>3. /\ v \in Nat /\ Vpn(v, 2) \in RootIndices(parent) /\ Vpn(v, 2) \in RootIndices(child)
    BY UserIndex
  <1>4. /\ e \in Words /\ (~ Valid(e) => e = Empty)
        /\ Walk(word, parent, v) # None <=> Valid(e)
    BY <1>2, <1>3, WalkLeaf
  <1>5. CASE ~ Valid(e)
    <2>1. Walk(word, parent, v) = None
      BY <1>4, <1>5
    <2>2. Share(m, parent, child, v) = m
      BY <2>1, Zenon DEF Share
    <2>3. Faded(LeafAt(w, parent, v)) = LeafAt(w, parent, v)
      BY <1>2, <1>4, <1>5, FadedIs
    <2>4. Split(w, x, R, parent, child, done \cup {v})
      BY <1>1, <2>3 DEF Split
    <2> QED BY <1>1, <2>2, <2>4 DEF AfterShares
  <1>6. CASE Valid(e)
    <2>1. MemInv(x, gr, R, ke) /\ Settled(x, gr)
      BY <1>1 DEF Onward
    <2>2. /\ x \in [Frames -> [Indices -> Words]] /\ gr \subseteq Frames /\ R \subseteq Frames
          /\ Swapper \in R
      BY <2>1, SwapperIn
    <2>3. PICK d : d = LeafAt(x, parent, v)
      OBVIOUS
    <2>4. /\ d \in Words /\ Valid(d) /\ Faded(d) = Faded(e) /\ d.ppn = e.ppn
      <3>1. d = e \/ d = Faded(e)
        BY <1>1, <1>2, <2>3 DEF Split
      <3> QED BY <1>4, <1>6, <3>1, FadedIs
    <2>5. PICK i \in RootIndices(parent), j \in Indices, k \in Indices :
              i = Vpn(v, 2) /\ j = Vpn(v, 1) /\ k = Vpn(v, 0)
      BY <1>3, VpnIndex
    <2>6. PICK t : t = TabOf(x, parent, i, j)
      OBVIOUS
    <2>7. HasLeaf(x, parent, i, j, k) /\ find_pte(x, parent, v) = t
      BY <1>3, <2>1, <2>3, <2>4, <2>5, <2>6, WalkLeaf
    <2>8. HasTab(x, parent, i, j) /\ x[t][k] = d
      BY <2>3, <2>5, <2>6, <2>7 DEF HasLeaf, LeafAt, LeafOf
    <2>9. e.ppn \in Frames /\ ke[e.ppn] = Page(v)
      BY <2>1, <2>3, <2>4, UserLeafAt
    <2>10. PICK y : y = Stored(x, t, k, Faded(e))
      OBVIOUS
    <2>11. /\ MemInv(y, gr, R, ke) /\ NewLeaf(x, y, R, parent, i, j, k, Faded(e))
           /\ SameKept(x, y, ke) /\ t \in Frames /\ ke[t] = Tab(parent, i, j)
      <3>1. Faded(e) \in Words /\ Valid(Faded(e)) /\ Faded(e).ppn = e.ppn
        BY <1>4, <1>6, FadedIs
      <3>2. UserLeaf(ke, i, j, k, Faded(e))
        BY <2>5, <2>9, <3>1 DEF UserLeaf, At
      <3> QED BY <2>1, <2>6, <2>8, <2>10, <3>1, <3>2, WriteLeaf
    <2>12. OnePage(x, y, R, parent, v, Faded(e))
      <3>1. NewLeaf(x, y, R, parent, Vpn(v, 2), Vpn(v, 1), Vpn(v, 0), Faded(e))
        BY <2>5, <2>11
      <3> QED BY <2>2, <3>1, NewLeafOfPage
    <2>13. Settled(y, gr)
      <3>1. \A f \in gr : f \in Frames /\ ke[f] = FreeKind
        BY <2>1, <2>2 DEF MemInv, Kinded
      <3>2. Tab(parent, i, j) # FreeKind
        BY PathKinds
      <3>3. \A f \in Frames : f # t => y[f] = x[f]
        BY <2>2, <2>10, <2>11 DEF Stored
      <3>4. \A f \in gr : y[f] = x[f]
        BY <2>11, <3>1, <3>2, <3>3
      <3> QED BY <2>1, <3>4, StaysSettled
    <2>14. Onward(w, fr, kd, y, gr, ke, R)
      <3>1. Onward(x, gr, ke, y, gr, ke, R)
        BY <2>11, <2>13 DEF Onward, KindsKept
      <3> QED BY <1>1, <3>1, OnwardAgain
    <2>15. PICK bits : bits = e.bits \ {"W"}
      OBVIOUS
    <2>16. /\ "V" \in bits /\ [ppn |-> e.ppn, bits |-> bits] \in Words
           /\ Faded(e) = [ppn |-> e.ppn, bits |-> bits]
      BY <1>4, <1>6, <2>15 DEF Faded, Words, Valid
    <2>17. PICK z, hr, kf, ok :
               Turned(y, gr, ke, R, child, v, e.ppn, bits, z, hr, kf, ok)
      BY <1>3, <2>9, <2>11, <2>13, <2>16, MapPageTurns
    <2>18. Share(m, parent, child, v) = Mem(z, hr)
      <3>1. ClearWrite(m, t, k) = Mem(y, gr)
        <4>1. ClearWrite(m, t, k) = Mem(Stored(x, t, k, Faded(d)), gr)
          BY <1>1, <2>2, <2>8, <2>11, ClearWriteIs, SMTT(30)
        <4> QED BY <2>4, <2>10, <4>1
      <3>2. MapPage(Mem(y, gr), child, v, e.ppn, bits).mem = Mem(z, hr)
        BY <2>17 DEF Turned
      <3>3. Walk(word, parent, v) = [frame |-> e.ppn, bits |-> e.bits]
        BY <1>2, <1>6 DEF ToWalk
      <3>4. Walk(word, parent, v).frame = e.ppn /\ Walk(word, parent, v).bits = e.bits
        BY <3>3
      <3>5. find_pte(m.word, parent, v) = t
        BY <1>1, <2>7 DEF Mem
      <3>6. Walk(word, parent, v) # None
        BY <1>4, <1>6
      <3>7. Share(m, parent, child, v) =
               MapPage(ClearWrite(m, find_pte(m.word, parent, v), Vpn(v, 0)), child, v,
                       Walk(word, parent, v).frame, Walk(word, parent, v).bits \ {"W"}).mem
        BY <3>6, Zenon DEF Share
      <3>8. Share(m, parent, child, v) =
               MapPage(ClearWrite(m, t, k), child, v, e.ppn, bits).mem
        BY <2>5, <2>15, <3>4, <3>5, <3>7, Zenon
      <3> QED BY <3>1, <3>2, <3>8
    <2>19. Onward(w, fr, kd, z, hr, kf, R)
      <3>1. Onward(y, gr, ke, z, hr, kf, R)
        BY <2>17 DEF Turned
      <3> QED BY <2>14, <3>1, OnwardAgain
    <2>20. OnePage(y, z, R, child, v, Faded(e)) \/ SamePages(y, z, R)
      <3>1. CASE ok
        <4>1. NewLeaf(y, z, R, child, Vpn(v, 2), Vpn(v, 1), Vpn(v, 0), Faded(e))
          BY <2>16, <2>17, <3>1 DEF Turned
        <4> QED BY <2>2, <4>1, NewLeafOfPage
      <3>2. CASE ~ ok
        <4>1. SameLeaves(y, z, R)
          BY <2>17, <3>2 DEF Turned
        <4> QED BY <2>2, <4>1, LeavesOfPages
      <3> QED BY <3>1, <3>2
    <2>21. Split(w, z, R, parent, child, done \cup {v})
      <3>1. \A u \in UserPages : LeafAt(z, parent, u) = LeafAt(y, parent, u)
        BY <2>20 DEF OnePage, SamePages
      <3>2. \A u \in UserPages : LeafAt(y, child, u) = LeafAt(x, child, u)
        BY <2>12 DEF OnePage
      <3>3. ASSUME NEW u \in UserPages
            PROVE  LeafAt(z, parent, u) = IF u \in done \cup {v} THEN Faded(LeafAt(w, parent, u))
                                          ELSE LeafAt(w, parent, u)
        <4>1. CASE u = v
          BY <1>2, <2>12, <3>1, <4>1 DEF OnePage
        <4>2. CASE u # v
          <5>1. LeafAt(y, parent, u) = LeafAt(x, parent, u)
            BY <2>12, <4>2 DEF OnePage
          <5> QED BY <1>1, <3>1, <4>2, <5>1 DEF Split
        <4> QED BY <4>1, <4>2
      <3>4. ASSUME NEW u \in UserPages
            PROVE  \/ LeafAt(z, child, u) = Empty
                   \/ /\ Valid(LeafAt(w, parent, u))
                      /\ LeafAt(z, child, u) = Faded(LeafAt(w, parent, u))
        <4>1. CASE u = v /\ OnePage(y, z, R, child, v, Faded(e))
          BY <1>2, <1>6, <4>1 DEF OnePage
        <4>2. CASE ~ (u = v /\ OnePage(y, z, R, child, v, Faded(e)))
          <5>1. LeafAt(z, child, u) = LeafAt(y, child, u)
            BY <2>20, <4>2 DEF OnePage, SamePages
          <5> QED BY <1>1, <3>2, <5>1 DEF Split
        <4> QED BY <4>1, <4>2
      <3>5. ASSUME NEW s \in R \ {Swapper, parent, child}, NEW u \in UserPages
            PROVE  LeafAt(z, s, u) = LeafAt(w, s, u)
        <4>1. LeafAt(z, s, u) = LeafAt(y, s, u)
          BY <2>20 DEF OnePage, SamePages
        <4>2. LeafAt(y, s, u) = LeafAt(x, s, u)
          BY <2>12 DEF OnePage
        <4>3. LeafAt(x, s, u) = LeafAt(w, s, u)
          BY <1>1 DEF Split
        <4> QED BY <4>1, <4>2, <4>3
      <3>6. SameKernel(w, z)
        <4>1. SameKernel(w, x) /\ SameKernel(x, y) /\ SameKernel(y, z)
          BY <1>1, <2>12, <2>20 DEF OnePage, SamePages, Split
        <4> QED BY <4>1 DEF SameKernel
      <3> QED BY <3>3, <3>4, <3>5, <3>6 DEF Split
    <2> QED BY <2>18, <2>19, <2>21 DEF AfterShares
  <1> QED BY <1>5, <1>6

\* All pages of the list.
Done(pages, n) == {pages[q] : q \in 1 .. n}

LEMMA AllShared ==
    ASSUME NEW w, NEW fr, NEW R, NEW kd, MemInv(w, fr, R, kd), Settled(w, fr),
           NEW parent \in R \ {Swapper}, NEW child \in R \ {Swapper}, parent # child,
           \A v \in UserPages : Walk(word, parent, v) = ToWalk(LeafAt(w, parent, v)),
           \A v \in UserPages : LeafAt(w, child, v) = Empty,
           NEW pages \in Seq(UserPages), NEW n, n = Len(pages)
    PROVE  AfterShares(w, fr, kd, R, parent, child, Done(pages, n),
                       Shared(Mem(w, fr), parent, child, pages)[n])
  <1>1. n \in Nat /\ \A q \in 1 .. n : pages[q] \in UserPages
    OBVIOUS
  <1>2. PICK g : g = Shared(Mem(w, fr), parent, child, pages)
    OBVIOUS
  <1>3. SharedHolds(g, Mem(w, fr), parent, child, pages, n)
    BY <1>2, SharedIs
  <1> DEFINE S == {k \in 0 .. n : AfterShares(w, fr, kd, R, parent, child, Done(pages, k), g[k])}
  <1>4. AfterShares(w, fr, kd, R, parent, child, Done(pages, 0), g[0])
    <2>1. g[0] = Mem(w, fr) /\ Onward(w, fr, kd, w, fr, kd, R)
      BY <1>3, OnwardItself DEF SharedHolds
    <2>2. \A u : u \notin Done(pages, 0)
      BY DEF Done
    <2>3. Split(w, w, R, parent, child, Done(pages, 0))
      BY <2>2 DEF Split, SameKernel
    <2> QED BY <2>1, <2>3 DEF AfterShares
  <1>5. ASSUME NEW k \in 1 .. n,
               AfterShares(w, fr, kd, R, parent, child, Done(pages, k - 1), g[k - 1])
        PROVE  AfterShares(w, fr, kd, R, parent, child, Done(pages, k), g[k])
    <2>1. g[k] = Share(g[k - 1], parent, child, pages[k]) /\ pages[k] \in UserPages
      BY <1>1, <1>3 DEF SharedHolds
    <2>2. Done(pages, k) = Done(pages, k - 1) \cup {pages[k]}
      <3>1. \A q : q \in 1 .. k <=> q \in 1 .. k - 1 \/ q = k
        BY <1>1
      <3> QED BY <3>1 DEF Done
    <2>3. Walk(word, parent, pages[k]) = ToWalk(LeafAt(w, parent, pages[k]))
      BY <2>1
    <2>4. PICK v \in UserPages : v = pages[k]
      BY <2>1
    <2>5. PICK m : m = g[k - 1]
      OBVIOUS
    <2>6. PICK done : done = Done(pages, k - 1)
      OBVIOUS
    <2>7. AfterShares(w, fr, kd, R, parent, child, done \cup {v}, Share(m, parent, child, v))
      BY <1>5, <2>3, <2>4, <2>5, <2>6, OneShare
    <2> QED BY <2>1, <2>2, <2>4, <2>5, <2>6, <2>7
  <1>6. 0 \in S /\ \A k \in 1 .. n : k - 1 \in S => k \in S
    BY <1>1, <1>4, <1>5
  <1>7. \A k \in 0 .. n : k \in S
    <2> HIDE DEF S
    <2> QED BY <1>1, <1>6, Upto
  <1>8. AfterShares(w, fr, kd, R, parent, child, Done(pages, n), g[n])
    BY <1>1, <1>7
  <1> QED BY <1>2, <1>8

-----------------------------------------------------------------------------
(* The invariant.                                                          *)

Roots == {pgd[t] : t \in Live} \cup {Swapper}

\* Memory once the kernel's own map is made.
Sound(w, fr, R) ==
    /\ \E kd : MemInv(w, fr, R, kd)
    /\ Tidy(w, fr)
    /\ w[EarlyDir] = EarlyTable
    /\ EnoughForKernel => AllMapped(w, Len(Sections))

\* Memory before.
Untouched(w, fr) ==
    /\ fr = Frames \ Image
    /\ w[EarlyDir] = EarlyTable
    /\ \A f \in fr : w[f] = EmptyPage

RootsApart ==
    /\ \A t \in Live : pgd[t] \in Frames \ Image
    /\ \A t, u \in Live : pgd[t] = pgd[u] => t = u

IInv ==
    /\ TypeOK /\ RootsApart
    /\ satp \in Roots \cup {EarlyDir}
    /\ satp = EarlyDir => Live = {} /\ Untouched(word, free)
    /\ satp # EarlyDir => Sound(word, free, Roots)

-----------------------------------------------------------------------------
(* The early table.                                                        *)

\* A gigabyte of the map that begins inside the memory.
LEMMA EarlyEntry ==
    ASSUME NEW n \in Int, 0 <= n, n * Huge < Ram * PageBytes
    PROVE  n * Fan * Fan \in Frames /\ n * Fan * Fan = n * (Fan * Fan)
  <1>1. Fan \in Nat \ {0} /\ PageBytes \in Nat \ {0} /\ Ram \in Nat
    BY SizesAssumption
  <1>2. PICK s \in Nat : s = n * (Fan * Fan)
    <2>1. Fan * Fan \in Nat /\ n \in Nat
      BY <1>1
    <2> DEFINE a == Fan * Fan
    <2>2. n * a \in Nat
      <3>1. a \in Nat
        BY <2>1
      <3> HIDE DEF a
      <3> QED BY <2>1, <3>1
    <2> QED BY <2>2
  <1>3. n * Fan * Fan = s /\ n * Huge = s * PageBytes
    <2>1. n * Fan * Fan = n * (Fan * Fan)
      BY <1>1
    <2>2. n * (PageBytes * Fan * Fan) = (n * (Fan * Fan)) * PageBytes
      BY <1>1
    <2> QED BY <1>2, <2>1, <2>2 DEF Huge
  <1>4. s * PageBytes < Ram * PageBytes
    BY <1>3
  <1>5. s + 1 <= Ram
    BY <1>1, <1>2, <1>4, Multiples
  <1> QED BY <1>1, <1>2, <1>3, <1>5 DEF Frames

LEMMA EarlyTableTyped == EarlyTable \in [Indices -> Words]
  <1>1. VmStart \div PageBytes \in Nat /\ Fan \in Nat \ {0}
    BY SizesAssumption, Division
  <1>2. Vpn(VmStart \div PageBytes, 2) \in Indices /\ Indices \subseteq Int
    BY <1>1, VpnIndex DEF Indices
  <1>3. ASSUME NEW n \in Int, 0 <= n, n * Huge < Ram * PageBytes
        PROVE  [ppn |-> n * Fan * Fan, bits |-> {"V", "R", "W", "X"}] \in Words
    <2>1. n * Fan * Fan \in Frames
      BY <1>3, EarlyEntry
    <2>2. {"V", "R", "W", "X"} \in SUBSET Bits
      BY DEF Bits
    <2> QED BY <2>1, <2>2 DEF Words
  <1>4. \A i \in Indices : i - Vpn(VmStart \div PageBytes, 2) \in Int
    <2>1. PICK h : h = Vpn(VmStart \div PageBytes, 2)
      OBVIOUS
    <2>2. h \in Int
      BY <1>2, <2>1
    <2>3. \A i \in Indices : i - h \in Int
      BY <1>2, <2>2
    <2> QED BY <2>1, <2>3
  <1>5. Empty \in Words
    BY EmptyIs
  <1>6. ASSUME NEW i \in Indices
        PROVE  (LET n == i - Vpn(VmStart \div PageBytes, 2) IN
                IF 0 <= n /\ n * Huge < Ram * PageBytes
                THEN [ppn |-> n * Fan * Fan, bits |-> {"V", "R", "W", "X"}] ELSE Empty) \in Words
    <2>1. PICK n \in Int : n = i - Vpn(VmStart \div PageBytes, 2)
      BY <1>4
    <2>2. (IF 0 <= n /\ n * Huge < Ram * PageBytes
           THEN [ppn |-> n * Fan * Fan, bits |-> {"V", "R", "W", "X"}] ELSE Empty) \in Words
      BY <1>3, <1>5
    <2> QED BY <2>1, <2>2, Zenon
  <1> QED BY <1>6, Zenon DEF EarlyTable

LEMMA InitInv == Init => IInv
  <1> SUFFICES ASSUME Init PROVE IInv
    OBVIOUS
  <1>1. /\ EarlyDir \in Frames /\ EarlyDir \in Image /\ Image \subseteq Frames
        /\ None \notin Frames
    BY SizesAssumption
  <1>2. EmptyPage \in [Indices -> Words] /\ EarlyTable \in [Indices -> Words]
    BY EmptyIs, EarlyTableTyped
  <1>3. word = [f \in Frames |-> IF f = EarlyDir THEN EarlyTable ELSE EmptyPage]
    BY DEF Init, EmptyPage
  <1>4. /\ word \in [Frames -> [Indices -> Words]]
        /\ word[EarlyDir] = EarlyTable
        /\ \A f \in Frames : f # EarlyDir => word[f] = EmptyPage
    BY <1>1, <1>2, <1>3
  <1>5. Live = {}
    BY DEF Init, Live
  <1>6. TypeOK
    BY <1>1, <1>4 DEF Init, TypeOK
  <1>7. Untouched(word, free)
    BY <1>1, <1>4 DEF Init, Untouched
  <1> QED BY <1>5, <1>6, <1>7 DEF Init, IInv, RootsApart

-----------------------------------------------------------------------------
(* What the handlers do.                                                   *)

LEMMA KernelKept ==
    ASSUME NEW w, NEW x, NEW n, SameKernel(w, x), AllMapped(w, n)
    PROVE  AllMapped(x, n)
  BY DEF SameKernel, AllMapped

LEMMA EarlyKept ==
    ASSUME NEW w, NEW x, NEW fr, NEW R, NEW kd, MemInv(w, fr, R, kd), SameKept(w, x, kd)
    PROVE  x[EarlyDir] = w[EarlyDir]
  BY SizesAssumption DEF MemInv, Kinded, SameKept

LEMMA StoreIs ==
    ASSUME NEW x, NEW fr
    PROVE  Store(Mem(x, fr)) <=> word' = x /\ free' = fr
  BY DEF Store, Mem

LEMMA OverwrittenMem ==
    ASSUME NEW w, NEW fr, NEW f, NEW p
    PROVE  [Mem(w, fr) EXCEPT !.word[f] = p] = Mem(Overwritten(w, f, p), fr)
  <1>1. PICK m : m = Mem(w, fr)
    OBVIOUS
  <1>2. m.word = w /\ m = [word |-> w, free |-> fr]
    BY <1>1 DEF Mem
  <1>3. [m EXCEPT !.word[f] = p] = [m EXCEPT !.word = [w EXCEPT ![f] = p]]
    BY <1>2, Zenon
  <1>4. \A a, b, c : [[word |-> a, free |-> b] EXCEPT !.word = c] = [word |-> c, free |-> b]
    OBVIOUS
  <1>5. PICK c : c = Overwritten(w, f, p)
    OBVIOUS
  <1>6. [m EXCEPT !.word = c] = [word |-> c, free |-> fr]
    BY ONLY <1>2, <1>4
  <1> QED BY <1>1, <1>3, <1>5, <1>6, Zenon DEF Overwritten, Mem

\* setup_vm_final
LEMMA SetupIs ==
    ASSUME IInv, setup_vm_final
    PROVE  Sound(word', free', {Swapper}) /\ Live = {}
  <1>1. satp = EarlyDir /\ Live = {} /\ Untouched(word, free) /\ TypeOK
    BY DEF IInv, setup_vm_final
  <1>2. PICK x : x = Overwritten(word, Swapper, EmptyPage)
    OBVIOUS
  <1>3. Swapper \in Frames /\ Swapper \in Image /\ EarlyDir \in Frames /\ EarlyDir # Swapper
    BY SizesAssumption
  <1>4. EmptyPage \in [Indices -> Words]
    BY EmptyIs
  <1>5. /\ x \in [Frames -> [Indices -> Words]] /\ x[Swapper] = EmptyPage
        /\ \A f \in Frames : f # Swapper => x[f] = word[f]
    BY <1>1, <1>2, <1>3, <1>4 DEF TypeOK, Overwritten
  <1>6. free = Frames \ Image
    BY <1>1 DEF Untouched
  <1>7. PICK kd : MemInv(x, free, {Swapper}, kd) /\ Plenty(x, free, kd)
    BY <1>5, <1>6, CleanMemory
  <1>8. Settled(x, free)
    <2>1. \A f \in free : x[f] = EmptyPage
      BY <1>1, <1>3, <1>5, <1>6 DEF Untouched
    <2>2. Frames \ (Image \cup free) = {}
      BY <1>6
    <2> QED BY <2>1, <2>2 DEF Settled
  <1>9. PICK m : m = Mapped(Mem(x, free))[Len(Sections)]
    OBVIOUS
  <1>10. AfterSections(x, free, kd, m, Len(Sections))
    BY <1>7, <1>8, <1>9, SectionsMapped
  <1>11. PICK y, gr, ke : /\ m = Mem(y, gr)
                          /\ Onward(x, free, kd, y, gr, ke, {Swapper})
                          /\ EnoughForKernel => AllMapped(y, Len(Sections))
    BY <1>7, <1>10 DEF AfterSections
  <1>12. word' = y /\ free' = gr
    <2>1. [Memory EXCEPT !.word[Swapper] = [i \in Indices |-> Empty]] = Mem(x, free)
      BY <1>2, OverwrittenMem DEF EmptyPage, Memory, Mem
    <2>2. Store(m)
      BY <1>9, <2>1, Zenon DEF setup_vm_final
    <2> QED BY <1>11, <2>2, StoreIs
  <1>13. y[EarlyDir] = EarlyTable
    <2>1. y[EarlyDir] = x[EarlyDir]
      BY <1>7, <1>11, EarlyKept DEF Onward
    <2> QED BY <1>1, <1>3, <1>5, <2>1 DEF Untouched
  <1> QED BY <1>1, <1>11, <1>12, <1>13, SettledIsTidy DEF Sound, Onward

\* A task gets its root: the lowest free page, with the kernel's entries.
WithRoot(w, x, R, f) ==
    /\ f \in Frames \ Image /\ f \notin R
    /\ SamePages(w, x, R)
    /\ \A v \in UserPages : LeafAt(x, f, v) = Empty

LEMMA NewRoot ==
    ASSUME NEW w, NEW fr, NEW R, NEW kd, MemInv(w, fr, R, kd), Tidy(w, fr), fr # {},
           w[EarlyDir] = EarlyTable
    PROVE  \E f, x, hr :
              /\ kalloc(Mem(w, fr)).page = f /\ f # Null
              /\ CopySwapper(kalloc(Mem(w, fr)).mem, f) = Mem(x, hr)
              /\ WithRoot(w, x, R, f)
              /\ Settled(x, hr)
              /\ x[EarlyDir] = EarlyTable
              /\ \E ke : MemInv(x, hr, R \cup {f}, ke)
  <1>1. fr \subseteq Frames /\ Swapper \in R
    BY SwapperIn
  <1>2. PICK f : /\ Lowest(f, fr)
                 /\ kalloc(Mem(w, fr)) = [mem |-> Mem(w, fr \ {f}), page |-> f]
    BY <1>1, KallocIs
  <1>3. f \in fr
    BY <1>2 DEF Lowest
  <1>p. PICK p : p = w[Swapper]
    OBVIOUS
  <1>4. PICK x : x = Overwritten(w, f, p)
    OBVIOUS
  <1>5. PICK hr : hr = fr \ {f}
    OBVIOUS
  <1>6. CopySwapper(kalloc(Mem(w, fr)).mem, f) = Mem(x, hr)
    <2>1. kalloc(Mem(w, fr)).mem = Mem(w, hr)
      BY <1>2, <1>5
    <2>2. Mem(w, hr).word = w
      BY DEF Mem
    <2>3. PICK m : m = Mem(w, hr)
      OBVIOUS
    <2>4. CopySwapper(m, f) = [m EXCEPT !.word[f] = p]
      BY <1>p, <2>2, <2>3, Zenon DEF CopySwapper
    <2> QED BY <1>4, <2>1, <2>3, <2>4, OverwrittenMem
  <1>7. PICK ke : ke = Recast(kd, f, RootKind)
    OBVIOUS
  <1>8. PICK S : S = R \cup {f}
    OBVIOUS
  <1>9. /\ MemInv(x, hr, S, ke)
        /\ SameLeaves(w, x, R) /\ SameKept(w, x, kd)
        /\ f \notin R /\ f \in Frames \ Image
        /\ Beside(w, x, f) /\ NoUserLeaf(x, f)
    BY ONLY MemInv(w, fr, R, kd), <1>3, <1>p, <1>4, <1>5, <1>7, <1>8, AddRoot, SMTT(30)
  <1>10. Settled(x, hr)
    <2>1. Settled(w, hr)
      BY <1>1, <1>2, <1>5, TakenLowest
    <2>2. \A g \in hr : x[g] = w[g]
      BY <1>1, <1>5, <1>9 DEF Beside
    <2> QED BY <2>1, <2>2, StaysSettled
  <1>11. x[EarlyDir] = EarlyTable
    BY <1>9, EarlyKept
  <1>12. WithRoot(w, x, R, f)
    <2>1. SamePages(w, x, R)
      BY <1>1, <1>9, LeavesOfPages
    <2>2. f # Swapper
      BY <1>1, <1>9
    <2>3. ASSUME NEW v \in UserPages PROVE LeafAt(x, f, v) = Empty
      <3>1. Vpn(v, 2) \in RootIndices(f) /\ Vpn(v, 1) \in Indices /\ Vpn(v, 0) \in Indices
        BY <2>2, PageIndices
      <3>2. Vpn(v, 2) \in UserIndices(2)
        BY <2>2, <3>1 DEF RootIndices
      <3> QED BY <1>9, <3>1, <3>2 DEF LeafAt, NoUserLeaf
    <2> QED BY <1>9, <2>1, <2>3 DEF WithRoot
  <1>13. kalloc(Mem(w, fr)).page = f /\ f # Null
    BY <1>2, <1>9, EmptyIs
  <1> QED BY <1>6, <1>8, <1>9, <1>10, <1>11, <1>12, <1>13

LEMMA RootFacts ==
    ASSUME IInv
    PROVE  /\ Swapper \in Roots /\ EarlyDir # Swapper
           /\ \A t \in Live : pgd[t] \in Roots \ {Swapper} /\ pgd[t] # EarlyDir /\ pgd[t] # None
           /\ \A s \in Roots \ {Swapper} : \E t \in Live : s = pgd[t]
  <1>1. Swapper \in Image /\ EarlyDir \in Image /\ EarlyDir # Swapper
    BY SizesAssumption
  <1>2. \A t \in Live : pgd[t] \notin Image /\ pgd[t] # None
    BY DEF IInv, RootsApart, Live
  <1> QED BY <1>1, <1>2 DEF Roots

\* task_init
LEMMA TaskInitIs ==
    ASSUME IInv, NEW t \in Tasks, task_init(t)
    PROVE  \E f : /\ pgd' = [pgd EXCEPT ![t] = f] /\ satp' = satp /\ satp # EarlyDir
                  /\ t \notin Live
                  /\ WithRoot(word, word', Roots, f)
                  /\ Sound(word', free', Roots \cup {f})
  <1>1. satp = Swapper /\ t \notin Live /\ satp' = satp
    BY DEF task_init
  <1>2. Sound(word, free, Roots) /\ satp # EarlyDir
    BY <1>1, RootFacts DEF IInv
  <1>3. PICK kd : MemInv(word, free, Roots, kd)
    BY <1>2 DEF Sound
  <1>4. Memory = Mem(word, free)
    BY DEF Memory, Mem
  <1>5. PICK a : a = kalloc(Memory)
    OBVIOUS
  <1>6. /\ a.page # Null /\ Store(CopySwapper(a.mem, a.page))
        /\ pgd' = [pgd EXCEPT ![t] = a.page]
    BY <1>5, Zenon DEF task_init
  <1>7. free # {}
    <2>1. free \subseteq Frames
      BY <1>3, SwapperIn
    <2>2. free = {} => kalloc(Mem(word, free)).page = Null
      BY <2>1, KallocIs
    <2> QED BY <1>4, <1>5, <1>6, <2>2
  <1>8. PICK f, x, hr :
            /\ kalloc(Mem(word, free)).page = f /\ f # Null
            /\ CopySwapper(kalloc(Mem(word, free)).mem, f) = Mem(x, hr)
            /\ WithRoot(word, x, Roots, f)
            /\ Settled(x, hr)
            /\ x[EarlyDir] = EarlyTable
            /\ \E ke : MemInv(x, hr, Roots \cup {f}, ke)
    BY <1>2, <1>3, <1>7, NewRoot DEF Sound
  <1>9. a.page = f /\ word' = x /\ free' = hr
    BY <1>4, <1>5, <1>6, <1>8, StoreIs
  <1>10. Sound(x, hr, Roots \cup {f})
    <2>1. SameKernel(word, x)
      BY <1>8 DEF WithRoot, SamePages
    <2>2. EnoughForKernel => AllMapped(x, Len(Sections))
      BY <1>2, <2>1, KernelKept DEF Sound
    <2> QED BY <1>8, <2>2, SettledIsTidy DEF Sound
  <1> QED BY <1>1, <1>2, <1>6, <1>8, <1>9, <1>10

\* do_fork
Forked(w, x, R, parent, child) ==
    /\ \A v \in UserPages : LeafAt(x, parent, v) = Faded(LeafAt(w, parent, v))
    /\ \A v \in UserPages :
          \/ LeafAt(x, child, v) = Empty
          \/ /\ Valid(LeafAt(w, parent, v))
             /\ LeafAt(x, child, v) = Faded(LeafAt(w, parent, v))
    /\ \A s \in R \ {Swapper, parent}, v \in UserPages : LeafAt(x, s, v) = LeafAt(w, s, v)
    /\ SameKernel(w, x)

LEMMA ForkIs ==
    ASSUME IInv, NEW t \in Tasks, NEW u \in Tasks, NEW pages \in Orders, do_fork(t, u, pages)
    PROVE  \E f : /\ pgd' = [pgd EXCEPT ![u] = f] /\ satp' = satp /\ satp # EarlyDir
                  /\ t \in Live /\ u \notin Live
                  /\ f \in Frames \ Image /\ f \notin Roots
                  /\ Forked(word, word', Roots, pgd[t], f)
                  /\ Sound(word', free', Roots \cup {f})
  <1>1. t \in Live /\ u \notin Live /\ satp' = satp /\ free # {} /\ pgd[t] = satp
    BY DEF do_fork, Current
  <1>2. Sound(word, free, Roots) /\ satp # EarlyDir
    BY <1>1, RootFacts DEF IInv
  <1>3. PICK kd : MemInv(word, free, Roots, kd)
    BY <1>2 DEF Sound
  <1>4. Memory = Mem(word, free)
    BY DEF Memory, Mem
  <1>5. PICK a : a = kalloc(Memory)
    OBVIOUS
  <1>6. /\ Store(Shared(CopySwapper(a.mem, a.page), pgd[t], a.page, pages)[Len(pages)])
        /\ pgd' = [pgd EXCEPT ![u] = a.page]
    BY <1>5, Zenon DEF do_fork
  <1>7. PICK f, x, hr :
            /\ kalloc(Mem(word, free)).page = f /\ f # Null
            /\ CopySwapper(kalloc(Mem(word, free)).mem, f) = Mem(x, hr)
            /\ WithRoot(word, x, Roots, f)
            /\ Settled(x, hr)
            /\ x[EarlyDir] = EarlyTable
            /\ \E ke : MemInv(x, hr, Roots \cup {f}, ke)
    BY <1>1, <1>2, <1>3, NewRoot DEF Sound
  <1>8. PICK S : S = Roots \cup {f}
    OBVIOUS
  <1>9. PICK ke : MemInv(x, hr, S, ke)
    BY <1>7, <1>8
  <1>10. PICK p : p = pgd[t]
    OBVIOUS
  <1>11. /\ p \in Roots \ {Swapper} /\ f \notin Roots /\ f \in Frames \ Image
         /\ Swapper \in Roots
    BY <1>1, <1>7, <1>10, RootFacts DEF WithRoot
  <1>12. p \in S \ {Swapper} /\ f \in S \ {Swapper} /\ p # f
    BY <1>8, <1>11
  <1>13. ASSUME NEW v \in UserPages
         PROVE  Walk(word, p, v) = ToWalk(LeafAt(x, p, v))
    <2>1. v \in Nat /\ Vpn(v, 2) \in RootIndices(p)
      BY <1>11, UserIndex
    <2>2. Walk(word, p, v) = ToWalk(LeafAt(word, p, v))
      BY <1>3, <1>11, <2>1, WalkLeaf
    <2>3. LeafAt(x, p, v) = LeafAt(word, p, v)
      BY <1>7, <1>11 DEF WithRoot, SamePages
    <2> QED BY <2>2, <2>3
  <1>14. \A v \in UserPages : LeafAt(x, f, v) = Empty
    BY <1>7 DEF WithRoot
  <1>15. pages \in Seq(UserPages) /\ {pages[n] : n \in DOMAIN pages} = UserPages
    BY PagesAssumption
  <1>16. PICK n : n = Len(pages)
    OBVIOUS
  <1>17. PICK m : m = Shared(Mem(x, hr), p, f, pages)[n]
    OBVIOUS
  <1>18. AfterShares(x, hr, ke, S, p, f, Done(pages, n), m)
    BY <1>7, <1>9, <1>12, <1>13, <1>14, <1>15, <1>16, <1>17, AllShared
  <1>19. Done(pages, n) = UserPages
    <2>1. DOMAIN pages = 1 .. n
      BY <1>15, <1>16
    <2> QED BY <1>15, <2>1 DEF Done
  <1>20. PICK y, gr, kf : /\ m = Mem(y, gr)
                          /\ Onward(x, hr, ke, y, gr, kf, S)
                          /\ Split(x, y, S, p, f, UserPages)
    BY <1>18, <1>19 DEF AfterShares
  <1>21. a.page = f /\ word' = y /\ free' = gr
    <2>1. a.page = f /\ CopySwapper(a.mem, a.page) = Mem(x, hr)
      BY <1>4, <1>5, <1>7
    <2>2. Store(m)
      BY <1>6, <1>10, <1>16, <1>17, <2>1
    <2> QED BY <1>20, <2>1, <2>2, StoreIs
  <1>22. SamePages(word, x, Roots)
    BY <1>7 DEF WithRoot
  <1>23. Forked(word, y, Roots, p, f)
    <2>1. \A v \in UserPages : LeafAt(x, p, v) = LeafAt(word, p, v)
      BY <1>11, <1>22 DEF SamePages
    <2>2. \A v \in UserPages : LeafAt(y, p, v) = Faded(LeafAt(word, p, v))
      BY <1>20, <2>1 DEF Split
    <2>3. \A v \in UserPages :
             \/ LeafAt(y, f, v) = Empty
             \/ /\ Valid(LeafAt(word, p, v))
                /\ LeafAt(y, f, v) = Faded(LeafAt(word, p, v))
      BY <1>20, <2>1 DEF Split
    <2>4. ASSUME NEW s \in Roots \ {Swapper, p}, NEW v \in UserPages
          PROVE  LeafAt(y, s, v) = LeafAt(word, s, v)
      <3>1. s \in S \ {Swapper, p, f} /\ s \in Roots \ {Swapper}
        BY <1>8, <1>11
      <3>2. LeafAt(y, s, v) = LeafAt(x, s, v)
        BY <1>20, <3>1 DEF Split
      <3>3. LeafAt(x, s, v) = LeafAt(word, s, v)
        BY <1>22, <3>1 DEF SamePages
      <3> QED BY <3>2, <3>3
    <2>5. SameKernel(word, y)
      <3>1. SameKernel(word, x) /\ SameKernel(x, y)
        BY <1>20, <1>22 DEF SamePages, Split
      <3> QED BY <3>1 DEF SameKernel
    <2> QED BY <2>2, <2>3, <2>4, <2>5 DEF Forked
  <1>24. Sound(y, gr, S)
    <2>1. MemInv(y, gr, S, kf) /\ Settled(y, gr) /\ SameKept(x, y, ke)
      BY <1>20 DEF Onward
    <2>2. y[EarlyDir] = EarlyTable
      BY <1>7, <1>9, <2>1, EarlyKept
    <2>3. EnoughForKernel => AllMapped(y, Len(Sections))
      BY <1>2, <1>23, KernelKept DEF Sound, Forked
    <2> QED BY <2>1, <2>2, <2>3, SettledIsTidy DEF Sound
  <1> QED BY <1>1, <1>2, <1>6, <1>8, <1>10, <1>11, <1>21, <1>23, <1>24

LEMMA TwoElements ==
    ASSUME NEW S, IsFiniteSet(S), NEW a \in S, NEW b \in S, a # b
    PROVE  Cardinality(S) > 1
  <1>1. IsFiniteSet({}) /\ Cardinality({}) = 0
    BY FS_EmptySet
  <1>2. IsFiniteSet({a}) /\ Cardinality({a}) = 1
    BY FS_Singleton
  <1>3. IsFiniteSet({a} \cup {b}) /\ Cardinality({a} \cup {b}) = 2
    <2>1. b \notin {a}
      OBVIOUS
    <2> QED BY <1>2, <2>1, FS_AddElement
  <1>4. {a} \cup {b} \subseteq S
    OBVIOUS
  <1>5. Cardinality({a} \cup {b}) <= Cardinality(S) /\ Cardinality(S) \in Nat
    BY <1>4, FS_Subset, FS_CardinalityType
  <1> QED BY <1>3, <1>5

\* The last mapper of a frame is its only one.
LEMMA LastMapper ==
    ASSUME IInv, satp # EarlyDir, NEW t \in Live, NEW v \in UserPages, NEW g,
           Valid(LeafAt(word, pgd[t], v)), g = LeafAt(word, pgd[t], v).ppn,
           ~ (Cardinality(Mappers(g)) > 1),
           NEW s \in Roots \ {Swapper}, NEW u \in UserPages,
           Valid(LeafAt(word, s, u)), LeafAt(word, s, u).ppn = g
    PROVE  s = pgd[t]
  <1>1. PICK kd : MemInv(word, free, Roots, kd)
    BY DEF IInv, Sound
  <1>2. ASSUME NEW x \in Live, NEW p \in UserPages, Valid(LeafAt(word, pgd[x], p)),
               LeafAt(word, pgd[x], p).ppn = g
        PROVE  x \in Mappers(g)
    <2>1. pgd[x] \in Roots \ {Swapper}
      BY RootFacts
    <2>2. p \in Nat /\ Vpn(p, 2) \in RootIndices(pgd[x])
      BY <2>1, UserIndex
    <2>3. Walk(word, pgd[x], p) = ToWalk(LeafAt(word, pgd[x], p)) /\ Walk(word, pgd[x], p) # None
      BY <1>1, <1>2, <2>1, <2>2, WalkLeaf
    <2>4. Walk(word, pgd[x], p).frame = g
      BY <1>2, <2>3 DEF ToWalk
    <2> QED BY <2>3, <2>4 DEF Mappers
  <1>3. PICK y \in Live : s = pgd[y]
    BY RootFacts
  <1>4. y \in Mappers(g) /\ t \in Mappers(g)
    BY <1>2, <1>3
  <1>5. IsFiniteSet(Mappers(g))
    <2>1. Mappers(g) \subseteq Tasks
      BY DEF Mappers, Live
    <2> QED BY <2>1, PagesAssumption, FS_Subset
  <1>6. y = t
    BY <1>4, <1>5, TwoElements
  <1> QED BY <1>3, <1>6

\* do_page_fault
LEMMA FaultIs ==
    ASSUME IInv, NEW t \in Tasks, NEW v \in UserPages, NEW d \in UserWords \cup {Empty},
           do_page_fault(t, v, d)
    PROVE  /\ pgd' = pgd /\ satp' = satp /\ t \in Live /\ satp # EarlyDir /\ t \in Current
           /\ Sound(word', free', Roots)
           /\ \/ \E f \in free : OnePage(word, word', Roots, pgd[t], v,
                                         [ppn |-> f, bits |-> Vma[v] \cup {"U", "V"}])
              \/ SamePages(word, word', Roots) /\ free' = {}
  <1>1. /\ t \in Live /\ t \in Current /\ pgd' = pgd /\ satp' = satp /\ free # {} /\ pgd[t] = satp
        /\ ~ WalkLost(pgd[t], v)
    BY DEF do_page_fault, Current
  <1>2. Sound(word, free, Roots) /\ satp # EarlyDir /\ pgd[t] \in Roots \ {Swapper}
    BY <1>1, RootFacts DEF IInv
  <1>3. PICK kd : MemInv(word, free, Roots, kd)
    BY <1>2 DEF Sound
  <1>4. Memory = Mem(word, free) /\ Tidy(word, free) /\ free \subseteq Frames
    BY <1>2, <1>3, SwapperIn DEF Memory, Mem, Sound
  <1>5. PICK f : /\ Lowest(f, free)
                 /\ kalloc(Memory) = [mem |-> Mem(word, free \ {f}), page |-> f]
    BY <1>1, <1>4, KallocIs
  <1>6. PICK bits : bits = Vma[v] \cup {"U", "V"}
    OBVIOUS
  <1>7. bits \in SUBSET Bits /\ "V" \in bits
    <2>1. Vma[v] \in SUBSET Bits
      BY PagesAssumption
    <2> QED BY <1>6, <2>1 DEF Bits
  <1>8. PICK r \in Roots : r = pgd[t] /\ r # Swapper
    BY <1>2
  <1>9. PICK e : e = LeafAt(word, r, v)
    OBVIOUS
  <1>10. /\ Walk(word, r, v) = ToWalk(e) /\ (Walk(word, r, v) # None <=> Valid(e))
    <2>1. v \in Nat /\ Vpn(v, 2) \in RootIndices(r)
      BY <1>8, UserIndex
    <2> QED BY <1>3, <1>9, <2>1, WalkLeaf
  <1>11. PICK a : a = kalloc(Memory)
    OBVIOUS
  <1>12. a.mem = Mem(word, free \ {f}) /\ a.page = f
    BY <1>5, <1>11
  <1>13. PICK m : m = IF Walk(word, r, v) # None
                      THEN PutPage(a.mem, Walk(word, r, v).frame, d) ELSE a.mem
    OBVIOUS
  <1>14. Store(MapPage(m, r, v, f, bits).mem)
    BY <1>6, <1>8, <1>11, <1>12, <1>13, Zenon DEF do_page_fault
  <1>15. Faulted(word, Roots, kd, r, v, [ppn |-> f, bits |-> bits], MapPage(m, r, v, f, bits).mem)
    <2>1. CASE m = a.mem
      BY <1>3, <1>4, <1>5, <1>7, <1>8, <1>12, <2>1, FaultMaps
    <2>2. CASE m # a.mem
      <3>1. Valid(e) /\ Walk(word, r, v) # None
        BY <1>10, <1>13, <2>2
      <3>2. PICK g : g = e.ppn
        OBVIOUS
      <3>3. Walk(word, r, v).frame = g
        BY <1>10, <3>1, <3>2 DEF ToWalk
      <3>4. m = PutPage(a.mem, g, d)
        BY <1>13, <3>1, <3>3
      <3>5. ~ (Cardinality(Mappers(g)) > 1)
        BY <2>2, <3>4 DEF PutPage
      <3>6. PICK p : p = [i \in Indices |-> d]
        OBVIOUS
      <3>7. m = Mem(Overwritten(word, g, p), (free \ {f}) \cup {g})
        <4>1. PICK hr : hr = free \ {f}
          OBVIOUS
        <4>2. a.mem = [word |-> word, free |-> hr] /\ a.mem.word = word /\ a.mem.free = hr
          BY <1>12, <4>1 DEF Mem
        <4>3. PutPage(a.mem, g, d) =
                 [a.mem EXCEPT !.free = hr \cup {g}, !.word = [word EXCEPT ![g] = p]]
          BY <3>5, <3>6, <4>2, Zenon DEF PutPage
        <4>4. /\ \A x, y, z : [[word |-> x, free |-> y] EXCEPT !.free = z] = [word |-> x, free |-> z]
              /\ \A x, y, z : [[word |-> x, free |-> y] EXCEPT !.word = z] = [word |-> z, free |-> y]
          OBVIOUS
        <4>5. PICK z, o : z = hr \cup {g} /\ o = [word EXCEPT ![g] = p]
          OBVIOUS
        <4>6. [a.mem EXCEPT !.free = z, !.word = o] = [word |-> o, free |-> z]
          <5>1. [a.mem EXCEPT !.free = z, !.word = o] = [[a.mem EXCEPT !.free = z] EXCEPT !.word = o]
            OBVIOUS
          <5>2. [a.mem EXCEPT !.free = z] = [word |-> word, free |-> z]
            BY ONLY <4>2, <4>4
          <5>3. [[word |-> word, free |-> z] EXCEPT !.word = o] = [word |-> o, free |-> z]
            BY ONLY <4>4
          <5> QED BY <5>1, <5>2, <5>3, Zenon
        <4>7. m = [word |-> o, free |-> z]
          BY <3>4, <4>3, <4>5, <4>6, Zenon
        <4> QED BY <4>1, <4>5, <4>7, Zenon DEF Mem, Overwritten
      <3>8. OnlyUnder(word, Roots, r, g)
        <4>1. ASSUME NEW s \in Roots \ {Swapper}, NEW u \in UserPages,
                     Valid(LeafAt(word, s, u)), LeafAt(word, s, u).ppn = g
              PROVE  s = r
          <5>1. Valid(LeafAt(word, pgd[t], v)) /\ g = LeafAt(word, pgd[t], v).ppn
            BY <1>8, <1>9, <3>1, <3>2
          <5>2. s = pgd[t]
            BY <1>1, <1>2, <3>5, <4>1, <5>1, LastMapper
          <5> QED BY <1>8, <5>2
        <4> QED BY <4>1 DEF OnlyUnder
      <3>9. p \in [Indices -> Words]
        <4>1. d \in Words
          BY PagesAssumption, EmptyIs
        <4> QED BY <3>6, <4>1
      <3>10. Valid(LeafAt(word, r, v)) /\ g = LeafAt(word, r, v).ppn
        BY <1>9, <3>1, <3>2
      <3>11. PICK o, gr : o = Overwritten(word, g, p) /\ gr = (free \ {f}) \cup {g}
        OBVIOUS
      <3>12. PICK n, l : l = [ppn |-> f, bits |-> bits] /\ n = MapPage(Mem(o, gr), r, v, f, bits).mem
        OBVIOUS
      <3>13. Faulted(word, Roots, kd, r, v, l, n)
        BY <1>3, <1>4, <1>5, <1>7, <1>8, <3>8, <3>9, <3>10, <3>11, <3>12, FaultReplaces
      <3> QED BY <3>7, <3>11, <3>12, <3>13
    <2> QED BY <2>1, <2>2
  <1>16. PICK x, gr :
            /\ MapPage(m, r, v, f, bits).mem = Mem(x, gr)
            /\ (\E ke : MemInv(x, gr, Roots, ke)) /\ Tidy(x, gr) /\ SameKept(word, x, kd)
            /\ \/ OnePage(word, x, Roots, r, v, [ppn |-> f, bits |-> bits])
               \/ /\ SamePages(word, x, Roots)
                  /\ gr = {} \/ Lacking(word, r, Vpn(v, 2), Vpn(v, 1))
    BY <1>15 DEF Faulted
  <1>17. word' = x /\ free' = gr
    BY <1>14, <1>16, StoreIs
  <1>18. ~ Lacking(word, r, Vpn(v, 2), Vpn(v, 1))
    BY <1>1, <1>8, Zenon DEF Lacking, WalkLost, DirOf
  <1>19. Sound(x, gr, Roots)
    <2>1. SameKernel(word, x)
      BY <1>16 DEF OnePage, SamePages
    <2>2. EnoughForKernel => AllMapped(x, Len(Sections))
      BY <1>2, <2>1, KernelKept DEF Sound
    <2>3. x[EarlyDir] = EarlyTable
      BY <1>2, <1>3, <1>16, EarlyKept DEF Sound
    <2> QED BY <1>16, <2>2, <2>3 DEF Sound
  <1>20. f \in free
    BY <1>5 DEF Lowest
  <1> QED BY <1>1, <1>2, <1>6, <1>8, <1>16, <1>17, <1>18, <1>19, <1>20

-----------------------------------------------------------------------------
(* The invariant holds.                                                    *)

LEMMA SoundTyped ==
    ASSUME NEW w, NEW fr, NEW R, Sound(w, fr, R)
    PROVE  w \in [Frames -> [Indices -> Words]] /\ fr \subseteq Frames \ Image
  <1>1. PICK kd : MemInv(w, fr, R, kd)
    BY DEF Sound
  <1> QED BY <1>1, SwapperIn

LEMMA GrowRoots ==
    ASSUME IInv, NEW u \in Tasks, u \notin Live, NEW f, f \in Frames \ Image, f \notin Roots,
           pgd' = [pgd EXCEPT ![u] = f]
    PROVE  /\ pgd' \in [Tasks -> Frames \cup {None}] /\ pgd'[u] = f
           /\ \A t \in Tasks : t # u => pgd'[t] = pgd[t]
           /\ Live' = Live \cup {u} /\ Roots' = Roots \cup {f} /\ RootsApart'
  <1>1. pgd \in [Tasks -> Frames \cup {None}] /\ RootsApart
    BY DEF IInv, TypeOK
  <1>2. /\ pgd' \in [Tasks -> Frames \cup {None}] /\ pgd'[u] = f
        /\ \A t \in Tasks : t # u => pgd'[t] = pgd[t]
    BY <1>1
  <1>3. f # None
    BY SizesAssumption
  <1>4. Live' = Live \cup {u}
    BY <1>2, <1>3 DEF Live
  <1>5. \A t \in Live : pgd'[t] = pgd[t] /\ t # u /\ t \in Tasks
    BY <1>2 DEF Live
  <1>6. Roots' = Roots \cup {f}
    <2>1. {pgd'[t] : t \in Live \cup {u}} = {pgd[t] : t \in Live} \cup {f}
      BY <1>2, <1>5
    <2> QED BY <1>4, <2>1 DEF Roots
  <1>7. RootsApart'
    <2>1. \A t \in Live' : pgd'[t] \in Frames \ Image
      BY <1>1, <1>2, <1>4, <1>5 DEF RootsApart
    <2>2. \A t \in Live : pgd[t] # f
      BY DEF Roots
    <2>3. \A t, x \in Live' : pgd'[t] = pgd'[x] => t = x
      BY <1>1, <1>2, <1>4, <1>5, <2>2 DEF RootsApart
    <2> QED BY <2>1, <2>3 DEF RootsApart
  <1> QED BY <1>2, <1>4, <1>6, <1>7

LEMMA StepInv == IInv /\ [Next]_vars => IInv'
  <1> SUFFICES ASSUME IInv, [Next]_vars PROVE IInv'
    OBVIOUS
  <1>1. CASE setup_vm_final
    <2>1. Sound(word', free', {Swapper}) /\ Live = {}
      BY <1>1, SetupIs
    <2>2. pgd' = pgd /\ satp' = Swapper
      BY <1>1 DEF setup_vm_final
    <2>3. Live' = {} /\ Roots' = {Swapper}
      BY <2>1, <2>2 DEF Live, Roots
    <2>4. RootsApart'
      BY <2>3 DEF RootsApart
    <2>5. satp' # EarlyDir /\ satp' \in Frames
      BY <2>2, SizesAssumption
    <2>6. TypeOK'
      BY <2>1, <2>2, <2>5, SoundTyped DEF TypeOK, IInv
    <2> QED BY <2>1, <2>2, <2>3, <2>4, <2>5, <2>6 DEF IInv
  <1>2. CASE \E t \in Tasks : task_init(t)
    <2>1. PICK t \in Tasks : task_init(t)
      BY <1>2
    <2>2. PICK f : /\ pgd' = [pgd EXCEPT ![t] = f] /\ satp' = satp /\ satp # EarlyDir
                   /\ t \notin Live
                   /\ WithRoot(word, word', Roots, f)
                   /\ Sound(word', free', Roots \cup {f})
      BY <2>1, TaskInitIs
    <2>3. f \in Frames \ Image /\ f \notin Roots
      BY <2>2 DEF WithRoot
    <2>4. pgd' \in [Tasks -> Frames \cup {None}] /\ Roots' = Roots \cup {f} /\ RootsApart'
      BY <2>2, <2>3, GrowRoots
    <2>5. TypeOK'
      BY <2>2, <2>4, SoundTyped DEF TypeOK, IInv
    <2> QED BY <2>2, <2>4, <2>5 DEF IInv
  <1>3. CASE \E t \in Tasks : switch_mm(t)
    <2>1. PICK t \in Tasks : switch_mm(t)
      BY <1>3
    <2>2. /\ t \in Live /\ satp # EarlyDir /\ satp' = pgd[t]
          /\ word' = word /\ free' = free /\ pgd' = pgd
      BY <2>1 DEF switch_mm
    <2>3. Live' = Live /\ Roots' = Roots
      BY <2>2 DEF Live, Roots
    <2>4. pgd[t] \in Roots /\ pgd[t] # EarlyDir
      BY <2>2, RootFacts
    <2>5. RootsApart'
      BY <2>2, <2>3 DEF IInv, RootsApart
    <2>6. TypeOK'
      <3>1. pgd[t] \in Frames
        BY <2>2 DEF IInv, RootsApart
      <3> QED BY <2>2, <3>1 DEF IInv, TypeOK
    <2> QED BY <2>2, <2>3, <2>4, <2>5, <2>6 DEF IInv
  <1>4. CASE \E t \in Tasks, v \in UserPages, d \in UserWords \cup {Empty} : do_page_fault(t, v, d)
    <2>1. PICK t \in Tasks, v \in UserPages, d \in UserWords \cup {Empty} : do_page_fault(t, v, d)
      BY <1>4
    <2>2. /\ pgd' = pgd /\ satp' = satp /\ satp # EarlyDir
          /\ Sound(word', free', Roots)
      BY <2>1, FaultIs
    <2>3. Live' = Live /\ Roots' = Roots
      BY <2>2 DEF Live, Roots
    <2>4. RootsApart'
      BY <2>2, <2>3 DEF IInv, RootsApart
    <2>5. TypeOK'
      BY <2>2, SoundTyped DEF IInv, TypeOK
    <2> QED BY <2>2, <2>3, <2>4, <2>5 DEF IInv
  <1>5. CASE \E t, u \in Tasks, pages \in Orders : do_fork(t, u, pages)
    <2>1. PICK t \in Tasks, u \in Tasks, pages \in Orders : do_fork(t, u, pages)
      BY <1>5
    <2>2. PICK f : /\ pgd' = [pgd EXCEPT ![u] = f] /\ satp' = satp /\ satp # EarlyDir
                   /\ u \notin Live /\ f \in Frames \ Image /\ f \notin Roots
                   /\ Sound(word', free', Roots \cup {f})
      BY <2>1, ForkIs
    <2>3. pgd' \in [Tasks -> Frames \cup {None}] /\ Roots' = Roots \cup {f} /\ RootsApart'
      BY <2>2, GrowRoots
    <2>4. TypeOK'
      BY <2>2, <2>3, SoundTyped DEF TypeOK, IInv
    <2> QED BY <2>2, <2>3, <2>4 DEF IInv
  <1>6. CASE UNCHANGED vars
    <2>1. word' = word /\ free' = free /\ pgd' = pgd /\ satp' = satp
      BY <1>6 DEF vars
    <2>2. Live' = Live /\ Roots' = Roots
      BY <2>1 DEF Live, Roots
    <2>3. RootsApart'
      BY <2>1, <2>2 DEF IInv, RootsApart
    <2>4. TypeOK'
      BY <2>1 DEF IInv, TypeOK
    <2> QED BY <2>1, <2>2, <2>3, <2>4 DEF IInv
  <1> QED BY <1>1, <1>2, <1>3, <1>4, <1>5, <1>6 DEF Next

\* What a frame is for can be told in every reachable state, so no frame has two
\* uses: the inductive invariant behind the theorems below.
THEOREM FramesHaveOneUse == Spec => []IInv
  BY InitInv, StepInv, PTL DEF Spec

-----------------------------------------------------------------------------
(* What follows from it.                                                   *)

LEMMA UpperLinks ==
    ASSUME IInv, satp # EarlyDir, NEW kd, MemInv(word, free, Roots, kd),
           NEW k \in Upper, Target(k) # Null
    PROVE  \E r \in Roots \ {Swapper} : \E i \in RootIndices(r) :
              /\ k = <<r, i>> /\ Target(k) \in Frames /\ kd[Target(k)] = Dir(r, i)
              /\ HasDir(word, r, i) /\ DirOf(word, r, i) = Target(k)
  <1>1. PICK t \in Live : k \in Links(pgd[t], 2)
    BY DEF Upper
  <1>2. PICK i \in Indices : k = <<pgd[t], i>> /\ Valid(word[pgd[t]][i]) /\ i \in UserIndices(2)
    BY <1>1 DEF Links
  <1>3. PICK r \in Roots \ {Swapper} : r = pgd[t]
    BY RootFacts
  <1>4. i \in RootIndices(r)
    BY <1>2, <1>3 DEF RootIndices
  <1>5. Target(k) = word[r][i].ppn
    BY <1>2, <1>3 DEF Target
  <1>6. HasDir(word, r, i) /\ DirOf(word, r, i) = Target(k)
    BY <1>2, <1>3, <1>5 DEF HasDir, DirOf
  <1>7. 0 \in Indices
    BY EmptyIs
  <1>8. GoodPath(word, kd, r, i, 0, 0)
    BY <1>3, <1>4, <1>7 DEF MemInv, Paths
  <1> QED BY <1>2, <1>3, <1>4, <1>6, <1>8 DEF GoodPath

LEMMA LowerLinks ==
    ASSUME IInv, satp # EarlyDir, NEW kd, MemInv(word, free, Roots, kd),
           NEW k \in Lower, Target(k) # Null
    PROVE  \E r \in Roots \ {Swapper} : \E i \in RootIndices(r), j \in Indices :
              /\ k = <<DirOf(word, r, i), j>>
              /\ Target(k) \in Frames /\ kd[Target(k)] = Tab(r, i, j)
  <1>1. PICK d \in Directories : k \in Links(d, 1)
    BY DEF Lower
  <1>2. PICK l \in Upper : d = Target(l) /\ Target(l) # Null
    BY <1>1 DEF Directories, Upper
  <1>r. PICK r \in Roots \ {Swapper} : \E i \in RootIndices(r) :
            HasDir(word, r, i) /\ DirOf(word, r, i) = Target(l)
    BY <1>2, UpperLinks
  <1>3. PICK i \in RootIndices(r) : HasDir(word, r, i) /\ DirOf(word, r, i) = Target(l)
    BY <1>r
  <1>4. PICK j \in Indices : k = <<d, j>> /\ Valid(word[d][j])
    BY <1>1 DEF Links
  <1>5. Target(k) = word[d][j].ppn
    BY <1>4 DEF Target
  <1>6. HasTab(word, r, i, j) /\ TabOf(word, r, i, j) = Target(k)
    BY <1>2, <1>3, <1>4, <1>5 DEF HasTab, TabOf
  <1>7. 0 \in Indices
    BY EmptyIs
  <1>8. GoodPath(word, kd, r, i, j, 0)
    BY <1>3, <1>7 DEF MemInv, Paths
  <1> QED BY <1>2, <1>3, <1>4, <1>6, <1>8 DEF GoodPath

\* A page that user code maps has the kind of a page.
LEMMA MappedIsPage ==
    ASSUME IInv, satp # EarlyDir, NEW kd, MemInv(word, free, Roots, kd),
           NEW t \in Live, NEW v \in UserPages, Walk(word, pgd[t], v) # None
    PROVE  /\ Walk(word, pgd[t], v).frame \in Frames
           /\ kd[Walk(word, pgd[t], v).frame] = Page(v)
  <1>1. pgd[t] \in Roots \ {Swapper}
    BY RootFacts
  <1>2. v \in Nat /\ Vpn(v, 2) \in RootIndices(pgd[t])
    BY <1>1, UserIndex
  <1>3. /\ Walk(word, pgd[t], v) = ToWalk(LeafAt(word, pgd[t], v))
        /\ Valid(LeafAt(word, pgd[t], v))
    BY <1>1, <1>2, WalkLeaf
  <1>4. Walk(word, pgd[t], v).frame = LeafAt(word, pgd[t], v).ppn
    BY <1>3 DEF ToWalk
  <1> QED BY <1>1, <1>3, <1>4, UserLeafAt

LEMMA TreesApart ==
    ASSUME IInv, satp # EarlyDir
    PROVE  TablesAreTrees /\ MappedNotFree
  <1>1. PICK kd : MemInv(word, free, Roots, kd)
    BY DEF IInv, Sound
  <1>2. /\ \A f \in free : f \in Frames /\ kd[f] = FreeKind
        /\ \A r \in Roots : r \in Frames /\ kd[r] = RootKind
        /\ \A f \in Image : f # Swapper => kd[f] = KeptKind
        /\ Swapper \in Roots
    BY <1>1, SwapperIn DEF MemInv, Kinded
  <1> DEFINE links  == {k \in Upper \cup Lower : Target(k) # Null}
             tables == {Target(k) : k \in links}
  <1>3. ASSUME NEW k \in links
        PROVE  \/ \E r, i : k = <<r, i>> /\ kd[Target(k)] = Dir(r, i)
               \/ \E r, i, j : k = <<DirOf(word, r, i), j>> /\ kd[Target(k)] = Tab(r, i, j)
    BY <1>1, UpperLinks, LowerLinks
  <1>4. \A k \in links : kd[Target(k)] \notin {FreeKind, RootKind, KeptKind}
    BY <1>3, KindsApart
  <1>5. ASSUME NEW j \in links, NEW k \in links, Target(j) = Target(k)
        PROVE  j = k
    <2>1. CASE \E r, i : j = <<r, i>> /\ kd[Target(j)] = Dir(r, i)
      <3>1. PICK r, i : j = <<r, i>> /\ kd[Target(j)] = Dir(r, i)
        BY <2>1
      <3>2. CASE \E s, l : k = <<s, l>> /\ kd[Target(k)] = Dir(s, l)
        <4>1. PICK s, l : k = <<s, l>> /\ kd[Target(k)] = Dir(s, l)
          BY <3>2
        <4>2. r = s /\ i = l
          BY <1>5, <3>1, <4>1, KindsApart
        <4> QED BY <3>1, <4>1, <4>2
      <3>3. CASE \E s, l, m : k = <<DirOf(word, s, l), m>> /\ kd[Target(k)] = Tab(s, l, m)
        BY <1>5, <3>1, <3>3, KindsApart
      <3> QED BY <1>3, <3>2, <3>3
    <2>2. CASE \E r, i, n : j = <<DirOf(word, r, i), n>> /\ kd[Target(j)] = Tab(r, i, n)
      <3>1. PICK r, i, n : j = <<DirOf(word, r, i), n>> /\ kd[Target(j)] = Tab(r, i, n)
        BY <2>2
      <3>2. CASE \E s, l : k = <<s, l>> /\ kd[Target(k)] = Dir(s, l)
        BY <1>5, <3>1, <3>2, KindsApart
      <3>3. CASE \E s, l, m : k = <<DirOf(word, s, l), m>> /\ kd[Target(k)] = Tab(s, l, m)
        <4>1. PICK s, l, m : k = <<DirOf(word, s, l), m>> /\ kd[Target(k)] = Tab(s, l, m)
          BY <3>3
        <4>2. Tab(r, i, n) = Tab(s, l, m)
          BY <1>5, <3>1, <4>1
        <4>3. r = s /\ i = l /\ n = m
          BY <4>2, KindsApart
        <4> QED BY <3>1, <4>1, <4>3
      <3> QED BY <1>3, <3>2, <3>3
    <2> QED BY <1>3, <2>1, <2>2
  <1>6. \A t \in Live : pgd[t] \in Roots
    BY RootFacts
  <1>7. tables \cap (free \cup Image \cup {pgd[t] : t \in Live}) = {}
    <2>1. \A f \in free \cup Image \cup {pgd[t] : t \in Live} :
             kd[f] \in {FreeKind, RootKind, KeptKind}
      BY <1>2, <1>6
    <2>2. \A f \in tables : kd[f] \notin {FreeKind, RootKind, KeptKind}
      BY <1>4
    <2> HIDE DEF tables
    <2> QED BY <2>1, <2>2
  <1>8. \A t \in Live, v \in UserPages : Walk(word, pgd[t], v) # None =>
           /\ Walk(word, pgd[t], v).frame \in Frames
           /\ kd[Walk(word, pgd[t], v).frame] = Page(v)
    BY <1>1, MappedIsPage
  <1>9. ASSUME NEW k \in links PROVE Mappers(Target(k)) = {}
    <2> SUFFICES ASSUME NEW t \in Live, NEW v \in UserPages, Walk(word, pgd[t], v) # None,
                        Walk(word, pgd[t], v).frame = Target(k)
                 PROVE  FALSE
      BY DEF Mappers
    <2>1. kd[Target(k)] = Page(v)
      BY <1>8
    <2>2. \A r, i, j : Dir(r, i) # Page(v) /\ Tab(r, i, j) # Page(v)
      BY KindsApart
    <2> QED BY <1>3, <2>1, <2>2
  <1>10. TablesAreTrees
    <2>1. \A f \in tables : Mappers(f) = {}
      BY <1>9
    <2>2. \A j, k \in links : Target(j) = Target(k) => j = k
      BY <1>5
    <2> QED BY <1>7, <2>1, <2>2, Zenon DEF TablesAreTrees
  <1>11. MappedNotFree
    <2>1. ASSUME NEW t \in Live PROVE pgd[t] \notin free
      <3>1. FreeKind # RootKind
        BY KindsApart
      <3> QED BY <1>2, <1>6, <3>1
    <2>2. ASSUME NEW t \in Live, NEW v \in UserPages, Walk(word, pgd[t], v) # None
          PROVE  Walk(word, pgd[t], v).frame \notin free \cup Image
      <3>1. kd[Walk(word, pgd[t], v).frame] = Page(v)
        BY <1>8, <2>2
      <3>2. Page(v) # FreeKind /\ Page(v) # RootKind /\ Page(v) # KeptKind
        BY PathKinds
      <3> QED BY <1>2, <3>1, <3>2
    <2> QED BY <2>1, <2>2 DEF MappedNotFree
  <1> QED BY <1>10, <1>11

LEMMA EarlyTrees ==
    ASSUME Live = {}
    PROVE  TablesAreTrees /\ MappedNotFree
  <1>1. Upper = {} /\ Directories = {}
    BY DEF Upper, Directories
  <1>2. Lower = {}
    BY <1>1 DEF Lower
  <1>3. TablesAreTrees
    BY <1>1, <1>2 DEF TablesAreTrees
  <1>4. MappedNotFree
    BY DEF MappedNotFree
  <1> QED BY <1>3, <1>4

\* create_mapping, kalloc and put_page keep the tables trees, and nothing mapped
\* is free, whatever memory holds when a page is taken.
THEOREM TablesStaySound == Spec => []TablesSound
  <1>1. IInv => TablesSound
    BY TreesApart, EarlyTrees DEF IInv, TablesSound
  <1> QED BY <1>1, FramesHaveOneUse, PTL

-----------------------------------------------------------------------------
(* The kernel's map.                                                       *)

\* The last section over a page.
LEMMA LastSection ==
    ASSUME NEW v \in MappedPages
    PROVE  \E n \in DOMAIN Sections :
              /\ v \in Covered(Sections[n])
              /\ \A j \in DOMAIN Sections : v \in Covered(Sections[j]) => j <= n
  <1>1. PICK l \in Nat : l = Len(Sections) /\ DOMAIN Sections = 1 .. l
    BY PagesAssumption
  <1>2. PICK i \in DOMAIN Sections : v \in Covered(Sections[i])
    BY DEF MappedPages
  <1> DEFINE T == {k \in 0 .. l - 1 : v \in Covered(Sections[l - k])}
  <1>3. T \subseteq Nat /\ l - i \in T
    <2>1. l - i \in 0 .. l - 1 /\ l - (l - i) = i
      BY <1>1
    <2> QED BY <1>2, <2>1
  <1>4. PICK k \in T : \A y \in T : k <= y
    <2>1. T \subseteq Nat /\ T # {}
      BY <1>3
    <2> HIDE DEF T
    <2> QED BY <2>1, LeastElement
  <1>5. l - k \in DOMAIN Sections /\ v \in Covered(Sections[l - k])
    BY <1>1, <1>4
  <1>6. ASSUME NEW j \in DOMAIN Sections, v \in Covered(Sections[j])
        PROVE  j <= l - k
    <2>1. l - j \in 0 .. l - 1 /\ l - (l - j) = j
      BY <1>1
    <2>2. l - j \in T
      BY <1>6, <2>1
    <2>3. k <= l - j
      BY <1>4, <2>2
    <2> QED BY <1>1, <1>4, <2>3
  <1> QED BY <1>5, <1>6

LEMMA KernelLeafIs ==
    ASSUME NEW v \in MappedPages
    PROVE  \E n \in DOMAIN Sections :
              /\ v \in Covered(Sections[n])
              /\ \A j \in DOMAIN Sections : v \in Covered(Sections[j]) => j <= n
              /\ KernelLeaf(v) = [frame |-> SectionLeaf(n, v).ppn, bits |-> SectionLeaf(n, v).bits]
  <1> DEFINE Last(i) == /\ v \in Covered(Sections[i])
                        /\ \A j \in DOMAIN Sections : v \in Covered(Sections[j]) => j <= i
             n == CHOOSE i \in DOMAIN Sections : Last(i)
  <1>1. \E i \in DOMAIN Sections : Last(i)
    BY LastSection
  <1>2. n \in DOMAIN Sections /\ Last(n)
    <2> HIDE DEF Last
    <2> QED BY <1>1
  <1>3. KernelLeaf(v) = [frame |-> (Sections[n].pa \div PageBytes) + v - (Sections[n].start \div PageBytes),
                         bits  |-> Sections[n].bits \cup {"V"}]
    BY Zenon DEF KernelLeaf
  <1> HIDE DEF n
  <1>4. KernelLeaf(v) = [frame |-> SectionLeaf(n, v).ppn, bits |-> SectionLeaf(n, v).bits]
    BY <1>3 DEF SectionLeaf, First
  <1> QED BY <1>2, <1>4

\* Every root maps the kernel's pages as the sections say.
LEMMA KernelWalks ==
    ASSUME EnoughForKernel, NEW w, NEW fr, NEW R, Sound(w, fr, R), NEW r \in R,
           NEW v \in MappedPages
    PROVE  /\ Walk(w, r, v) = KernelLeaf(v)
           /\ KernelLeaf(v) \in [frame : Int, bits : SUBSET Bits]
           /\ KernelLeaf(v) # None
  <1>1. PICK kd : MemInv(w, fr, R, kd)
    BY DEF Sound
  <1>2. PICK n \in DOMAIN Sections :
           /\ v \in Covered(Sections[n])
           /\ \A j \in DOMAIN Sections : v \in Covered(Sections[j]) => j <= n
           /\ KernelLeaf(v) = [frame |-> SectionLeaf(n, v).ppn, bits |-> SectionLeaf(n, v).bits]
    BY KernelLeafIs
  <1>3. PICK l \in Nat : l = Len(Sections) /\ DOMAIN Sections = 1 .. l
    BY PagesAssumption
  <1>4. \A j \in n + 1 .. l : v \notin Covered(Sections[j])
    <2> SUFFICES ASSUME NEW j \in n + 1 .. l, v \in Covered(Sections[j]) PROVE FALSE
      OBVIOUS
    <2>1. j \in DOMAIN Sections /\ ~ (j <= n)
      BY <1>2, <1>3
    <2> QED BY <1>2, <2>1
  <1>5. LeafAt(w, Swapper, v) = SectionLeaf(n, v)
    <2>1. AllMapped(w, l)
      BY <1>3 DEF Sound
    <2> QED BY <1>2, <1>3, <1>4, <2>1 DEF AllMapped
  <1>6. Walk(w, r, v) = ToWalk(SectionLeaf(n, v))
    BY <1>1, <1>5, KernelWalk
  <1>7. Valid(SectionLeaf(n, v))
    BY DEF Valid, SectionLeaf
  <1>8. Walk(w, r, v) = KernelLeaf(v)
    BY <1>2, <1>6, <1>7 DEF ToWalk
  <1>9. KernelLeaf(v) \in [frame : Int, bits : SUBSET Bits]
    <2>1. /\ Sections[n].start \div PageBytes \in Nat /\ Sections[n].pa \div PageBytes \in Nat
          /\ Sections[n].bits \in SUBSET Bits /\ v \in Nat
      BY SectionFacts, IndexSets
    <2>2. SectionLeaf(n, v).ppn \in Int
      <3>1. PICK p \in Nat, q \in Nat : p = Sections[n].pa \div PageBytes
                                        /\ q = Sections[n].start \div PageBytes
        BY <2>1
      <3>2. SectionLeaf(n, v).ppn = p + v - q
        BY <3>1 DEF SectionLeaf, First
      <3> QED BY <2>1, <3>1, <3>2
    <2>3. SectionLeaf(n, v).bits \in SUBSET Bits
      BY <2>1 DEF SectionLeaf, Bits
    <2> QED BY <1>2, <2>2, <2>3
  <1>10. KernelLeaf(v) # None
    BY <1>9, SizesAssumption
  <1> QED BY <1>8, <1>9, <1>10

LEMMA SumQuotient ==
    ASSUME NEW s \in Nat \ {0}, NEW h \in Nat, NEW n \in Nat, NEW z \in 0 .. s - 1,
           NEW v \in Nat, v = h * s + (n * s + z)
    PROVE  v \div s = h + n /\ (v % s) = z
  <1>1. PICK p \in Nat, r \in 0 .. s - 1 : p = v \div s /\ r = (v % s) /\ v = p * s + r
    BY Division
  <1>2. PICK q \in Nat : q = h + n
    OBVIOUS
  <1>3. (h + n) * s = h * s + n * s /\ h * s \in Nat /\ n * s \in Nat
    OBVIOUS
  <1>4. PICK a \in Nat, b \in Nat, c \in Nat : a = h * s /\ b = n * s /\ c = q * s
    BY <1>2, <1>3
  <1>5. c = a + b
    BY <1>2, <1>3, <1>4
  <1>6. v = a + (b + z)
    BY <1>4
  <1>7. v = c + z
    BY ONLY <1>4, <1>5, <1>6, z \in 0 .. s - 1, s \in Nat \ {0}
  <1>8. p * s + r = q * s + z
    BY <1>1, <1>4, <1>7
  <1>9. p = q /\ r = z
    BY <1>8, OneQuotient
  <1> QED BY <1>1, <1>2, <1>9

\* The early table maps the memory by leaves of the root.
LEMMA EarlyWalk ==
    ASSUME NEW w, w[EarlyDir] = EarlyTable, NEW v \in KernelPages
    PROVE  /\ Walk(w, EarlyDir, v) # None
           /\ Walk(w, EarlyDir, v).frame = v - (VmStart \div PageBytes)
  <1>1. /\ Fan \in Nat \ {0} /\ PageBytes \in Nat \ {0} /\ Ram \in Nat /\ VmStart \in Nat
        /\ VmStart % Huge = 0 /\ (VmStart \div PageBytes) + Ram <= Fan * Fan * Fan
    BY SizesAssumption
  <1>2. PICK b \in Nat : b = VmStart \div PageBytes
    BY <1>1, Division
  <1>3. PICK f \in Frames : v = b + f
    BY <1>2 DEF KernelPages
  <1>4. f \in Nat /\ f < Ram
    BY <1>1, <1>3 DEF Frames
  <1>5. PICK s \in Nat \ {0} : s = Fan * Fan
    BY <1>1
  <1>6. PICK c \in Nat : c = Fan * Fan * Fan
    BY <1>1
  <1>7. b + Ram <= c /\ v \in Nat /\ v < c /\ b < c
    BY <1>1, <1>2, <1>3, <1>4, <1>6
  <1>8. PICK h \in Nat : b = h * s
    <2>1. Huge \in Nat \ {0} /\ Huge = s * PageBytes
      <3>1. PageBytes * Fan * Fan = (Fan * Fan) * PageBytes
        BY <1>1
      <3>2. Huge = s * PageBytes
        BY <1>5, <3>1 DEF Huge
      <3> QED BY <1>1, <1>5, <3>2
    <2>2. PICK h \in Nat : VmStart = h * Huge
      <3>1. VmStart \div Huge \in Nat /\ VmStart = (VmStart \div Huge) * Huge + (VmStart % Huge)
        <4>1. PICK d \in Nat \ {0} : d = Huge
          BY <2>1
        <4>2. VmStart \div d \in Nat /\ VmStart = (VmStart \div d) * d + (VmStart % d)
          BY <1>1, Division
        <4> QED BY <4>1, <4>2
      <3>2. PICK h \in Nat : h = VmStart \div Huge
        BY <3>1
      <3>3. VmStart = h * Huge + 0 /\ h * Huge \in Int
        BY <1>1, <2>1, <3>1, <3>2
      <3> QED BY <3>2, <3>3
    <2>3. VmStart = (h * s) * PageBytes
      <3>1. h * (s * PageBytes) = (h * s) * PageBytes
        BY <1>1, <1>5
      <3> QED BY <2>1, <2>2, <3>1
    <2>4. PICK q \in Nat : q = h * s
      BY <1>5, <2>2
    <2>5. VmStart \div PageBytes = q
      <3>1. VmStart = q * PageBytes /\ VmStart <= VmStart /\ VmStart < VmStart + PageBytes
        BY <1>1, <2>3, <2>4
      <3> QED BY <1>1, <2>4, <3>1, QuotientOf
    <2> QED BY <1>2, <2>4, <2>5
  <1>9. PICK n \in Nat, z \in 0 .. s - 1 : f = n * s + z
    BY <1>4, Division
  <1>10. n * s \in Nat /\ h * s \in Nat /\ (h + n) * s = h * s + n * s
    BY <1>5, <1>8, <1>9
  <1>11. v \div s = h + n /\ (v % s) = z
    <2>1. v = h * s + (n * s + z)
      BY <1>3, <1>8, <1>9
    <2> QED BY <1>7, <2>1, SumQuotient
  <1>12. b \div s = h
    <2>1. b <= b /\ b < b + s
      BY <1>5
    <2> QED BY <1>5, <1>8, <2>1, QuotientOf
  <1>13. Vpn(v, 2) = h + n /\ Vpn(b, 2) = h
    <2>1. Vpn(v, 2) = v \div (Fan * Fan) /\ Vpn(b, 2) = b \div (Fan * Fan)
      BY <1>6, <1>7, VpnDigits
    <2> QED BY <1>5, <1>11, <1>12, <2>1
  <1>14. n * Huge < Ram * PageBytes
    <2>1. n * (PageBytes * Fan * Fan) = (n * (Fan * Fan)) * PageBytes
      BY <1>1, <1>9
    <2>2. PICK d \in Nat : d = n * s
      BY <1>10
    <2>3. n * Huge = d * PageBytes
      BY <1>5, <2>1, <2>2 DEF Huge
    <2>4. d + 1 <= Ram
      BY <1>1, <1>4, <1>5, <1>9, <2>2
    <2>5. d * PageBytes + PageBytes <= Ram * PageBytes
      BY <1>1, <2>2, <2>4, Multiples
    <2>6. d * PageBytes \in Nat /\ Ram * PageBytes \in Nat
      BY <1>1, <2>2
    <2>7. PICK x \in Nat, y \in Nat : x = d * PageBytes /\ y = Ram * PageBytes
      BY <2>6
    <2>8. x < y
      BY <1>1, <2>5, <2>7
    <2> QED BY <2>3, <2>7, <2>8
  <1>15. EarlyTable[Vpn(v, 2)] = [ppn |-> n * Fan * Fan, bits |-> {"V", "R", "W", "X"}]
    <2>1. h + n \in Indices
      BY <1>7, <1>13, VpnIndex
    <2>2. (h + n) - h = n /\ 0 <= n
      BY <1>8, <1>9
    <2>3. EarlyTable[h + n] =
             LET k == (h + n) - Vpn(b, 2) IN
             IF 0 <= k /\ k * Huge < Ram * PageBytes
             THEN [ppn |-> k * Fan * Fan, bits |-> {"V", "R", "W", "X"}] ELSE Empty
      BY <1>2, <2>1, Zenon DEF EarlyTable
    <2>4. (h + n) - Vpn(b, 2) = n
      BY <1>13, <2>2
    <2> QED BY <1>13, <1>14, <2>2, <2>3, <2>4, Zenon
  <1>16. PICK e : e = EarlyTable[Vpn(v, 2)]
    OBVIOUS
  <1>17. Valid(e) /\ IsLeaf(e) /\ e.ppn = n * s /\ e.bits = {"V", "R", "W", "X"}
    <2>1. n * Fan * Fan = n * (Fan * Fan)
      BY <1>9, <1>14, EarlyEntry
    <2> QED BY <1>5, <1>15, <1>16, <2>1 DEF Valid, IsLeaf, Access
  <1>18. Walk(w, EarlyDir, v) = [frame |-> e.ppn + (v % (Fan * Fan)), bits |-> e.bits]
    <2>1. w[EarlyDir][Vpn(v, 2)] = e
      BY <1>16
    <2> QED BY <1>17, <2>1 DEF Walk
  <1>19. PICK d \in Nat : d = n * s
    BY <1>10
  <1>20. Walk(w, EarlyDir, v).frame = f
    <2>1. f = d + z
      BY <1>9, <1>19
    <2>2. (v % (Fan * Fan)) = z
      BY <1>5, <1>11
    <2> QED BY <1>17, <1>18, <1>19, <2>1, <2>2
  <1>21. Walk(w, EarlyDir, v) # None
    <2>1. d + z \in Int
      BY <1>9, <1>19
    <2>2. Walk(w, EarlyDir, v) \in [frame : Int, bits : SUBSET Bits]
      BY <1>5, <1>11, <1>17, <1>18, <1>19, <2>1 DEF Bits
    <2> QED BY <2>2, SizesAssumption
  <1>22. v - (VmStart \div PageBytes) = f
    BY <1>2, <1>3, <1>4
  <1> QED BY <1>20, <1>21, <1>22

\* Whatever satp is, from setup_vm on, the kernel finds every frame at its fixed
\* address, if there were frames for the tables of its own map.
THEOREM KernelStays == EnoughForKernel /\ KernelLinear => (Spec => []KernelStaysMapped)
  <1> SUFFICES ASSUME EnoughForKernel, KernelLinear PROVE Spec => []KernelStaysMapped
    OBVIOUS
  <1>1. IInv => KernelStaysMapped
    <2> SUFFICES ASSUME IInv, NEW v \in KernelPages
                 PROVE  /\ Walk(word, satp, v) # None
                        /\ Walk(word, satp, v).frame = v - (VmStart \div PageBytes)
      BY DEF KernelStaysMapped
    <2>1. CASE satp = EarlyDir
      <3>1. word[EarlyDir] = EarlyTable
        BY <2>1 DEF IInv, Untouched
      <3> QED BY <2>1, <3>1, EarlyWalk
    <2>2. CASE satp # EarlyDir
      <3>1. Sound(word, free, Roots) /\ satp \in Roots
        BY <2>2 DEF IInv
      <3>2. v \in MappedPages /\ KernelLeaf(v).frame = v - (VmStart \div PageBytes)
        BY DEF KernelLinear
      <3>3. Walk(word, satp, v) = KernelLeaf(v) /\ KernelLeaf(v) # None
        BY <3>1, <3>2, KernelWalks
      <3> QED BY <3>2, <3>3
    <2> QED BY <2>1, <2>2
  <1> QED BY <1>1, FramesHaveOneUse, PTL

-----------------------------------------------------------------------------
(* The page fault maps its page.                                           *)

LEMMA RootWalk ==
    ASSUME NEW w, NEW fr, NEW R, Sound(w, fr, R), NEW r \in R, r # Swapper, NEW v \in UserPages
    PROVE  /\ Walk(w, r, v) = ToWalk(LeafAt(w, r, v))
           /\ LeafAt(w, r, v) \in Words
           /\ Walk(w, r, v) # None <=> Valid(LeafAt(w, r, v))
           /\ ~ Valid(LeafAt(w, r, v)) => LeafAt(w, r, v) = Empty
  <1>1. PICK kd : MemInv(w, fr, R, kd)
    BY DEF Sound
  <1>2. v \in Nat /\ Vpn(v, 2) \in RootIndices(r)
    BY UserIndex
  <1> QED BY <1>1, <1>2, WalkLeaf

\* The frame of a mapped page is not free.
LEMMA MappedIsTaken ==
    ASSUME IInv, satp # EarlyDir, NEW t \in Live, NEW v \in UserPages,
           Walk(word, pgd[t], v) # None
    PROVE  Walk(word, pgd[t], v).frame \notin free
  <1>1. MappedNotFree
    BY TreesApart
  <1> QED BY <1>1 DEF MappedNotFree

\* The leaf that a fault writes.
LEMMA NewWalk ==
    ASSUME IInv, satp # EarlyDir, NEW t \in Live, NEW v \in UserPages, NEW f \in free,
           NEW bits, "V" \in bits,
           OnePage(word, word', Roots, pgd[t], v, [ppn |-> f, bits |-> bits]),
           Sound(word', free', Roots)
    PROVE  /\ Walk(word', pgd[t], v) = [frame |-> f, bits |-> bits]
           /\ Walk(word', pgd[t], v) # Walk(word, pgd[t], v)
           /\ Walk(word', pgd[t], v) # None
  <1>1. PICK r \in Roots : r = pgd[t] /\ r # Swapper
    BY RootFacts
  <1>2. PICK e : e = [ppn |-> f, bits |-> bits]
    OBVIOUS
  <1>3. LeafAt(word', r, v) = e
    BY <1>1, <1>2 DEF OnePage
  <1>4. Valid(e) /\ e.ppn = f /\ e.bits = bits
    BY <1>2 DEF Valid
  <1>5. Walk(word', r, v) = ToWalk(e) /\ Walk(word', r, v) # None
    BY <1>1, <1>3, <1>4, RootWalk
  <1>6. Walk(word', r, v) = [frame |-> f, bits |-> bits]
    BY <1>4, <1>5 DEF ToWalk
  <1>7. Walk(word', r, v) # Walk(word, r, v)
    <2> SUFFICES ASSUME Walk(word', r, v) = Walk(word, r, v) PROVE FALSE
      OBVIOUS
    <2>1. Walk(word, r, v) # None /\ Walk(word, r, v).frame = f
      BY <1>5, <1>6
    <2> QED BY <1>1, <2>1, MappedIsTaken
  <1> QED BY <1>1, <1>5, <1>6, <1>7

\* A fault maps its page with the permissions of the VMA, unless the last frame
\* is gone.
THEOREM FaultsMap == Spec => MapsUnlessExhausted
  <1> DEFINE Maps ==
          pgd' = pgd /\ satp' = satp /\ free' # {} =>
             \E t \in Current, v \in UserPages :
                /\ Walk(word', pgd[t], v) # Walk(word, pgd[t], v)
                /\ Walk(word', pgd[t], v).bits = Vma[v] \cup {"U", "V"}
  <1>1. IInv /\ [Next]_vars => [Maps]_vars
    <2> SUFFICES ASSUME IInv, Next, pgd' = pgd, satp' = satp, free' # {} PROVE Maps
      OBVIOUS
    <2>1. CASE setup_vm_final
      <3>1. satp = EarlyDir /\ satp' = Swapper
        BY <2>1 DEF setup_vm_final
      <3> QED BY <3>1, SizesAssumption
    <2>2. CASE \E t \in Tasks : task_init(t)
      <3>1. PICK t \in Tasks : task_init(t)
        BY <2>2
      <3>2. PICK f : /\ pgd' = [pgd EXCEPT ![t] = f] /\ t \notin Live
                     /\ WithRoot(word, word', Roots, f)
        BY <3>1, TaskInitIs
      <3>3. f \in Frames \ Image /\ f \notin Roots
        BY <3>2 DEF WithRoot
      <3>4. Live' = Live \cup {t}
        BY <3>2, <3>3, GrowRoots
      <3>5. Live' = Live
        BY DEF Live
      <3> QED BY <3>2, <3>4, <3>5
    <2>3. CASE \E t \in Tasks : switch_mm(t)
      BY <2>3 DEF switch_mm
    <2>4. CASE \E t \in Tasks, v \in UserPages, d \in UserWords \cup {Empty} : do_page_fault(t, v, d)
      <3>1. PICK t \in Tasks, v \in UserPages, d \in UserWords \cup {Empty} : do_page_fault(t, v, d)
        BY <2>4
      <3>2. /\ t \in Live /\ t \in Current /\ satp # EarlyDir
            /\ Sound(word', free', Roots)
            /\ \/ \E f \in free : OnePage(word, word', Roots, pgd[t], v,
                                          [ppn |-> f, bits |-> Vma[v] \cup {"U", "V"}])
               \/ free' = {}
        BY <3>1, FaultIs
      <3>3. PICK f \in free : OnePage(word, word', Roots, pgd[t], v,
                                      [ppn |-> f, bits |-> Vma[v] \cup {"U", "V"}])
        BY <3>2
      <3>4. PICK bits : bits = Vma[v] \cup {"U", "V"} /\ "V" \in bits
        OBVIOUS
      <3>5. OnePage(word, word', Roots, pgd[t], v, [ppn |-> f, bits |-> bits])
        BY <3>3, <3>4
      <3>6. /\ Walk(word', pgd[t], v) = [frame |-> f, bits |-> bits]
            /\ Walk(word', pgd[t], v) # Walk(word, pgd[t], v)
        BY <3>2, <3>4, <3>5, NewWalk, SMTT(30)
      <3>7. Walk(word', pgd[t], v).bits = Vma[v] \cup {"U", "V"}
        BY <3>4, <3>6
      <3> QED BY <3>2, <3>6, <3>7
    <2>5. CASE \E t, u \in Tasks, pages \in Orders : do_fork(t, u, pages)
      <3>1. PICK t \in Tasks, u \in Tasks, pages \in Orders : do_fork(t, u, pages)
        BY <2>5
      <3>2. PICK f : /\ pgd' = [pgd EXCEPT ![u] = f] /\ u \notin Live
                     /\ f \in Frames \ Image /\ f \notin Roots
        BY <3>1, ForkIs
      <3>3. Live' = Live \cup {u}
        BY <3>2, GrowRoots
      <3>4. Live' = Live
        BY DEF Live
      <3> QED BY <3>2, <3>3, <3>4
    <2> QED BY <2>1, <2>2, <2>3, <2>4, <2>5 DEF Next
  <1> QED BY <1>1, FramesHaveOneUse, PTL DEF Spec, MapsUnlessExhausted, Maps

-----------------------------------------------------------------------------
(* The tables implement one map for every task.                            *)

SeenMap(w, r) == [v \in UserPages \cup MappedPages |-> Walk(w, r, v)]
SeenSpace == [t \in Tasks |-> Space(t)]

LEMMA SeenMapIs ==
    ASSUME EnoughForKernel, NEW w, NEW fr, NEW R, Sound(w, fr, R), NEW r \in R, r # Swapper
    PROVE  /\ SeenMap(w, r) # None
           /\ \A v \in MappedPages : SeenMap(w, r)[v] = KernelLeaf(v)
           /\ \A v \in UserPages : SeenMap(w, r)[v] = ToWalk(LeafAt(w, r, v))
  <1>1. ASSUME NEW v \in MappedPages
        PROVE  /\ Walk(w, r, v) = KernelLeaf(v)
               /\ KernelLeaf(v) \in [frame : Int, bits : SUBSET Bits]
    BY KernelWalks
  <1>2. ASSUME NEW v \in UserPages
        PROVE  /\ Walk(w, r, v) = ToWalk(LeafAt(w, r, v))
               /\ LeafAt(w, r, v) \in Words
    BY RootWalk
  <1>3. ASSUME NEW e \in Words
        PROVE  ToWalk(e) \in [frame : Int, bits : SUBSET Bits] \cup {None}
    <2>1. Frames \subseteq Int /\ Device \subseteq Int /\ Null \in Int
      BY SizesAssumption DEF Frames, Null
    <2> QED BY <2>1 DEF ToWalk, Words
  <1>4. SeenMap(w, r) \in [UserPages \cup MappedPages -> [frame : Int, bits : SUBSET Bits] \cup {None}]
    BY <1>1, <1>2, <1>3 DEF SeenMap
  <1>5. SeenMap(w, r) # None
    BY <1>4, PagesAssumption
  <1> QED BY <1>1, <1>2, <1>5 DEF SeenMap

LEMMA UserNotMapped ==
    ASSUME NEW v \in UserPages
    PROVE  v \notin MappedPages
  BY PagesAssumption DEF UserIndices

\* The maps of two memories that agree on the leaves of the user pages.
LEMMA SameMap ==
    ASSUME EnoughForKernel, NEW w, NEW fr, NEW R, Sound(w, fr, R),
           NEW x, NEW gr, NEW S, Sound(x, gr, S), NEW r, r \in R, r \in S, r # Swapper,
           \A v \in UserPages : LeafAt(x, r, v) = LeafAt(w, r, v)
    PROVE  SeenMap(x, r) = SeenMap(w, r)
  <1>1. ASSUME NEW v \in MappedPages PROVE Walk(x, r, v) = Walk(w, r, v)
    BY KernelWalks
  <1>2. ASSUME NEW v \in UserPages PROVE Walk(x, r, v) = Walk(w, r, v)
    BY RootWalk
  <1> QED BY <1>1, <1>2 DEF SeenMap

\* A task has a map once it has a root.
LEMMA SeenLive ==
    ASSUME EnoughForKernel, IInv
    PROVE  /\ \A t \in Live : t \in Tasks /\ SeenSpace[t] = SeenMap(word, pgd[t]) /\ SeenSpace[t] # None
           /\ \A t \in Tasks \ Live : SeenSpace[t] = None
           /\ Spaces!Live = Live
  <1>1. ASSUME NEW t \in Live
        PROVE  t \in Tasks /\ SeenSpace[t] = SeenMap(word, pgd[t]) /\ SeenSpace[t] # None
    <2>1. t \in Tasks /\ pgd[t] # None
      BY DEF Live
    <2>2. Sound(word, free, Roots) /\ pgd[t] \in Roots /\ pgd[t] # Swapper
      BY RootFacts DEF IInv
    <2>3. SeenSpace[t] = SeenMap(word, pgd[t])
      BY <2>1 DEF SeenSpace, Space, SeenMap
    <2>4. SeenMap(word, pgd[t]) # None
      BY <2>2, SeenMapIs
    <2> QED BY <2>1, <2>3, <2>4
  <1>2. \A t \in Tasks \ Live : SeenSpace[t] = None
    BY DEF SeenSpace, Space, Live
  <1>3. Spaces!Live = {t \in Tasks : SeenSpace[t] # None}
    BY DEF Spaces!Live, SeenSpace
  <1>4. Live \subseteq Tasks
    BY DEF Live
  <1> QED BY <1>1, <1>2, <1>3, <1>4

\* A task whose root and leaves are not touched keeps its map.
LEMMA SeenKept ==
    ASSUME EnoughForKernel, IInv, satp # EarlyDir, NEW S, Sound(word', free', S), Roots \subseteq S,
           NEW t \in Live, pgd'[t] = pgd[t],
           \A v \in UserPages : LeafAt(word', pgd[t], v) = LeafAt(word, pgd[t], v)
    PROVE  SeenSpace'[t] = SeenSpace[t]
  <1>1. t \in Tasks /\ pgd[t] # None
    BY DEF Live
  <1>2. Sound(word, free, Roots) /\ pgd[t] \in Roots /\ pgd[t] # Swapper
    BY RootFacts DEF IInv
  <1>3. PICK r : r = pgd[t]
    OBVIOUS
  <1>4. SeenMap(word', r) = SeenMap(word, r)
    BY <1>2, <1>3, SameMap
  <1>5. SeenSpace[t] = SeenMap(word, r)
    BY <1>1, <1>3 DEF SeenSpace, Space, SeenMap
  <1>6. SeenSpace'[t] = SeenMap(word', r)
    BY <1>1, <1>3 DEF SeenSpace, Space, SeenMap
  <1> QED BY <1>4, <1>5, <1>6

\* The steps of AddressSpaces, in terms of what is seen.
FreshMap == [v \in UserPages \cup MappedPages |-> IF v \in MappedPages THEN KernelLeaf(v) ELSE None]

LEMMA FreshIs == Spaces!Fresh = FreshMap /\ Spaces!Pages = UserPages \cup MappedPages
  <1>1. DOMAIN KernelMap = MappedPages /\ \A v \in MappedPages : KernelMap[v] = KernelLeaf(v)
    BY DEF KernelMap
  <1>2. Spaces!Pages = UserPages \cup MappedPages
    BY <1>1, Zenon DEF Spaces!Pages
  <1>3. Spaces!Fresh = [v \in UserPages \cup MappedPages |->
                           IF v \in MappedPages THEN KernelMap[v] ELSE None]
    BY <1>1, <1>2, Zenon DEF Spaces!Fresh
  <1>4. \A v \in UserPages \cup MappedPages :
            (IF v \in MappedPages THEN KernelMap[v] ELSE None)
            = (IF v \in MappedPages THEN KernelLeaf(v) ELSE None)
    BY <1>1
  <1> QED BY <1>2, <1>3, <1>4 DEF FreshMap

\* A map none of whose user pages is mapped.
LEMMA FreshSeen ==
    ASSUME EnoughForKernel, NEW w, NEW fr, NEW R, Sound(w, fr, R), NEW r \in R, r # Swapper,
           \A v \in UserPages : LeafAt(w, r, v) = Empty
    PROVE  SeenMap(w, r) = FreshMap
  <1>1. ASSUME NEW v \in MappedPages PROVE Walk(w, r, v) = KernelLeaf(v)
    BY KernelWalks
  <1>2. ASSUME NEW v \in UserPages PROVE Walk(w, r, v) = None /\ v \notin MappedPages
    <2>1. ~ Valid(Empty)
      BY EmptyIs
    <2> QED BY <2>1, RootWalk, UserNotMapped
  <1> QED BY <1>1, <1>2 DEF SeenMap, FreshMap

LEMMA SpacesCreateIs ==
    ASSUME EnoughForKernel, IInv, NEW t \in Tasks, t \notin Live,
           SeenSpace' = [SeenSpace EXCEPT ![t] = FreshMap]
    PROVE  Spaces!Next
  <1>1. Spaces!Live = Live
    BY SeenLive
  <1>2. Spaces!Create(t)
    BY <1>1, FreshIs, Zenon DEF Spaces!Create, SeenSpace
  <1> QED BY <1>2 DEF Spaces!Next

LEMMA SpacesMapIs ==
    ASSUME EnoughForKernel, IInv, NEW t \in Live, NEW v \in UserPages, NEW e,
           e \in [frame : Frames, bits : SUBSET Bits],
           \A u \in Live, x \in UserPages :
              SeenSpace[u][x] # None => SeenSpace[u][x].frame # e.frame,
           SeenSpace' = [SeenSpace EXCEPT ![t][v] = e]
    PROVE  Spaces!Next
  <1>1. Spaces!Live = Live /\ t \in Tasks
    BY SeenLive
  <1>2. SeenSpace'[t][v] = e
    <2>1. SeenSpace[t] = SeenMap(word, pgd[t]) /\ DOMAIN SeenSpace = Tasks
      BY SeenLive DEF SeenSpace
    <2>2. DOMAIN SeenSpace[t] = UserPages \cup MappedPages
      BY <2>1 DEF SeenMap
    <2> QED BY <1>1, <2>1, <2>2
  <1>3. Spaces!Map(t, v)
    <2>1. SeenSpace'[t][v] \in [frame : Frames, bits : SUBSET Bits]
      BY <1>2
    <2>2. \A u \in Spaces!Live, x \in UserPages :
             SeenSpace[u][x] # None /\ <<u, x>> # <<t, v>>
             => SeenSpace[u][x].frame # SeenSpace'[t][v].frame
      BY <1>1, <1>2, Zenon
    <2>3. SeenSpace' = [SeenSpace EXCEPT ![t][v] = SeenSpace'[t][v]]
      BY <1>2, Zenon
    <2> QED BY <1>1, <2>1, <2>2, <2>3, Zenon DEF Spaces!Map, SeenSpace
  <1> QED BY <1>1, <1>3 DEF Spaces!Next

\* The maps of parent and child after a fork.
NoWriteLeaf(e) == [e EXCEPT !.bits = @ \ {"W"}]
ParentMap(m) == [v \in UserPages \cup MappedPages |->
    IF v \in {p \in UserPages : m[p] # None} THEN NoWriteLeaf(m[v]) ELSE m[v]]
ChildMap(m, copied) == [v \in UserPages \cup MappedPages |->
    IF v \in copied THEN NoWriteLeaf(m[v]) ELSE FreshMap[v]]

Copied(m, c) == {v \in {p \in UserPages : m[p] # None} : c[v] # None}
SpacesForked(t, u, m, c) ==
    /\ m = SeenSpace[t] /\ c = SeenSpace'[u] /\ c # None
    /\ SeenSpace' = [SeenSpace EXCEPT ![t] = ParentMap(m), ![u] = ChildMap(m, Copied(m, c))]

LEMMA SpacesForkIs ==
    ASSUME EnoughForKernel, IInv, NEW t \in Live, NEW u \in Tasks, u \notin Live,
           NEW m, NEW c, SpacesForked(t, u, m, c)
    PROVE  Spaces!Next
  <1>1. Spaces!Live = Live /\ t \in Tasks
    BY SeenLive
  <1>2. Spaces!Maps(t) = {p \in UserPages : m[p] # None}
    BY Zenon DEF SpacesForked, Spaces!Maps, SeenSpace
  <1>3. Spaces!Fork(t, u)
    BY <1>1, <1>2, FreshIs, Zenon
       DEF SpacesForked, Copied, Spaces!Fork, SeenSpace, Spaces!NoWrite, NoWriteLeaf, ParentMap, ChildMap
  <1> QED BY <1>1, <1>3 DEF Spaces!Next

-----------------------------------------------------------------------------
(* The steps of PageTable are steps of AddressSpaces.                      *)

\* Before the kernel has its tables there is no task.
LEMMA SpacesInit == EnoughForKernel => (Init => Spaces!Init)
  <1> SUFFICES ASSUME Init PROVE Spaces!Init
    OBVIOUS
  <1>1. \A t \in Tasks : Space(t) = None
    BY DEF Init, Space
  <1> QED BY <1>1, Zenon DEF Spaces!Init

\* setup_vm_final and switch_mm are not seen.
LEMMA SpacesKept ==
    ASSUME EnoughForKernel, IInv, pgd' = pgd, word' = word \/ Live = {}
    PROVE  UNCHANGED [t \in Tasks |-> Space(t)]
  <1>1. ASSUME NEW t \in Tasks PROVE Space(t)' = Space(t)
    BY DEF Space, Live
  <1> QED BY <1>1

\* task_init
LEMMA TaskInitSpaces ==
    ASSUME EnoughForKernel, IInv, IInv', NEW t \in Tasks, task_init(t)
    PROVE  Spaces!Next
  <1>1. PICK f : /\ pgd' = [pgd EXCEPT ![t] = f] /\ satp' = satp /\ satp # EarlyDir
                 /\ t \notin Live
                 /\ WithRoot(word, word', Roots, f)
                 /\ Sound(word', free', Roots \cup {f})
    BY TaskInitIs
  <1>2. f \in Frames \ Image /\ f \notin Roots /\ f # None /\ f # Swapper
    BY <1>1, SizesAssumption DEF WithRoot
  <1>3. /\ pgd'[t] = f /\ \A u \in Tasks : u # t => pgd'[u] = pgd[u]
    BY <1>1, <1>2, GrowRoots
  <1>4. SeenSpace'[t] = FreshMap
    <2>1. \A v \in UserPages : LeafAt(word', f, v) = Empty
      BY <1>1 DEF WithRoot
    <2>2. SeenMap(word', f) = FreshMap
      BY <1>1, <1>2, <2>1, FreshSeen
    <2> QED BY <1>2, <1>3, <2>2 DEF SeenSpace, Space, SeenMap
  <1>5. ASSUME NEW u \in Tasks, u # t PROVE SeenSpace'[u] = SeenSpace[u]
    <2>1. CASE u \in Live
      <3>1. pgd[u] \in Roots \ {Swapper}
        BY <2>1, RootFacts
      <3>2. \A v \in UserPages : LeafAt(word', pgd[u], v) = LeafAt(word, pgd[u], v)
        BY <1>1, <3>1 DEF WithRoot, SamePages
      <3> QED BY <1>1, <1>3, <1>5, <2>1, <3>2, SeenKept
    <2>2. CASE u \notin Live
      BY <1>3, <1>5, <2>2 DEF SeenSpace, Space, Live
    <2> QED BY <2>1, <2>2
  <1>6. SeenSpace' = [SeenSpace EXCEPT ![t] = FreshMap]
    BY <1>4, <1>5 DEF SeenSpace
  <1> QED BY <1>1, <1>6, SpacesCreateIs

\* do_page_fault
LEMMA FaultSpaces ==
    ASSUME EnoughForKernel, IInv, IInv', NEW t \in Tasks, NEW v \in UserPages,
           NEW d \in UserWords \cup {Empty}, do_page_fault(t, v, d)
    PROVE  [Spaces!Next]_([x \in Tasks |-> Space(x)])
  <1>1. /\ pgd' = pgd /\ satp' = satp /\ t \in Live /\ satp # EarlyDir
        /\ Sound(word', free', Roots)
        /\ \/ \E f \in free : OnePage(word, word', Roots, pgd[t], v,
                                      [ppn |-> f, bits |-> Vma[v] \cup {"U", "V"}])
           \/ SamePages(word, word', Roots)
    BY FaultIs
  <1>2. ASSUME NEW u \in Tasks, u \notin Live PROVE SeenSpace'[u] = SeenSpace[u]
    BY <1>1, <1>2 DEF SeenSpace, Space, Live
  <1>3. CASE SamePages(word, word', Roots)
    <2>1. ASSUME NEW u \in Live PROVE SeenSpace'[u] = SeenSpace[u]
      <3>1. pgd[u] \in Roots \ {Swapper}
        BY RootFacts
      <3>2. \A p \in UserPages : LeafAt(word', pgd[u], p) = LeafAt(word, pgd[u], p)
        BY <1>3, <3>1 DEF SamePages
      <3> QED BY <1>1, <3>2, SeenKept
    <2> QED BY <1>2, <2>1 DEF SeenSpace
  <1>4. ASSUME NEW f \in free,
               OnePage(word, word', Roots, pgd[t], v, [ppn |-> f, bits |-> Vma[v] \cup {"U", "V"}])
        PROVE  Spaces!Next
    <2>1. PICK bits : bits = Vma[v] \cup {"U", "V"} /\ "V" \in bits
      OBVIOUS
    <2>2. OnePage(word, word', Roots, pgd[t], v, [ppn |-> f, bits |-> bits])
      BY <1>4, <2>1
    <2>3. PICK e : e = [frame |-> f, bits |-> bits]
      OBVIOUS
    <2>4. e \in [frame : Frames, bits : SUBSET Bits] /\ e.frame = f
      <3>1. Vma[v] \in SUBSET Bits
        BY PagesAssumption
      <3>2. f \in Frames
        BY DEF IInv, TypeOK
      <3> QED BY <2>1, <2>3, <3>1, <3>2 DEF Bits
    <2>5. Walk(word', pgd[t], v) = e
      BY <1>1, <2>1, <2>2, <2>3, NewWalk
    <2>6. ASSUME NEW u \in Live PROVE pgd[u] \in Roots \ {Swapper} /\ u \in Tasks /\ pgd[u] # None
      BY RootFacts DEF Live
    <2>7. ASSUME NEW u \in Live, u # t PROVE SeenSpace'[u] = SeenSpace[u]
      <3>1. pgd[u] # pgd[t]
        BY <1>1, <2>7 DEF IInv, RootsApart
      <3>2. \A p \in UserPages : LeafAt(word', pgd[u], p) = LeafAt(word, pgd[u], p)
        BY <2>2, <2>6, <3>1 DEF OnePage
      <3> QED BY <1>1, <3>2, SeenKept
    <2>8. SeenSpace'[t] = [SeenSpace[t] EXCEPT ![v] = e]
      <3>1. /\ SeenSpace[t] = SeenMap(word, pgd[t])
            /\ SeenSpace'[t] = SeenMap(word', pgd[t])
        BY <1>1, <2>6 DEF SeenSpace, Space, SeenMap
      <3>2. PICK r \in Roots : r = pgd[t] /\ r # Swapper
        BY <1>1, <2>6
      <3>3. Sound(word, free, Roots)
        BY <1>1 DEF IInv
      <3>4. ASSUME NEW p \in MappedPages PROVE Walk(word', r, p) = Walk(word, r, p) /\ p # v
        <4>1. Walk(word', r, p) = KernelLeaf(p) /\ Walk(word, r, p) = KernelLeaf(p)
          BY <1>1, <3>3, KernelWalks
        <4> QED BY <4>1, UserNotMapped
      <3>5. ASSUME NEW p \in UserPages, p # v PROVE Walk(word', r, p) = Walk(word, r, p)
        <4>1. LeafAt(word', r, p) = LeafAt(word, r, p)
          BY <2>2, <3>2, <3>5 DEF OnePage
        <4> QED BY <1>1, <3>2, <3>3, <4>1, RootWalk
      <3>6. SeenMap(word', r) = [SeenMap(word, r) EXCEPT ![v] = e]
        BY <2>5, <3>2, <3>4, <3>5 DEF SeenMap
      <3> QED BY <3>1, <3>2, <3>6
    <2>9. SeenSpace' = [SeenSpace EXCEPT ![t][v] = e]
      BY <1>2, <2>7, <2>8 DEF SeenSpace
    <2>10. ASSUME NEW u \in Live, NEW p \in UserPages, SeenSpace[u][p] # None
           PROVE  SeenSpace[u][p].frame # e.frame
      <3>1. SeenSpace[u][p] = Walk(word, pgd[u], p)
        BY <2>6 DEF SeenSpace, Space
      <3>2. Walk(word, pgd[u], p).frame \notin free
        BY <1>1, <2>10, <3>1, MappedIsTaken
      <3> QED BY <2>4, <3>1, <3>2
    <2> QED BY <1>1, <2>4, <2>9, <2>10, SpacesMapIs
  <1> QED BY <1>1, <1>3, <1>4

\* The leaves of a fork, as the hardware sees them.
LEMMA FadedSeen ==
    ASSUME NEW e \in Words
    PROVE  /\ Valid(e) => ToWalk(Faded(e)) = NoWriteLeaf(ToWalk(e)) /\ ToWalk(Faded(e)) # None
           /\ ~ Valid(e) => ToWalk(Faded(e)) = None /\ ToWalk(e) = None
           /\ Valid(e) => ToWalk(e) # None
           /\ ToWalk(Empty) = None
  <1>1. Valid(Faded(e)) <=> Valid(e)
    BY FadedIs
  <1>2. Faded(e).ppn = e.ppn /\ Faded(e).bits = e.bits \ {"W"}
    BY FadedIs
  <1>3. ASSUME Valid(e)
        PROVE  /\ ToWalk(e) = [frame |-> e.ppn, bits |-> e.bits]
               /\ ToWalk(Faded(e)) = [frame |-> e.ppn, bits |-> e.bits \ {"W"}]
               /\ ToWalk(e) # None /\ ToWalk(Faded(e)) # None
    <2>1. /\ ToWalk(e) = [frame |-> e.ppn, bits |-> e.bits]
          /\ ToWalk(Faded(e)) = [frame |-> e.ppn, bits |-> e.bits \ {"W"}]
      BY <1>1, <1>2, <1>3 DEF ToWalk
    <2>2. e.ppn \in Int /\ e.bits \in SUBSET Bits
      <3>1. Frames \subseteq Int /\ Device \subseteq Int /\ Null \in Int
        BY SizesAssumption DEF Frames, Null
      <3> QED BY <3>1 DEF Words
    <2>3. \A b \in SUBSET Bits : [frame |-> e.ppn, bits |-> b] # None
      BY <2>2, SizesAssumption
    <2> QED BY <2>1, <2>2, <2>3
  <1>4. Valid(e) => ToWalk(Faded(e)) = NoWriteLeaf(ToWalk(e))
    BY <1>3 DEF NoWriteLeaf
  <1>5. ~ Valid(Empty)
    BY EmptyIs
  <1> QED BY <1>1, <1>3, <1>4, <1>5 DEF ToWalk

\* do_fork
LEMMA ForkSpaces ==
    ASSUME EnoughForKernel, IInv, IInv', NEW t \in Tasks, NEW u \in Tasks, NEW pages \in Orders,
           do_fork(t, u, pages)
    PROVE  Spaces!Next
  <1>1. PICK f : /\ pgd' = [pgd EXCEPT ![u] = f] /\ satp' = satp /\ satp # EarlyDir
                 /\ t \in Live /\ u \notin Live
                 /\ f \in Frames \ Image /\ f \notin Roots
                 /\ Forked(word, word', Roots, pgd[t], f)
                 /\ Sound(word', free', Roots \cup {f})
    BY ForkIs
  <1>2. f # None /\ f # Swapper /\ t # u
    BY <1>1, SizesAssumption
  <1>3. /\ pgd'[u] = f /\ \A x \in Tasks : x # u => pgd'[x] = pgd[x]
    BY <1>1, GrowRoots
  <1>4. Sound(word, free, Roots)
    BY <1>1 DEF IInv
  <1>5. ASSUME NEW x \in Live PROVE pgd[x] \in Roots \ {Swapper} /\ x \in Tasks /\ pgd[x] # None
    BY RootFacts DEF Live
  <1>6. PICK r \in Roots : r = pgd[t] /\ r # Swapper
    BY <1>1, <1>5
  <1>7. PICK m : m = SeenSpace[t]
    OBVIOUS
  <1>8. PICK c : c = SeenSpace'[u]
    OBVIOUS
  <1>9. m = SeenMap(word, r)
    BY <1>1, <1>5, <1>6, <1>7 DEF SeenSpace, Space, SeenMap
  <1>10. c = SeenMap(word', f)
    BY <1>2, <1>3, <1>8 DEF SeenSpace, Space, SeenMap
  <1>11. SeenSpace'[t] = SeenMap(word', r)
    BY <1>1, <1>2, <1>3, <1>5, <1>6 DEF SeenSpace, Space, SeenMap
  <1>12. ASSUME NEW v \in MappedPages
         PROVE  /\ m[v] = KernelLeaf(v) /\ c[v] = KernelLeaf(v)
                /\ SeenMap(word', r)[v] = KernelLeaf(v)
    BY <1>1, <1>2, <1>4, <1>6, <1>9, <1>10, SeenMapIs
  <1>13. ASSUME NEW v \in UserPages
         PROVE  \E e \in Words :
                   /\ m[v] = ToWalk(e)
                   /\ SeenMap(word', r)[v] = ToWalk(Faded(e))
                   /\ \/ c[v] = None
                      \/ Valid(e) /\ c[v] = ToWalk(Faded(e))
    <2>1. PICK e : e = LeafAt(word, r, v)
      OBVIOUS
    <2>2. e \in Words
      BY <1>4, <1>6, <2>1, RootWalk
    <2>3. m[v] = ToWalk(e) /\ SeenMap(word', r)[v] = ToWalk(LeafAt(word', r, v))
          /\ c[v] = ToWalk(LeafAt(word', f, v))
      BY <1>1, <1>2, <1>4, <1>6, <1>9, <1>10, <2>1, SeenMapIs
    <2>4. LeafAt(word', r, v) = Faded(e)
      BY <1>1, <1>6, <2>1 DEF Forked
    <2>5. \/ LeafAt(word', f, v) = Empty
          \/ Valid(e) /\ LeafAt(word', f, v) = Faded(e)
      BY <1>1, <1>6, <2>1 DEF Forked
    <2>6. ToWalk(Empty) = None
      BY <2>2, FadedSeen
    <2> QED BY <2>2, <2>3, <2>4, <2>5, <2>6
  <1>14. PICK copied : copied = Copied(m, c)
    OBVIOUS
  <1>15. SeenSpace'[t] = ParentMap(m)
    <2>1. ASSUME NEW v \in UserPages
          PROVE  SeenMap(word', r)[v] = IF m[v] # None THEN NoWriteLeaf(m[v]) ELSE m[v]
      BY <1>13, FadedSeen
    <2>2. ASSUME NEW v \in MappedPages
          PROVE  SeenMap(word', r)[v] = m[v] /\ v \notin UserPages
      BY <1>12, UserNotMapped
    <2> QED BY <1>11, <2>1, <2>2 DEF SeenMap, ParentMap
  <1>16. c = ChildMap(m, copied)
    <2>1. ASSUME NEW v \in UserPages
          PROVE  c[v] = IF v \in copied THEN NoWriteLeaf(m[v]) ELSE None
      <3>1. PICK e \in Words : /\ m[v] = ToWalk(e)
                               /\ \/ c[v] = None
                                  \/ Valid(e) /\ c[v] = ToWalk(Faded(e))
        BY <1>13
      <3> QED BY <1>14, <3>1, FadedSeen DEF Copied
    <2>2. ASSUME NEW v \in MappedPages
          PROVE  c[v] = KernelLeaf(v) /\ v \notin copied
      BY <1>12, <1>14, UserNotMapped DEF Copied
    <2>3. ASSUME NEW v \in UserPages PROVE FreshMap[v] = None
      BY UserNotMapped DEF FreshMap
    <2>4. ASSUME NEW v \in MappedPages PROVE FreshMap[v] = KernelLeaf(v)
      BY DEF FreshMap
    <2> QED BY <1>10, <2>1, <2>2, <2>3, <2>4 DEF SeenMap, ChildMap
  <1>17. c # None
    BY <1>1, <1>2, <1>10, SeenMapIs
  <1>18. ASSUME NEW x \in Tasks, x # t, x # u PROVE SeenSpace'[x] = SeenSpace[x]
    <2>1. CASE x \in Live
      <3>1. pgd[x] # pgd[t]
        BY <1>1, <1>18, <2>1 DEF IInv, RootsApart
      <3>2. \A v \in UserPages : LeafAt(word', pgd[x], v) = LeafAt(word, pgd[x], v)
        BY <1>1, <1>5, <2>1, <3>1 DEF Forked
      <3> QED BY <1>1, <1>3, <1>18, <2>1, <3>2, SeenKept
    <2>2. CASE x \notin Live
      BY <1>3, <1>18, <2>2 DEF SeenSpace, Space, Live
    <2> QED BY <2>1, <2>2
  <1>19. SeenSpace' = [SeenSpace EXCEPT ![t] = ParentMap(m), ![u] = ChildMap(m, copied)]
    <2>1. SeenSpace'[u] = ChildMap(m, copied)
      BY <1>8, <1>16
    <2> HIDE DEF ParentMap, ChildMap
    <2> QED BY <1>2, <1>15, <1>18, <2>1 DEF SeenSpace
  <1>20. SpacesForked(t, u, m, c)
    BY <1>7, <1>8, <1>14, <1>17, <1>19, Zenon DEF SpacesForked
  <1> QED BY <1>1, <1>20, SpacesForkIs

LEMMA NextSpaces ==
    ASSUME EnoughForKernel, IInv, IInv', [Next]_vars
    PROVE  [Spaces!Next]_([t \in Tasks |-> Space(t)])
  <1>1. CASE setup_vm_final
    BY <1>1, SetupIs, SpacesKept DEF setup_vm_final
  <1>2. CASE \E t \in Tasks : task_init(t)
    BY <1>2, TaskInitSpaces
  <1>3. CASE \E t \in Tasks : switch_mm(t)
    BY <1>3, SpacesKept DEF switch_mm
  <1>4. CASE \E t \in Tasks, v \in UserPages, d \in UserWords \cup {Empty} : do_page_fault(t, v, d)
    BY <1>4, FaultSpaces
  <1>5. CASE \E t, u \in Tasks, pages \in Orders : do_fork(t, u, pages)
    BY <1>5, ForkSpaces
  <1>6. CASE UNCHANGED vars
    BY <1>6, SpacesKept DEF vars
  <1> QED BY <1>1, <1>2, <1>3, <1>4, <1>5, <1>6 DEF Next

\* If there are frames for the tables of the kernel's own map, the tables in memory
\* implement one map for every task: a fault maps one page of one task, to a frame
\* mapped nowhere else, a fork shares the parent's pages without the W bit, and
\* nothing else changes what any task sees.
THEOREM ImplementsAddressSpaces == EnoughForKernel => (Spec => AddressSpacesSpec)
  <1> SUFFICES ASSUME EnoughForKernel PROVE Spec => AddressSpacesSpec
    OBVIOUS
  <1>1. Init => IInv /\ Spaces!Init
    BY InitInv, SpacesInit
  <1>2. IInv /\ [Next]_vars => IInv'
    BY StepInv
  <1>3. IInv /\ IInv' /\ [Next]_vars => [Spaces!Next]_([t \in Tasks |-> Space(t)])
    BY NextSpaces
  <1> QED BY <1>1, <1>2, <1>3, PTL DEF Spec, AddressSpacesSpec, Spaces!Spec

-----------------------------------------------------------------------------
(* Sched.                                                                  *)

USE SchedAssumption

-----------------------------------------------------------------------------
(* schedule()                                                              *)

\* The task that schedule() chooses exists and has most ticks.
LEMMA BestIsLongest ==
    ASSUME SchedTypeOK, NEW c \in [TaskIds -> 0 .. PRIORITY_MAX], NEW t \in Best(c)
    PROVE  /\ t \in UserTasks
           /\ \A u \in UserTasks : c[u] <= c[t]
<1>1. UserTasks \subseteq TaskIds
  BY DEF SchedTypeOK, TaskIds, UserTasks
<1>2. \A u \in UserTasks : c[u] \in 0 .. PRIORITY_MAX
  BY <1>1
<1>3. t \in UserTasks /\ \A u \in UserTasks : c[u] < c[t] \/ c[u] = c[t]
  BY DEF Best
<1> QED
  BY <1>2, <1>3

\* A refill gives every task its priority; otherwise somebody has a tick.
LEMMA RefilledFacts ==
    ASSUME SchedTypeOK, NEW c \in [TaskIds -> 0 .. PRIORITY_MAX],
           \A t \in UserTasks : priority[t] >= PRIORITY_MIN
    PROVE  /\ UserTasks \subseteq TaskIds /\ 1 \in UserTasks
           /\ Refilled(c) \in [TaskIds -> 0 .. PRIORITY_MAX]
           /\ Exhausted(c) => \A t \in UserTasks : Refilled(c)[t] = priority[t]
           /\ ~Exhausted(c) => Refilled(c) = c
           /\ \E t \in UserTasks : Refilled(c)[t] > 0
<1>1. UserTasks \subseteq TaskIds /\ 1 \in UserTasks
  BY DEF SchedTypeOK, TaskIds, UserTasks
<1>2. CASE Exhausted(c)
  <2>1. Refilled(c) = [t \in TaskIds |-> IF t \in UserTasks THEN priority[t] ELSE c[t]]
    BY <1>2 DEF Refilled
  <2>2. Refilled(c) \in [TaskIds -> 0 .. PRIORITY_MAX]
    BY <2>1 DEF SchedTypeOK
  <2>3. \A t \in UserTasks : Refilled(c)[t] = priority[t]
    BY <1>1, <2>1
  <2>4. priority[1] > 0
    BY <1>1 DEF SchedTypeOK
  <2> QED
    BY <1>1, <1>2, <2>2, <2>3, <2>4
<1>3. CASE ~Exhausted(c)
  BY <1>1, <1>3 DEF Refilled, Exhausted
<1> QED
  BY <1>2, <1>3

\* The effect of schedule() on counters whose running task has used its slice.
LEMMA ScheduleEffect ==
    ASSUME SchedInv, NEW c \in [TaskIds -> 0 .. PRIORITY_MAX], schedule(c),
           UNCHANGED <<nr_tasks, priority>>,
           \A t \in UserTasks \ (born \cup {current}) : c[t] \in {0, priority[t]},
           current # 0 => c[current] = 0
    PROVE  /\ counter' \in [TaskIds -> 0 .. PRIORITY_MAX]
           /\ current' \in UserTasks /\ counter'[current'] > 0
           /\ \A t \in UserTasks : counter'[t] <= counter'[current']
           /\ born' \subseteq UserTasks
           /\ SlicesWhole'
<1>1. counter' = Refilled(c) /\ born' = IF Exhausted(c) THEN {} ELSE born
  BY DEF schedule
<1>2. /\ UserTasks \subseteq TaskIds
      /\ counter' \in [TaskIds -> 0 .. PRIORITY_MAX]
      /\ Exhausted(c) => \A t \in UserTasks : counter'[t] = priority[t]
      /\ ~Exhausted(c) => counter' = c
      /\ \E t \in UserTasks : counter'[t] > 0
  BY <1>1, RefilledFacts DEF SchedInv
<1>3. current' \in Best(counter')
  BY <1>1 DEF schedule
<1>4. current' \in UserTasks /\ \A u \in UserTasks : counter'[u] <= counter'[current']
  BY <1>2, <1>3, BestIsLongest DEF SchedInv
<1>5. counter'[current'] > 0
  BY <1>2, <1>4
<1>6. born' \subseteq UserTasks
  BY <1>1 DEF SchedInv
<1>7. SlicesWhole'
  <2> SUFFICES ASSUME NEW t \in UserTasks, t \notin born', t # current'
               PROVE  counter'[t] \in {0, priority[t]}
    BY DEF SlicesWhole, UserTasks
  <2>1. CASE Exhausted(c)
    BY <1>2, <2>1
  <2>2. CASE ~Exhausted(c)
    <3>1. t \notin born /\ counter'[t] = c[t]
      BY <1>1, <1>2, <2>2
    <3>2. t # 0
      BY DEF UserTasks
    <3> QED
      BY <3>1, <3>2
  <2> QED
    BY <2>1, <2>2
<1> QED
  BY <1>2, <1>4, <1>5, <1>6, <1>7

\* The tick leaves every other counter alone.
LEMMA ChargedFacts ==
    ASSUME SchedInv, mode # "boot"
    PROVE  /\ Charged \in [TaskIds -> 0 .. PRIORITY_MAX]
           /\ Charged[current] = counter[current] - 1
           /\ \A t \in UserTasks \ {current} : Charged[t] = counter[t]
<1>1. /\ current \in UserTasks /\ counter[current] > 0
      /\ current # 0 /\ current \in TaskIds
  BY DEF SchedInv, SchedTypeOK, RunningHasQuantum, UserTasks, TaskIds
<1>2. Charged = [counter EXCEPT ![current] = @ - 1]
  BY <1>1 DEF Charged, SchedInv, SchedTypeOK
<1>3. UserTasks \subseteq TaskIds
  BY DEF SchedInv, SchedTypeOK, UserTasks, TaskIds
<1> QED
  BY <1>1, <1>2, <1>3 DEF SchedInv, SchedTypeOK

-----------------------------------------------------------------------------
(* The inductive invariant.                                                *)

LEMMA InitIInv == SchedInit => SchedInv
<1> SUFFICES ASSUME SchedInit PROVE SchedInv
  OBVIOUS
<1>1. UserTasks \subseteq TaskIds
  BY DEF SchedInit, UserTasks, TaskIds
<1>2. SchedTypeOK
  BY <1>1 DEF SchedInit, SchedTypeOK
<1>3. Exhausted(counter) /\ SlicesWhole
  BY <1>1 DEF SchedInit, Exhausted, SlicesWhole
<1>4. \A t \in UserTasks : priority[t] >= PRIORITY_MIN
  BY <1>1 DEF SchedInit
<1> QED
  BY <1>2, <1>3, <1>4 DEF SchedInit, SchedInv, RunningHasQuantum

\* A step of schedule() keeps the invariant.
LEMMA ScheduleIInv ==
    ASSUME SchedInv, NEW c \in [TaskIds -> 0 .. PRIORITY_MAX], schedule(c),
           UNCHANGED <<nr_tasks, priority>>,
           \A t \in UserTasks \ (born \cup {current}) : c[t] \in {0, priority[t]},
           current # 0 => c[current] = 0,
           timer' \in {"armed", "pending"}, mode' = "user"
    PROVE  SchedInv'
<1>1. /\ counter' \in [TaskIds -> 0 .. PRIORITY_MAX]
      /\ current' \in UserTasks /\ counter'[current'] > 0
      /\ born' \subseteq UserTasks
      /\ SlicesWhole'
  BY ScheduleEffect
<1>2. UserTasks' = UserTasks /\ UserTasks \subseteq TaskIds
  BY DEF UserTasks, TaskIds, SchedInv, SchedTypeOK
<1>3. SchedTypeOK'
  BY <1>1, <1>2 DEF SchedInv, SchedTypeOK, UserTasks
<1> QED
  BY <1>1, <1>2, <1>3 DEF SchedInv, RunningHasQuantum

LEMMA TimerInterruptIInv ==
    ASSUME SchedInv, TimerInterrupt
    PROVE  SchedInv'
<1>1. /\ mode = "user" /\ mode' = "user" /\ timer' = "armed"
      /\ UNCHANGED <<nr_tasks, priority>> /\ do_timer
  BY DEF TimerInterrupt, clock_set_next_event
<1>2. /\ Charged \in [TaskIds -> 0 .. PRIORITY_MAX]
      /\ Charged[current] = counter[current] - 1
      /\ \A t \in UserTasks \ {current} : Charged[t] = counter[t]
  BY <1>1, ChargedFacts
<1>3. current \in UserTasks /\ current # 0 /\ UserTasks' = UserTasks
  BY <1>1 DEF SchedInv, RunningHasQuantum, UserTasks
<1>4. CASE SliceOver
  <2>1. schedule(Charged) /\ Charged[current] = 0
    BY <1>1, <1>3, <1>4 DEF do_timer, SliceOver
  <2>2. \A t \in UserTasks \ (born \cup {current}) : Charged[t] \in {0, priority[t]}
    BY <1>2 DEF SchedInv, SlicesWhole
  <2> QED
    BY <1>1, <1>2, <2>1, <2>2, ScheduleIInv
<1>5. CASE ~SliceOver
  <2>1. counter' = Charged /\ current' = current /\ born' = born
    BY <1>1, <1>5 DEF do_timer
  <2>2. Charged[current] > 0
    <3>1. Charged[current] \in Nat
      BY <1>2, <1>3 DEF SchedInv, SchedTypeOK, TaskIds, UserTasks
    <3> QED
      BY <1>5, <3>1 DEF SliceOver
  <2>3. SchedTypeOK'
    BY <1>1, <1>2, <2>1 DEF SchedInv, SchedTypeOK
  <2>4. SlicesWhole'
    BY <1>1, <1>2, <1>3, <2>1 DEF SchedInv, SlicesWhole
  <2> QED
    BY <1>1, <1>3, <2>1, <2>2, <2>3, <2>4 DEF SchedInv, RunningHasQuantum
<1> QED
  BY <1>4, <1>5

LEMMA ForkIInv ==
    ASSUME SchedInv, Fork
    PROVE  SchedInv'
<1>1. /\ mode = "user" /\ current \in UserTasks /\ counter[current] > 0
      /\ nr_tasks \in TaskIds \ UserTasks /\ current # nr_tasks
      /\ UserTasks \subseteq TaskIds
      /\ nr_tasks' = nr_tasks + 1 /\ UserTasks' = UserTasks \cup {nr_tasks}
  BY DEF Fork, UserStep, SchedInv, SchedTypeOK, RunningHasQuantum, TaskIds, UserTasks
<1>2. /\ counter' = [counter EXCEPT ![nr_tasks] = counter[current]]
      /\ priority' = [priority EXCEPT ![nr_tasks] = priority[current]]
      /\ born' = born \cup {nr_tasks}
      /\ UNCHANGED <<current, timer, mode>>
  BY DEF Fork, ChildQuantum
<1>3. SchedTypeOK'
  <2>1. nr_tasks' \in BootTasks .. MaxTasks /\ current' \in 0 .. nr_tasks' - 1
    BY <1>2 DEF Fork, SchedInv, SchedTypeOK
  <2> QED
    BY <1>1, <1>2, <2>1 DEF SchedInv, SchedTypeOK
<1>4. \A t \in UserTasks : counter'[t] = counter[t] /\ priority'[t] = priority[t]
  BY <1>1, <1>2 DEF SchedInv, SchedTypeOK
<1>5. RunningHasQuantum'
  BY <1>1, <1>2, <1>4 DEF RunningHasQuantum
<1>6. SlicesWhole'
  BY <1>1, <1>2, <1>4 DEF SlicesWhole, SchedInv
<1>7. \A t \in UserTasks' : priority'[t] >= PRIORITY_MIN
  BY <1>1, <1>2, <1>4 DEF SchedInv, SchedTypeOK
<1>8. born' \subseteq UserTasks'
  BY <1>1, <1>2 DEF SchedInv
<1>9. mode' # "boot"
  BY <1>1, <1>2
<1> QED
  BY <1>3, <1>5, <1>6, <1>7, <1>8, <1>9 DEF SchedInv

LEMMA NextIInv == SchedInv /\ [SchedNext]_schedVars => SchedInv'
<1> SUFFICES ASSUME SchedInv, [SchedNext]_schedVars PROVE SchedInv'
  OBVIOUS
<1>1. CASE StartKernel
  <2>1. /\ schedule(counter) /\ timer' = timer /\ mode' = "user"
        /\ UNCHANGED <<nr_tasks, priority>> /\ current = 0
    BY <1>1 DEF StartKernel, SchedInv
  <2>2. \A t \in UserTasks \ (born \cup {current}) : counter[t] \in {0, priority[t]}
    BY DEF SchedInv, SlicesWhole
  <2>3. counter \in [TaskIds -> 0 .. PRIORITY_MAX] /\ timer \in {"armed", "pending"}
    BY DEF SchedInv, SchedTypeOK
  <2> QED
    BY <2>1, <2>2, <2>3, ScheduleIInv
<1>2. ASSUME UNCHANGED <<nr_tasks, current, counter, priority, born>>,
             timer' \in {"armed", "pending"},
             mode' = mode \/ (mode # "boot" /\ mode' \in {"user", "read", "halted"})
      PROVE  SchedInv'
  BY <1>2 DEF SchedInv, SchedTypeOK, RunningHasQuantum, SlicesWhole, Exhausted, UserTasks
<1>3. CASE TimerExpires
  BY <1>2, <1>3 DEF TimerExpires
<1>4. CASE TimerInterrupt
  BY <1>4, TimerInterruptIInv
<1>5. CASE ReadConsole \/ ReadReturns \/ Panic
  BY <1>2, <1>5 DEF ReadConsole, ReadReturns, Panic, UserStep, SchedInv, SchedTypeOK
<1>6. CASE Fork
  BY <1>6, ForkIInv
<1>7. CASE Halted \/ UNCHANGED schedVars
  BY <1>2, <1>7 DEF Halted, schedVars, SchedInv, SchedTypeOK
<1> QED
  BY <1>1, <1>3, <1>4, <1>5, <1>6, <1>7 DEF SchedNext

\* The inductive invariant of the scheduler.
THEOREM Invariance == SchedSpec => []SchedInv
<1> QED
  BY InitIInv, NextIInv, PTL DEF SchedSpec

\* The variables keep their types: no counter leaves 0 .. PRIORITY_MAX.
THEOREM TypeCorrect == SchedSpec => []SchedTypeOK
<1>1. SchedInv => SchedTypeOK
  BY DEF SchedInv
<1> QED
  BY <1>1, Invariance, PTL

\* do_timer never finds idle running or a counter that is already zero: its
\* first branch is dead once the kernel has started.
THEOREM RunningAlwaysHasQuantum == SchedSpec => []RunningHasQuantum
<1>1. SchedInv => RunningHasQuantum
  BY DEF SchedInv
<1> QED
  BY <1>1, Invariance, PTL

\* schedule() is only reached when a slice is over: slices are whole.
THEOREM SlicesAlwaysWhole == SchedSpec => []SlicesWhole
<1>1. SchedInv => SlicesWhole
  BY DEF SchedInv
<1> QED
  BY <1>1, Invariance, PTL

-----------------------------------------------------------------------------
(* Sched implements Rounds.                                                *)

\* A step of schedule() is a slice of the old round or the first of a new one.
LEMMA ScheduleRounds ==
    ASSUME SchedInv, NEW c \in [TaskIds -> 0 .. PRIORITY_MAX], schedule(c),
           UNCHANGED <<nr_tasks, priority>>,
           current # 0 => c[current] = 0,
           \A t \in UserTasks \ {current} : c[t] = counter[t]
    PROVE  /\ current' \in UserTasks
           /\ Round!NextSlice(current') \/ Round!NewRound(current')
           /\ \A t \in UserTasks : counter'[t] <= counter'[current']
<1>1. counter' = Refilled(c) /\ current' \in Best(counter')
  BY DEF schedule
<1>2. /\ UserTasks \subseteq TaskIds /\ UserTasks' = UserTasks
      /\ counter' \in [TaskIds -> 0 .. PRIORITY_MAX]
      /\ Exhausted(c) => \A t \in UserTasks : counter'[t] = priority[t]
      /\ ~Exhausted(c) => counter' = c
      /\ \E t \in UserTasks : counter'[t] > 0
  BY <1>1, RefilledFacts DEF SchedInv, UserTasks
<1>3. current' \in UserTasks /\ \A u \in UserTasks : counter'[u] <= counter'[current']
  BY <1>1, <1>2, BestIsLongest DEF SchedInv
<1>4. counter'[current'] > 0
  BY <1>2, <1>3
<1>5. 0 \notin UserTasks
  BY DEF UserTasks
<1>6. CASE Exhausted(c)
  <2>1. Waiting = {}
    BY <1>6 DEF Waiting, Exhausted
  <2>2. \A t \in UserTasks : counter'[t] > 0
    BY <1>2, <1>6 DEF SchedInv, SchedTypeOK
  <2>3. Waiting' = UserTasks \ {current'}
    BY <1>2, <2>2 DEF Waiting
  <2>4. Round!UserTasks = UserTasks
    BY DEF Round!UserTasks, UserTasks
  <2>5. Round!NewRound(current')
    BY <2>1, <2>3, <2>4 DEF Round!NewRound
  <2> QED
    BY <1>3, <2>5
<1>7. CASE ~Exhausted(c)
  <2>1. counter' = c /\ current' # current /\ current' \in UserTasks
    BY <1>2, <1>3, <1>4, <1>5, <1>7
  <2>2. \A t \in UserTasks : c[t] > 0 <=> t \in Waiting
    BY <1>5 DEF Waiting, SchedInv, SchedTypeOK
  <2>3. current' \in Waiting
    BY <1>4, <2>1, <2>2
  <2>4. Waiting' = Waiting \ {current'}
    <3>1. \A t \in UserTasks : t \in Waiting' <=> t \in Waiting /\ t # current'
      BY <1>2, <2>1, <2>2 DEF Waiting
    <3>2. Waiting \subseteq UserTasks /\ Waiting' \subseteq UserTasks
      BY <1>2 DEF Waiting
    <3> QED
      BY <3>1, <3>2
  <2>5. Round!NextSlice(current')
    BY <2>3, <2>4 DEF Round!NextSlice
  <2> QED
    BY <1>3, <2>5
<1> QED
  BY <1>6, <1>7

LEMMA StartKernelRounds ==
    ASSUME SchedInv, StartKernel
    PROVE  /\ \E t \in UserTasks : Round!NextSlice(t) \/ Round!NewRound(t)
           /\ \A t \in UserTasks : counter'[t] <= counter'[current']
<1>1. /\ schedule(counter) /\ current = 0
      /\ UNCHANGED <<nr_tasks, priority>>
  BY DEF StartKernel, SchedInv
<1>2. counter \in [TaskIds -> 0 .. PRIORITY_MAX]
  BY DEF SchedInv, SchedTypeOK
<1> QED
  BY <1>1, <1>2, ScheduleRounds

\* A timer interrupt within a slice is no step of the rounds.
LEMMA TimerInterruptRounds ==
    ASSUME SchedInv, TimerInterrupt
    PROVE  \/ UNCHANGED <<nr_tasks, current, Waiting>>
           \/ /\ \E t \in UserTasks : Round!NextSlice(t) \/ Round!NewRound(t)
              /\ \A t \in UserTasks : counter'[t] <= counter'[current']
<1>1. mode = "user" /\ UNCHANGED <<nr_tasks, priority>> /\ do_timer
  BY DEF TimerInterrupt
<1>2. /\ Charged \in [TaskIds -> 0 .. PRIORITY_MAX]
      /\ \A t \in UserTasks \ {current} : Charged[t] = counter[t]
  BY <1>1, ChargedFacts
<1>3. CASE SliceOver
  <2>1. schedule(Charged) /\ (current # 0 => Charged[current] = 0)
    BY <1>1, <1>3 DEF do_timer, SliceOver
  <2> QED
    BY <1>1, <1>2, <2>1, ScheduleRounds
<1>4. CASE ~SliceOver
  <2>1. counter' = Charged /\ current' = current
    BY <1>1, <1>4 DEF do_timer
  <2>2. Waiting' = Waiting
    BY <1>1, <1>2, <2>1 DEF Waiting, UserTasks
  <2> QED
    BY <1>1, <2>1, <2>2
<1> QED
  BY <1>3, <1>4

LEMMA ForkRounds ==
    ASSUME SchedInv, Fork
    PROVE  Round!Fork
<1>1. /\ current \in UserTasks /\ current # 0 /\ counter[current] > 0
      /\ nr_tasks \in TaskIds \ UserTasks /\ current # nr_tasks
      /\ UserTasks \subseteq TaskIds
      /\ nr_tasks < MaxTasks
      /\ nr_tasks' = nr_tasks + 1 /\ UserTasks' = UserTasks \cup {nr_tasks}
  BY DEF Fork, UserStep, SchedInv, SchedTypeOK, RunningHasQuantum, TaskIds, UserTasks
<1>2. counter' = [counter EXCEPT ![nr_tasks] = counter[current]] /\ current' = current
  BY DEF Fork, ChildQuantum
<1>3. /\ \A t \in UserTasks : counter'[t] = counter[t]
      /\ counter'[nr_tasks] = counter[current]
  BY <1>1, <1>2 DEF SchedInv, SchedTypeOK
<1>4. Waiting' = Waiting \cup {nr_tasks}
  BY <1>1, <1>2, <1>3 DEF Waiting
<1> QED
  BY <1>1, <1>2, <1>4 DEF Round!Fork

\* The other steps change neither the counters nor the running task.
LEMMA OtherSteps ==
    ASSUME TimerExpires \/ ReadConsole \/ ReadReturns \/ Panic \/ Halted \/ UNCHANGED schedVars
    PROVE  UNCHANGED <<nr_tasks, current, Waiting>>
BY DEF TimerExpires, ReadConsole, ReadReturns, Panic, Halted, schedVars, Waiting, UserTasks

\* The scheduler runs the tasks in rounds: no task gets a second slice before
\* every other task, a forked one included, has had one.
THEOREM ImplementsRounds == SchedSpec => RoundsSpec
<1>1. SchedInit => Round!Init
  <2> SUFFICES ASSUME SchedInit PROVE nr_tasks = BootTasks /\ current = 0 /\ Waiting = {}
    BY DEF Round!Init
  <2>1. UserTasks \subseteq TaskIds
    BY DEF SchedInit, UserTasks, TaskIds
  <2> QED
    BY <2>1 DEF SchedInit, Waiting
<1>2. SchedInv /\ [SchedNext]_schedVars => [Round!Next]_(Round!vars)
  <2> SUFFICES ASSUME SchedInv, [SchedNext]_schedVars
               PROVE  Round!Next \/ UNCHANGED <<nr_tasks, current, Waiting>>
    BY DEF Round!vars
  <2>1. Round!UserTasks = UserTasks
    BY DEF Round!UserTasks, UserTasks
  <2>2. CASE StartKernel
    BY <2>1, <2>2, StartKernelRounds DEF Round!Next
  <2>3. CASE TimerInterrupt
    BY <2>1, <2>3, TimerInterruptRounds DEF Round!Next
  <2>4. CASE Fork
    BY <2>4, ForkRounds DEF Round!Next
  <2>5. CASE TimerExpires \/ ReadConsole \/ ReadReturns \/ Panic \/ Halted \/ UNCHANGED schedVars
    BY <2>5, OtherSteps
  <2> QED
    BY <2>2, <2>3, <2>4, <2>5 DEF SchedNext
<1> QED
  BY <1>1, <1>2, Invariance, PTL DEF SchedSpec, RoundsSpec, Round!Spec

\* schedule() always picks a task with the longest slice left.
THEOREM AlwaysLongestFirst == SchedSpec => LongestFirst
<1>1. SchedInv /\ [SchedNext]_schedVars =>
        [current' # current =>
            \A t \in UserTasks : counter'[t] <= counter'[current']]_schedVars
  <2> SUFFICES ASSUME SchedInv, SchedNext, current' # current
               PROVE  \A t \in UserTasks : counter'[t] <= counter'[current']
    BY DEF schedVars
  <2>1. CASE StartKernel
    BY <2>1, StartKernelRounds
  <2>2. CASE TimerInterrupt
    BY <2>2, TimerInterruptRounds
  <2>3. ~Fork
    BY DEF Fork
  <2>4. ~(TimerExpires \/ ReadConsole \/ ReadReturns \/ Panic \/ Halted)
    BY OtherSteps
  <2> QED
    BY <2>1, <2>2, <2>3, <2>4 DEF SchedNext
<1> QED
  BY <1>1, Invariance, PTL DEF SchedSpec, LongestFirst
=============================================================================
