---------------------------- MODULE PrintkProofs ----------------------------
(***************************************************************************)
(* Proofs about Printk, PrintkFormats, Console and ConsoleCalls: every     *)
(* turn of vprintfmt, what strtol reads, that formats print what C says,   *)
(* and that every call shows its text, for every word size, directive,     *)
(* argument, buffer and text.                                              *)
(***************************************************************************)
EXTENDS PrintkFormats, ConsoleCalls, SequenceTheorems, WellFoundedInduction, TLAPS

-----------------------------------------------------------------------------
(* The loop of vprintfmt, and the functions that the operators of Printk   *)
(* are values of.                                                          *)

\* A set of numbers that is not empty has a least one.
LEMMA LeastElement ==
    ASSUME NEW T, T \subseteq Nat, T # {}
    PROVE  \E x \in T : \A y \in T : x <= y
<1>1. IsWellFoundedOn(OpToRel(<, Nat), Nat)
  BY NatLessThanWellFounded, Zenon
<1>2. \E x \in T : \A y \in T : ~ (<<y, x>> \in OpToRel(<, Nat))
  BY <1>1, WFMin, Zenon
<1>3. PICK x \in T : \A y \in T : ~ (<<y, x>> \in OpToRel(<, Nat))
  BY <1>2
<1>4. ASSUME NEW y \in T PROVE x <= y
  <2>1. x \in Nat /\ y \in Nat
    OBVIOUS
  <2>2. ~ (<<y, x>> \in OpToRel(<, Nat))
    BY <1>3
  <2>3. ~ (y < x)
    BY <2>1, <2>2 DEF OpToRel
  <2> QED
    BY <2>1, <2>3
<1> QED
  BY <1>4

\* f keeps the state of vprintfmt after each of its first n turns.
Runs(f, n, fmt, args) ==
    f = [k \in 0 .. n |-> IF k = 0 THEN Start ELSE Turn(fmt, args, f[k - 1])]

\* Such a function exists: n turns follow one another.
LEMMA TurnsExist ==
    ASSUME NEW fmt, NEW args, NEW n \in Nat
    PROVE  \E f : Runs(f, n, fmt, args)
<1> DEFINE T == {m \in 0 .. n : ~ \E f : Runs(f, m, fmt, args)}
<1> SUFFICES ASSUME T # {} PROVE FALSE
  OBVIOUS
<1>1. PICK m \in T : \A k \in T : m <= k
  <2>1. T \subseteq Nat
    OBVIOUS
  <2> QED
    BY <2>1, LeastElement
<1>2. CASE m = 0
  <2> DEFINE f == [i \in 0 .. 0 |-> Start]
  <2>1. Runs(f, 0, fmt, args)
    BY DEF Runs
  <2> QED
    BY <1>1, <1>2, <2>1
<1>3. CASE m > 0
  <2>1. m \in 1 .. n /\ m - 1 \in 0 .. n /\ m - 1 \notin T
    <3>1. m \in 0 .. n
      BY <1>1
    <3>2. m \in 1 .. n /\ m - 1 \in 0 .. n /\ ~ (m <= m - 1)
      BY <1>3, <3>1
    <3> HIDE DEF T
    <3> QED
      BY <1>1, <3>2
  <2>2. PICK f : Runs(f, m - 1, fmt, args)
    BY <2>1
  <2> DEFINE g == [i \in 0 .. m |-> IF i = m THEN Turn(fmt, args, f[m - 1]) ELSE f[i]]
  <2>3. \A i \in 0 .. m - 1 : g[i] = f[i]
    BY <2>1
  <2>4. ASSUME NEW i \in 0 .. m
        PROVE  g[i] = IF i = 0 THEN Start ELSE Turn(fmt, args, g[i - 1])
    <3>1. CASE i = m
      <4>1. g[m - 1] = f[m - 1]
        BY <2>1, <2>3
      <4> QED
        BY <2>1, <3>1, <4>1
    <3>2. CASE i # m
      <4>1. i \in 0 .. m - 1 /\ (i # 0 => i - 1 \in 0 .. m - 1)
        BY <2>1, <3>2
      <4>2. f[i] = IF i = 0 THEN Start ELSE Turn(fmt, args, f[i - 1])
        BY <2>2, <4>1 DEF Runs
      <4> QED
        BY <2>3, <4>1, <4>2
    <3> QED
      BY <3>1, <3>2
  <2>5. Runs(g, m, fmt, args)
    BY <2>4, Zenon DEF Runs
  <2> QED
    BY <1>1, <2>5
<1> QED
  BY <1>1, <1>2, <1>3

\* vprintfmt ends in the state after as many turns as the format is long.
LEMMA LoopRun ==
    ASSUME NEW fmt, NEW args, Len(fmt) \in Nat
    PROVE  \E f : Runs(f, Len(fmt), fmt, args) /\ vprintfmt(fmt, args) = f[Len(fmt)]
<1> DEFINE after == CHOOSE f : Runs(f, Len(fmt), fmt, args)
<1>1. Runs(after, Len(fmt), fmt, args)
  BY TurnsExist
<1>2. vprintfmt(fmt, args) = after[Len(fmt)]
  BY DEF vprintfmt, Runs
<1> QED
  BY <1>1, <1>2

\* f is a at 0, and what G makes of an earlier value anywhere else.
Earlier(back, n) == \A i \in 1 .. n : back[i] \in 0 .. i - 1
StaysIn(G, n, S)  == \A i \in 1 .. n : \A v \in S : G[i][v] \in S
Recurs(f, n, S, a, back, G) ==
    /\ f \in [0 .. n -> S]
    /\ f[0] = a
    /\ \A i \in 1 .. n : f[i] = G[i][f[back[i]]]

\* A function may be defined at i by its value at an earlier place.
LEMMA Upward ==
    ASSUME NEW n \in Nat, NEW S, NEW a \in S, NEW back, NEW G,
           Earlier(back, n), StaysIn(G, n, S)
    PROVE  \E f : Recurs(f, n, S, a, back, G)
<1> USE DEF Earlier, StaysIn
<1> DEFINE Good(f, m) == f[0] = a /\ \A i \in 1 .. m : f[i] = G[i][f[back[i]]]
           T == {m \in 0 .. n : ~ \E f \in [0 .. m -> S] : Good(f, m)}
<1> SUFFICES ASSUME T # {} PROVE FALSE
  BY DEF Recurs
<1>1. PICK m \in T : \A k \in T : m <= k
  <2>1. T \subseteq Nat
    OBVIOUS
  <2> QED
    BY <2>1, LeastElement
<1>2. CASE m = 0
  <2> DEFINE f == [i \in 0 .. 0 |-> a]
  <2>1. f \in [0 .. 0 -> S] /\ Good(f, 0)
    OBVIOUS
  <2> QED
    BY <1>1, <1>2, <2>1
<1>3. CASE m > 0
  <2>1. m \in 1 .. n /\ m - 1 \in 0 .. n /\ m - 1 \notin T
    <3>1. m \in 0 .. n
      BY <1>1
    <3>2. m \in 1 .. n /\ m - 1 \in 0 .. n /\ ~ (m <= m - 1)
      BY <1>3, <3>1
    <3> HIDE DEF T
    <3> QED
      BY <1>1, <3>2
  <2>2. PICK f \in [0 .. m - 1 -> S] : Good(f, m - 1)
    BY <2>1
  <2> DEFINE g == [i \in 0 .. m |-> IF i = m THEN G[m][f[back[m]]] ELSE f[i]]
  <2>3. \A i \in 0 .. m - 1 : g[i] = f[i] /\ g[i] \in S
    BY <2>1
  <2>4. back[m] \in 0 .. m - 1
    BY <2>1
  <2>5. g[m] = G[m][g[back[m]]] /\ g[m] \in S
    BY <2>1, <2>3, <2>4, SMTT(30)
  <2>6. \A i \in 0 .. m : g[i] \in S
    BY <2>1, <2>3, <2>5
  <2>7. g \in [0 .. m -> S]
    BY <2>6
  <2>8. ASSUME NEW i \in 1 .. m PROVE g[i] = G[i][g[back[i]]]
    <3>1. CASE i = m
      BY <2>5, <3>1
    <3>2. CASE i # m
      <4>1. i \in 1 .. m - 1 /\ i \in 0 .. m - 1 /\ back[i] \in 0 .. m - 1
        BY <2>1, <3>2
      <4>2. g[i] = f[i] /\ g[back[i]] = f[back[i]]
        BY <2>3, <4>1
      <4>3. f[i] = G[i][f[back[i]]]
        BY <2>2, <4>1
      <4> QED
        BY <4>2, <4>3
    <3> QED
      BY <3>1, <3>2
  <2>9. g[0] = a
    BY <2>1, <2>2, <2>3
  <2>10. Good(g, m)
    BY <2>8, <2>9
  <2> HIDE DEF g, Good
  <2> QED
    BY <1>1, <2>7, <2>10
<1> QED
  BY <1>1, <1>2, <1>3

\* Pow2 is the value of a function that doubles with every step.
LEMMA Pow2Facts ==
    ASSUME NEW n \in Nat
    PROVE  \E p \in [0 .. n -> Nat] :
              p[0] = 1 /\ Pow2(n) = p[n] /\ \A k \in 1 .. n : p[k] = 2 * p[k - 1]
<1> DEFINE back == [i \in 1 .. n |-> i - 1]
           G    == [i \in 1 .. n |-> [v \in Nat |-> 2 * v]]
           IsPow(f) == f = [k \in 0 .. n |-> IF k = 0 THEN 1 ELSE 2 * f[k - 1]]
<1>1. Earlier(back, n) /\ StaysIn(G, n, Nat) /\ 1 \in Nat
  BY DEF Earlier, StaysIn
<1>2. \E f : Recurs(f, n, Nat, 1, back, G)
  <2> HIDE DEF back, G
  <2> QED
    BY <1>1, Upward
<1>3. PICK f \in [0 .. n -> Nat] :
         f[0] = 1 /\ \A i \in 1 .. n : f[i] = G[i][f[back[i]]]
  <2> HIDE DEF back, G
  <2> QED
    BY <1>2 DEF Recurs
<1>4. \A i \in 1 .. n : f[i] = 2 * f[i - 1]
  <2> TAKE i \in 1 .. n
  <2>1. i - 1 \in 0 .. n
    OBVIOUS
  <2>2. f[i - 1] \in Nat
    BY <2>1
  <2> QED
    BY <1>3, <2>2
<1>5. IsPow(f)
  BY <1>3, <1>4
<1>6. PICK p : IsPow(p) /\ Pow2(n) = p[n]
  <2>1. IsPow(CHOOSE g : IsPow(g))
    <3> HIDE DEF IsPow
    <3> QED
      BY <1>5, Zenon
  <2>2. Pow2(n) = (CHOOSE g : IsPow(g))[n]
    BY Zenon DEF Pow2
  <2> QED
    BY <2>1, <2>2, Zenon
<1>7. p[0] = 1 /\ \A k \in 1 .. n : p[k] = 2 * p[k - 1]
  BY <1>6
<1>8. \A k \in 0 .. n : p[k] \in Nat
  <2> DEFINE T == {k \in 0 .. n : p[k] \notin Nat}
  <2> SUFFICES ASSUME T # {} PROVE FALSE
    OBVIOUS
  <2>1. PICK k \in T : \A m \in T : k <= m
    <3>1. T \subseteq Nat
      OBVIOUS
    <3> HIDE DEF T
    <3> QED
      BY <3>1, LeastElement
  <2>2. k \in 0 .. n /\ p[k] \notin Nat
    OBVIOUS
  <2>3. k \in 1 .. n
    BY <1>7, <2>2
  <2>4. k - 1 \in 0 .. n /\ ~ (k <= k - 1)
    BY <2>3
  <2>5. p[k - 1] \in Nat
    BY <2>1, <2>4
  <2>6. p[k] = 2 * p[k - 1]
    BY <1>7, <2>3
  <2> QED
    BY <2>2, <2>5, <2>6
<1>9. p \in [0 .. n -> Nat]
  BY <1>6, <1>8
<1> QED
  BY <1>6, <1>7, <1>9

\* A word takes one of an even number of values.
LEMMA Mods ==
    \E h \in Nat \ {0}, k \in Nat \ {0} : IntMod = 2 * h /\ LongMod = 2 * k /\ h <= k
<1>1. IntBits \in Nat /\ LongBits \in Nat /\ IntBits \in 1 .. LongBits
  BY PrintkAssumption
<1>2. PICK p \in [0 .. LongBits -> Nat] :
         p[0] = 1 /\ LongMod = p[LongBits] /\ \A k \in 1 .. LongBits : p[k] = 2 * p[k - 1]
  BY <1>1, Pow2Facts DEF LongMod
<1>3. PICK q \in [0 .. IntBits -> Nat] :
         q[0] = 1 /\ IntMod = q[IntBits] /\ \A k \in 1 .. IntBits : q[k] = 2 * q[k - 1]
  BY <1>1, Pow2Facts DEF IntMod
<1> DEFINE T == {k \in 0 .. LongBits : ~ (/\ p[k] > 0
                                          /\ k <= IntBits => p[k] = q[k]
                                          /\ k > IntBits => p[k] >= 2 * q[IntBits])}
<1>4. T = {}
  <2> SUFFICES ASSUME T # {} PROVE FALSE
    OBVIOUS
  <2>1. PICK k \in T : \A m \in T : k <= m
    <3>1. T \subseteq Nat
      OBVIOUS
    <3> HIDE DEF T
    <3> QED
      BY <3>1, LeastElement
  <2>2. k \in 0 .. LongBits /\ k # 0
    BY <1>1, <1>2, <1>3
  <2>3. k \in 1 .. LongBits /\ k - 1 \in 0 .. LongBits /\ ~ (k <= k - 1)
    BY <1>1, <2>2
  <2>4. k - 1 \notin T
    BY <2>1, <2>3
  <2>5. p[k - 1] \in Nat /\ p[k - 1] > 0 /\ p[k] = 2 * p[k - 1]
    BY <1>2, <2>3, <2>4
  <2>6. CASE k <= IntBits
    <3>1. k \in 1 .. IntBits /\ q[k] = 2 * q[k - 1] /\ p[k - 1] = q[k - 1]
      BY <1>1, <1>3, <2>3, <2>4, <2>6
    <3> QED
      BY <1>1, <2>1, <2>5, <2>6, <3>1
  <2>7. CASE k > IntBits
    <3>1. q[IntBits] \in Nat /\ p[k - 1] >= q[IntBits]
      <4>1. IntBits \in 0 .. IntBits /\ k - 1 \in Nat
        BY <1>1, <2>3
      <4>2. q[IntBits] \in Nat
        BY <1>3, <4>1
      <4>3. CASE k - 1 = IntBits
        BY <1>1, <2>3, <2>4, <2>5, <4>2, <4>3
      <4>4. CASE k - 1 # IntBits
        <5>1. k - 1 > IntBits
          BY <1>1, <2>3, <2>7, <4>4
        <5>2. p[k - 1] >= 2 * q[IntBits]
          BY <2>3, <2>4, <5>1
        <5> QED
          BY <2>5, <4>2, <5>2
      <4> QED
        BY <4>3, <4>4
    <3>2. p[k] >= 2 * q[IntBits]
      BY <2>5, <3>1
    <3> QED
      BY <1>1, <2>1, <2>3, <2>5, <2>7, <3>2
  <2> QED
    BY <1>1, <2>3, <2>6, <2>7
<1>5. p[LongBits] >= q[IntBits] /\ p[IntBits] = q[IntBits] /\ p[IntBits - 1] > 0 /\ p[LongBits - 1] > 0
  <2>1. \A k \in 0 .. LongBits : /\ p[k] > 0 /\ p[k] \in Nat
                                 /\ k <= IntBits => p[k] = q[k]
                                 /\ k > IntBits => p[k] >= 2 * q[IntBits]
    BY <1>4
  <2>2. LongBits \in 0 .. LongBits /\ IntBits \in 0 .. LongBits /\ IntBits - 1 \in 0 .. LongBits
        /\ LongBits - 1 \in 0 .. LongBits
    BY <1>1
  <2> QED
    BY <1>1, <2>1, <2>2
<1>6. IntMod = 2 * p[IntBits - 1] /\ LongMod = 2 * p[LongBits - 1]
  BY <1>1, <1>2, <1>3, <1>5
<1>7. p[IntBits - 1] \in Nat /\ p[LongBits - 1] \in Nat
  BY <1>1
<1>8. p[IntBits - 1] <= p[LongBits - 1]
  <2>1. IntMod <= LongMod
    BY <1>2, <1>3, <1>5
  <2> QED
    BY <1>6, <1>7, <2>1
<1> QED
  BY <1>5, <1>6, <1>7, <1>8

\* A word read with its sign is an integer.
LEMMA SignedType ==
    ASSUME NEW w \in Int, NEW mod \in Nat \ {0}
    PROVE  Signed(w, mod) \in Int /\ w % mod \in Nat
  BY DEF Signed

\* A sequence of one element.
LEMMA OneOf ==
    ASSUME NEW S, NEW x \in S
    PROVE  <<x>> \in Seq(S) /\ Len(<<x>>) = 1 /\ <<x>>[1] = x
  OBVIOUS

\* buf keeps the digits of every number up to num.
Puts(buf, num, base, digits) ==
    \A k \in 0 .. num : buf[k] = IF k < base THEN <<digits[k + 1]>>
                                 ELSE Append(buf[k \div base], digits[(k % base) + 1])

\* InBase is the value of such a buf.
LEMMA InBaseRun ==
    ASSUME NEW S, NEW num \in Nat, NEW base \in {10, 16}, NEW digits \in Seq(S), Len(digits) = 16
    PROVE  \E buf \in [0 .. num -> Seq(S)] :
              InBase(num, base, digits) = buf[num] /\ Puts(buf, num, base, digits)
<1> DEFINE back == [i \in 1 .. num |-> i \div base]
           G    == [i \in 1 .. num |-> [v \in Seq(S) |->
                       IF i < base THEN <<digits[i + 1]>>
                       ELSE Append(v, digits[(i % base) + 1])]]
           IsBuf(f) == f = [n \in 0 .. num |->
                               IF n < base THEN <<digits[n + 1]>>
                               ELSE Append(f[n \div base], digits[(n % base) + 1])]
<1>0. \A i \in 1 .. 16 : digits[i] \in S
  BY ElementOfSeq
<1>1. \A i \in 1 .. num : i \div base \in 0 .. i - 1
  <2>1. CASE base = 10
    BY <2>1
  <2>2. CASE base = 16
    BY <2>2
  <2> QED
    BY <2>1, <2>2
<1>2. \A i \in 0 .. num : /\ digits[(i % base) + 1] \in S
                          /\ i < base => digits[i + 1] \in S
  <2> TAKE i \in 0 .. num
  <2>1. (i % base) + 1 \in 1 .. 16 /\ (i < base => i + 1 \in 1 .. 16)
    <3>1. CASE base = 10
      BY <3>1
    <3>2. CASE base = 16
      BY <3>2
    <3> QED
      BY <3>1, <3>2
  <2> QED
    BY <1>0, <2>1
<1>3. Earlier(back, num)
  BY <1>1 DEF Earlier
<1>4. StaysIn(G, num, Seq(S))
  <2> SUFFICES ASSUME NEW i \in 1 .. num, NEW v \in Seq(S)
               PROVE  G[i][v] \in Seq(S)
    BY Zenon DEF StaysIn
  <2> DEFINE d == digits[i + 1]
             e == digits[(i % base) + 1]
  <2>1. G[i][v] = IF i < base THEN <<d>> ELSE Append(v, e)
    OBVIOUS
  <2>2. (i < base => d \in S) /\ e \in S
    <3> i \in 0 .. num
      OBVIOUS
    <3> HIDE DEF G, IsBuf
    <3> QED
      BY <1>2
  <2> HIDE DEF G, d, e
  <2>3. Append(v, e) \in Seq(S)
    BY <2>2, AppendProperties
  <2>4. i < base => <<d>> \in Seq(S)
    BY <2>2, OneOf
  <2> QED
    BY <2>1, <2>3, <2>4
<1>5. \E f : Recurs(f, num, Seq(S), <<digits[1]>>, back, G)
  <2> DEFINE d == digits[1]
  <2>1. <<d>> \in Seq(S)
    <3>1. d \in S
      BY <1>0
    <3> HIDE DEF d
    <3> QED
      BY <3>1, OneOf
  <2> HIDE DEF back, G
  <2> QED
    BY <1>3, <1>4, <2>1, Upward
<1>6. PICK f \in [0 .. num -> Seq(S)] :
         f[0] = <<digits[1]>> /\ \A i \in 1 .. num : f[i] = G[i][f[back[i]]]
  <2> HIDE DEF back, G
  <2> QED
    BY <1>5 DEF Recurs
<1>7. Puts(f, num, base, digits)
  <2> SUFFICES ASSUME NEW k \in 0 .. num
               PROVE  f[k] = IF k < base THEN <<digits[k + 1]>>
                             ELSE Append(f[k \div base], digits[(k % base) + 1])
    BY Zenon DEF Puts
  <2>1. CASE k = 0
    <3>1. 0 < base /\ k + 1 = 1
      BY <2>1
    <3> QED
      BY <1>6, <2>1, <3>1
  <2>2. CASE k # 0
    <3>1. k \in 1 .. num /\ k \div base \in 0 .. num
      <4>1. k \in 1 .. num
        BY <2>2
      <4>2. k \div base \in 0 .. k - 1
        BY <1>1, <4>1
      <4> QED
        BY <4>1, <4>2
    <3>2. f[k \div base] \in Seq(S)
      BY <3>1
    <3>3. f[k] = G[k][f[k \div base]]
      BY <1>6, <3>1
    <3> QED
      BY <3>1, <3>2, <3>3
  <2> QED
    BY <2>1, <2>2
<1>8. IsBuf(f)
  BY <1>7 DEF Puts
<1>9. PICK buf : IsBuf(buf) /\ InBase(num, base, digits) = buf[num]
  <2>1. IsBuf(CHOOSE g : IsBuf(g))
    <3> HIDE DEF IsBuf
    <3> QED
      BY <1>8, Zenon
  <2>2. InBase(num, base, digits) = (CHOOSE g : IsBuf(g))[num]
    BY Zenon DEF InBase
  <2> QED
    BY <2>1, <2>2, Zenon
<1>10. Puts(buf, num, base, digits)
  BY <1>9 DEF Puts
<1>11. \A k \in 0 .. num : buf[k] \in Seq(S)
  <2> DEFINE T == {k \in 0 .. num : buf[k] \notin Seq(S)}
  <2> SUFFICES ASSUME T # {} PROVE FALSE
    OBVIOUS
  <2>1. PICK k \in T : \A m \in T : k <= m
    <3>1. T \subseteq Nat
      OBVIOUS
    <3> HIDE DEF T
    <3> QED
      BY <3>1, LeastElement
  <2>2. k \in 0 .. num /\ k \notin {m \in 0 .. num : buf[m] \in Seq(S)}
    OBVIOUS
  <2> DEFINE d == digits[k + 1]
             e == digits[(k % base) + 1]
             v == buf[k \div base]
  <2>3. buf[k] = IF k < base THEN <<d>> ELSE Append(v, e)
    BY <1>10, <2>2, Zenon DEF Puts
  <2>4. (k < base => d \in S) /\ e \in S
    BY <1>2, <2>2
  <2>5. k < base \/ v \in Seq(S)
    <3> SUFFICES ASSUME ~ (k < base) PROVE v \in Seq(S)
      OBVIOUS
    <3>1. k \in 1 .. num
      BY <2>2
    <3>2. k \div base \in 0 .. k - 1
      BY <1>1, <3>1
    <3>3. k \div base \in 0 .. num /\ ~ (k <= k \div base)
      BY <3>1, <3>2
    <3> QED
      BY <2>1, <3>3
  <2> HIDE DEF d, e, v
  <2>6. k < base => <<d>> \in Seq(S)
    BY <2>4, OneOf
  <2>7. v \in Seq(S) => Append(v, e) \in Seq(S)
    BY <2>4, AppendProperties
  <2> QED
    BY <2>2, <2>3, <2>5, <2>6, <2>7
<1>12. buf \in [0 .. num -> Seq(S)]
  BY <1>9, <1>11
<1> QED
  BY <1>9, <1>10, <1>12

\* Copies repeats a character n times, and never less than 0 times.
LEMMA CopiesFacts ==
    ASSUME NEW S, NEW c \in S, NEW n \in Int
    PROVE  /\ Copies(c, n) \in Seq(S)
           /\ Len(Copies(c, n)) = IF n <= 0 THEN 0 ELSE n
           /\ \A i \in 1 .. n : Copies(c, n)[i] = c
  BY DEF Copies

\* The least of a set of numbers.
LEMMA MinFacts ==
    ASSUME NEW T, T \subseteq Nat, T # {}
    PROVE  Min(T) \in T /\ \A y \in T : Min(T) <= y
<1>1. \E x \in T : \A y \in T : x <= y
  BY LeastElement
<1> QED
  BY <1>1 DEF Min

\* ret keeps the value of the digits of s read up to each position.
ReadSoFar(ret, s, i, j, base) ==
    /\ ret[i] = 0
    /\ \A k \in i + 1 .. j : ret[k] = (ret[k - 1] * base + DigitOf(s[k - 1])) % LongMod

\* DigitOf is a number for every character.
LEMMA DigitOfType == ASSUME NEW c PROVE DigitOf(c) \in Nat
<1>1. CASE \E d \in 0 .. 15 : c \in {Digits[d + 1], UpperDigits[d + 1]}
  <2> DEFINE e == CHOOSE d \in 0 .. 15 : c \in {Digits[d + 1], UpperDigits[d + 1]}
  <2>1. e \in 0 .. 15
    BY <1>1, Zenon
  <2>2. DigitOf(c) = e
    BY <1>1, Zenon DEF DigitOf
  <2> HIDE DEF e
  <2> QED
    BY <2>1, <2>2
<1>2. CASE ~ \E d \in 0 .. 15 : c \in {Digits[d + 1], UpperDigits[d + 1]}
  <2>1. DigitOf(c) = 99
    BY <1>2, Zenon DEF DigitOf
  <2> QED
    BY <2>1
<1> QED
  BY <1>1, <1>2

\* DigitsFrom is the value of such a ret, a word.
LEMMA DigitsFromRun ==
    ASSUME NEW s, NEW i \in Nat, NEW j \in Nat, i <= j, NEW base \in Nat
    PROVE  \E ret \in [i .. j -> 0 .. LongMod - 1] :
              DigitsFrom(s, i, j, base) = ret[j] /\ ReadSoFar(ret, s, i, j, base)
<1> DEFINE n == j - i
           M == LongMod
           D(k) == DigitOf(s[k - 1])
           back == [k \in 1 .. n |-> k - 1]
           G    == [k \in 1 .. n |-> [v \in 0 .. M - 1 |-> (v * base + D(i + k)) % M]]
           IsRet(f) == f = [k \in i .. j |->
                               IF k = i THEN 0
                               ELSE (f[k - 1] * base + DigitOf(s[k - 1])) % LongMod]
<1>1. n \in Nat /\ M \in Nat \ {0} /\ 0 \in 0 .. M - 1
  BY Mods
<1>2. \A k : D(k) \in Nat
  BY DigitOfType
<1> HIDE DEF M
<1>3. \A v \in Nat, d \in Nat : (v * base + d) % M \in 0 .. M - 1
  <2> TAKE v \in Nat, d \in Nat
  <2>1. v * base + d \in Nat
    OBVIOUS
  <2> QED
    BY <1>1, <2>1
<1> HIDE DEF n, D
<1>4. Earlier(back, n) /\ StaysIn(G, n, 0 .. M - 1)
  <2>1. Earlier(back, n)
    BY <1>1 DEF Earlier
  <2>2. ASSUME NEW k \in 1 .. n, NEW v \in 0 .. M - 1 PROVE G[k][v] \in 0 .. M - 1
    <3>1. G[k][v] = (v * base + D(i + k)) % M
      OBVIOUS
    <3>2. v \in Nat /\ D(i + k) \in Nat
      BY <1>1, <1>2
    <3> HIDE DEF G
    <3> QED
      BY <1>3, <3>1, <3>2
  <2> QED
    BY <2>1, <2>2, Zenon DEF StaysIn
<1>5. \E f : Recurs(f, n, 0 .. M - 1, 0, back, G)
  <2> HIDE DEF back, G
  <2> QED
    BY <1>1, <1>4, Upward
<1>6. PICK f \in [0 .. n -> 0 .. M - 1] :
         f[0] = 0 /\ \A k \in 1 .. n : f[k] = G[k][f[back[k]]]
  <2> HIDE DEF back, G
  <2> QED
    BY <1>5 DEF Recurs
<1>7. \A k \in 1 .. n : f[k] = (f[k - 1] * base + D(i + k)) % M
  <2> TAKE k \in 1 .. n
  <2>1. k - 1 \in 0 .. n
    BY <1>1
  <2>2. f[k - 1] \in 0 .. M - 1
    BY <2>1
  <2> QED
    BY <1>6, <2>2
<1> DEFINE g == [k \in i .. j |-> f[k - i]]
<1>8. IsRet(g)
  <2> SUFFICES ASSUME NEW k \in i .. j
               PROVE  g[k] = IF k = i THEN 0
                             ELSE (g[k - 1] * base + DigitOf(s[k - 1])) % LongMod
    BY Zenon
  <2>1. CASE k = i
    BY <1>6, <2>1
  <2>2. CASE k # i
    <3>1. k - i \in 1 .. n /\ k - 1 \in i .. j /\ (k - i) - 1 = (k - 1) - i /\ i + (k - i) = k
      BY <2>2 DEF n
    <3>2. f[k - i] = (f[(k - 1) - i] * base + D(k)) % M
      BY <1>7, <3>1
    <3>3. g[k] = f[k - i] /\ g[k - 1] = f[(k - 1) - i]
      BY <3>1
    <3> HIDE DEF g
    <3> QED
      BY <2>2, <3>2, <3>3 DEF D, M
  <2> QED
    BY <2>1, <2>2
<1>9. PICK ret : IsRet(ret) /\ DigitsFrom(s, i, j, base) = ret[j]
  <2>1. IsRet(CHOOSE h : IsRet(h))
    <3> HIDE DEF IsRet
    <3> QED
      BY <1>8, Zenon
  <2>2. DigitsFrom(s, i, j, base) = (CHOOSE h : IsRet(h))[j]
    BY Zenon DEF DigitsFrom
  <2> QED
    BY <2>1, <2>2, Zenon
<1>10. \A k \in i .. j : ret[k] = IF k = i THEN 0
                                 ELSE (ret[k - 1] * base + D(k)) % M
  BY <1>9 DEF D, M
<1>11. \A k \in i .. j : ret[k] \in 0 .. M - 1
  <2> DEFINE T == {k \in i .. j : ret[k] \notin 0 .. M - 1}
  <2> SUFFICES ASSUME T # {} PROVE FALSE
    OBVIOUS
  <2>1. PICK k \in T : \A m \in T : k <= m
    <3>1. T \subseteq Nat
      OBVIOUS
    <3> HIDE DEF T
    <3> QED
      BY <3>1, LeastElement
  <2>2. k \in i .. j /\ ret[k] \notin 0 .. M - 1
    OBVIOUS
  <2>3. k # i
    BY <1>1, <1>10, <2>2
  <2>4. k - 1 \in i .. j /\ ~ (k <= k - 1)
    BY <2>2, <2>3
  <2>5. ret[k - 1] \in 0 .. M - 1
    BY <2>1, <2>4
  <2>6. ret[k] = (ret[k - 1] * base + D(k)) % M
    BY <1>10, <2>2, <2>3
  <2> DEFINE v == ret[k - 1]
             d == D(k)
  <2>7. v \in Nat /\ d \in Nat /\ ret[k] = (v * base + d) % M
    BY <1>1, <1>2, <2>5, <2>6
  <2> HIDE DEF v, d, T
  <2> QED
    BY <1>3, <2>2, <2>7
<1>12. ret \in [i .. j -> 0 .. LongMod - 1]
  BY <1>9, <1>11 DEF M
<1>13. ReadSoFar(ret, s, i, j, base)
  <2>1. ret[i] = 0
    BY <1>10
  <2>2. ASSUME NEW k \in i + 1 .. j
        PROVE  ret[k] = (ret[k - 1] * base + DigitOf(s[k - 1])) % LongMod
    <3>1. k \in i .. j /\ k # i
      OBVIOUS
    <3> QED
      BY <1>10, <3>1 DEF D, M
  <2> QED
    BY <2>1, <2>2, Zenon DEF ReadSoFar
<1> QED
  BY <1>9, <1>12, <1>13

-----------------------------------------------------------------------------
(* One turn of the loop, by the character it sees.                         *)

\* The fields a state of vprintfmt has; a state that reads on, or prints a
\* text.
IsState(st) ==
    st = [at |-> st.at, flags |-> st.flags, out |-> st.out, written |-> st.written,
          used |-> st.used, stored |-> st.stored]
Moved(st, at, flags, used) ==
    [at |-> at, flags |-> flags, out |-> st.out, written |-> st.written,
     used |-> used, stored |-> st.stored]
Printed(st, text, used) ==
    [at |-> st.at + 1, flags |-> [st.flags EXCEPT !.in_format = FALSE],
     out |-> st.out \o text, written |-> st.written + Len(text),
     used |-> used, stored |-> st.stored]

\* The turns of vprintfmt, one by one.  Behind the format nothing happens.
LEMMA EndTurn ==
    ASSUME NEW fmt, NEW args, NEW st, At(fmt, st.at) = ""
    PROVE  Turn(fmt, args, st) = st
  BY Zenon DEF Turn

\* A % begins a directive.
LEMMA PercentTurn ==
    ASSUME NEW fmt, NEW args, NEW st, IsState(st), ~ st.flags.in_format, At(fmt, st.at) = "%"
    PROVE  Turn(fmt, args, st) = Moved(st, st.at + 1, Flags(TRUE, -1), st.used)
<1>1. Turn(fmt, args, st) = [[st EXCEPT !.at = @ + 1] EXCEPT !.flags = Flags(TRUE, -1)]
  <2>1. "%" # ""
    OBVIOUS
  <2> QED
    BY <2>1, Zenon DEF Turn
<1> QED
  BY <1>1 DEF IsState, Moved

\* What Emit, Take, a step to the next character and %n do to the state.
LEMMA EmitIs ==
    ASSUME NEW s, IsState(s), NEW text
    PROVE  Emit(s, text) = [at |-> s.at, flags |-> [s.flags EXCEPT !.in_format = FALSE],
                            out |-> s.out \o text, written |-> s.written + Len(text),
                            used |-> s.used, stored |-> s.stored]
<1> DEFINE t == Emit(s, text)
           f == [s.flags EXCEPT !.in_format = FALSE]
<1>1. DOMAIN t = {"at", "flags", "out", "written", "used", "stored"} /\ t = [k \in DOMAIN t |-> t[k]]
  BY DEF Emit, IsState
<1>2. /\ t.at = s.at /\ t.flags = f /\ t.out = s.out \o text
      /\ t.written = s.written + Len(text) /\ t.used = s.used /\ t.stored = s.stored
  BY DEF Emit, IsState
<1> HIDE DEF t, f
<1>3. IsState(t)
  BY <1>1 DEF IsState
<1> QED
  BY <1>2, <1>3, Zenon DEF IsState, t, f

\* Taking an argument moves nothing but the count of arguments.
LEMMA TakeIs ==
    ASSUME NEW s, IsState(s)
    PROVE  /\ IsState(Take(s)) /\ Take(s).used = s.used + 1
           /\ Take(s).at = s.at /\ Take(s).flags = s.flags /\ Take(s).out = s.out
           /\ Take(s).written = s.written /\ Take(s).stored = s.stored
  BY DEF Take, IsState

\* Going on to the next character changes the place alone.
LEMMA NextIs ==
    ASSUME NEW s, IsState(s), NEW t, t = [s EXCEPT !.at = @ + 1]
    PROVE  /\ IsState(t) /\ t.at = s.at + 1
           /\ t.used = s.used /\ t.flags = s.flags /\ t.out = s.out
           /\ t.written = s.written /\ t.stored = s.stored
  BY DEF IsState

\* A turn that stores a word (%n) leaves the output as it is.
LEMMA StoreIs ==
    ASSUME NEW s, IsState(s), NEW w
    PROVE  [s EXCEPT !.stored = Append(@, w), !.flags.in_format = FALSE]
           = [at |-> s.at, flags |-> [s.flags EXCEPT !.in_format = FALSE], out |-> s.out,
              written |-> s.written, used |-> s.used, stored |-> Append(s.stored, w)]
<1> DEFINE t == [s EXCEPT !.stored = Append(@, w), !.flags.in_format = FALSE]
           f == [s.flags EXCEPT !.in_format = FALSE]
<1>1. DOMAIN t = {"at", "flags", "out", "written", "used", "stored"} /\ t = [k \in DOMAIN t |-> t[k]]
  BY DEF IsState
<1>2. /\ t.at = s.at /\ t.flags = f /\ t.out = s.out
      /\ t.written = s.written /\ t.used = s.used /\ t.stored = Append(s.stored, w)
  BY DEF IsState
<1> HIDE DEF t, f
<1>3. IsState(t)
  BY <1>1 DEF IsState
<1> QED
  BY <1>2, <1>3, Zenon DEF IsState, t, f

\* A character outside a directive is printed.
LEMMA CharTurn ==
    ASSUME NEW fmt, NEW args, NEW st, IsState(st), ~ st.flags.in_format,
           NEW c, c = At(fmt, st.at), c # "", c # "%"
    PROVE  Turn(fmt, args, st) = Printed(st, <<c>>, st.used)
<1>1. Turn(fmt, args, st) = Emit([st EXCEPT !.at = @ + 1], <<c>>)
  BY Zenon DEF Turn
<1> QED
  BY <1>1 DEF Emit, IsState, Printed

\* The flags of a directive.
FlagChars == {"#", "0", "+", " ", "l", "z", "t", "j"}
SetFlag(flags, c) ==
    CASE c = "#" -> [flags EXCEPT !.sharpflag = TRUE]
      [] c = "0" -> [flags EXCEPT !.zeroflag = TRUE]
      [] c = "+" -> [flags EXCEPT !.sign = TRUE]
      [] c = " " -> [flags EXCEPT !.spaceflag = TRUE]
      [] OTHER   -> [flags EXCEPT !.longflag = TRUE]

\* A flag is set.
LEMMA FlagTurn ==
    ASSUME NEW fmt, NEW args, NEW st, IsState(st), st.flags.in_format,
           NEW c \in FlagChars, At(fmt, st.at) = c
    PROVE  Turn(fmt, args, st) = Moved(st, st.at + 1, SetFlag(st.flags, c), st.used)
<1> DEFINE next == [st EXCEPT !.at = @ + 1]
<1>1. c # ""
  BY DEF FlagChars
<1>2. Turn(fmt, args, st) = Set(next, c)
  BY <1>1, Zenon DEF Turn, FlagChars
<1>3. next = Moved(st, st.at + 1, st.flags, st.used)
  BY DEF IsState, Moved
<1> HIDE DEF next
<1>4. CASE c = "#"
  BY <1>2, <1>3, <1>4 DEF Set, SetFlag, Moved
<1>5. CASE c = "0"
  BY <1>2, <1>3, <1>5 DEF Set, SetFlag, Moved
<1>6. CASE c = "+"
  BY <1>2, <1>3, <1>6 DEF Set, SetFlag, Moved
<1>7. CASE c = " "
  BY <1>2, <1>3, <1>7 DEF Set, SetFlag, Moved
<1>8. CASE c \in {"l", "z", "t", "j"}
  <2>1. SetFlag(st.flags, c) = [st.flags EXCEPT !.longflag = TRUE]
    BY <1>8 DEF SetFlag
  <2>2. Set(next, c) = [next EXCEPT !.flags.longflag = TRUE]
    BY <1>8 DEF Set
  <2> QED
    BY <1>2, <1>3, <2>1, <2>2 DEF Moved
<1> QED
  BY <1>4, <1>5, <1>6, <1>7, <1>8 DEF FlagChars

\* A star takes the width from the arguments.
LEMMA StarTurn ==
    ASSUME NEW fmt, NEW args, NEW st, IsState(st), st.flags.in_format, At(fmt, st.at) = "*"
    PROVE  Turn(fmt, args, st) =
               Moved(st, st.at + 1, [st.flags EXCEPT !.width = IntArg(st, args)], st.used + 1)
<1>1. Turn(fmt, args, st) =
          [Take([st EXCEPT !.at = @ + 1]) EXCEPT !.flags.width = IntArg(st, args)]
  <2>1. "*" # "" /\ "*" \notin FlagChars
    BY DEF FlagChars
  <2> QED
    BY <2>1, Zenon DEF Turn, FlagChars
<1> QED
  BY <1>1 DEF IsState, Moved, Take

\* Characters a number does not begin with.
LEMMA WidthTurn ==
    ASSUME NEW fmt, NEW args, NEW st, IsState(st), st.flags.in_format,
           NEW c, c = At(fmt, st.at), c \notin FlagChars, c \notin {"", "*"}, DigitOf(c) \in 1 .. 9,
           NEW r, r = strtol(fmt, st.at, 10)
    PROVE  Turn(fmt, args, st) = Moved(st, r[2], [st.flags EXCEPT !.width = r[1]], st.used)
<1>1. Turn(fmt, args, st) = [st EXCEPT !.flags.width = r[1], !.at = r[2]]
  BY Zenon DEF Turn, FlagChars
<1> QED
  BY <1>1 DEF IsState, Moved

\* So is the precision, taken from the arguments
LEMMA PrecStarTurn ==
    ASSUME NEW fmt, NEW args, NEW st, IsState(st), st.flags.in_format,
           At(fmt, st.at) = ".", DigitOf(".") \notin 1 .. 9, At(fmt, st.at + 1) = "*"
    PROVE  Turn(fmt, args, st) =
               Moved(st, st.at + 2, [st.flags EXCEPT !.prec = IntArg(st, args)], st.used + 1)
<1>1. Turn(fmt, args, st) = [Take(st) EXCEPT !.flags.prec = IntArg(st, args), !.at = @ + 2]
  <2>1. "." # "" /\ "." \notin FlagChars /\ "." # "*"
    BY DEF FlagChars
  <2> QED
    BY <2>1, Zenon DEF Turn, FlagChars
<1> QED
  BY <1>1 DEF IsState, Moved, Take

\* or read from the format.
LEMMA PrecTurn ==
    ASSUME NEW fmt, NEW args, NEW st, IsState(st), st.flags.in_format,
           At(fmt, st.at) = ".", DigitOf(".") \notin 1 .. 9, At(fmt, st.at + 1) # "*",
           NEW r, r = strtol(fmt, st.at + 1, 10)
    PROVE  Turn(fmt, args, st) = Moved(st, r[2], [st.flags EXCEPT !.prec = r[1]], st.used)
<1>1. Turn(fmt, args, st) = [st EXCEPT !.flags.prec = r[1], !.at = r[2]]
  <2>1. "." # "" /\ "." \notin FlagChars /\ "." # "*"
    BY DEF FlagChars
  <2> QED
    BY <2>1, Zenon DEF Turn, FlagChars
<1> QED
  BY <1>1 DEF IsState, Moved

\* Any other character of a format is a conversion.
LEMMA ConvertTurn ==
    ASSUME NEW fmt, NEW args, NEW st, IsState(st), st.flags.in_format,
           NEW c, c = At(fmt, st.at), c \notin FlagChars, c \notin {"", "*", "."},
           DigitOf(c) \notin 1 .. 9
    PROVE  Turn(fmt, args, st) = Convert(c, [st EXCEPT !.at = @ + 1], args)
  BY Zenon DEF Turn, FlagChars

\* Each conversion prints its text and takes its argument, %n stores.
LEMMA ConvertIs ==
    ASSUME NEW st, IsState(st), NEW args, NEW c
    PROVE  LET next == [st EXCEPT !.at = @ + 1] IN
           /\ c \in {"x", "X", "p"} => Convert(c, next, args) =
                  Printed(st, HexText(c, NumOf(c, st, args), st.flags), st.used + 1)
           /\ c \in {"d", "i", "u"} => Convert(c, next, args) =
                  Printed(st, print_dec_int(NumOf(c, st, args), c # "u", st.flags), st.used + 1)
           /\ c = "n" => Convert(c, next, args) =
                  [at |-> st.at + 1, flags |-> [st.flags EXCEPT !.in_format = FALSE],
                   out |-> st.out, written |-> st.written, used |-> st.used + 1,
                   stored |-> Append(st.stored, st.written)]
           /\ c = "s" => Convert(c, next, args) =
                  Printed(st, puts_wo_nl(args[st.used + 1]), st.used + 1)
           /\ c = "c" => Convert(c, next, args) =
                  Printed(st, <<args[st.used + 1].text[1]>>, st.used + 1)
           /\ c \notin {"x", "X", "p", "d", "i", "u", "n", "s", "c"} => Convert(c, next, args) =
                  Printed(st, <<c>>, st.used)
<1> DEFINE next == [st EXCEPT !.at = @ + 1]
<1> DEFINE more == Take(next)
<1>a. /\ IsState(next) /\ next.at = st.at + 1
      /\ next.used = st.used /\ next.flags = st.flags /\ next.out = st.out
      /\ next.written = st.written /\ next.stored = st.stored
  BY NextIs
<1> HIDE DEF next
<1>b. /\ IsState(more) /\ more.used = st.used + 1
      /\ more.at = st.at + 1 /\ more.flags = st.flags /\ more.out = st.out
      /\ more.written = st.written /\ more.stored = st.stored
  BY <1>a, TakeIs
<1>1. /\ next.flags = st.flags /\ next.used = st.used
      /\ \A text : Emit(next, text) = Printed(st, text, st.used)
      /\ \A text : Emit(Take(next), text) = Printed(st, text, st.used + 1)
  <2>1. ASSUME NEW text PROVE Emit(next, text) = Printed(st, text, st.used)
    BY <1>a, EmitIs, Zenon DEF Printed
  <2> HIDE DEF more
  <2>2. ASSUME NEW text PROVE Emit(more, text) = Printed(st, text, st.used + 1)
    BY <1>b, EmitIs, Zenon DEF Printed
  <2> QED
    BY <1>a, <2>1, <2>2, Zenon DEF more
<1>2. NumOf(c, next, args) = NumOf(c, st, args)
  <2> HIDE DEF next
  <2> QED
    BY <1>1, Zenon DEF NumOf, Word, IntArg
<1>3. [Take(next) EXCEPT !.stored = Append(@, next.written), !.flags.in_format = FALSE]
      = [at |-> st.at + 1, flags |-> [st.flags EXCEPT !.in_format = FALSE],
         out |-> st.out, written |-> st.written, used |-> st.used + 1,
         stored |-> Append(st.stored, st.written)]
  <2> HIDE DEF more
  <2>1. [more EXCEPT !.stored = Append(@, next.written), !.flags.in_format = FALSE]
        = [at |-> more.at, flags |-> [more.flags EXCEPT !.in_format = FALSE], out |-> more.out,
           written |-> more.written, used |-> more.used, stored |-> Append(more.stored, next.written)]
    BY <1>b, StoreIs
  <2> QED
    BY <1>a, <1>b, <2>1, Zenon DEF more
<1> HIDE DEF next
<1>5. c \in {"x", "X", "p"} => Convert(c, next, args) =
          Emit(Take(next), HexText(c, NumOf(c, next, args), next.flags))
  BY DEF Convert
<1>6. c \in {"d", "i", "u"} => Convert(c, next, args) =
          Emit(Take(next), print_dec_int(NumOf(c, next, args), c # "u", next.flags))
  BY DEF Convert
<1>7. c = "n" => Convert(c, next, args) =
          [Take(next) EXCEPT !.stored = Append(@, next.written), !.flags.in_format = FALSE]
  BY DEF Convert
<1>8. c = "s" => Convert(c, next, args) = Emit(Take(next), puts_wo_nl(args[next.used + 1]))
  BY DEF Convert
<1>9. c = "c" => Convert(c, next, args) = Emit(Take(next), <<args[next.used + 1].text[1]>>)
  BY DEF Convert
<1>10. c \notin {"x", "X", "p", "d", "i", "u", "n", "s", "c"} =>
          Convert(c, next, args) = Emit(next, <<c>>)
  BY DEF Convert
<1> QED
  BY <1>1, <1>2, <1>3, <1>5, <1>6, <1>7, <1>8, <1>9, <1>10 DEF next

\* The digits, and what is none of them.
DigitChars == {"0", "1", "2", "3", "4", "5", "6", "7", "8", "9", "a", "b", "c", "d", "e", "f",
               "A", "B", "C", "D", "E", "F"}

\* A character that is no digit has the value 99.
LEMMA NotDigit ==
    ASSUME NEW c, c \notin DigitChars
    PROVE  DigitOf(c) = 99
<1>1. Digits \in Seq(DigitChars) /\ Len(Digits) = 16
  <2>1. {"0", "1", "2", "3", "4", "5", "6", "7", "8", "9",
         "a", "b", "c", "d", "e", "f"} \subseteq DigitChars
    BY DEF DigitChars
  <2> QED
    BY <2>1 DEF Digits
<1>2. UpperDigits \in Seq(DigitChars) /\ Len(UpperDigits) = 16
  <2>1. {"0", "1", "2", "3", "4", "5", "6", "7", "8", "9",
         "A", "B", "C", "D", "E", "F"} \subseteq DigitChars
    BY DEF DigitChars
  <2> QED
    BY <2>1 DEF UpperDigits
<1>3. ASSUME NEW d \in 0 .. 15 PROVE c \notin {Digits[d + 1], UpperDigits[d + 1]}
  <2>1. d + 1 \in 1 .. 16
    OBVIOUS
  <2>2. Digits[d + 1] \in DigitChars /\ UpperDigits[d + 1] \in DigitChars
    BY <1>1, <1>2, <2>1, ElementOfSeq
  <2> QED
    BY <2>2
<1> QED
  BY <1>3, Zenon DEF DigitOf

\* Neither a point nor the end of a format is a digit.
LEMMA NotDigits == DigitOf(".") = 99 /\ DigitOf("") = 99
<1>1. "." \notin DigitChars /\ "" \notin DigitChars
  BY DEF DigitChars
<1> QED
  BY <1>1, NotDigit

\* The turns of a run, one at a time.
LEMMA RunFacts ==
    ASSUME NEW f, NEW n \in Nat, NEW fmt, NEW args, Runs(f, n, fmt, args)
    PROVE  f[0] = Start /\ \A k \in 1 .. n : k - 1 \in 0 .. n /\ f[k] = Turn(fmt, args, f[k - 1])
<1>1. \A k \in 0 .. n : f[k] = IF k = 0 THEN Start ELSE Turn(fmt, args, f[k - 1])
  BY DEF Runs
<1>2. f[0] = Start
  BY <1>1
<1>3. ASSUME NEW k \in 1 .. n PROVE k - 1 \in 0 .. n /\ f[k] = Turn(fmt, args, f[k - 1])
  <2>1. k \in 0 .. n /\ k # 0 /\ k - 1 \in 0 .. n
    OBVIOUS
  <2> QED
    BY <1>1, <2>1
<1> QED
  BY <1>2, <1>3

\* An element behind a sequence.
LEMMA AppendIs ==
    ASSUME NEW T, NEW t \in Seq(T), NEW e \in T
    PROVE  /\ Append(t, e) \in Seq(T) /\ Len(Append(t, e)) = Len(t) + 1 /\ Len(t) < Len(Append(t, e))
           /\ Append(t, e)[Len(t) + 1] = e
           /\ \A i \in 1 .. Len(t) : Append(t, e)[i] = t[i]
<1>1. Append(t, e) \in Seq(T) /\ Len(Append(t, e)) = Len(t) + 1 /\ Len(t) < Len(Append(t, e))
  OBVIOUS
<1>2. Append(t, e)[Len(t) + 1] = e /\ \A i \in 1 .. Len(t) : Append(t, e)[i] = t[i]
  OBVIOUS
<1> QED
  BY <1>1, <1>2

-----------------------------------------------------------------------------
(* A text that stands in a string.                                         *)

\* The text t stands in s from position p on.
Holds(s, p, t) == \A j \in 1 .. Len(t) : At(s, p + j - 1) = t[j]

\* Every string holds itself, and what holds a text holds its parts.
LEMMA HoldsSelf ==
    ASSUME NEW S, NEW s \in Seq(S)
    PROVE  Holds(s, 1, s)
<1>1. Len(s) \in Nat /\ DOMAIN s = 1 .. Len(s)
  BY LenProperties
<1>2. ASSUME NEW j \in 1 .. Len(s) PROVE At(s, 1 + j - 1) = s[j]
  <2>1. 1 + j - 1 = j
    BY <1>1
  <2> QED
    BY <1>1, <2>1 DEF At
<1> QED
  BY <1>2 DEF Holds

\* A text stands at a place when its two parts stand one behind the other.
LEMMA HoldsParts ==
    ASSUME NEW S, NEW a \in Seq(S), NEW b \in Seq(S), NEW s, NEW p \in Nat
    PROVE  Holds(s, p, a \o b) <=> Holds(s, p, a) /\ Holds(s, p + Len(a), b)
<1> DEFINE m == Len(a)
           n == Len(b)
           c == a \o b
<1>1. /\ m \in Nat /\ n \in Nat /\ Len(c) = m + n
      /\ \A j \in 1 .. m + n : c[j] = IF j <= m THEN a[j] ELSE b[j - m]
  BY ConcatProperties
<1> HIDE DEF m, n, c
<1>2. ASSUME Holds(s, p, c) PROVE Holds(s, p, a) /\ Holds(s, p + m, b)
  <2>1. \A j \in 1 .. m + n : At(s, p + j - 1) = c[j]
    BY <1>1, <1>2 DEF Holds
  <2>2. ASSUME NEW j \in 1 .. m PROVE At(s, p + j - 1) = a[j]
    BY <1>1, <2>1
  <2>3. ASSUME NEW j \in 1 .. n PROVE At(s, (p + m) + j - 1) = b[j]
    <3>1. m + j \in 1 .. m + n /\ ~ (m + j <= m) /\ (m + j) - m = j /\ p + (m + j) - 1 = (p + m) + j - 1
      BY <1>1
    <3> QED
      BY <1>1, <2>1, <3>1
  <2> QED
    BY <2>2, <2>3 DEF Holds, m, n
<1>3. ASSUME Holds(s, p, a), Holds(s, p + m, b) PROVE Holds(s, p, c)
  <2>1. \A j \in 1 .. m : At(s, p + j - 1) = a[j]
    BY <1>3 DEF Holds, m
  <2>2. \A j \in 1 .. n : At(s, (p + m) + j - 1) = b[j]
    BY <1>3 DEF Holds, n
  <2>3. ASSUME NEW j \in 1 .. m + n PROVE At(s, p + j - 1) = c[j]
    <3>1. CASE j <= m
      BY <1>1, <2>1, <3>1
    <3>2. CASE ~ (j <= m)
      <4>1. j - m \in 1 .. n /\ (p + m) + (j - m) - 1 = p + j - 1
        BY <1>1, <3>2
      <4> QED
        BY <1>1, <2>2, <3>2, <4>1
    <3> QED
      BY <3>1, <3>2
  <2> QED
    BY <1>1, <2>3 DEF Holds
<1> QED
  BY <1>2, <1>3 DEF m, c

\* One character.
LEMMA HoldsOne ==
    ASSUME NEW s, NEW p \in Nat, NEW c
    PROVE  Holds(s, p, <<c>>) <=> At(s, p) = c
<1>1. Len(<<c>>) = 1 /\ <<c>>[1] = c /\ p + 1 - 1 = p
  OBVIOUS
<1>2. 1 .. 1 = {1}
  OBVIOUS
<1> QED
  BY <1>1, <1>2 DEF Holds

-----------------------------------------------------------------------------
(* Digits written and read back.                                           *)

\* The value of a digit is where it stands among the digits.
LEMMA DigitValue ==
    ASSUME NEW d \in 0 .. 15
    PROVE  DigitOf(Digits[d + 1]) = d
<1> DEFINE c == Digits[d + 1]
           Is(e) == c \in {Digits[e + 1], UpperDigits[e + 1]}
<1>1. Is(d)
  OBVIOUS
<1>2. ASSUME NEW e \in 0 .. 15, Is(e) PROVE e = d
  BY <1>2 DEF Digits, UpperDigits
<1>3. (CHOOSE e \in 0 .. 15 : Is(e)) = d
  <2> HIDE DEF Is
  <2> QED
    BY <1>1, <1>2
<1> QED
  BY <1>1, <1>3, Zenon DEF DigitOf

\* Digits are characters.
LEMMA DigitsIn == \A d \in 0 .. 15 : Digits[d + 1] \in DigitChars
<1>1. Digits \in Seq(DigitChars) /\ Len(Digits) = 16
  <2>1. {"0", "1", "2", "3", "4", "5", "6", "7", "8", "9", "a", "b", "c", "d", "e", "f"} \subseteq DigitChars
    BY DEF DigitChars
  <2> QED
    BY <2>1 DEF Digits
<1>2. \A d \in 0 .. 15 : d + 1 \in 1 .. 16
  OBVIOUS
<1> QED
  BY <1>1, <1>2, ElementOfSeq

\* A number of more than one digit.
LEMMA Quotient ==
    ASSUME NEW m \in Nat, NEW base \in {10, 16}, base <= m
    PROVE  /\ m \div base \in 1 .. m - 1 /\ m % base \in 0 .. base - 1
           /\ m = (m \div base) * base + (m % base)
<1>1. CASE base = 10
  BY <1>1
<1>2. CASE base = 16
  BY <1>2
<1> QED
  BY <1>1, <1>2

\* A numeral: digits of the base, and no zero before the others.
Numeral(t, num, base, digits) ==
    /\ t \in Seq(DigitChars) /\ Len(t) \in Nat \ {0}
    /\ \A j \in 1 .. Len(t) : \E e \in 0 .. base - 1 : t[j] = digits[e + 1]
    /\ num > 0 => \E e \in 1 .. base - 1 : t[1] = digits[e + 1]
    /\ num = 0 => t = <<digits[1]>>

\* InBase writes one.
LEMMA InBaseDigits ==
    ASSUME NEW num \in Nat, NEW base \in {10, 16}, NEW digits \in {Digits, UpperDigits}
    PROVE  Numeral(InBase(num, base, digits), num, base, digits)
<1>0. digits \in Seq(DigitChars) /\ Len(digits) = 16
  <2>1. {"0", "1", "2", "3", "4", "5", "6", "7", "8", "9", "a", "b", "c", "d", "e", "f"} \subseteq DigitChars
        /\ {"0", "1", "2", "3", "4", "5", "6", "7", "8", "9", "A", "B", "C", "D", "E", "F"} \subseteq DigitChars
    BY DEF DigitChars
  <2>2. Digits \in Seq(DigitChars) /\ Len(Digits) = 16
    BY <2>1 DEF Digits
  <2>3. UpperDigits \in Seq(DigitChars) /\ Len(UpperDigits) = 16
    BY <2>1 DEF UpperDigits
  <2> QED
    BY <2>2, <2>3
<1>1. PICK buf \in [0 .. num -> Seq(DigitChars)] :
         InBase(num, base, digits) = buf[num] /\ Puts(buf, num, base, digits)
  BY <1>0, InBaseRun, Zenon
<1> DEFINE Good(m) == /\ Len(buf[m]) \in Nat \ {0}
                      /\ \A j \in 1 .. Len(buf[m]) : \E e \in 0 .. base - 1 : buf[m][j] = digits[e + 1]
                      /\ m > 0 => \E e \in 1 .. base - 1 : buf[m][1] = digits[e + 1]
           T == {m \in 0 .. num : ~ Good(m)}
<1>2. ASSUME NEW m \in 0 .. num, m < base PROVE Good(m) /\ buf[m] = <<digits[m + 1]>>
  <2>1. buf[m] = <<digits[m + 1]>>
    BY <1>1, <1>2 DEF Puts
  <2> DEFINE c == digits[m + 1]
  <2>2. Len(<<c>>) = 1 /\ <<c>>[1] = c
    OBVIOUS
  <2>3. m \in 0 .. base - 1 /\ (m > 0 => m \in 1 .. base - 1)
    BY <1>2
  <2> QED
    BY <2>1, <2>2, <2>3
<1>3. T = {}
  <2> SUFFICES ASSUME T # {} PROVE FALSE
    OBVIOUS
  <2>1. PICK m \in T : \A k \in T : m <= k
    <3>1. T \subseteq Nat
      OBVIOUS
    <3> HIDE DEF T
    <3> QED
      BY <3>1, LeastElement
  <2>2. m \in 0 .. num /\ ~ Good(m)
    OBVIOUS
  <2>3. ~ (m < base)
    BY <1>2, <2>2
  <2> DEFINE q == m \div base
             r == m % base
             u == buf[q]
             c == digits[r + 1]
  <2>4. q \in 0 .. num /\ q > 0 /\ ~ (m <= q) /\ r \in 0 .. base - 1
    <3>1. m \in Nat /\ m <= num /\ base <= m
      <4>1. m \in 0 .. num
        BY <2>2
      <4> QED
        BY <2>3, <4>1
    <3>2. q \in 1 .. m - 1 /\ r \in 0 .. base - 1
      BY <3>1, Quotient
    <3> HIDE DEF q, r
    <3> QED
      BY <3>1, <3>2
  <2>5. Good(q)
    <3>1. q \notin T
      <4> HIDE DEF T, q
      <4> QED
        BY <2>1, <2>4
    <3> HIDE DEF Good, q
    <3> QED
      BY <2>4, <3>1
  <2>6. buf[m] = Append(u, c)
    BY <1>1, <2>2, <2>3 DEF Puts
  <2>7. u \in Seq(DigitChars)
    BY <1>1, <2>4
  <2>8. /\ Len(u) \in Nat \ {0}
        /\ \A j \in 1 .. Len(u) : \E e \in 0 .. base - 1 : u[j] = digits[e + 1]
        /\ \E e \in 1 .. base - 1 : u[1] = digits[e + 1]
    BY <2>4, <2>5
  <2> HIDE DEF q, u, T
  <2>9. \E e \in 0 .. base - 1 : c = digits[e + 1]
    BY <2>4
  <2> HIDE DEF r, c
  <2>10. /\ Len(buf[m]) = Len(u) + 1 /\ buf[m][Len(u) + 1] = c
         /\ \A j \in 1 .. Len(u) : buf[m][j] = u[j]
    <3>1. c \in DigitChars
      <4>1. PICK e \in 0 .. base - 1 : c = digits[e + 1]
        BY <2>9
      <4>2. e + 1 \in 1 .. Len(digits)
        BY <1>0, <4>1
      <4> QED
        BY <1>0, <4>1, <4>2, ElementOfSeq
    <3> QED
      BY <2>6, <2>7, <3>1, AppendIs
  <2>11. \A j \in 1 .. Len(buf[m]) : \E e \in 0 .. base - 1 : buf[m][j] = digits[e + 1]
    <3> TAKE j \in 1 .. Len(buf[m])
    <3>1. j \in 1 .. Len(u) \/ j = Len(u) + 1
      BY <2>8, <2>10
    <3> QED
      BY <2>8, <2>9, <2>10, <3>1
  <2>12. buf[m][1] = u[1]
    BY <2>8, <2>10
  <2> QED
    BY <2>2, <2>8, <2>10, <2>11, <2>12
<1>4. Good(num)
  <2> HIDE DEF Good
  <2>1. num \in 0 .. num
    OBVIOUS
  <2> QED
    BY <1>3, <2>1
<1>5. num = 0 => buf[num] = <<digits[1]>>
  <2>1. num = 0 => num < base /\ num + 1 = 1 /\ num \in 0 .. num
    OBVIOUS
  <2>2. num = 0 => buf[num] = <<digits[num + 1]>>
    BY <1>2, <2>1
  <2> QED
    BY <2>1, <2>2
<1>6. InBase(num, base, digits) = buf[num] /\ buf[num] \in Seq(DigitChars)
  <2>2. num \in 0 .. num
    OBVIOUS
  <2> QED
    BY <1>1, <2>2
<1>7. Numeral(buf[num], num, base, digits)
  BY <1>4, <1>5, <1>6 DEF Numeral
<1> QED
  BY <1>6, <1>7, Zenon

\* The same of the digits that strtol reads.
LEMMA DigitsRun ==
    ASSUME NEW n \in Nat, NEW base \in {10, 16}
    PROVE  \E buf \in [0 .. n -> Seq(DigitChars)] :
              InBase(n, base, Digits) = buf[n] /\ Puts(buf, n, base, Digits)
<1> DEFINE digits == Digits
<1>1. digits \in Seq(DigitChars) /\ Len(digits) = 16
  <2>1. {"0", "1", "2", "3", "4", "5", "6", "7", "8", "9", "a", "b", "c", "d", "e", "f"} \subseteq DigitChars
    BY DEF DigitChars
  <2> QED
    BY <2>1 DEF Digits
<1>2. digits = Digits
  OBVIOUS
<1> HIDE DEF digits
<1>3. \E buf \in [0 .. n -> Seq(DigitChars)] :
          InBase(n, base, digits) = buf[n] /\ Puts(buf, n, base, digits)
  BY <1>1, InBaseRun, Zenon
<1> QED
  BY <1>2, <1>3, Zenon

\* The remainder of a number near 0.
LEMMA ModSmall ==
    ASSUME NEW m \in Nat \ {0}, NEW a \in Int
    PROVE  /\ a \in 0 .. m - 1 => a % m = a
           /\ a \in -m .. -1 => a % m = a + m
  OBVIOUS

\* Digits that end where another character stands, and what they are read as.
NumeralIn(s, i, t, base) ==
    Holds(s, i, t) /\ i + Len(t) <= Len(s) + 1 /\ DigitOf(At(s, i + Len(t))) >= base
ReadAs(s, i, t, base, n) ==
    SkipDigits(s, i, base) = i + Len(t) /\ DigitsFrom(s, i, i + Len(t), base) = n

\* Digits are read to the end of what InBase has written, and their value is its
\* number.
LEMMA DigitsRead ==
    ASSUME NEW s, Len(s) \in Nat, NEW n \in 0 .. LongMod - 1, NEW base \in {10, 16}, NEW i \in Nat \ {0},
           NEW t, t = InBase(n, base, Digits), NumeralIn(s, i, t, base)
    PROVE  ReadAs(s, i, t, base, n)
<1>a. Holds(s, i, t) /\ i + Len(t) <= Len(s) + 1 /\ DigitOf(At(s, i + Len(t))) >= base
  BY Zenon DEF NumeralIn
<1>0. n \in Nat /\ LongMod \in Nat \ {0} /\ base \in Nat /\ DigitChars = DigitChars
  BY Mods
<1>1. /\ t \in Seq(DigitChars) /\ Len(t) \in Nat \ {0}
      /\ \A j \in 1 .. Len(t) : \E e \in 0 .. base - 1 : t[j] = Digits[e + 1]
  <2>1. Digits \in {Digits, UpperDigits} /\ n \in Nat
    BY <1>0
  <2>2. Numeral(t, n, base, Digits)
    BY <2>1, InBaseDigits, Zenon
  <2> QED
    BY ONLY <2>2 DEF Numeral
<1> DEFINE l == Len(t)
<1>2. ASSUME NEW j \in i .. i + l - 1 PROVE DigitOf(At(s, j)) \in 0 .. base - 1
  <2>1. j - i + 1 \in 1 .. l /\ i + (j - i + 1) - 1 = j
    BY <1>1
  <2>2. At(s, j) = t[j - i + 1]
    BY <1>a, <2>1 DEF Holds
  <2>3. PICK e \in 0 .. base - 1 : t[j - i + 1] = Digits[e + 1]
    BY <1>1, <2>1
  <2>4. e \in 0 .. 15
    BY <2>3
  <2> QED
    BY <2>2, <2>3, <2>4, DigitValue
<1>3. SkipDigits(s, i, base) = i + l
  <2> DEFINE T == {j \in i .. Len(s) + 1 : DigitOf(At(s, j)) >= base}
  <2>1. i + l \in T
    BY <1>1, <1>a
  <2>2. T \subseteq Nat /\ T # {}
    BY <2>1
  <2>3. SkipDigits(s, i, base) = Min(T)
    BY Zenon DEF SkipDigits
  <2>4. \A j \in T : ~ (j < i + l)
    <3> SUFFICES ASSUME NEW j \in T, j < i + l PROVE FALSE
      OBVIOUS
    <3>1. j \in i .. i + l - 1
      BY <1>1
    <3>2. DigitOf(At(s, j)) \in 0 .. base - 1
      BY <1>2, <3>1
    <3>3. DigitOf(At(s, j)) >= base
      OBVIOUS
    <3> HIDE DEF T, l
    <3> QED
      BY <1>0, <3>2, <3>3
  <2>5. Min(T) \in T /\ \A j \in T : Min(T) <= j
    <3> HIDE DEF T
    <3> QED
      BY <2>2, MinFacts
  <2>6. Min(T) \in Nat /\ Min(T) <= i + l /\ ~ (Min(T) < i + l)
    <3> HIDE DEF T
    <3> QED
      BY <2>1, <2>2, <2>4, <2>5
  <2> HIDE DEF T
  <2>7. Min(T) = i + l
    <3>1. i + l \in Nat
      BY <1>1
    <3> HIDE DEF l
    <3> QED
      BY ONLY <2>6, <3>1
  <2> QED
    BY <2>3, <2>7, Zenon
<1>4. PICK ret \in [i .. i + l -> 0 .. LongMod - 1] :
         DigitsFrom(s, i, i + l, base) = ret[i + l] /\ ReadSoFar(ret, s, i, i + l, base)
  <2>1. i \in Nat /\ i + l \in Nat /\ i <= i + l
    BY <1>1
  <2> HIDE DEF l
  <2> QED
    BY <1>0, <2>1, DigitsFromRun
<1>5. PICK buf \in [0 .. n -> Seq(DigitChars)] :
         InBase(n, base, Digits) = buf[n] /\ Puts(buf, n, base, Digits)
  BY <1>0, DigitsRun
<1>6. /\ ret[i] = 0
      /\ \A k \in i + 1 .. i + l : ret[k] = (ret[k - 1] * base + DigitOf(s[k - 1])) % LongMod
  BY <1>4 DEF ReadSoFar
<1>7. \A k \in i .. i + l - 1 : s[k] = At(s, k)
  <2> TAKE k \in i .. i + l - 1
  <2>1. DigitOf(At(s, k)) \in 0 .. base - 1
    BY <1>2
  <2>2. At(s, k) # ""
    <3>1. 99 \notin 0 .. base - 1
      OBVIOUS
    <3>2. DigitOf("") = 99
      BY NotDigits
    <3> QED
      BY <2>1, <3>1, <3>2, Zenon
  <2> QED
    BY <2>2 DEF At
<1> DEFINE Ok(m) == Len(buf[m]) <= l /\ Holds(s, i, buf[m]) => ret[i + Len(buf[m])] = m
           T == {m \in 0 .. n : ~ Ok(m)}
<1>8. T = {}
  <2> SUFFICES ASSUME T # {} PROVE FALSE
    OBVIOUS
  <2>1. PICK m \in T : \A k \in T : m <= k
    <3>1. T \subseteq Nat
      OBVIOUS
    <3> HIDE DEF T
    <3> QED
      BY <3>1, LeastElement
  <2>2. m \in 0 .. n /\ ~ Ok(m)
    OBVIOUS
  <2> DEFINE u == buf[m]
             d == IF m < base THEN m ELSE m % base
             v == IF m < base THEN <<>> ELSE buf[m \div base]
             w == IF m < base THEN 0 ELSE m \div base
  <2>3. m \in Nat /\ m <= n /\ m \in 0 .. LongMod - 1 /\ d \in 0 .. 15 /\ d \in 0 .. base - 1
        /\ m = w * base + d
    <3>1. m \in Nat /\ m <= n /\ m \in 0 .. LongMod - 1
      BY <1>0, <2>2
    <3>2. CASE m < base
      BY <3>1, <3>2, SMTT(30)
    <3>3. CASE ~ (m < base)
      <4>0. m \in Nat /\ base \in {10, 16} /\ base <= m
        BY <3>1, <3>3
      <4>1. m % base \in 0 .. base - 1 /\ m = (m \div base) * base + (m % base)
        BY ONLY <4>0, Quotient
      <4> QED
        BY <3>1, <3>3, <4>1, SMTT(30)
    <3> QED
      BY <3>2, <3>3
  <2>4. /\ Len(u) \in Nat /\ Len(v) = Len(u) - 1 /\ u[Len(u)] = Digits[d + 1]
        /\ Len(u) >= 1 /\ \A j \in 1 .. Len(v) : v[j] = u[j]
    <3>1. CASE m < base
      <4> DEFINE c == Digits[m + 1]
      <4>1. u = <<c>>
        BY <1>5, <2>2, <3>1 DEF Puts
      <4>2. Len(<<c>>) = 1 /\ <<c>>[1] = c /\ Len(<<>>) = 0
        OBVIOUS
      <4>3. d = m /\ v = <<>>
        BY <3>1
      <4> HIDE DEF u, v, d, c
      <4> QED
        BY <4>1, <4>2, <4>3 DEF c
    <3>2. CASE ~ (m < base)
      <4> DEFINE c == Digits[d + 1]
      <4>1. d = m % base /\ v = buf[m \div base]
        BY <3>2
      <4>2. u = Append(v, c)
        BY <1>5, <2>2, <3>2 DEF Puts
      <4>3. m \div base \in 0 .. n
        <5>0. m \in Nat /\ base \in {10, 16} /\ base <= m /\ m <= n
          BY <2>3, <3>2
        <5>1. m \div base \in 1 .. m - 1 /\ m <= n
          BY ONLY <5>0, Quotient
        <5> QED
          BY <2>3, <5>1, SMTT(30)
      <4>4. v \in Seq(DigitChars)
        BY <4>1, <4>3
      <4>5. c \in DigitChars
        <5>1. d \in 0 .. 15
          BY <2>3
        <5> QED
          BY <5>1, DigitsIn
      <4> HIDE DEF u, v, d, c
      <4>6. Len(u) = Len(v) + 1 /\ u[Len(v) + 1] = c /\ \A j \in 1 .. Len(v) : u[j] = v[j]
        BY <4>2, <4>4, <4>5, AppendIs
      <4>7. Len(v) \in Nat
        BY <4>4, LenProperties
      <4> QED
        BY <4>6, <4>7 DEF c
    <3> QED
      BY <3>1, <3>2
  <2>5. Len(u) <= l /\ Holds(s, i, u) /\ ret[i + Len(u)] # m
    BY <2>2
  <2>6. Holds(s, i, v)
    <3> HIDE DEF u, v, d
    <3>1. \A j \in 1 .. Len(u) : At(s, i + j - 1) = u[j]
      BY <2>5 DEF Holds
    <3>2. \A j \in 1 .. Len(v) : j \in 1 .. Len(u)
      BY <2>4
    <3> QED
      BY <2>4, <3>1, <3>2 DEF Holds
  <2> DEFINE k == i + Len(u)
  <2>7. ret[k - 1] = w
    <3>1. CASE m < base
      <4>1. Len(u) = 1
        <5>1. u = <<Digits[m + 1]>>
          BY <1>5, <2>2, <3>1 DEF Puts
        <5> QED
          BY <5>1
      <4>2. k - 1 = i
        <5> HIDE DEF u
        <5> QED
          BY <4>1
      <4> QED
        BY <1>6, <3>1, <4>2
    <3>2. CASE ~ (m < base)
      <4>1. w = m \div base /\ v = buf[w]
        BY <3>2
      <4>2. w \in 0 .. n /\ ~ (m <= w)
        <5>0. m \in Nat /\ base \in {10, 16} /\ base <= m /\ m <= n
          BY <2>3, <3>2
        <5>1. m \div base \in 1 .. m - 1
          BY ONLY <5>0, Quotient
        <5> HIDE DEF w
        <5> QED
          BY <2>3, <4>1, <5>1, SMTT(30)
      <4>3. Ok(w)
        <5>1. w \notin T
          <6> HIDE DEF T, w
          <6> QED
            BY <2>1, <4>2
        <5> HIDE DEF Ok, w
        <5> QED
          BY <4>2, <5>1
      <4>4. Len(v) <= l
        <5> HIDE DEF u, v, d, w
        <5> QED
          BY <1>1, <2>4, <2>5
      <4>5. ret[i + Len(v)] = w
        <5> HIDE DEF w, v
        <5> QED
          BY <2>6, <4>1, <4>3, <4>4
      <4>6. i + Len(v) = k - 1
        <5> HIDE DEF u, v, d, w
        <5> QED
          BY <2>4
      <4> QED
        BY <4>5, <4>6
    <3> QED
      BY <3>1, <3>2
  <2>8. k \in i + 1 .. i + l /\ k - 1 \in i .. i + l - 1 /\ (k - 1) - i + 1 = Len(u)
    <3> HIDE DEF u, v, d, w
    <3> QED
      BY <1>1, <2>4, <2>5
  <2>9. DigitOf(s[k - 1]) = d
    <3>1. s[k - 1] = At(s, k - 1)
      BY <1>7, <2>8
    <3>2. At(s, k - 1) = u[Len(u)]
      <4> HIDE DEF u, v, d, w
      <4>1. Len(u) \in 1 .. Len(u) /\ i + Len(u) - 1 = k - 1
        BY <2>4
      <4> QED
        BY <2>5, <4>1 DEF Holds
    <3>3. DigitOf(Digits[d + 1]) = d
      BY <2>3, DigitValue
    <3> HIDE DEF u, v, d, w, k
    <3> QED
      BY <2>4, <3>1, <3>2, <3>3
  <2>10. ret[k] = (w * base + d) % LongMod
    <3>1. ret[k] = (ret[k - 1] * base + DigitOf(s[k - 1])) % LongMod
      BY <1>6, <2>8
    <3> HIDE DEF u, v, d, w, k
    <3> QED
      BY <2>7, <2>9, <3>1
  <2>11. m % LongMod = m
    <3> HIDE DEF u, v, d, w, k, T
    <3> QED
      BY ONLY <1>0, <2>3, ModSmall
  <2> HIDE DEF u, v, d, w, T
  <2> QED
    BY <2>3, <2>5, <2>10, <2>11
<1>9. ret[i + l] = n
  <2>1. Ok(n)
    <3>1. n \in 0 .. n
      BY <1>0
    <3> HIDE DEF Ok
    <3> QED
      BY <1>8, <3>1
  <2>2. buf[n] = t
    BY <1>5, Zenon
  <2>3. l <= l
    BY <1>1
  <2> QED
    BY <1>a, <2>1, <2>2, <2>3
<1> QED
  BY <1>3, <1>4, <1>9, Zenon DEF ReadAs

-----------------------------------------------------------------------------
(* strtol.                                                                 *)

\* A number that a word holds with its sign.
LEMMA SignedIs ==
    ASSUME NEW h \in Nat \ {0}, NEW m, m = 2 * h, NEW v \in Int, -h <= v, v < h
    PROVE  Signed(v, m) = v
<1>1. m \in Nat \ {0} /\ m \div 2 = h
  OBVIOUS
<1>2. CASE v >= 0
  <2>1. v \in 0 .. m - 1
    BY <1>2
  <2>2. v % m = v
    BY <1>1, <2>1, ModSmall
  <2>3. ~ (v >= h)
    OBVIOUS
  <2> QED
    BY <1>1, <2>2, <2>3 DEF Signed
<1>3. CASE ~ (v >= 0)
  <2>1. v \in -m .. -1
    BY <1>3
  <2>2. v % m = v + m
    BY <1>1, <2>1, ModSmall
  <2>3. v + m >= h /\ (v + m) - m = v
    OBVIOUS
  <2> QED
    BY <1>1, <2>2, <2>3 DEF Signed
<1> QED
  BY <1>2, <1>3

\* No digit is a blank or a sign.
LEMMA DigitPlain ==
    ASSUME NEW c \in DigitChars
    PROVE  ~ isspace(c) /\ c \notin {"-", "+", "*", ""}
  BY DEF DigitChars, isspace

\* What strtol returns, given the position of the first character and of the
\* character that ends the digits.
LEMMA StrtolIs ==
    ASSUME NEW s, NEW i, NEW base, NEW start, start = SkipSpace(s, i),
           NEW p, p = (IF At(s, start) \in {"-", "+"} THEN start + 1 ELSE start),
           NEW begin, NEW radix, BaseOf(s, p, base) = <<radix, begin>>,
           NEW end, SkipDigits(s, begin, radix) = end,
           NEW v, DigitsFrom(s, begin, end, radix) = v
    PROVE  strtol(s, i, base) = << Signed(IF At(s, start) = "-" THEN -v ELSE v, LongMod), end >>
<1> DEFINE b == BaseOf(s, p, base)
<1>1. b[1] = radix /\ b[2] = begin
  <2>1. <<radix, begin>>[1] = radix /\ <<radix, begin>>[2] = begin
    OBVIOUS
  <2> QED
    BY <2>1, Zenon
<1>2. strtol(s, i, base) = ReadTo(s, SkipDigits(s, b[2], b[1]), At(s, start) = "-", b)
  BY Zenon DEF strtol
<1> HIDE DEF b
<1>3. strtol(s, i, base) = ReadTo(s, end, At(s, start) = "-", b)
  BY <1>1, <1>2, Zenon
<1>4. ReadTo(s, end, At(s, start) = "-", b) =
          << Signed(IF At(s, start) = "-" THEN -DigitsFrom(s, b[2], end, b[1])
                    ELSE DigitsFrom(s, b[2], end, b[1]), LongMod), end >>
  BY Zenon DEF ReadTo
<1> QED
  BY <1>1, <1>3, <1>4, Zenon

\* The first character that is no blank.
LEMMA SkipSpaceIs ==
    ASSUME NEW s, Len(s) \in Nat, NEW i \in Nat, NEW start \in i .. Len(s) + 1,
           ~ isspace(At(s, start)), \A j \in i .. start - 1 : isspace(At(s, j))
    PROVE  SkipSpace(s, i) = start
<1> DEFINE T == {j \in i .. Len(s) + 1 : ~ isspace(At(s, j))}
<1>1. start \in T /\ T \subseteq Nat
  OBVIOUS
<1>2. ASSUME NEW j \in T PROVE start <= j
  <2>1. j \in i .. Len(s) + 1 /\ ~ isspace(At(s, j)) /\ start \in Nat
    OBVIOUS
  <2>2. j \notin i .. start - 1
    BY <2>1
  <2> HIDE DEF T
  <2> QED
    BY ONLY <2>1, <2>2, i \in Nat, Len(s) \in Nat
<1> HIDE DEF T
<1>3. Min(T) \in T /\ Min(T) <= start
  BY <1>1, MinFacts
<1>4. Min(T) \in Nat /\ start \in Nat /\ start <= Min(T)
  BY <1>1, <1>2, <1>3
<1>5. Min(T) = start
  BY ONLY <1>3, <1>4
<1> QED
  BY <1>5, Zenon DEF SkipSpace, T

\* A width or a precision in a format is read to its end.
LEMMA NumberRead ==
    ASSUME NEW s, Len(s) \in Nat, NEW h \in Nat \ {0}, LongMod = 2 * h, NEW n \in 0 .. h - 1,
           NEW p \in Nat \ {0}, NEW t, t = InBase(n, 10, Digits), Holds(s, p, t),
           p + Len(t) <= Len(s) + 1, DigitOf(At(s, p + Len(t))) >= 10
    PROVE  strtol(s, p, 10) = << n, p + Len(t) >>
<1>0. n \in Nat /\ n \in 0 .. LongMod - 1
  OBVIOUS
<1>1. Numeral(t, n, 10, Digits)
  <2>1. Digits \in {Digits, UpperDigits} /\ 10 \in {10, 16}
    OBVIOUS
  <2> QED
    BY <1>0, <2>1, InBaseDigits, Zenon
<1>2. t \in Seq(DigitChars) /\ Len(t) \in Nat \ {0}
  BY ONLY <1>1 DEF Numeral
<1>3. At(s, p) \in DigitChars
  <2>1. 1 \in 1 .. Len(t) /\ p + 1 - 1 = p
    BY ONLY <1>2, p \in Nat
  <2>2. At(s, p) = t[1]
    BY <2>1 DEF Holds
  <2>3. t[1] \in DigitChars
    BY ONLY <1>2, <2>1, ElementOfSeq
  <2> QED
    BY <2>2, <2>3, Zenon
<1>4. ~ isspace(At(s, p)) /\ At(s, p) \notin {"-", "+"} /\ At(s, p) # "-"
  BY ONLY <1>3, DigitPlain
<1>5. SkipSpace(s, p) = p
  <2>1. p \in p .. Len(s) + 1 /\ p .. p - 1 = {}
    BY ONLY <1>2, Len(s) \in Nat, p \in Nat \ {0}, p + Len(t) <= Len(s) + 1
  <2>2. \A j \in p .. p - 1 : isspace(At(s, j))
    BY <2>1
  <2> QED
    BY <1>4, <2>1, <2>2, SkipSpaceIs
<1>6. SkipDigits(s, p, 10) = p + Len(t) /\ DigitsFrom(s, p, p + Len(t), 10) = n
  <2>1. 10 \in {10, 16}
    OBVIOUS
  <2>2. NumeralIn(s, p, t, 10)
    BY Zenon DEF NumeralIn
  <2>3. ReadAs(s, p, t, 10, n)
    BY <1>0, <2>1, <2>2, DigitsRead, Zenon
  <2> QED
    BY <2>3, Zenon DEF ReadAs
<1>7. BaseOf(s, p, 10) = <<10, p>>
  BY DEF BaseOf
<1>8. strtol(s, p, 10) = << Signed(n, LongMod), p + Len(t) >>
  <2>1. p = IF At(s, p) \in {"-", "+"} THEN p + 1 ELSE p
    BY <1>4, Zenon
  <2> DEFINE e == p + Len(t)
  <2>2. SkipDigits(s, p, 10) = e /\ DigitsFrom(s, p, e, 10) = n
    BY <1>6, Zenon
  <2>3. p = SkipSpace(s, p)
    BY <1>5, Zenon
  <2> HIDE DEF e
  <2>4. strtol(s, p, 10) = << Signed(IF At(s, p) = "-" THEN -n ELSE n, LongMod), e >>
    BY ONLY <1>7, <2>1, <2>2, <2>3, StrtolIs
  <2> QED
    BY <1>4, <2>4, Zenon DEF e
<1>9. Signed(n, LongMod) = n
  <2>1. n \in Int /\ -h <= n /\ n < h
    OBVIOUS
  <2> QED
    BY <2>1, SignedIs
<1> QED
  BY <1>8, <1>9, Zenon

\* The characters that a number is read back between.
ReadChars == DigitChars \cup {" ", "\t", "-", "x", "z"}

\* A text of at most two characters.
LEMMA ShortTexts ==
    ASSUME NEW S, NEW c \in S, NEW d \in S
    PROVE  /\ <<>> \in Seq(S) /\ <<c>> \in Seq(S) /\ <<c, d>> \in Seq(S)
           /\ Len(<<>>) = 0 /\ Len(<<c>>) = 1 /\ Len(<<c, d>>) = 2 /\ <<c>> # <<>>
  OBVIOUS

\* Two characters stand at a place.
LEMMA HoldsTwo ==
    ASSUME NEW s, NEW p \in Nat, NEW c, NEW d
    PROVE  Holds(s, p, <<c, d>>) <=> At(s, p) = c /\ At(s, p + 1) = d
<1>1. Len(<<c, d>>) = 2 /\ <<c, d>>[1] = c /\ <<c, d>>[2] = d
      /\ p + 1 - 1 = p /\ p + 2 - 1 = p + 1 /\ 1 .. 2 = {1, 2}
  OBVIOUS
<1> QED
  BY <1>1, Zenon DEF Holds

\* A text that is not empty stands with its first character first.
LEMMA HoldsFirst ==
    ASSUME NEW s, NEW p \in Nat, NEW t, Len(t) \in Nat \ {0}, Holds(s, p, t)
    PROVE  At(s, p) = t[1]
<1>1. 1 \in 1 .. Len(t) /\ p + 1 - 1 = p
  OBVIOUS
<1> QED
  BY <1>1 DEF Holds

\* No digit of a base up to 16.
LEMMA EndsDigits ==
    /\ DigitOf("z") = 99 /\ DigitOf("l") = 99 /\ DigitOf(".") = 99
    /\ \A c \in {"i", "u", "x", "X", "p", "s", "n", "%"} : DigitOf(c) = 99
    /\ \A c \in {"d", "c"} : DigitOf(c) \in 10 .. 15
<1>1. \A c \in {"z", "l", ".", "i", "u", "x", "X", "p", "s", "n", "%"} : c \notin DigitChars
  BY DEF DigitChars
<1>2. \A c \in {"z", "l", ".", "i", "u", "x", "X", "p", "s", "n", "%"} : DigitOf(c) = 99
  BY <1>1, NotDigit
<1>3. DigitOf("d") = 13 /\ DigitOf("c") = 12
  <2>1. Digits[14] = "d" /\ Digits[13] = "c"
    BY DEF Digits
  <2>2. 13 \in 0 .. 15 /\ 12 \in 0 .. 15 /\ 13 + 1 = 14 /\ 12 + 1 = 13
    OBVIOUS
  <2> QED
    BY <2>1, <2>2, DigitValue
<1> QED
  BY <1>2, <1>3

\* No digits from i to i have the value 0.
LEMMA NoDigits ==
    ASSUME NEW s, NEW i \in Nat, NEW base \in Nat
    PROVE  DigitsFrom(s, i, i, base) = 0
<1>1. i <= i
  OBVIOUS
<1>2. PICK ret \in [i .. i -> 0 .. LongMod - 1] :
         DigitsFrom(s, i, i, base) = ret[i] /\ ReadSoFar(ret, s, i, i, base)
  BY <1>1, DigitsFromRun
<1> QED
  BY <1>2, Zenon DEF ReadSoFar

\* The number an octal 0 alone stands for is read up to the next character.
LEMMA NoneRead ==
    ASSUME NEW s, NEW i \in Nat \ {0}, Len(s) \in Nat, i <= Len(s) + 1,
           NEW base \in Nat, DigitOf(At(s, i)) >= base
    PROVE  SkipDigits(s, i, base) = i
<1> DEFINE T == {j \in i .. Len(s) + 1 : DigitOf(At(s, j)) >= base}
<1>1. i \in T /\ T \subseteq Nat /\ \A j \in T : i <= j
  OBVIOUS
<1> HIDE DEF T
<1>2. Min(T) \in T /\ Min(T) <= i
  BY <1>1, MinFacts
<1>3. Min(T) \in Nat /\ i <= Min(T)
  BY <1>1, <1>2
<1>4. Min(T) = i
  BY ONLY <1>2, <1>3, i \in Nat \ {0}
<1> QED
  BY <1>4, Zenon DEF SkipDigits, T

\* Two texts that follow one another, and four.
LEMMA Joined ==
    ASSUME NEW S, NEW a \in Seq(S), NEW b \in Seq(S)
    PROVE  a \o b \in Seq(S) /\ Len(a) \in Nat /\ Len(b) \in Nat /\ Len(a \o b) = Len(a) + Len(b)
  BY ConcatProperties, LenProperties

\* Three texts.
AreTexts(S, a, b, c) == a \in Seq(S) /\ b \in Seq(S) /\ c \in Seq(S)
Associate(a, b, c) == a \o b \o c = a \o (b \o c)

\* It does not matter which two of three texts are joined first.
LEMMA JoinedThree ==
    ASSUME NEW S, NEW a, NEW b, NEW c, AreTexts(S, a, b, c)
    PROVE  Associate(a, b, c)
<1>1. a \in Seq(S) /\ b \in Seq(S) /\ c \in Seq(S)
  BY DEF AreTexts
<1> QED
  BY ONLY <1>1, ConcatAssociative DEF Associate

\* The parts of s, and where they stand.
TextParts(s, x, a, b, c, d, e) ==
    /\ Len(a) \in Nat /\ Len(b) \in Nat /\ Len(c) \in Nat /\ Len(d) \in Nat /\ Len(e) \in Nat
    /\ Len(x) = Len(a) + Len(b) + Len(c) + Len(d) /\ Len(s) = Len(x) + Len(e)
    /\ Holds(s, 1, a) /\ Holds(s, 1 + Len(a), b) /\ Holds(s, 1 + Len(a) + Len(b), c)
    /\ Holds(s, 1 + Len(a) + Len(b) + Len(c), d)
    /\ Holds(s, 1 + Len(a) + Len(b) + Len(c) + Len(d), e)

\* A text put together of four parts holds each part at its place.
LEMMA FourTexts ==
    ASSUME NEW S, NEW a \in Seq(S), NEW b \in Seq(S), NEW c \in Seq(S), NEW d \in Seq(S),
           NEW x, x = a \o b \o c \o d, NEW e \in Seq(S), NEW s, s = x \o e
    PROVE  TextParts(s, x, a, b, c, d, e)
<1> DEFINE ab == a \o b
           abc == ab \o c
<1>1. x = abc \o d
  OBVIOUS
<1>2. ab \in Seq(S) /\ Len(a) \in Nat /\ Len(b) \in Nat /\ Len(ab) = Len(a) + Len(b)
  BY Joined
<1>3. abc \in Seq(S) /\ Len(c) \in Nat /\ Len(abc) = Len(ab) + Len(c)
  <2> HIDE DEF ab
  <2> QED
    BY ONLY c \in Seq(S), <1>2, Joined DEF abc
<1> HIDE DEF abc
<1>4. x \in Seq(S) /\ Len(d) \in Nat /\ Len(x) = Len(abc) + Len(d)
  BY ONLY d \in Seq(S), <1>1, <1>3, Joined
<1>5. s \in Seq(S) /\ Len(e) \in Nat /\ Len(s) = Len(x) + Len(e)
  BY ONLY e \in Seq(S), s = x \o e, <1>4, Joined
<1>6. Holds(s, 1, x) /\ Holds(s, 1 + Len(x), e)
  <2>1. Holds(s, 1, x \o e) /\ 1 \in Nat
    BY ONLY s = x \o e, <1>5, HoldsSelf
  <2> QED
    BY ONLY e \in Seq(S), <1>4, <2>1, HoldsParts
<1>7. Holds(s, 1, abc) /\ Holds(s, 1 + Len(abc), d)
  BY ONLY d \in Seq(S), <1>1, <1>3, <1>6, HoldsParts
<1>8. Holds(s, 1, ab) /\ Holds(s, 1 + Len(ab), c)
  <2>1. Holds(s, 1, ab \o c)
    BY <1>7 DEF abc
  <2> HIDE DEF ab
  <2> QED
    BY ONLY c \in Seq(S), <1>2, <2>1, HoldsParts
<1>9. Holds(s, 1, a) /\ Holds(s, 1 + Len(a), b)
  BY ONLY a \in Seq(S), b \in Seq(S), <1>8, HoldsParts DEF ab
<1> HIDE DEF ab
<1>10. /\ Len(x) = Len(a) + Len(b) + Len(c) + Len(d)
       /\ 1 + Len(ab) = 1 + Len(a) + Len(b) /\ 1 + Len(abc) = 1 + Len(a) + Len(b) + Len(c)
       /\ 1 + Len(x) = 1 + Len(a) + Len(b) + Len(c) + Len(d)
  BY ONLY <1>2, <1>3, <1>4
<1> QED
  BY <1>2, <1>3, <1>4, <1>5, <1>6, <1>7, <1>8, <1>9, <1>10, Zenon DEF TextParts

\* A text t from b to before e, with blanks, a sign, a prefix and a z around it.
Around(s, n, base, hex, neg, t, p, b, e) ==
    /\ p = 3 + (IF neg THEN 1 ELSE 0) /\ b = p + (IF base = 0 /\ hex THEN 2 ELSE 0)
    /\ e = b + Len(t) /\ Len(s) = e /\ At(s, 1) = " " /\ At(s, 2) = "\t" /\ At(s, e) = "z"
    /\ base = 16 => hex
    /\ base = 10 => ~ hex
    /\ t = InBase(n, IF hex THEN 16 ELSE 10, Digits)
    /\ neg => At(s, 3) = "-"
    /\ base = 0 /\ hex => At(s, p) = "0" /\ At(s, p + 1) = "x"
    /\ Holds(s, b, t)

\* What strtol returns for it.
ReadsAs(s, base, neg, n, e) == strtol(s, 1, base) = << IF neg THEN -n ELSE n, e >>

\* strtol reads back a number that InBase has written, with what stands around it.
LEMMA ReadValue ==
    ASSUME NEW h \in Nat \ {0}, LongMod = 2 * h, NEW n \in 0 .. h - 1, NEW base \in {0, 10, 16},
           NEW hex \in BOOLEAN, NEW neg \in BOOLEAN,
           NEW t, NEW p, NEW b, NEW e, NEW s, Around(s, n, base, hex, neg, t, p, b, e)
    PROVE  ReadsAs(s, base, neg, n, e)
<1>d. p = 3 + (IF neg THEN 1 ELSE 0) /\ b = p + (IF base = 0 /\ hex THEN 2 ELSE 0) /\ e = b + Len(t) /\ Len(s) = e
  BY Zenon DEF Around
<1>e. /\ At(s, 1) = " " /\ At(s, 2) = "\t" /\ At(s, e) = "z" /\ Holds(s, b, t)
      /\ neg => At(s, 3) = "-"
      /\ base = 0 /\ hex => At(s, p) = "0" /\ At(s, p + 1) = "x"
  BY Zenon DEF Around
<1>f. (base = 16 => hex) /\ (base = 10 => ~ hex)
  BY Zenon DEF Around
<1> DEFINE radix == IF hex THEN 16 ELSE 10
<1>0. n \in Nat /\ n \in 0 .. LongMod - 1 /\ radix \in {10, 16} /\ -n \in Int
  BY ONLY h \in Nat \ {0}, LongMod = 2 * h, n \in 0 .. h - 1, hex \in BOOLEAN
<1>a. t = InBase(n, radix, Digits)
  BY Zenon DEF Around
<1> HIDE DEF radix
<1>1. Numeral(t, n, radix, Digits)
  <2>1. Digits \in {Digits, UpperDigits}
    OBVIOUS
  <2> QED
    BY ONLY <1>0, <1>a, <2>1, InBaseDigits
<1>2. t \in Seq(DigitChars) /\ Len(t) \in Nat \ {0} /\ t[1] \in DigitChars
  <2>1. t \in Seq(DigitChars) /\ Len(t) \in Nat \ {0}
    BY ONLY <1>1 DEF Numeral
  <2>2. 1 \in 1 .. Len(t)
    BY ONLY <2>1
  <2> QED
    BY ONLY <2>1, <2>2, ElementOfSeq
<1>5. /\ p \in Nat \ {0} /\ b \in Nat \ {0} /\ e \in Nat \ {0} /\ b < e /\ p <= b /\ 3 <= p
      /\ Len(s) \in Nat /\ e <= Len(s) + 1
  BY ONLY <1>2, <1>d
<1>b. ~ (base = 0 /\ hex) => b = p
  BY ONLY <1>5, <1>d
<1>6. At(s, b) = t[1] /\ At(s, b) \in DigitChars
  <2>1. At(s, b) = t[1]
    BY ONLY <1>2, <1>5, <1>e, HoldsFirst
  <2> QED
    BY <1>2, <2>1, Zenon
<1>7. At(s, p) \in DigitChars
  <2>1. "0" \in DigitChars
    BY ONLY DEF DigitChars
  <2> QED
    BY <1>6, <1>b, <1>e, <2>1, Zenon
<1>8. (neg => p = 3 + 1) /\ (~ neg => p = 3)
  BY ONLY <1>d
<1>9. SkipSpace(s, 1) = 3
  <2>1. isspace(" ") /\ isspace("\t") /\ ~ isspace("-")
    BY ONLY DEF isspace
  <2>2. ~ isspace(At(s, 3))
    BY <1>7, <1>8, <1>e, <2>1, DigitPlain, Zenon
  <2>3. \A j \in 1 .. 3 - 1 : isspace(At(s, j))
    <3>1. 1 .. 3 - 1 = {1, 2}
      BY ONLY TRUE
    <3>2. isspace(At(s, 1)) /\ isspace(At(s, 2))
      BY <1>e, <2>1, Zenon
    <3> QED
      BY ONLY <3>1, <3>2
  <2>4. Len(s) \in Nat /\ 1 \in Nat /\ 3 \in 1 .. Len(s) + 1
    BY ONLY <1>5, <1>d
  <2> QED
    BY ONLY <2>2, <2>3, <2>4, SkipSpaceIs
<1>c. ~ neg => At(s, 3) \notin {"-", "+"} /\ At(s, 3) # "-"
  BY <1>7, <1>8, DigitPlain, Zenon
<1>10. p = IF At(s, 3) \in {"-", "+"} THEN 3 + 1 ELSE 3
  BY <1>8, <1>c, <1>e, Zenon
<1>11. At(s, 3) = "-" <=> neg
  BY <1>c, <1>e, Zenon
<1>12. \E r, k : BaseOf(s, p, base) = <<r, k>> /\ SkipDigits(s, k, r) = e /\ DigitsFrom(s, k, e, r) = n
  <2>1. SkipDigits(s, b, radix) = e /\ DigitsFrom(s, b, e, radix) = n
    <3>1. DigitOf(At(s, e)) >= radix
      <4>1. DigitOf(At(s, e)) = 99
        BY <1>e, EndsDigits, Zenon
      <4> QED
        BY ONLY <1>0, <4>1
    <3> QED
      <4>1. /\ Holds(s, b, t) /\ b \in Nat \ {0} /\ e = b + Len(t) /\ Len(s) \in Nat
            /\ NumeralIn(s, b, t, radix)
        BY <1>5, <1>d, <1>e, <3>1, Zenon DEF NumeralIn
      <4>2. ReadAs(s, b, t, radix, n)
        BY <1>0, <1>a, <4>1, DigitsRead, Zenon
      <4> QED
        BY <4>1, <4>2, Zenon DEF ReadAs
  <2>2. CASE base # 0
    <3>1. base = radix /\ ~ (base = 0 /\ hex)
      BY ONLY <1>f, <2>2, base \in {0, 10, 16} DEF radix
    <3>2. b = p
      BY <1>b, <3>1, Zenon
    <3>3. BaseOf(s, p, base) = <<radix, b>>
      BY <2>2, <3>1, <3>2, Zenon DEF BaseOf
    <3> QED
      BY <2>1, <3>3, Zenon
  <2>3. CASE base = 0 /\ hex
    <3>2. b = p + 2 /\ radix = 16
      BY <1>d, <2>3, Zenon DEF radix
    <3>3. BaseOf(s, p, base) = <<radix, b>>
      BY <1>e, <2>3, <3>2, Zenon DEF BaseOf
    <3> QED
      BY <2>1, <3>3, Zenon
  <2>4. CASE base = 0 /\ ~ hex /\ n > 0
    <3>1. b = p
      BY <1>b, <2>4, Zenon
    <3>2. radix = 10
      BY <2>4, Zenon DEF radix
    <3>3. t[1] # "0"
      <4>1. PICK c \in 1 .. radix - 1 : t[1] = Digits[c + 1]
        BY ONLY <1>1, <2>4 DEF Numeral
      <4>2. c \in 0 .. 15 /\ 0 \in 0 .. 15 /\ c # 0
        BY ONLY <3>2, c \in 1 .. radix - 1
      <4>3. DigitOf(Digits[c + 1]) = c /\ DigitOf(Digits[0 + 1]) = 0
        BY ONLY <4>2, DigitValue
      <4>4. Digits[0 + 1] = "0"
        BY ONLY DEF Digits
      <4> QED
        BY <4>1, <4>2, <4>3, <4>4, Zenon
    <3>4. BaseOf(s, p, base) = <<radix, b>>
      BY <1>6, <2>4, <3>1, <3>2, <3>3, Zenon DEF BaseOf
    <3> QED
      BY <2>1, <3>4, Zenon
  <2>5. CASE base = 0 /\ ~ hex /\ n = 0
    <3>1. b = p
      BY <1>b, <2>5, Zenon
    <3>2. t = <<"0">>
      <4>1. t = <<Digits[1]>>
        BY <1>1, <2>5, Zenon DEF Numeral
      <4>2. Digits[1] = "0"
        BY ONLY DEF Digits
      <4> QED
        BY <4>1, <4>2, Zenon
    <3>3. Len(t) = 1 /\ t[1] = "0"
      BY ONLY <3>2
    <3>a. e = p + 1
      BY <1>d, <3>1, <3>3, Zenon
    <3>4. BaseOf(s, p, base) = <<8, e>>
      <4>1. "z" \notin {"x", "X"} /\ At(s, p) = "0" /\ At(s, p + 1) = "z"
        BY <1>6, <1>e, <3>1, <3>3, <3>a, Zenon
      <4> QED
        BY <2>5, <3>a, <4>1, Zenon DEF BaseOf
    <3>6. DigitOf(At(s, e)) >= 8 /\ 8 \in Nat
      <4>1. DigitOf(At(s, e)) = 99
        BY <1>e, EndsDigits, Zenon
      <4> QED
        BY ONLY <4>1
    <3>7. SkipDigits(s, e, 8) = e
      BY ONLY <1>5, <3>6, NoneRead
    <3>8. DigitsFrom(s, e, e, 8) = n
      <4>1. e \in Nat
        BY ONLY <1>5
      <4>2. DigitsFrom(s, e, e, 8) = 0
        BY ONLY <3>6, <4>1, NoDigits
      <4> QED
        BY <2>5, <4>2, Zenon
    <3> QED
      BY <3>4, <3>7, <3>8, Zenon
  <2>6. n > 0 \/ n = 0
    BY ONLY <1>0
  <2> QED
    BY <2>2, <2>3, <2>4, <2>5, <2>6, Zenon
<1>13. PICK r, k : /\ BaseOf(s, p, base) = <<r, k>>
                   /\ SkipDigits(s, k, r) = e /\ DigitsFrom(s, k, e, r) = n
  BY <1>12, Zenon
<1>14. strtol(s, 1, base) = << Signed(IF At(s, 3) = "-" THEN -n ELSE n, LongMod), e >>
  <2>1. 3 = SkipSpace(s, 1)
    BY <1>9, Zenon
  <2> QED
    BY ONLY <1>10, <1>13, <2>1, StrtolIs
<1>15. Signed(n, LongMod) = n /\ Signed(-n, LongMod) = -n
  <2>1. n \in Int /\ -h <= n /\ n < h /\ -n \in Int /\ -h <= -n /\ -n < h
    BY ONLY h \in Nat \ {0}, n \in 0 .. h - 1
  <2> QED
    BY ONLY <2>1, SignedIs, LongMod = 2 * h, h \in Nat \ {0}
<1>16. Signed(IF At(s, 3) = "-" THEN -n ELSE n, LongMod) = IF neg THEN -n ELSE n
  BY <1>11, <1>15, Zenon
<1> QED
  BY <1>14, <1>16, Zenon DEF ReadsAs

\* The same for the text of ReadsBack.
Asked(h, n, base, hex, sign) ==
    /\ h \in Nat \ {0} /\ LongMod = 2 * h /\ n \in 0 .. h - 1 /\ base \in {0, 10, 16}
    /\ hex \in BOOLEAN /\ (base = 16 => hex) /\ (base = 10 => ~ hex) /\ sign \in {<<>>, <<"-">>}
Answers(n, base, hex, sign) ==
    LET text == <<" ", "\t">> \o sign \o (IF base = 0 /\ hex THEN <<"0", "x">> ELSE <<>>)
                \o InBase(n, IF hex THEN 16 ELSE 10, Digits)
    IN strtol(text \o <<"z">>, 1, base) = << IF sign = <<>> THEN n ELSE -n, Len(text) + 1 >>

\* strtol reads back a number that is spelled behind blanks, a sign and a prefix.
LEMMA ReadBack ==
    ASSUME NEW h, NEW n, NEW base, NEW hex, NEW sign, Asked(h, n, base, hex, sign)
    PROVE  Answers(n, base, hex, sign)
<1> /\ h \in Nat \ {0} /\ LongMod = 2 * h /\ n \in 0 .. h - 1 /\ base \in {0, 10, 16}
    /\ hex \in BOOLEAN /\ (base = 16 => hex) /\ (base = 10 => ~ hex) /\ sign \in {<<>>, <<"-">>}
  BY Zenon DEF Asked
<1> DEFINE head == <<" ", "\t">>
           pre  == IF base = 0 /\ hex THEN <<"0", "x">> ELSE <<>>
           t    == InBase(n, IF hex THEN 16 ELSE 10, Digits)
           last == <<"z">>
           neg  == sign # <<>>
           text == head \o sign \o pre \o t
           s    == text \o last
<1>1. /\ head \in Seq(ReadChars) /\ last \in Seq(ReadChars) /\ sign \in Seq(ReadChars)
      /\ pre \in Seq(ReadChars)
      /\ Len(head) = 2 /\ Len(last) = 1 /\ Len(sign) = (IF neg THEN 1 ELSE 0)
      /\ Len(pre) = (IF base = 0 /\ hex THEN 2 ELSE 0) /\ (neg => sign = <<"-">>)
  <2>1. /\ " " \in ReadChars /\ "\t" \in ReadChars /\ "z" \in ReadChars /\ "-" \in ReadChars
        /\ "0" \in ReadChars /\ "x" \in ReadChars
    BY DEF ReadChars, DigitChars
  <2>2. head \in Seq(ReadChars) /\ Len(head) = 2
    BY <2>1, ShortTexts, Zenon
  <2>4. last \in Seq(ReadChars) /\ Len(last) = 1
    BY <2>1, ShortTexts, Zenon
  <2>5. <<"-">> \in Seq(ReadChars) /\ Len(<<"-">>) = 1 /\ <<"-">> # <<>>
    BY <2>1, ShortTexts, Zenon
  <2>6. <<"0", "x">> \in Seq(ReadChars) /\ Len(<<"0", "x">>) = 2
    BY <2>1, ShortTexts, Zenon
  <2>7. <<>> \in Seq(ReadChars) /\ Len(<<>>) = 0
    BY <2>1, ShortTexts, Zenon
  <2>3. sign = <<>> \/ sign = <<"-">>
    BY Zenon
  <2> HIDE DEF head, last
  <2>8. pre \in Seq(ReadChars) /\ Len(pre) = (IF base = 0 /\ hex THEN 2 ELSE 0)
    <3>1. CASE base = 0 /\ hex
      BY ONLY <2>6, <3>1 DEF pre
    <3>2. CASE ~ (base = 0 /\ hex)
      BY ONLY <2>7, <3>2 DEF pre
    <3> QED
      BY <3>1, <3>2, Zenon
  <2>9. /\ sign \in Seq(ReadChars) /\ Len(sign) = (IF neg THEN 1 ELSE 0) /\ (neg => sign = <<"-">>)
    <3>1. CASE sign = <<>>
      BY ONLY <2>7, <3>1 DEF neg
    <3>2. CASE sign = <<"-">>
      BY ONLY <2>5, <3>2 DEF neg
    <3> QED
      BY <2>3, <3>1, <3>2, Zenon
  <2> QED
    BY <2>2, <2>4, <2>8, <2>9, Zenon
<1>2. t \in Seq(ReadChars)
  <2> DEFINE radix == IF hex THEN 16 ELSE 10
  <2>1. n \in Nat /\ radix \in {10, 16} /\ Digits \in {Digits, UpperDigits}
    BY ONLY h \in Nat \ {0}, n \in 0 .. h - 1
  <2> HIDE DEF radix
  <2>2. Numeral(InBase(n, radix, Digits), n, radix, Digits)
    BY ONLY <2>1, InBaseDigits
  <2>3. InBase(n, radix, Digits) \in Seq(DigitChars)
    BY ONLY <2>2 DEF Numeral
  <2>4. DigitChars \subseteq ReadChars
    BY ONLY DEF ReadChars
  <2> QED
    BY ONLY <2>3, <2>4 DEF radix
<1>3. /\ head = <<" ", "\t">> /\ last = <<"z">> /\ (base = 0 /\ hex => pre = <<"0", "x">>)
      /\ t = InBase(n, IF hex THEN 16 ELSE 10, Digits) /\ (sign = <<>> <=> ~ neg) /\ neg \in BOOLEAN
  BY Zenon
<1> SUFFICES strtol(s, 1, base) = << IF neg THEN -n ELSE n, Len(text) + 1 >>
  BY <1>3, Zenon DEF Answers
<1> HIDE DEF head, pre, t, last, neg
<1>4. TextParts(s, text, head, sign, pre, t, last)
  BY <1>1, <1>2, FourTexts, Zenon
<1> HIDE DEF text, s
<1> DEFINE p == 3 + Len(sign)
           b == p + Len(pre)
           e == b + Len(t)
<1>5. /\ Holds(s, 1, head) /\ Holds(s, 3, sign) /\ Holds(s, p, pre) /\ Holds(s, b, t) /\ Holds(s, e, last)
      /\ p = 3 + (IF neg THEN 1 ELSE 0) /\ b = p + (IF base = 0 /\ hex THEN 2 ELSE 0)
      /\ Len(s) = e /\ Len(text) + 1 = e /\ p \in Nat /\ e \in Nat
  <2>1. /\ 1 + Len(head) = 3 /\ 1 + Len(head) + Len(sign) = p
        /\ 1 + Len(head) + Len(sign) + Len(pre) = b
        /\ 1 + Len(head) + Len(sign) + Len(pre) + Len(t) = e
        /\ e \in Nat /\ Len(text) + 1 = e /\ Len(s) = e /\ p \in Nat
    BY ONLY <1>1, <1>4 DEF TextParts
  <2>2. p = 3 + (IF neg THEN 1 ELSE 0) /\ b = p + (IF base = 0 /\ hex THEN 2 ELSE 0)
    BY <1>1, Zenon
  <2> HIDE DEF p, b, e
  <2> QED
    BY <1>4, <2>1, <2>2, Zenon DEF TextParts
<1> HIDE DEF p, b, e
<1>6. At(s, 1) = " " /\ At(s, 2) = "\t"
  <2>1. 1 \in Nat /\ 1 + 1 = 2
    BY ONLY TRUE
  <2>2. Holds(s, 1, <<" ", "\t">>)
    BY <1>3, <1>5, Zenon
  <2>3. At(s, 1) = " " /\ At(s, 1 + 1) = "\t"
    BY <2>1, <2>2, HoldsTwo, ZenonT(40)
  <2> QED
    BY <2>1, <2>3, Zenon
<1>7. At(s, e) = "z"
  BY <1>3, <1>5, HoldsOne, Zenon
<1>8. neg => At(s, 3) = "-"
  <2>1. 3 \in Nat
    BY ONLY TRUE
  <2> QED
    BY <1>1, <1>5, <2>1, HoldsOne, Zenon
<1>9. base = 0 /\ hex => At(s, p) = "0" /\ At(s, p + 1) = "x"
  <2> SUFFICES ASSUME base = 0 /\ hex PROVE At(s, p) = "0" /\ At(s, p + 1) = "x"
    BY Zenon
  <2>1. Holds(s, p, <<"0", "x">>) /\ p \in Nat
    BY <1>3, <1>5, Zenon
  <2> QED
    BY ONLY <2>1, HoldsTwo, Zenon
<1>10. e = b + Len(t)
  BY DEF e
<1>11. Around(s, n, base, hex, neg, t, p, b, e)
  BY <1>3, <1>5, <1>6, <1>7, <1>8, <1>9, <1>10, Zenon DEF Around
<1>12. ReadsAs(s, base, neg, n, e)
  BY <1>3, <1>11, ReadValue, Zenon
<1> QED
  BY <1>5, <1>12, Zenon DEF ReadsAs

-----------------------------------------------------------------------------
(* How a format is read, piece by piece.                                   *)

\* The turns f of the loop, and the states it comes by: each turn goes on in the
\* format.
Loop(f, fmt, args) == Len(fmt) \in Nat /\ Runs(f, Len(fmt), fmt, args)
Reached(f, fmt, st) == \E k \in 0 .. Len(fmt) : k < st.at /\ f[k] = st

\* A turn inside the format leads to the next state.
LEMMA Onwards ==
    ASSUME NEW fmt, NEW args, NEW f, Loop(f, fmt, args), NEW st, Reached(f, fmt, st),
           st.at \in 1 .. Len(fmt), NEW next, next = Turn(fmt, args, st),
           next.at \in Nat, st.at < next.at
    PROVE  Reached(f, fmt, next)
<1>1. Len(fmt) \in Nat /\ Runs(f, Len(fmt), fmt, args)
  BY Zenon DEF Loop
<1>2. PICK k \in 0 .. Len(fmt) : k < st.at /\ f[k] = st
  BY Zenon DEF Reached
<1>3. k + 1 \in 1 .. Len(fmt) /\ k + 1 \in 0 .. Len(fmt) /\ (k + 1) - 1 = k /\ k + 1 < next.at
  BY ONLY <1>1, <1>2, st.at \in 1 .. Len(fmt), next.at \in Nat, st.at < next.at, k \in 0 .. Len(fmt)
<1>4. f[k + 1] = Turn(fmt, args, f[k])
  <2>1. f[k + 1] = Turn(fmt, args, f[(k + 1) - 1])
    BY <1>1, <1>3, RunFacts, ZenonT(40)
  <2> QED
    BY <1>3, <2>1, Zenon
<1>5. f[k + 1] = next
  BY <1>2, <1>4, Zenon
<1> QED
  BY <1>3, <1>5, Zenon DEF Reached

\* Behind the format the loop stays where it is.
LEMMA Arrived ==
    ASSUME NEW fmt, NEW args, NEW f, Loop(f, fmt, args), NEW st, Reached(f, fmt, st),
           At(fmt, st.at) = ""
    PROVE  f[Len(fmt)] = st
<1> DEFINE n == Len(fmt)
<1>1. n \in Nat /\ Runs(f, n, fmt, args)
  BY Zenon DEF Loop
<1>2. PICK k \in 0 .. n : k < st.at /\ f[k] = st
  BY Zenon DEF Reached
<1> HIDE DEF n
<1>3. \A m \in 1 .. n : m - 1 \in 0 .. n /\ f[m] = Turn(fmt, args, f[m - 1])
  BY <1>1, RunFacts, Zenon
<1> DEFINE T == {m \in k .. n : f[m] # st}
<1>4. T = {}
  <2> SUFFICES ASSUME T # {} PROVE FALSE
    OBVIOUS
  <2>1. PICK m \in T : \A j \in T : m <= j
    <3>1. T \subseteq Nat
      BY ONLY <1>1, k \in 0 .. n
    <3> HIDE DEF T
    <3> QED
      BY <3>1, LeastElement
  <2>2. m \in k .. n /\ f[m] # st /\ m # k
    BY <1>2
  <2>3. m \in 1 .. n /\ m - 1 \in k .. n /\ ~ (m <= m - 1)
    BY ONLY <1>1, <2>2, k \in 0 .. n
  <2>4. f[m - 1] = st
    BY <2>1, <2>3
  <2>5. f[m] = Turn(fmt, args, st)
    BY <1>3, <2>3, <2>4, Zenon
  <2>6. Turn(fmt, args, st) = st
    BY EndTurn, Zenon
  <2> QED
    BY <2>2, <2>5, <2>6, Zenon
<1>5. n \in k .. n
  BY ONLY <1>1, k \in 0 .. n
<1> QED
  BY <1>4, <1>5 DEF n

\* The state of a directive that is being read.
LEMMA MovedFacts ==
    ASSUME NEW st, NEW at, NEW flags, NEW used
    PROVE  /\ IsState(Moved(st, at, flags, used))
           /\ Moved(st, at, flags, used).at = at /\ Moved(st, at, flags, used).flags = flags
           /\ Moved(st, at, flags, used).used = used /\ Moved(st, at, flags, used).out = st.out
           /\ Moved(st, at, flags, used).written = st.written
           /\ Moved(st, at, flags, used).stored = st.stored
  BY DEF Moved, IsState

\* Of two moves the last one stands.
LEMMA MovedOn ==
    ASSUME NEW st, NEW at, NEW flags, NEW used, NEW a, NEW g, NEW u
    PROVE  Moved(Moved(st, at, flags, used), a, g, u) = Moved(st, a, g, u)
  BY DEF Moved

\* A piece of a format that a turn reads.
LEMMA PieceRead ==
    ASSUME NEW fmt, NEW args, NEW f, Loop(f, fmt, args), NEW st, NEW p \in Nat \ {0}, NEW flags, NEW used,
           Reached(f, fmt, Moved(st, p, flags, used)), p <= Len(fmt),
           NEW q \in Nat, p < q, NEW g, NEW u,
           Turn(fmt, args, Moved(st, p, flags, used)) = Moved(Moved(st, p, flags, used), q, g, u)
    PROVE  Reached(f, fmt, Moved(st, q, g, u))
<1> DEFINE m == Moved(st, p, flags, used)
           next == Moved(st, q, g, u)
<1>1. m.at = p /\ Moved(m, q, g, u) = next
  BY MovedFacts, MovedOn
<1>2. next.at = q
  BY MovedFacts
<1>3. next = Turn(fmt, args, m)
  BY <1>1, Zenon
<1> HIDE DEF m, next
<1>4. m.at \in 1 .. Len(fmt)
  <2>1. Len(fmt) \in Nat
    BY Zenon DEF Loop
  <2> QED
    BY ONLY <1>1, <2>1, p \in Nat \ {0}, p <= Len(fmt)
<1>5. Reached(f, fmt, m) /\ next.at \in Nat /\ m.at < next.at
  BY <1>1, <1>2 DEF m
<1>6. Reached(f, fmt, next)
  BY <1>3, <1>4, <1>5, Onwards, Zenon
<1> QED
  BY <1>6, Zenon DEF next

\* A flag that may be given.
LEMMA FlagRead ==
    ASSUME NEW fmt, NEW args, NEW f, Loop(f, fmt, args), NEW st, NEW p \in Nat \ {0}, NEW flags, NEW used,
           Reached(f, fmt, Moved(st, p, flags, used)), flags.in_format,
           NEW c \in FlagChars, NEW given \in BOOLEAN,
           Holds(fmt, p, Given(c, given)), p + Len(Given(c, given)) <= Len(fmt)
    PROVE  Reached(f, fmt, Moved(st, p + Len(Given(c, given)), IF given THEN SetFlag(flags, c) ELSE flags, used))
<1>1. CASE ~ given
  <2>1. Len(Given(c, given)) = 0
    BY <1>1 DEF Given
  <2>2. p + Len(Given(c, given)) = p
    BY ONLY <2>1, p \in Nat \ {0}
  <2> QED
    BY <1>1, <2>2, Zenon
<1>2. CASE given
  <2>1. Given(c, given) = <<c>> /\ Len(<<c>>) = 1
    BY <1>2 DEF Given
  <2>2. At(fmt, p) = c
    BY <2>1, HoldsOne, Zenon
  <2> DEFINE m == Moved(st, p, flags, used)
  <2>3. IsState(m) /\ m.at = p /\ m.flags = flags /\ m.used = used
    BY MovedFacts
  <2>4. Turn(fmt, args, m) = Moved(m, p + 1, SetFlag(flags, c), used)
    <3> HIDE DEF m
    <3>1. m.flags.in_format /\ At(fmt, m.at) = c
      BY <2>2, <2>3, Zenon
    <3>2. Turn(fmt, args, m) = Moved(m, m.at + 1, SetFlag(m.flags, c), m.used)
      BY <2>3, <3>1, FlagTurn, Zenon
    <3> QED
      BY <2>3, <3>2, Zenon
  <2>5. p <= Len(fmt) /\ p + 1 \in Nat /\ p < p + 1
    <3>1. Len(fmt) \in Nat /\ p + 1 <= Len(fmt)
      BY <2>1, Zenon DEF Loop
    <3> QED
      BY ONLY <3>1, p \in Nat \ {0}
  <2>6. Reached(f, fmt, Moved(st, p + 1, SetFlag(flags, c), used))
    BY <2>4, <2>5, PieceRead, Zenon
  <2> QED
    BY <1>2, <2>1, <2>6, Zenon
<1> QED
  BY <1>1, <1>2, Zenon

\* A number in a format: its first character is a digit, and no flag.
LEMMA DecimalFacts ==
    ASSUME NEW n \in Nat, NEW t, t = Decimal(n)
    PROVE  /\ t \in Seq(DigitChars) /\ Len(t) \in Nat \ {0} /\ t[1] \in DigitChars /\ t[1] # "*"
           /\ n > 0 => DigitOf(t[1]) \in 1 .. 9 /\ t[1] \notin FlagChars /\ t[1] \notin {"", "*"}
<1>1. Numeral(t, n, 10, Digits)
  <2>1. 10 \in {10, 16} /\ Digits \in {Digits, UpperDigits}
    OBVIOUS
  <2> QED
    BY <2>1, InBaseDigits, Zenon DEF Decimal
<1>2. t \in Seq(DigitChars) /\ Len(t) \in Nat \ {0}
  BY ONLY <1>1 DEF Numeral
<1>3. t[1] \in DigitChars
  <2>1. 1 \in 1 .. Len(t)
    BY ONLY <1>2
  <2> QED
    BY ONLY <1>2, <2>1, ElementOfSeq
<1>4. t[1] \notin {"", "*"}
  BY ONLY <1>3 DEF DigitChars
<1>5. ASSUME n > 0 PROVE DigitOf(t[1]) \in 1 .. 9 /\ t[1] \notin FlagChars
  <2>1. PICK e \in 1 .. 9 : t[1] = Digits[e + 1]
    <3>1. \E e \in 1 .. 10 - 1 : t[1] = Digits[e + 1]
      BY <1>1, <1>5, Zenon DEF Numeral
    <3>2. 1 .. 10 - 1 = 1 .. 9
      OBVIOUS
    <3> QED
      BY <3>1, <3>2, Zenon
  <2>2. DigitOf(t[1]) = e
    <3>1. e \in 0 .. 15
      OBVIOUS
    <3> QED
      BY <2>1, <3>1, DigitValue, Zenon
  <2>3. t[1] # "0"
    <3>1. DigitOf("0") = 0
      <4>1. Digits[0 + 1] = "0" /\ 0 \in 0 .. 15
        BY DEF Digits
      <4>2. DigitOf(Digits[0 + 1]) = 0
        BY ONLY <4>1, DigitValue
      <4> QED
        BY <4>1, <4>2, Zenon
    <3>2. e # 0
      OBVIOUS
    <3> QED
      BY <2>2, <3>1, <3>2, Zenon
  <2>4. t[1] \notin FlagChars
    BY ONLY <1>3, <2>3 DEF DigitChars, FlagChars
  <2> QED
    BY <2>2, <2>4
<1> QED
  BY <1>2, <1>3, <1>4, <1>5, Zenon

\* A number that stands in a format from p on, and what follows it.
NumberAt(fmt, p, n) ==
    /\ Holds(fmt, p, Decimal(n)) /\ p + Len(Decimal(n)) <= Len(fmt)
    /\ DigitOf(At(fmt, p + Len(Decimal(n)))) >= 10

\* strtol reads the number that stands in a format, up to the character behind it.
LEMMA NumberFacts ==
    ASSUME NEW fmt, NEW args, NEW f, Loop(f, fmt, args), NEW p \in Nat \ {0},
           NEW n \in 0 .. (LongMod \div 2) - 1, NumberAt(fmt, p, n)
    PROVE  /\ strtol(fmt, p, 10) = << n, p + Len(Decimal(n)) >> /\ Len(Decimal(n)) \in Nat \ {0}
           /\ At(fmt, p) = Decimal(n)[1]
<1> DEFINE t == Decimal(n)
<1>1. PICK h \in Nat \ {0} : LongMod = 2 * h
  BY Mods
<1>2. n \in 0 .. h - 1 /\ n \in Nat
  BY <1>1
<1>3. Len(t) \in Nat \ {0}
  BY <1>2, DecimalFacts
<1>4. t = InBase(n, 10, Digits)
  BY Zenon DEF Decimal
<1>5. Holds(fmt, p, t) /\ p + Len(t) <= Len(fmt) /\ DigitOf(At(fmt, p + Len(t))) >= 10
  BY Zenon DEF NumberAt
<1> HIDE DEF t
<1>6. Len(fmt) \in Nat
  BY Zenon DEF Loop
<1>7. p + Len(t) <= Len(fmt) + 1
  BY ONLY <1>3, <1>5, <1>6, p \in Nat \ {0}
<1>8. strtol(fmt, p, 10) = << n, p + Len(t) >>
  BY ONLY <1>1, <1>2, <1>4, <1>5, <1>6, <1>7, p \in Nat \ {0}, NumberRead
<1>9. At(fmt, p) = t[1]
  <2>1. p \in Nat
    OBVIOUS
  <2> QED
    BY ONLY <1>3, <1>5, <2>1, HoldsFirst
<1> QED
  BY <1>3, <1>8, <1>9 DEF t

\* A width in the format.
LEMMA WidthRead ==
    ASSUME NEW fmt, NEW args, NEW f, Loop(f, fmt, args), NEW st, NEW p \in Nat \ {0}, NEW flags, NEW used,
           Reached(f, fmt, Moved(st, p, flags, used)), flags.in_format,
           NEW n \in 1 .. (LongMod \div 2) - 1, NumberAt(fmt, p, n)
    PROVE  Reached(f, fmt, Moved(st, p + Len(Decimal(n)), [flags EXCEPT !.width = n], used))
<1> DEFINE t == Decimal(n)
           q == p + Len(t)
           m == Moved(st, p, flags, used)
           c == At(fmt, p)
<1>1. n \in 0 .. (LongMod \div 2) - 1 /\ n \in Nat /\ n > 0
  <2>1. LongMod \in Nat
    BY Mods
  <2> QED
    BY <2>1
<1>2. strtol(fmt, p, 10) = << n, q >> /\ Len(t) \in Nat \ {0} /\ c = t[1]
  BY <1>1, NumberFacts, Zenon
<1>3. DigitOf(c) \in 1 .. 9 /\ c \notin FlagChars /\ c \notin {"", "*"}
  BY <1>1, <1>2, DecimalFacts, Zenon
<1>4. q \in Nat /\ p < q /\ p <= Len(fmt)
  <2>1. Len(fmt) \in Nat /\ q <= Len(fmt)
    BY Zenon DEF Loop, NumberAt
  <2> HIDE DEF t
  <2> QED
    BY ONLY <1>2, <2>1, p \in Nat \ {0}
<1>5. IsState(m) /\ m.at = p /\ m.flags = flags /\ m.used = used
  BY MovedFacts
<1> HIDE DEF t, q
<1>6. Turn(fmt, args, m) = Moved(m, q, [flags EXCEPT !.width = n], used)
  <2> DEFINE r == strtol(fmt, m.at, 10)
  <2> HIDE DEF m, c
  <2>1. r[1] = n /\ r[2] = q
    <3>1. r = << n, q >>
      BY <1>2, <1>5, Zenon
    <3> QED
      BY ONLY <3>1
  <2>2. m.flags.in_format /\ c = At(fmt, m.at)
    BY <1>5, Zenon DEF c
  <2> HIDE DEF r
  <2>3. Turn(fmt, args, m) = Moved(m, r[2], [m.flags EXCEPT !.width = r[1]], m.used)
    BY <1>3, <1>5, <2>2, WidthTurn, Zenon DEF r
  <2> QED
    BY <1>5, <2>1, <2>3, Zenon
<1>7. Reached(f, fmt, Moved(st, q, [flags EXCEPT !.width = n], used))
  BY <1>4, <1>6, PieceRead, Zenon
<1> QED
  BY <1>7, Zenon DEF q, t

\* A width among the arguments.
LEMMA StarRead ==
    ASSUME NEW fmt, NEW args, NEW f, Loop(f, fmt, args), NEW st, NEW p \in Nat \ {0}, NEW flags, NEW used,
           Reached(f, fmt, Moved(st, p, flags, used)), flags.in_format, p <= Len(fmt), At(fmt, p) = "*",
           NEW n \in 0 .. (IntMod \div 2) - 1, args[used + 1].word = n
    PROVE  Reached(f, fmt, Moved(st, p + 1, [flags EXCEPT !.width = n], used + 1))
<1> DEFINE m == Moved(st, p, flags, used)
<1>1. PICK h \in Nat \ {0} : IntMod = 2 * h
  BY Mods
<1>2. Signed(n, IntMod) = n
  <2>1. n \in Int /\ -h <= n /\ n < h
    BY ONLY <1>1, n \in 0 .. (IntMod \div 2) - 1
  <2> QED
    BY ONLY <1>1, <2>1, SignedIs
<1>3. IsState(m) /\ m.at = p /\ m.flags = flags /\ m.used = used
  BY MovedFacts
<1> HIDE DEF m
<1>4. IntArg(m, args) = n
  BY <1>2, <1>3, Zenon DEF IntArg, Word
<1>5. Turn(fmt, args, m) = Moved(m, p + 1, [flags EXCEPT !.width = n], used + 1)
  <2>1. m.flags.in_format /\ At(fmt, m.at) = "*"
    BY <1>3, Zenon
  <2>2. Turn(fmt, args, m) = Moved(m, m.at + 1, [m.flags EXCEPT !.width = IntArg(m, args)], m.used + 1)
    BY <1>3, <2>1, StarTurn, Zenon
  <2> QED
    BY <1>3, <1>4, <2>2, Zenon
<1>6. p + 1 \in Nat /\ p < p + 1
  BY ONLY p \in Nat \ {0}
<1> QED
  BY <1>5, <1>6, PieceRead, Zenon DEF m

\* A precision in the format.
LEMMA PrecRead ==
    ASSUME NEW fmt, NEW args, NEW f, Loop(f, fmt, args), NEW st, NEW p \in Nat \ {0}, NEW flags, NEW used,
           Reached(f, fmt, Moved(st, p, flags, used)), flags.in_format, At(fmt, p) = ".",
           NEW n \in 0 .. (LongMod \div 2) - 1, NumberAt(fmt, p + 1, n)
    PROVE  Reached(f, fmt, Moved(st, p + 1 + Len(Decimal(n)), [flags EXCEPT !.prec = n], used))
<1> DEFINE t == Decimal(n)
           p1 == p + 1
           q == p1 + Len(t)
           m == Moved(st, p, flags, used)
<1>1. p1 \in Nat \ {0} /\ p < p1 /\ n \in Nat
  <2>1. LongMod \in Nat
    BY Mods
  <2> QED
    BY ONLY <2>1, p \in Nat \ {0}, n \in 0 .. (LongMod \div 2) - 1
<1>a. NumberAt(fmt, p1, n)
  OBVIOUS
<1> HIDE DEF p1
<1>2. strtol(fmt, p1, 10) = << n, q >> /\ Len(t) \in Nat \ {0} /\ At(fmt, p1) = t[1]
  BY <1>1, <1>a, NumberFacts, Zenon
<1>3. At(fmt, p1) # "*"
  BY <1>1, <1>2, DecimalFacts, Zenon
<1>4. q \in Nat /\ p < q /\ p <= Len(fmt)
  <2>1. Len(fmt) \in Nat /\ q <= Len(fmt)
    BY <1>a, Zenon DEF Loop, NumberAt
  <2> HIDE DEF t
  <2> QED
    BY ONLY <1>1, <1>2, <2>1, p \in Nat \ {0}
<1>5. IsState(m) /\ m.at = p /\ m.flags = flags /\ m.used = used
  BY MovedFacts
<1> HIDE DEF t, q, m
<1>6. Turn(fmt, args, m) = Moved(m, q, [flags EXCEPT !.prec = n], used)
  <2> DEFINE r == strtol(fmt, m.at + 1, 10)
  <2>1. r[1] = n /\ r[2] = q
    <3>1. r = << n, q >>
      BY <1>2, <1>5, Zenon DEF p1
    <3> QED
      BY ONLY <3>1
  <2>2. m.flags.in_format /\ At(fmt, m.at) = "." /\ At(fmt, m.at + 1) # "*"
    BY <1>3, <1>5, Zenon DEF p1
  <2>3. DigitOf(".") \notin 1 .. 9
    <3>1. DigitOf(".") = 99
      BY NotDigits
    <3> QED
      BY ONLY <3>1
  <2> HIDE DEF r
  <2>4. Turn(fmt, args, m) = Moved(m, r[2], [m.flags EXCEPT !.prec = r[1]], m.used)
    BY <1>5, <2>2, <2>3, PrecTurn, Zenon DEF r
  <2> QED
    BY <1>5, <2>1, <2>4, Zenon
<1>7. Reached(f, fmt, Moved(st, q, [flags EXCEPT !.prec = n], used))
  BY <1>4, <1>6, PieceRead, Zenon DEF m
<1> QED
  BY <1>7, Zenon DEF q, t, p1

\* The conversions, and what their turn leads to.
Conversions == {"d", "i", "u", "x", "X", "p", "s", "c", "n", "%"}

Converted(c, st, args) ==
    CASE c \in {"x", "X", "p"} -> HexText(c, NumOf(c, st, args), st.flags)
      [] c \in {"d", "i", "u"} -> print_dec_int(NumOf(c, st, args), c # "u", st.flags)
      [] c = "s" -> puts_wo_nl(args[st.used + 1])
      [] c = "c" -> <<args[st.used + 1].text[1]>>
      [] c = "n" -> <<>>
      [] OTHER -> <<c>>
After(st, at, flags, text, used, stored) ==
    [at |-> at, flags |-> [flags EXCEPT !.in_format = FALSE], out |-> st.out \o text,
     written |-> st.written + Len(text), used |-> used, stored |-> stored]

\* A conversion is no flag, no digit, no star and no point.
LEMMA ConversionPlain ==
    ASSUME NEW c \in Conversions
    PROVE  c \notin FlagChars /\ c \notin {"", "*", "."} /\ DigitOf(c) \notin 1 .. 9 /\ DigitOf(c) >= 10
<1>1. c \notin FlagChars /\ c \notin {"", "*", "."}
  BY DEF Conversions, FlagChars
<1>2. DigitOf(c) = 99 \/ DigitOf(c) \in 10 .. 15
  BY EndsDigits DEF Conversions
<1>3. DigitOf(c) \notin 1 .. 9 /\ DigitOf(c) >= 10
  BY ONLY <1>2
<1> QED
  BY <1>1, <1>3

\* A conversion prints, stores, takes its argument and ends the directive.
LEMMA ConversionRead ==
    ASSUME NEW fmt, NEW args, NEW f, Loop(f, fmt, args), NEW S, NEW st, st.out \in Seq(S), st.written \in Nat,
           NEW p \in Nat \ {0}, NEW flags, NEW used,
           Reached(f, fmt, Moved(st, p, flags, used)), flags.in_format, p <= Len(fmt),
           NEW c \in Conversions, At(fmt, p) = c, NEW m, m = Moved(st, p, flags, used)
    PROVE  Reached(f, fmt, After(st, p + 1, flags, Converted(c, m, args),
                                 IF c = "%" THEN used ELSE used + 1,
                                 IF c = "n" THEN Append(st.stored, st.written) ELSE st.stored))
<1> DEFINE next == After(st, p + 1, flags, Converted(c, m, args), IF c = "%" THEN used ELSE used + 1,
                         IF c = "n" THEN Append(st.stored, st.written) ELSE st.stored)
<1>1. /\ IsState(m) /\ m.at = p /\ m.flags = flags /\ m.used = used
      /\ m.out = st.out /\ m.written = st.written /\ m.stored = st.stored
  BY MovedFacts
<1>2. c \notin FlagChars /\ c \notin {"", "*", "."} /\ DigitOf(c) \notin 1 .. 9
  BY ConversionPlain, Zenon
<1>3. Turn(fmt, args, m) = Convert(c, [m EXCEPT !.at = @ + 1], args)
  <2>1. m.flags.in_format /\ c = At(fmt, m.at)
    BY <1>1, Zenon
  <2> QED
    BY ONLY <1>1, <1>2, <2>1, ConvertTurn, Zenon
<1>4. \A text, u : Printed(m, text, u) = After(st, p + 1, flags, text, u, st.stored)
  BY <1>1, Zenon DEF Printed, After
<1>5. Turn(fmt, args, m) = next
  <2> DEFINE mext == [m EXCEPT !.at = @ + 1]
  <2>0. Turn(fmt, args, m) = Convert(c, mext, args)
    BY <1>3
  <2> HIDE DEF mext
  <2>1. CASE c \in {"x", "X", "p"}
    <3>1. Convert(c, mext, args) = Printed(m, HexText(c, NumOf(c, m, args), m.flags), m.used + 1)
      BY ONLY <1>1, <2>1, ConvertIs, Zenon DEF mext
    <3>2. Converted(c, m, args) = HexText(c, NumOf(c, m, args), m.flags) /\ c # "%" /\ c # "n"
      BY <2>1 DEF Converted
    <3> QED
      BY <1>1, <1>4, <2>0, <3>1, <3>2
  <2>2. CASE c \in {"d", "i", "u"}
    <3>1. Convert(c, mext, args) = Printed(m, print_dec_int(NumOf(c, m, args), c # "u", m.flags), m.used + 1)
      BY ONLY <1>1, <2>2, ConvertIs, Zenon DEF mext
    <3>2. Converted(c, m, args) = print_dec_int(NumOf(c, m, args), c # "u", m.flags) /\ c # "%" /\ c # "n"
      BY <2>2 DEF Converted
    <3> QED
      BY <1>1, <1>4, <2>0, <3>1, <3>2
  <2>3. CASE c = "s"
    <3>1. Convert(c, mext, args) = Printed(m, puts_wo_nl(args[m.used + 1]), m.used + 1)
      BY ONLY <1>1, <2>3, ConvertIs, Zenon DEF mext
    <3>2. Converted(c, m, args) = puts_wo_nl(args[m.used + 1]) /\ c # "%" /\ c # "n"
      BY <2>3 DEF Converted
    <3> QED
      BY <1>1, <1>4, <2>0, <3>1, <3>2
  <2>4. CASE c = "c"
    <3>1. Convert(c, mext, args) = Printed(m, <<args[m.used + 1].text[1]>>, m.used + 1)
      BY ONLY <1>1, <2>4, ConvertIs, Zenon DEF mext
    <3>2. Converted(c, m, args) = <<args[m.used + 1].text[1]>> /\ c # "%" /\ c # "n"
      BY <2>4 DEF Converted
    <3> QED
      BY <1>1, <1>4, <2>0, <3>1, <3>2
  <2>5. CASE c = "n"
    <3>1. Convert(c, mext, args) =
              [at |-> m.at + 1, flags |-> [m.flags EXCEPT !.in_format = FALSE], out |-> m.out,
               written |-> m.written, used |-> m.used + 1, stored |-> Append(m.stored, m.written)]
      BY ONLY <1>1, <2>5, ConvertIs, Zenon DEF mext
    <3>2. Converted(c, m, args) = <<>> /\ c # "%"
      BY <2>5 DEF Converted
    <3>3. st.out \o <<>> = st.out /\ st.written + Len(<<>>) = st.written
      OBVIOUS
    <3> QED
      BY <1>1, <2>0, <2>5, <3>1, <3>2, <3>3, Zenon DEF After
  <2>6. CASE c = "%"
    <3>1. Convert(c, mext, args) = Printed(m, <<c>>, m.used)
      <4>1. c \notin {"x", "X", "p", "d", "i", "u", "n", "s", "c"}
        BY <2>6
      <4>2. Convert(c, mext, args) = Emit(mext, <<c>>)
        BY ONLY <4>1 DEF Convert
      <4>3. /\ IsState(mext) /\ mext.at = m.at + 1
            /\ mext.used = m.used /\ mext.flags = m.flags /\ mext.out = m.out
            /\ mext.written = m.written /\ mext.stored = m.stored
        BY ONLY <1>1, NextIs DEF mext
      <4>4. Emit(mext, <<c>>) = Printed(m, <<c>>, m.used)
        BY ONLY <4>3, EmitIs, Zenon DEF Printed
      <4> QED
        BY ONLY <4>2, <4>4, Zenon
    <3>2. Converted(c, m, args) = <<c>> /\ c # "n"
      BY <2>6 DEF Converted
    <3> QED
      BY <1>1, <1>4, <2>0, <2>6, <3>1, <3>2
  <2> QED
    BY <2>1, <2>2, <2>3, <2>4, <2>5, <2>6 DEF Conversions
<1>6. next.at = p + 1
  BY DEF After
<1> HIDE DEF next
<1>7. m.at \in 1 .. Len(fmt) /\ next.at \in Nat /\ m.at < next.at
  <2>1. Len(fmt) \in Nat
    BY Zenon DEF Loop
  <2> QED
    BY ONLY <1>1, <1>6, <2>1, p \in Nat \ {0}, p <= Len(fmt)
<1>8. Reached(f, fmt, m) /\ next = Turn(fmt, args, m)
  BY <1>5, Zenon
<1>9. Reached(f, fmt, next)
  BY <1>7, <1>8, Onwards, Zenon
<1> QED
  BY <1>9, Zenon DEF next

\* What a directive of the explored formats is, and its width and precision as
\* they are written.
IsDirective(d) ==
    /\ d.star \in BOOLEAN /\ d.long \in BOOLEAN
    /\ d.width \in {-1} \cup 1 .. (LongMod \div 2) - 1 /\ d.prec \in -1 .. (LongMod \div 2) - 1
    /\ d.star => d.width \in 1 .. (IntMod \div 2) - 1
    /\ d.conv \in Conversions
WidthText(d) == IF d.star THEN <<"*">> ELSE IF d.width = -1 THEN <<>> ELSE Decimal(d.width)
PrecText(d)  == IF d.prec = -1 THEN <<>> ELSE <<".">> \o Decimal(d.prec)
FormatChars  == DigitChars \cup FlagChars \cup Conversions \cup {"*", ".", "k"}

\* Where the parts of a directive stand, and where it ends.
Pieces(fmt, d, p, p1, p2, p3, p4, p5, p6, p7, p8) ==
    /\ p1 = p + 1 /\ p2 = p1 + Len(Given("#", "#" \in d.flags)) /\ p3 = p2 + Len(Given("0", "0" \in d.flags))
    /\ p4 = p3 + Len(Given("+", "+" \in d.flags)) /\ p5 = p4 + Len(Given(" ", " " \in d.flags))
    /\ p6 = p5 + Len(WidthText(d)) /\ p7 = p6 + Len(PrecText(d)) /\ p8 = p7 + Len(Given("l", d.long))
    /\ p + Len(Spell(d)) = p8 + 1
    /\ p1 \in Nat \ {0} /\ p2 \in Nat \ {0} /\ p3 \in Nat \ {0} /\ p4 \in Nat \ {0} /\ p5 \in Nat \ {0}
    /\ p6 \in Nat \ {0} /\ p7 \in Nat \ {0} /\ p8 \in Nat \ {0}
    /\ p1 <= p2 /\ p2 <= p3 /\ p3 <= p4 /\ p4 <= p5 /\ p5 <= p6 /\ p6 <= p7 /\ p7 <= p8
    /\ At(fmt, p) = "%"
    /\ Holds(fmt, p1, Given("#", "#" \in d.flags)) /\ Holds(fmt, p2, Given("0", "0" \in d.flags))
    /\ Holds(fmt, p3, Given("+", "+" \in d.flags)) /\ Holds(fmt, p4, Given(" ", " " \in d.flags))
    /\ Holds(fmt, p5, WidthText(d)) /\ Holds(fmt, p6, PrecText(d)) /\ Holds(fmt, p7, Given("l", d.long))
    /\ At(fmt, p8) = d.conv

\* The texts that a directive is written with.
LEMMA PieceTypes ==
    ASSUME NEW d, IsDirective(d)
    PROVE  /\ \A c \in FlagChars : \A given : Given(c, given) \in Seq(FormatChars)
           /\ WidthText(d) \in Seq(FormatChars) /\ PrecText(d) \in Seq(FormatChars)
           /\ <<"%">> \in Seq(FormatChars) /\ <<d.conv>> \in Seq(FormatChars)
           /\ {"#", "0", "+", " ", "l"} \subseteq FlagChars
<1>1. /\ DigitChars \subseteq FormatChars /\ FlagChars \subseteq FormatChars
      /\ d.conv \in FormatChars /\ "%" \in FormatChars /\ "*" \in FormatChars /\ "." \in FormatChars
  <2>1. d.conv \in Conversions
    BY Zenon DEF IsDirective
  <2> QED
    BY <2>1 DEF FormatChars, Conversions
<1>2. {"#", "0", "+", " ", "l"} \subseteq FlagChars
  BY DEF FlagChars
<1>3. ASSUME NEW c \in FlagChars, NEW given PROVE Given(c, given) \in Seq(FormatChars)
  <2>1. c \in FormatChars
    BY ONLY <1>1, c \in FlagChars
  <2> QED
    BY ONLY <2>1, ShortTexts DEF Given
<1>4. <<"%">> \in Seq(FormatChars) /\ <<d.conv>> \in Seq(FormatChars) /\ <<"*">> \in Seq(FormatChars)
      /\ <<".">> \in Seq(FormatChars) /\ <<>> \in Seq(FormatChars)
  BY ONLY <1>1, ShortTexts
<1>5. ASSUME NEW n \in Nat PROVE Decimal(n) \in Seq(FormatChars)
  <2>1. Decimal(n) \in Seq(DigitChars)
    BY DecimalFacts
  <2> QED
    BY ONLY <1>1, <2>1
<1>6. (~ d.star /\ d.width # -1 => d.width \in Nat) /\ (d.prec # -1 => d.prec \in Nat)
  <2>1. d.width \in {-1} \cup 1 .. (LongMod \div 2) - 1 /\ d.prec \in -1 .. (LongMod \div 2) - 1
    BY Zenon DEF IsDirective
  <2>2. LongMod \in Nat
    BY Mods
  <2> QED
    BY ONLY <2>1, <2>2
<1>7. WidthText(d) \in Seq(FormatChars)
  BY <1>4, <1>5, <1>6, Zenon DEF WidthText
<1>8. PrecText(d) \in Seq(FormatChars)
  <2>1. CASE d.prec = -1
    BY <1>4, <2>1, Zenon DEF PrecText
  <2>2. CASE d.prec # -1
    <3>1. Decimal(d.prec) \in Seq(FormatChars)
      BY <1>5, <1>6, <2>2, Zenon
    <3>2. <<".">> \o Decimal(d.prec) \in Seq(FormatChars)
      BY ONLY <1>4, <3>1, Joined
    <3> QED
      BY <2>2, <3>2, Zenon DEF PrecText
  <2> QED
    BY <2>1, <2>2, Zenon
<1> QED
  BY <1>2, <1>3, <1>4, <1>7, <1>8, Zenon

\* A text at the end of another.
LEMMA HoldsEnd ==
    ASSUME NEW S, NEW a \in Seq(S), NEW b \in Seq(S), NEW s, NEW p \in Nat, Holds(s, p, a \o b)
    PROVE  /\ Holds(s, p, a) /\ Holds(s, p + Len(a), b) /\ a \o b \in Seq(S)
           /\ Len(a) \in Nat /\ Len(b) \in Nat /\ Len(a \o b) = Len(a) + Len(b)
  BY HoldsParts, Joined

\* A directive that stands in a format.
LEMMA DirectivePieces ==
    ASSUME NEW d, IsDirective(d), NEW fmt, NEW p \in Nat \ {0}, Holds(fmt, p, Spell(d))
    PROVE  \E p1, p2, p3, p4, p5, p6, p7, p8 : Pieces(fmt, d, p, p1, p2, p3, p4, p5, p6, p7, p8)
<1> DEFINE a1 == <<"%">>
           a2 == Given("#", "#" \in d.flags)
           a3 == Given("0", "0" \in d.flags)
           a4 == Given("+", "+" \in d.flags)
           a5 == Given(" ", " " \in d.flags)
           a6 == WidthText(d)
           a7 == PrecText(d)
           a8 == Given("l", d.long)
           a9 == <<d.conv>>
           b2 == a1 \o a2
           b3 == b2 \o a3
           b4 == b3 \o a4
           b5 == b4 \o a5
           b6 == b5 \o a6
           b7 == b6 \o a7
           b8 == b7 \o a8
           b9 == b8 \o a9
<1>1. /\ a1 \in Seq(FormatChars) /\ a2 \in Seq(FormatChars) /\ a3 \in Seq(FormatChars)
      /\ a4 \in Seq(FormatChars) /\ a5 \in Seq(FormatChars) /\ a6 \in Seq(FormatChars)
      /\ a7 \in Seq(FormatChars) /\ a8 \in Seq(FormatChars) /\ a9 \in Seq(FormatChars)
  BY PieceTypes
<1>2. Spell(d) = b9
  <2>1. d.conv # "k"
    <3>1. d.conv \in Conversions
      BY Zenon DEF IsDirective
    <3> QED
      BY ONLY <3>1 DEF Conversions
  <2> QED
    BY <2>1, Zenon DEF Spell, WidthText, PrecText
<1>3. Len(a1) = 1 /\ Len(a9) = 1
  OBVIOUS
<1>4. p \in Nat /\ Holds(fmt, p, b9)
  BY <1>2
<1>a. a1 = <<"%">> /\ a9 = <<d.conv>>
  OBVIOUS
<1> HIDE DEF a1, a2, a3, a4, a5, a6, a7, a8, a9
<1>5. b2 \in Seq(FormatChars)
  BY ONLY <1>1, Joined
<1> HIDE DEF b2
<1>6. b3 \in Seq(FormatChars)
  BY ONLY <1>1, <1>5, Joined DEF b3
<1> HIDE DEF b3
<1>7. b4 \in Seq(FormatChars)
  BY ONLY <1>1, <1>6, Joined DEF b4
<1> HIDE DEF b4
<1>8. b5 \in Seq(FormatChars)
  BY ONLY <1>1, <1>7, Joined DEF b5
<1> HIDE DEF b5
<1>9. b6 \in Seq(FormatChars)
  BY ONLY <1>1, <1>8, Joined DEF b6
<1> HIDE DEF b6
<1>10. b7 \in Seq(FormatChars)
  BY ONLY <1>1, <1>9, Joined DEF b7
<1> HIDE DEF b7
<1>11. b8 \in Seq(FormatChars)
  BY ONLY <1>1, <1>10, Joined DEF b8
<1> HIDE DEF b8
<1>12. Holds(fmt, p, b8) /\ Holds(fmt, p + Len(b8), a9) /\ Len(b9) = Len(b8) + 1
  BY ONLY <1>1, <1>3, <1>4, <1>11, HoldsEnd, ZenonT(40) DEF b9
<1> HIDE DEF b9
<1>13. Holds(fmt, p, b7) /\ Holds(fmt, p + Len(b7), a8) /\ Len(a8) \in Nat /\ Len(b8) = Len(b7) + Len(a8)
  BY ONLY <1>1, <1>4, <1>10, <1>12, HoldsEnd DEF b8
<1>14. Holds(fmt, p, b6) /\ Holds(fmt, p + Len(b6), a7) /\ Len(a7) \in Nat /\ Len(b7) = Len(b6) + Len(a7)
  BY ONLY <1>1, <1>4, <1>9, <1>13, HoldsEnd DEF b7
<1>15. Holds(fmt, p, b5) /\ Holds(fmt, p + Len(b5), a6) /\ Len(a6) \in Nat /\ Len(b6) = Len(b5) + Len(a6)
  BY ONLY <1>1, <1>4, <1>8, <1>14, HoldsEnd DEF b6
<1>16. Holds(fmt, p, b4) /\ Holds(fmt, p + Len(b4), a5) /\ Len(a5) \in Nat /\ Len(b5) = Len(b4) + Len(a5)
  BY ONLY <1>1, <1>4, <1>7, <1>15, HoldsEnd DEF b5
<1>17. Holds(fmt, p, b3) /\ Holds(fmt, p + Len(b3), a4) /\ Len(a4) \in Nat /\ Len(b4) = Len(b3) + Len(a4)
  BY ONLY <1>1, <1>4, <1>6, <1>16, HoldsEnd DEF b4
<1>18. Holds(fmt, p, b2) /\ Holds(fmt, p + Len(b2), a3) /\ Len(a3) \in Nat /\ Len(b3) = Len(b2) + Len(a3)
  BY ONLY <1>1, <1>4, <1>5, <1>17, HoldsEnd DEF b3
<1>19. Holds(fmt, p, a1) /\ Holds(fmt, p + Len(a1), a2) /\ Len(a2) \in Nat /\ Len(b2) = Len(a1) + Len(a2)
  BY ONLY <1>1, <1>4, <1>18, HoldsEnd DEF b2
<1> DEFINE p1 == p + Len(a1)
           p2 == p + Len(b2)
           p3 == p + Len(b3)
           p4 == p + Len(b4)
           p5 == p + Len(b5)
           p6 == p + Len(b6)
           p7 == p + Len(b7)
           p8 == p + Len(b8)
<1>20. /\ p1 = p + 1 /\ p2 = p1 + Len(a2) /\ p3 = p2 + Len(a3) /\ p4 = p3 + Len(a4) /\ p5 = p4 + Len(a5)
       /\ p6 = p5 + Len(a6) /\ p7 = p6 + Len(a7) /\ p8 = p7 + Len(a8) /\ p + Len(b9) = p8 + 1
       /\ p1 \in Nat \ {0} /\ p2 \in Nat \ {0} /\ p3 \in Nat \ {0} /\ p4 \in Nat \ {0} /\ p5 \in Nat \ {0}
       /\ p6 \in Nat \ {0} /\ p7 \in Nat \ {0} /\ p8 \in Nat \ {0}
       /\ p1 <= p2 /\ p2 <= p3 /\ p3 <= p4 /\ p4 <= p5 /\ p5 <= p6 /\ p6 <= p7 /\ p7 <= p8
  <2>0. p1 = p + 1 /\ p1 \in Nat \ {0}
    BY ONLY <1>3, p \in Nat \ {0}
  <2>1. p2 = p1 + Len(a2) /\ p2 \in Nat \ {0} /\ p1 <= p2
    BY ONLY <1>19, <2>0, p \in Nat \ {0}
  <2>2. p3 = p2 + Len(a3) /\ p3 \in Nat \ {0} /\ p2 <= p3
    BY ONLY <1>18, <2>1, p \in Nat \ {0}
  <2>3. p4 = p3 + Len(a4) /\ p4 \in Nat \ {0} /\ p3 <= p4
    BY ONLY <1>17, <2>2, p \in Nat \ {0}
  <2>4. p5 = p4 + Len(a5) /\ p5 \in Nat \ {0} /\ p4 <= p5
    BY ONLY <1>16, <2>3, p \in Nat \ {0}
  <2>5. p6 = p5 + Len(a6) /\ p6 \in Nat \ {0} /\ p5 <= p6
    BY ONLY <1>15, <2>4, p \in Nat \ {0}
  <2>6. p7 = p6 + Len(a7) /\ p7 \in Nat \ {0} /\ p6 <= p7
    BY ONLY <1>14, <2>5, p \in Nat \ {0}
  <2>7. p8 = p7 + Len(a8) /\ p8 \in Nat \ {0} /\ p7 <= p8
    BY ONLY <1>13, <2>6, p \in Nat \ {0}
  <2>8. p + Len(b9) = p8 + 1
    <3>1. Len(b8) \in Nat
      BY ONLY <1>11, LenProperties
    <3> QED
      BY ONLY <1>12, <3>1, p \in Nat \ {0}
  <2> HIDE DEF p1, p2, p3, p4, p5, p6, p7, p8
  <2> QED
    BY <2>0, <2>1, <2>2, <2>3, <2>4, <2>5, <2>6, <2>7, <2>8, Zenon
<1>21. At(fmt, p) = "%" /\ At(fmt, p8) = d.conv
  <2>1. p8 \in Nat /\ p \in Nat
    BY ONLY <1>20, p \in Nat \ {0}
  <2> QED
    BY ONLY <1>12, <1>19, <1>a, <2>1, HoldsOne, Zenon
<1>22. Pieces(fmt, d, p, p1, p2, p3, p4, p5, p6, p7, p8)
  <2>1. /\ Holds(fmt, p1, a2) /\ Holds(fmt, p2, a3) /\ Holds(fmt, p3, a4) /\ Holds(fmt, p4, a5)
        /\ Holds(fmt, p5, a6) /\ Holds(fmt, p6, a7) /\ Holds(fmt, p7, a8)
    BY ONLY <1>13, <1>14, <1>15, <1>16, <1>17, <1>18, <1>19, Zenon
  <2> HIDE DEF p1, p2, p3, p4, p5, p6, p7, p8
  <2> QED
    BY <1>2, <1>20, <1>21, <2>1, Zenon DEF Pieces, a2, a3, a4, a5, a6, a7, a8
<1> QED
  BY <1>22, Zenon

\* The flags of a directive that is being read, and those it ends with.
FlagsOf(long, sharp, zero, space, sign, width, prec) ==
    [in_format |-> TRUE, longflag |-> long, sharpflag |-> sharp, zeroflag |-> zero,
     spaceflag |-> space, sign |-> sign, width |-> width, prec |-> prec]
FlagsFor(d) ==
    FlagsOf(d.long, "#" \in d.flags, "0" \in d.flags, " " \in d.flags, "+" \in d.flags,
            IF d.width = -1 THEN 0 ELSE d.width, d.prec)

SetTo(g, flag, n, h) == h = [g EXCEPT ![flag] = n]
IsFlags(g) ==
    g = [in_format |-> g.in_format, longflag |-> g.longflag, sharpflag |-> g.sharpflag,
         zeroflag |-> g.zeroflag, spaceflag |-> g.spaceflag, sign |-> g.sign, width |-> g.width, prec |-> g.prec]

\* Setting a number in the flags leaves them flags.
LEMMA FlagsKept ==
    ASSUME NEW g, IsFlags(g), NEW n
    PROVE  /\ IsFlags([g EXCEPT !.sharpflag = n])
           /\ IsFlags([g EXCEPT !.zeroflag = n])
           /\ IsFlags([g EXCEPT !.spaceflag = n])
           /\ IsFlags([g EXCEPT !.sign = n])
           /\ IsFlags([g EXCEPT !.longflag = n])
           /\ IsFlags([g EXCEPT !.width = n])
           /\ IsFlags([g EXCEPT !.prec = n])
<1>1. IsFlags([g EXCEPT !.sharpflag = n])
  <2> DEFINE t == [g EXCEPT !.sharpflag = n]
  <2>1. DOMAIN t = {"in_format", "longflag", "sharpflag", "zeroflag", "spaceflag", "sign", "width", "prec"}
        /\ t = [k \in DOMAIN t |-> t[k]]
    BY DEF IsFlags
  <2> HIDE DEF t
  <2>2. IsFlags(t)
    BY ONLY <2>1 DEF IsFlags
  <2> QED
    BY ONLY <2>2 DEF t
<1>2. IsFlags([g EXCEPT !.zeroflag = n])
  <2> DEFINE t == [g EXCEPT !.zeroflag = n]
  <2>1. DOMAIN t = {"in_format", "longflag", "sharpflag", "zeroflag", "spaceflag", "sign", "width", "prec"}
        /\ t = [k \in DOMAIN t |-> t[k]]
    BY DEF IsFlags
  <2> HIDE DEF t
  <2>2. IsFlags(t)
    BY ONLY <2>1 DEF IsFlags
  <2> QED
    BY ONLY <2>2 DEF t
<1>3. IsFlags([g EXCEPT !.spaceflag = n])
  <2> DEFINE t == [g EXCEPT !.spaceflag = n]
  <2>1. DOMAIN t = {"in_format", "longflag", "sharpflag", "zeroflag", "spaceflag", "sign", "width", "prec"}
        /\ t = [k \in DOMAIN t |-> t[k]]
    BY DEF IsFlags
  <2> HIDE DEF t
  <2>2. IsFlags(t)
    BY ONLY <2>1 DEF IsFlags
  <2> QED
    BY ONLY <2>2 DEF t
<1>4. IsFlags([g EXCEPT !.sign = n])
  <2> DEFINE t == [g EXCEPT !.sign = n]
  <2>1. DOMAIN t = {"in_format", "longflag", "sharpflag", "zeroflag", "spaceflag", "sign", "width", "prec"}
        /\ t = [k \in DOMAIN t |-> t[k]]
    BY DEF IsFlags
  <2> HIDE DEF t
  <2>2. IsFlags(t)
    BY ONLY <2>1 DEF IsFlags
  <2> QED
    BY ONLY <2>2 DEF t
<1>5. IsFlags([g EXCEPT !.longflag = n])
  <2> DEFINE t == [g EXCEPT !.longflag = n]
  <2>1. DOMAIN t = {"in_format", "longflag", "sharpflag", "zeroflag", "spaceflag", "sign", "width", "prec"}
        /\ t = [k \in DOMAIN t |-> t[k]]
    BY DEF IsFlags
  <2> HIDE DEF t
  <2>2. IsFlags(t)
    BY ONLY <2>1 DEF IsFlags
  <2> QED
    BY ONLY <2>2 DEF t
<1>6. IsFlags([g EXCEPT !.width = n])
  <2> DEFINE t == [g EXCEPT !.width = n]
  <2>1. DOMAIN t = {"in_format", "longflag", "sharpflag", "zeroflag", "spaceflag", "sign", "width", "prec"}
        /\ t = [k \in DOMAIN t |-> t[k]]
    BY DEF IsFlags
  <2> HIDE DEF t
  <2>2. IsFlags(t)
    BY ONLY <2>1 DEF IsFlags
  <2> QED
    BY ONLY <2>2 DEF t
<1>7. IsFlags([g EXCEPT !.prec = n])
  <2> DEFINE t == [g EXCEPT !.prec = n]
  <2>1. DOMAIN t = {"in_format", "longflag", "sharpflag", "zeroflag", "spaceflag", "sign", "width", "prec"}
        /\ t = [k \in DOMAIN t |-> t[k]]
    BY DEF IsFlags
  <2> HIDE DEF t
  <2>2. IsFlags(t)
    BY ONLY <2>1 DEF IsFlags
  <2> QED
    BY ONLY <2>2 DEF t
<1> QED
  BY ONLY <1>1, <1>2, <1>3, <1>4, <1>5, <1>6, <1>7

\* What the flags are when one number is set.
LEMMA FlagsNumbers ==
    ASSUME NEW long, NEW sharp, NEW zero, NEW space, NEW sign, NEW width, NEW prec, NEW n
    PROVE  /\ SetTo(FlagsOf(long, sharp, zero, space, sign, width, prec), "sharpflag", n,
                   FlagsOf(long, n, zero, space, sign, width, prec))
           /\ SetTo(FlagsOf(long, sharp, zero, space, sign, width, prec), "zeroflag", n,
                   FlagsOf(long, sharp, n, space, sign, width, prec))
           /\ SetTo(FlagsOf(long, sharp, zero, space, sign, width, prec), "spaceflag", n,
                   FlagsOf(long, sharp, zero, n, sign, width, prec))
           /\ SetTo(FlagsOf(long, sharp, zero, space, sign, width, prec), "sign", n,
                   FlagsOf(long, sharp, zero, space, n, width, prec))
           /\ SetTo(FlagsOf(long, sharp, zero, space, sign, width, prec), "longflag", n,
                   FlagsOf(n, sharp, zero, space, sign, width, prec))
           /\ SetTo(FlagsOf(long, sharp, zero, space, sign, width, prec), "width", n,
                   FlagsOf(long, sharp, zero, space, sign, n, prec))
           /\ SetTo(FlagsOf(long, sharp, zero, space, sign, width, prec), "prec", n,
                   FlagsOf(long, sharp, zero, space, sign, width, n))
<1> DEFINE g == FlagsOf(long, sharp, zero, space, sign, width, prec)
<1>a. IsFlags(g)
  BY DEF IsFlags, FlagsOf
<1>b. g.in_format = TRUE /\ g.longflag = long /\ g.sharpflag = sharp /\ g.zeroflag = zero
      /\ g.spaceflag = space /\ g.sign = sign /\ g.width = width /\ g.prec = prec
  BY DEF FlagsOf
<1> HIDE DEF g
<1>1. SetTo(g, "sharpflag", n, FlagsOf(long, n, zero, space, sign, width, prec))
  <2> DEFINE t == [g EXCEPT !.sharpflag = n]
  <2>1. t.sharpflag = n /\ t.in_format = g.in_format /\ t.longflag = g.longflag /\ t.zeroflag = g.zeroflag /\ t.spaceflag = g.spaceflag /\ t.sign = g.sign /\ t.width = g.width /\ t.prec = g.prec
    BY ONLY <1>a DEF IsFlags
  <2>2. IsFlags(t)
    BY ONLY <1>a, FlagsKept, Zenon
  <2> HIDE DEF t
  <2>3. t = FlagsOf(long, n, zero, space, sign, width, prec)
    BY ONLY <1>b, <2>1, <2>2, Zenon DEF IsFlags, FlagsOf
  <2> QED
    BY ONLY <2>3 DEF t, SetTo
<1>2. SetTo(g, "zeroflag", n, FlagsOf(long, sharp, n, space, sign, width, prec))
  <2> DEFINE t == [g EXCEPT !.zeroflag = n]
  <2>1. t.zeroflag = n /\ t.in_format = g.in_format /\ t.longflag = g.longflag /\ t.sharpflag = g.sharpflag /\ t.spaceflag = g.spaceflag /\ t.sign = g.sign /\ t.width = g.width /\ t.prec = g.prec
    BY ONLY <1>a DEF IsFlags
  <2>2. IsFlags(t)
    BY ONLY <1>a, FlagsKept, Zenon
  <2> HIDE DEF t
  <2>3. t = FlagsOf(long, sharp, n, space, sign, width, prec)
    BY ONLY <1>b, <2>1, <2>2, Zenon DEF IsFlags, FlagsOf
  <2> QED
    BY ONLY <2>3 DEF t, SetTo
<1>3. SetTo(g, "spaceflag", n, FlagsOf(long, sharp, zero, n, sign, width, prec))
  <2> DEFINE t == [g EXCEPT !.spaceflag = n]
  <2>1. t.spaceflag = n /\ t.in_format = g.in_format /\ t.longflag = g.longflag /\ t.sharpflag = g.sharpflag /\ t.zeroflag = g.zeroflag /\ t.sign = g.sign /\ t.width = g.width /\ t.prec = g.prec
    BY ONLY <1>a DEF IsFlags
  <2>2. IsFlags(t)
    BY ONLY <1>a, FlagsKept, Zenon
  <2> HIDE DEF t
  <2>3. t = FlagsOf(long, sharp, zero, n, sign, width, prec)
    BY ONLY <1>b, <2>1, <2>2, Zenon DEF IsFlags, FlagsOf
  <2> QED
    BY ONLY <2>3 DEF t, SetTo
<1>4. SetTo(g, "sign", n, FlagsOf(long, sharp, zero, space, n, width, prec))
  <2> DEFINE t == [g EXCEPT !.sign = n]
  <2>1. t.sign = n /\ t.in_format = g.in_format /\ t.longflag = g.longflag /\ t.sharpflag = g.sharpflag /\ t.zeroflag = g.zeroflag /\ t.spaceflag = g.spaceflag /\ t.width = g.width /\ t.prec = g.prec
    BY ONLY <1>a DEF IsFlags
  <2>2. IsFlags(t)
    BY ONLY <1>a, FlagsKept, Zenon
  <2> HIDE DEF t
  <2>3. t = FlagsOf(long, sharp, zero, space, n, width, prec)
    BY ONLY <1>b, <2>1, <2>2, Zenon DEF IsFlags, FlagsOf
  <2> QED
    BY ONLY <2>3 DEF t, SetTo
<1>5. SetTo(g, "longflag", n, FlagsOf(n, sharp, zero, space, sign, width, prec))
  <2> DEFINE t == [g EXCEPT !.longflag = n]
  <2>1. t.longflag = n /\ t.in_format = g.in_format /\ t.sharpflag = g.sharpflag /\ t.zeroflag = g.zeroflag /\ t.spaceflag = g.spaceflag /\ t.sign = g.sign /\ t.width = g.width /\ t.prec = g.prec
    BY ONLY <1>a DEF IsFlags
  <2>2. IsFlags(t)
    BY ONLY <1>a, FlagsKept, Zenon
  <2> HIDE DEF t
  <2>3. t = FlagsOf(n, sharp, zero, space, sign, width, prec)
    BY ONLY <1>b, <2>1, <2>2, Zenon DEF IsFlags, FlagsOf
  <2> QED
    BY ONLY <2>3 DEF t, SetTo
<1>6. SetTo(g, "width", n, FlagsOf(long, sharp, zero, space, sign, n, prec))
  <2> DEFINE t == [g EXCEPT !.width = n]
  <2>1. t.width = n /\ t.in_format = g.in_format /\ t.longflag = g.longflag /\ t.sharpflag = g.sharpflag /\ t.zeroflag = g.zeroflag /\ t.spaceflag = g.spaceflag /\ t.sign = g.sign /\ t.prec = g.prec
    BY ONLY <1>a DEF IsFlags
  <2>2. IsFlags(t)
    BY ONLY <1>a, FlagsKept, Zenon
  <2> HIDE DEF t
  <2>3. t = FlagsOf(long, sharp, zero, space, sign, n, prec)
    BY ONLY <1>b, <2>1, <2>2, Zenon DEF IsFlags, FlagsOf
  <2> QED
    BY ONLY <2>3 DEF t, SetTo
<1>7. SetTo(g, "prec", n, FlagsOf(long, sharp, zero, space, sign, width, n))
  <2> DEFINE t == [g EXCEPT !.prec = n]
  <2>1. t.prec = n /\ t.in_format = g.in_format /\ t.longflag = g.longflag /\ t.sharpflag = g.sharpflag /\ t.zeroflag = g.zeroflag /\ t.spaceflag = g.spaceflag /\ t.sign = g.sign /\ t.width = g.width
    BY ONLY <1>a DEF IsFlags
  <2>2. IsFlags(t)
    BY ONLY <1>a, FlagsKept, Zenon
  <2> HIDE DEF t
  <2>3. t = FlagsOf(long, sharp, zero, space, sign, width, n)
    BY ONLY <1>b, <2>1, <2>2, Zenon DEF IsFlags, FlagsOf
  <2> QED
    BY ONLY <2>3 DEF t, SetTo
<1> QED
  BY ONLY <1>1, <1>2, <1>3, <1>4, <1>5, <1>6, <1>7, Zenon DEF g

\* A flag character that is given, or not.
LEMMA FlagsOpen ==
    ASSUME NEW long, NEW sharp, NEW zero, NEW space, NEW sign, NEW width, NEW prec
    PROVE  FlagsOf(long, sharp, zero, space, sign, width, prec).in_format
  BY DEF FlagsOf

\* One of the Booleans, and the lower one.
Either(x) == x \in BOOLEAN
Off(x)    == x = FALSE
Switched(g, c, given, h) == (IF given THEN SetFlag(g, c) ELSE g) = h

\* What the flags are when a character of the format has, or has not, switched one on.
LEMMA FlagsSet ==
    ASSUME NEW long, NEW sharp, NEW zero, NEW space, NEW sign, NEW width, NEW prec,
           NEW given, Either(given), NEW no, Off(no)
    PROVE  /\ Switched(FlagsOf(long, no, zero, space, sign, width, prec), "#", given,
                       FlagsOf(long, given, zero, space, sign, width, prec))
           /\ Switched(FlagsOf(long, sharp, no, space, sign, width, prec), "0", given,
                       FlagsOf(long, sharp, given, space, sign, width, prec))
           /\ Switched(FlagsOf(long, sharp, zero, no, sign, width, prec), " ", given,
                       FlagsOf(long, sharp, zero, given, sign, width, prec))
           /\ Switched(FlagsOf(long, sharp, zero, space, no, width, prec), "+", given,
                       FlagsOf(long, sharp, zero, space, given, width, prec))
           /\ Switched(FlagsOf(no, sharp, zero, space, sign, width, prec), "l", given,
                       FlagsOf(given, sharp, zero, space, sign, width, prec))
<1>2. PICK yes : yes = TRUE
  OBVIOUS
<1>3. (IF given THEN SetFlag(FlagsOf(long, no, zero, space, sign, width, prec), "#")
       ELSE FlagsOf(long, no, zero, space, sign, width, prec))
      = FlagsOf(long, given, zero, space, sign, width, prec)
  <2> DEFINE g == FlagsOf(long, no, zero, space, sign, width, prec)
             h == FlagsOf(long, yes, zero, space, sign, width, prec)
  <2>1. SetTo(g, "sharpflag", yes, h)
    BY ONLY FlagsNumbers, Zenon
  <2>2. FlagsOf(long, given, zero, space, sign, width, prec) = IF given THEN h ELSE g
    BY ONLY <1>2, Either(given), Off(no) DEF Either, Off
  <2> HIDE DEF g, h
  <2>3. SetFlag(g, "#") = h
    BY ONLY <1>2, <2>1 DEF SetFlag, SetTo
  <2>4. (IF given THEN SetFlag(g, "#") ELSE g) = IF given THEN h ELSE g
    BY ONLY <2>3, Zenon
  <2> QED
    BY ONLY <2>2, <2>4, Zenon DEF g
<1>4. (IF given THEN SetFlag(FlagsOf(long, sharp, no, space, sign, width, prec), "0")
       ELSE FlagsOf(long, sharp, no, space, sign, width, prec))
      = FlagsOf(long, sharp, given, space, sign, width, prec)
  <2> DEFINE g == FlagsOf(long, sharp, no, space, sign, width, prec)
             h == FlagsOf(long, sharp, yes, space, sign, width, prec)
  <2>1. SetTo(g, "zeroflag", yes, h)
    BY ONLY FlagsNumbers, Zenon
  <2>2. FlagsOf(long, sharp, given, space, sign, width, prec) = IF given THEN h ELSE g
    BY ONLY <1>2, Either(given), Off(no) DEF Either, Off
  <2> HIDE DEF g, h
  <2>3. SetFlag(g, "0") = h
    BY ONLY <1>2, <2>1 DEF SetFlag, SetTo
  <2>4. (IF given THEN SetFlag(g, "0") ELSE g) = IF given THEN h ELSE g
    BY ONLY <2>3, Zenon
  <2> QED
    BY ONLY <2>2, <2>4, Zenon DEF g
<1>5. (IF given THEN SetFlag(FlagsOf(long, sharp, zero, no, sign, width, prec), " ")
       ELSE FlagsOf(long, sharp, zero, no, sign, width, prec))
      = FlagsOf(long, sharp, zero, given, sign, width, prec)
  <2> DEFINE g == FlagsOf(long, sharp, zero, no, sign, width, prec)
             h == FlagsOf(long, sharp, zero, yes, sign, width, prec)
  <2>1. SetTo(g, "spaceflag", yes, h)
    BY ONLY FlagsNumbers, Zenon
  <2>2. FlagsOf(long, sharp, zero, given, sign, width, prec) = IF given THEN h ELSE g
    BY ONLY <1>2, Either(given), Off(no) DEF Either, Off
  <2> HIDE DEF g, h
  <2>3. SetFlag(g, " ") = h
    BY ONLY <1>2, <2>1 DEF SetFlag, SetTo
  <2>4. (IF given THEN SetFlag(g, " ") ELSE g) = IF given THEN h ELSE g
    BY ONLY <2>3, Zenon
  <2> QED
    BY ONLY <2>2, <2>4, Zenon DEF g
<1>6. (IF given THEN SetFlag(FlagsOf(long, sharp, zero, space, no, width, prec), "+")
       ELSE FlagsOf(long, sharp, zero, space, no, width, prec))
      = FlagsOf(long, sharp, zero, space, given, width, prec)
  <2> DEFINE g == FlagsOf(long, sharp, zero, space, no, width, prec)
             h == FlagsOf(long, sharp, zero, space, yes, width, prec)
  <2>1. SetTo(g, "sign", yes, h)
    BY ONLY FlagsNumbers, Zenon
  <2>2. FlagsOf(long, sharp, zero, space, given, width, prec) = IF given THEN h ELSE g
    BY ONLY <1>2, Either(given), Off(no) DEF Either, Off
  <2> HIDE DEF g, h
  <2>3. SetFlag(g, "+") = h
    BY ONLY <1>2, <2>1 DEF SetFlag, SetTo
  <2>4. (IF given THEN SetFlag(g, "+") ELSE g) = IF given THEN h ELSE g
    BY ONLY <2>3, Zenon
  <2> QED
    BY ONLY <2>2, <2>4, Zenon DEF g
<1>7. (IF given THEN SetFlag(FlagsOf(no, sharp, zero, space, sign, width, prec), "l")
       ELSE FlagsOf(no, sharp, zero, space, sign, width, prec))
      = FlagsOf(given, sharp, zero, space, sign, width, prec)
  <2> DEFINE g == FlagsOf(no, sharp, zero, space, sign, width, prec)
             h == FlagsOf(yes, sharp, zero, space, sign, width, prec)
  <2>1. SetTo(g, "longflag", yes, h)
    BY ONLY FlagsNumbers, Zenon
  <2>2. FlagsOf(given, sharp, zero, space, sign, width, prec) = IF given THEN h ELSE g
    BY ONLY <1>2, Either(given), Off(no) DEF Either, Off
  <2> HIDE DEF g, h
  <2>3. SetFlag(g, "l") = h
    BY ONLY <1>2, <2>1 DEF SetFlag, SetTo
  <2>4. (IF given THEN SetFlag(g, "l") ELSE g) = IF given THEN h ELSE g
    BY ONLY <2>3, Zenon
  <2> QED
    BY ONLY <2>2, <2>4, Zenon DEF g
<1> QED
  BY ONLY <1>3, <1>4, <1>5, <1>6, <1>7, Zenon DEF Switched

\* What follows the width and the precision is no digit.
LEMMA NumbersEnd ==
    ASSUME NEW d, IsDirective(d), NEW fmt, NEW p, NEW p1, NEW p2, NEW p3, NEW p4, NEW p5, NEW p6, NEW p7, NEW p8,
           Pieces(fmt, d, p, p1, p2, p3, p4, p5, p6, p7, p8)
    PROVE  /\ DigitOf(At(fmt, p6)) >= 10 /\ DigitOf(At(fmt, p7)) >= 10
           /\ d.prec # -1 => At(fmt, p6) = "." /\ Holds(fmt, p6 + 1, Decimal(d.prec))
                             /\ p7 = p6 + 1 + Len(Decimal(d.prec))
<1>1. /\ Holds(fmt, p6, PrecText(d)) /\ Holds(fmt, p7, Given("l", d.long)) /\ At(fmt, p8) = d.conv
      /\ p7 = p6 + Len(PrecText(d)) /\ p8 = p7 + Len(Given("l", d.long))
      /\ p6 \in Nat \ {0} /\ p7 \in Nat \ {0} /\ p8 \in Nat \ {0}
  BY Zenon DEF Pieces
<1>2. d.conv \in Conversions /\ d.long \in BOOLEAN /\ d.prec \in -1 .. (LongMod \div 2) - 1
  BY Zenon DEF IsDirective
<1>a. DigitOf("l") >= 10 /\ DigitOf(".") >= 10
  <2>1. DigitOf("l") = 99 /\ DigitOf(".") = 99
    BY EndsDigits
  <2> QED
    BY ONLY <2>1
<1>3. DigitOf(At(fmt, p7)) >= 10
  <2>1. CASE d.long
    <3>1. Holds(fmt, p7, <<"l">>) /\ p7 \in Nat
      BY <1>1, <2>1 DEF Given
    <3>2. At(fmt, p7) = "l"
      BY ONLY <3>1, HoldsOne, Zenon
    <3> QED
      BY <1>a, <3>2, Zenon
  <2>2. CASE ~ d.long
    <3>1. Len(Given("l", d.long)) = 0
      BY <2>2 DEF Given
    <3>2. p8 = p7
      BY ONLY <1>1, <3>1
    <3>3. DigitOf(d.conv) >= 10
      BY <1>2, ConversionPlain, Zenon
    <3> QED
      BY <1>1, <3>2, <3>3, Zenon
  <2> QED
    BY <2>1, <2>2
<1>4. CASE d.prec = -1
  <2>1. Len(PrecText(d)) = 0
    BY <1>4 DEF PrecText
  <2>2. p7 = p6
    BY ONLY <1>1, <2>1
  <2> QED
    BY <1>3, <1>4, <2>2, Zenon
<1>5. CASE d.prec # -1
  <2>1. d.prec \in Nat
    <3>1. LongMod \in Nat
      BY Mods
    <3> QED
      BY ONLY <1>2, <1>5, <3>1
  <2> DEFINE t == Decimal(d.prec)
  <2>2. t \in Seq(DigitChars)
    BY <2>1, DecimalFacts
  <2> HIDE DEF t
  <2>3. PrecText(d) = <<".">> \o t
    BY <1>5, Zenon DEF PrecText, t
  <2>4. t \in Seq(FormatChars) /\ <<".">> \in Seq(FormatChars) /\ Len(<<".">>) = 1
    <3>1. "." \in FormatChars /\ DigitChars \subseteq FormatChars
      BY DEF FormatChars
    <3> QED
      BY ONLY <2>2, <3>1, ShortTexts
  <2>5. p6 \in Nat /\ Holds(fmt, p6, <<".">> \o t)
    BY <1>1, <2>3
  <2>6. Holds(fmt, p6, <<".">>) /\ Holds(fmt, p6 + Len(<<".">>), t) /\ Len(t) \in Nat
        /\ Len(<<".">> \o t) = Len(<<".">>) + Len(t)
    BY ONLY <2>4, <2>5, HoldsEnd
  <2>7. At(fmt, p6) = "."
    BY ONLY <2>5, <2>6, HoldsOne, Zenon
  <2>8. Holds(fmt, p6 + 1, t)
    BY ONLY <2>4, <2>6, Zenon
  <2>9. p7 = p6 + 1 + Len(t)
    <3>1. p7 = p6 + Len(<<".">> \o t)
      BY ONLY <1>1, <2>3, Zenon
    <3>2. Len(<<".">> \o t) = 1 + Len(t)
      BY ONLY <2>4, <2>6, Zenon
    <3> QED
      BY ONLY <2>5, <2>6, <3>1, <3>2
  <2> QED
    BY <1>3, <1>a, <2>7, <2>8, <2>9, Zenon DEF t
<1> QED
  BY <1>4, <1>5, Zenon

\* One flag that may be given, with the flags before and behind it.
LEMMA FlagStep ==
    ASSUME NEW fmt, NEW args, NEW f, Loop(f, fmt, args), NEW st, NEW p \in Nat \ {0}, NEW used,
           NEW g, NEW h, Reached(f, fmt, Moved(st, p, g, used)), g.in_format,
           NEW c \in FlagChars, NEW given, Either(given),
           Switched(g, c, given, h),
           Holds(fmt, p, Given(c, given)), NEW q, q = p + Len(Given(c, given)), q <= Len(fmt)
    PROVE  Reached(f, fmt, Moved(st, q, h, used))
<1>0. given \in BOOLEAN
  BY DEF Either
<1>1. p + Len(Given(c, given)) <= Len(fmt)
  BY Zenon
<1>2. Reached(f, fmt, Moved(st, p + Len(Given(c, given)), IF given THEN SetFlag(g, c) ELSE g, used))
  BY ONLY <1>1, Loop(f, fmt, args), Reached(f, fmt, Moved(st, p, g, used)), g.in_format, p \in Nat \ {0},
          c \in FlagChars, <1>0, Holds(fmt, p, Given(c, given)), FlagRead, Zenon
<1> QED
  BY ONLY <1>2, Switched(g, c, given, h), q = p + Len(Given(c, given)), Zenon DEF Switched

\* The flags of a directive.
FlagsAt(fmt, p1, p2, p3, p4, p5, sharp, zero, sign, space) ==
    /\ Holds(fmt, p1, Given("#", sharp)) /\ p2 = p1 + Len(Given("#", sharp)) /\ p2 <= Len(fmt)
    /\ Holds(fmt, p2, Given("0", zero)) /\ p3 = p2 + Len(Given("0", zero)) /\ p3 <= Len(fmt)
    /\ Holds(fmt, p3, Given("+", sign)) /\ p4 = p3 + Len(Given("+", sign)) /\ p4 <= Len(fmt)
    /\ Holds(fmt, p4, Given(" ", space)) /\ p5 = p4 + Len(Given(" ", space)) /\ p5 <= Len(fmt)

\* The turns over # 0 + and space: each flag is on that the directive has.
LEMMA FlagsRead ==
    ASSUME NEW fmt, NEW args, NEW f, Loop(f, fmt, args), NEW st, NEW used, NEW no, Off(no),
           NEW p1 \in Nat \ {0}, NEW p2 \in Nat \ {0}, NEW p3 \in Nat \ {0}, NEW p4 \in Nat \ {0},
           NEW p5 \in Nat \ {0},
           NEW sharp, NEW zero, NEW sign, NEW space,
           Either(sharp), Either(zero), Either(sign), Either(space),
           Reached(f, fmt, Moved(st, p1, FlagsOf(no, no, no, no, no, 0, -1), used)),
           FlagsAt(fmt, p1, p2, p3, p4, p5, sharp, zero, sign, space)
    PROVE  Reached(f, fmt, Moved(st, p5, FlagsOf(no, sharp, zero, space, sign, 0, -1), used))
<1> DEFINE g1 == FlagsOf(no, no, no, no, no, 0, -1)
           g2 == FlagsOf(no, sharp, no, no, no, 0, -1)
           g3 == FlagsOf(no, sharp, zero, no, no, 0, -1)
           g4 == FlagsOf(no, sharp, zero, no, sign, 0, -1)
           g5 == FlagsOf(no, sharp, zero, space, sign, 0, -1)
<1>a. Off(no) /\ Either(sharp) /\ Either(zero) /\ Either(sign) /\ Either(space)
  OBVIOUS
<1>b. /\ Holds(fmt, p1, Given("#", sharp)) /\ p2 = p1 + Len(Given("#", sharp)) /\ p2 <= Len(fmt)
      /\ Holds(fmt, p2, Given("0", zero)) /\ p3 = p2 + Len(Given("0", zero)) /\ p3 <= Len(fmt)
      /\ Holds(fmt, p3, Given("+", sign)) /\ p4 = p3 + Len(Given("+", sign)) /\ p4 <= Len(fmt)
      /\ Holds(fmt, p4, Given(" ", space)) /\ p5 = p4 + Len(Given(" ", space)) /\ p5 <= Len(fmt)
  BY Zenon DEF FlagsAt
<1>1. g1.in_format /\ Switched(g1, "#", sharp, g2)
  <2>1. g1.in_format
    BY FlagsOpen, Zenon
  <2>2. Switched(g1, "#", sharp, g2)
    BY ONLY <1>a, FlagsSet, Zenon
  <2> QED
    BY <2>1, <2>2
<1>2. g2.in_format /\ Switched(g2, "0", zero, g3)
  <2>1. g2.in_format
    BY FlagsOpen, Zenon
  <2>2. Switched(g2, "0", zero, g3)
    BY ONLY <1>a, FlagsSet, Zenon
  <2> QED
    BY <2>1, <2>2
<1>3. g3.in_format /\ Switched(g3, "+", sign, g4)
  <2>1. g3.in_format
    BY FlagsOpen, Zenon
  <2>2. Switched(g3, "+", sign, g4)
    BY ONLY <1>a, FlagsSet, Zenon
  <2> QED
    BY <2>1, <2>2
<1>4. g4.in_format /\ Switched(g4, " ", space, g5)
  <2>1. g4.in_format
    BY FlagsOpen, Zenon
  <2>2. Switched(g4, " ", space, g5)
    BY ONLY <1>a, FlagsSet, Zenon
  <2> QED
    BY <2>1, <2>2
<1>5. "#" \in FlagChars /\ "0" \in FlagChars /\ "+" \in FlagChars /\ " " \in FlagChars
  BY DEF FlagChars
<1>6. Reached(f, fmt, Moved(st, p1, g1, used))
  OBVIOUS
<1> HIDE DEF g1, g2, g3, g4, g5
<1>7. Reached(f, fmt, Moved(st, p2, g2, used))
  BY <1>1, <1>5, <1>6, <1>b, FlagStep, Zenon
<1>8. Reached(f, fmt, Moved(st, p3, g3, used))
  BY <1>2, <1>5, <1>7, <1>b, FlagStep, Zenon
<1>9. Reached(f, fmt, Moved(st, p4, g4, used))
  BY <1>3, <1>5, <1>8, <1>b, FlagStep, Zenon
<1>10. Reached(f, fmt, Moved(st, p5, g5, used))
  BY <1>4, <1>5, <1>9, <1>b, FlagStep, Zenon
<1> QED
  BY <1>10, Zenon DEF g5

\* The width of a directive: spelled, an argument, or none.
LEMMA WidthStep ==
    ASSUME NEW fmt, NEW args, NEW f, Loop(f, fmt, args), NEW st, NEW used \in Nat,
           NEW d, IsDirective(d), NEW p \in Nat \ {0}, NEW q \in Nat \ {0}, NEW g, g.in_format,
           Reached(f, fmt, Moved(st, p, g, used)), Holds(fmt, p, WidthText(d)),
           q = p + Len(WidthText(d)), q <= Len(fmt), DigitOf(At(fmt, q)) >= 10,
           d.star => args[used + 1].word = d.width, g.width = 0, IsFlags(g)
    PROVE  Reached(f, fmt, Moved(st, q, [g EXCEPT !.width = IF d.width = -1 THEN 0 ELSE d.width],
                                 IF d.star THEN used + 1 ELSE used))
<1> DEFINE w == IF d.width = -1 THEN 0 ELSE d.width
<1>1. /\ d.star \in BOOLEAN /\ d.width \in {-1} \cup 1 .. (LongMod \div 2) - 1
      /\ d.star => d.width \in 1 .. (IntMod \div 2) - 1
  BY Zenon DEF IsDirective
<1>2. PICK h \in Nat \ {0}, k \in Nat \ {0} : LongMod = 2 * h /\ IntMod = 2 * k
  BY Mods
<1>3. LongMod \div 2 = h /\ IntMod \div 2 = k
  BY ONLY <1>2
<1>4. CASE d.star
  <2>1. d.width \in 0 .. (IntMod \div 2) - 1 /\ d.width # -1
    BY ONLY <1>1, <1>3, <1>4, h \in Nat \ {0}, k \in Nat \ {0}
  <2>2. WidthText(d) = <<"*">> /\ Len(<<"*">>) = 1
    BY <1>4 DEF WidthText
  <2>3. At(fmt, p) = "*"
    <3>1. Holds(fmt, p, <<"*">>) /\ p \in Nat
      BY <2>2
    <3> QED
      BY ONLY <3>1, HoldsOne, Zenon
  <2>4. q = p + 1 /\ p <= Len(fmt)
    <3>1. Len(fmt) \in Nat
      BY Zenon DEF Loop
    <3>2. q = p + 1
      BY <2>2, Zenon
    <3> QED
      BY ONLY <3>1, <3>2, q <= Len(fmt), p \in Nat \ {0}
  <2>5. args[used + 1].word = d.width
    BY <1>4
  <2>6. Reached(f, fmt, Moved(st, p + 1, [g EXCEPT !.width = d.width], used + 1))
    BY ONLY <2>1, <2>3, <2>4, <2>5, Loop(f, fmt, args), p \in Nat \ {0}, g.in_format,
            Reached(f, fmt, Moved(st, p, g, used)), StarRead, Zenon
  <2> QED
    BY <1>4, <2>1, <2>4, <2>6, Zenon
<1>5. CASE ~ d.star /\ d.width = -1
  <2>1. q = p
    <3>1. Len(WidthText(d)) = 0
      BY <1>5 DEF WidthText
    <3> QED
      BY ONLY <3>1, q = p + Len(WidthText(d)), p \in Nat \ {0}
  <2>2. [g EXCEPT !.width = 0] = g
    <3> DEFINE t == [g EXCEPT !.width = 0]
    <3>1. /\ t.in_format = g.in_format /\ t.longflag = g.longflag /\ t.sharpflag = g.sharpflag
          /\ t.zeroflag = g.zeroflag /\ t.spaceflag = g.spaceflag /\ t.sign = g.sign
          /\ t.width = g.width /\ t.prec = g.prec
      BY ONLY IsFlags(g), g.width = 0 DEF IsFlags
    <3>2. IsFlags(t)
      BY ONLY IsFlags(g), FlagsKept
    <3> HIDE DEF t
    <3>3. t = g
      BY ONLY <3>1, <3>2, IsFlags(g), Zenon DEF IsFlags
    <3> QED
      BY <3>3 DEF t
  <2> QED
    BY <1>5, <2>1, <2>2
<1>6. CASE ~ d.star /\ d.width # -1
  <2>1. d.width \in 1 .. (LongMod \div 2) - 1
    BY ONLY <1>1, <1>6
  <2>2. WidthText(d) = Decimal(d.width)
    BY <1>6, Zenon DEF WidthText
  <2>3. NumberAt(fmt, p, d.width)
    BY <2>2, Zenon DEF NumberAt
  <2>4. Reached(f, fmt, Moved(st, p + Len(Decimal(d.width)), [g EXCEPT !.width = d.width], used))
    BY ONLY <2>1, <2>3, Loop(f, fmt, args), p \in Nat \ {0}, g.in_format,
            Reached(f, fmt, Moved(st, p, g, used)), WidthRead, Zenon
  <2> QED
    BY <1>6, <2>2, <2>4, Zenon
<1> QED
  BY <1>1, <1>4, <1>5, <1>6, Zenon

\* A precision that may be given.
LEMMA PrecStep ==
    ASSUME NEW fmt, NEW args, NEW f, Loop(f, fmt, args), NEW st, NEW used,
           NEW d, IsDirective(d), NEW p \in Nat \ {0}, NEW q \in Nat \ {0}, NEW g, g.in_format,
           Reached(f, fmt, Moved(st, p, g, used)),
           NEW h, d.prec = -1 => h = g, d.prec # -1 => SetTo(g, "prec", d.prec, h),
           d.prec # -1 => At(fmt, p) = "." /\ Holds(fmt, p + 1, Decimal(d.prec))
                          /\ q = p + 1 + Len(Decimal(d.prec)),
           d.prec = -1 => q = p,
           q <= Len(fmt), DigitOf(At(fmt, q)) >= 10
    PROVE  Reached(f, fmt, Moved(st, q, h, used))
<1>1. CASE d.prec = -1
  BY <1>1, Zenon
<1>2. CASE d.prec # -1
  <2>1. d.prec \in 0 .. (LongMod \div 2) - 1
    <3>1. d.prec \in -1 .. (LongMod \div 2) - 1
      BY Zenon DEF IsDirective
    <3>2. LongMod \in Nat
      BY Mods
    <3> QED
      BY ONLY <1>2, <3>1, <3>2
  <2>2. At(fmt, p) = "." /\ Holds(fmt, p + 1, Decimal(d.prec)) /\ q = p + 1 + Len(Decimal(d.prec))
    BY <1>2, Zenon
  <2>3. NumberAt(fmt, p + 1, d.prec)
    BY <2>2, Zenon DEF NumberAt
  <2>4. Reached(f, fmt, Moved(st, p + 1 + Len(Decimal(d.prec)), [g EXCEPT !.prec = d.prec], used))
    BY ONLY <2>1, <2>2, <2>3, Loop(f, fmt, args), p \in Nat \ {0}, g.in_format,
            Reached(f, fmt, Moved(st, p, g, used)), PrecRead, Zenon
  <2>5. h = [g EXCEPT !.prec = d.prec]
    BY <1>2 DEF SetTo
  <2> QED
    BY ONLY <2>2, <2>4, <2>5, Zenon
<1> QED
  BY <1>1, <1>2, Zenon

\* The % that begins a directive.
LEMMA PercentRead ==
    ASSUME NEW fmt, NEW args, NEW f, Loop(f, fmt, args), NEW st, IsState(st), ~ st.flags.in_format,
           NEW p \in Nat \ {0}, st.at = p, p <= Len(fmt), Reached(f, fmt, st), At(fmt, p) = "%",
           NEW no, Off(no)
    PROVE  Reached(f, fmt, Moved(st, p + 1, FlagsOf(no, no, no, no, no, 0, -1), st.used))
<1>1. Flags(TRUE, -1) = FlagsOf(no, no, no, no, no, 0, -1)
  BY DEF Off, Flags, FlagsOf
<1> DEFINE next == Moved(st, p + 1, FlagsOf(no, no, no, no, no, 0, -1), st.used)
<1>2. next = Turn(fmt, args, st)
  <2>1. Turn(fmt, args, st) = Moved(st, st.at + 1, Flags(TRUE, -1), st.used)
    BY PercentTurn, Zenon
  <2> QED
    BY <1>1, <2>1, Zenon
<1>3. next.at = p + 1
  BY MovedFacts
<1> HIDE DEF next
<1>4. st.at \in 1 .. Len(fmt) /\ next.at \in Nat /\ st.at < next.at
  <2>1. Len(fmt) \in Nat
    BY Zenon DEF Loop
  <2> QED
    BY ONLY <1>3, <2>1, p \in Nat \ {0}, p <= Len(fmt), st.at = p
<1>5. Reached(f, fmt, next)
  BY <1>2, <1>4, Onwards, Zenon
<1> QED
  BY <1>5, Zenon DEF next

\* The state before a directive, and what the directive does.
Awaits(S, fmt, args, f, st, p, d, q, u) ==
    /\ Loop(f, fmt, args) /\ IsState(st) /\ ~ st.flags.in_format /\ st.out \in Seq(S)
    /\ st.written \in Nat /\ st.used \in Nat /\ p \in Nat \ {0} /\ st.at = p /\ Reached(f, fmt, st)
    /\ IsDirective(d) /\ Holds(fmt, p, Spell(d)) /\ q = p + Len(Spell(d)) /\ q <= Len(fmt) + 1
    /\ u = (IF d.star THEN st.used + 1 ELSE st.used)
    /\ d.star => args[st.used + 1].word = d.width
Awaited(fmt, args, f, st, d, q, u, m) ==
    /\ IsState(m) /\ m.flags = FlagsFor(d) /\ m.used = u
    /\ Reached(f, fmt, After(st, q, FlagsFor(d), Converted(d.conv, m, args),
                             IF d.conv = "%" THEN u ELSE u + 1,
                             IF d.conv = "n" THEN Append(st.stored, st.written) ELSE st.stored))

\* A directive is read from its % to its conversion, which sees what was asked.
LEMMA DirectiveRead ==
    ASSUME NEW S, NEW fmt, NEW args, NEW f, NEW st, NEW p, NEW d, NEW q, NEW u,
           Awaits(S, fmt, args, f, st, p, d, q, u)
    PROVE  \E m : Awaited(fmt, args, f, st, d, q, u, m)
<1> /\ Loop(f, fmt, args) /\ IsState(st) /\ ~ st.flags.in_format /\ st.out \in Seq(S)
    /\ st.written \in Nat /\ st.used \in Nat /\ p \in Nat \ {0} /\ st.at = p /\ Reached(f, fmt, st)
    /\ IsDirective(d) /\ Holds(fmt, p, Spell(d)) /\ q = p + Len(Spell(d)) /\ q <= Len(fmt) + 1
    /\ u = (IF d.star THEN st.used + 1 ELSE st.used)
    /\ d.star => args[st.used + 1].word = d.width
  BY Zenon DEF Awaits
<1>1. PICK p1, p2, p3, p4, p5, p6, p7, p8 : Pieces(fmt, d, p, p1, p2, p3, p4, p5, p6, p7, p8)
  BY DirectivePieces, Zenon
<1>2. /\ p1 \in Nat \ {0} /\ p2 \in Nat \ {0} /\ p3 \in Nat \ {0} /\ p4 \in Nat \ {0} /\ p5 \in Nat \ {0}
      /\ p6 \in Nat \ {0} /\ p7 \in Nat \ {0} /\ p8 \in Nat \ {0} /\ p1 = p + 1
  BY <1>1, Zenon DEF Pieces
<1>3. /\ p <= Len(fmt) /\ p2 <= Len(fmt) /\ p3 <= Len(fmt) /\ p4 <= Len(fmt)
      /\ p5 <= Len(fmt) /\ p6 <= Len(fmt) /\ p7 <= Len(fmt) /\ p8 <= Len(fmt) /\ q = p8 + 1
  <2>1. /\ p1 <= p2 /\ p2 <= p3 /\ p3 <= p4 /\ p4 <= p5 /\ p5 <= p6 /\ p6 <= p7 /\ p7 <= p8
        /\ p + Len(Spell(d)) = p8 + 1
    BY <1>1, Zenon DEF Pieces
  <2>2. Len(fmt) \in Nat
    BY Zenon DEF Loop
  <2>3. q = p8 + 1
    BY ONLY <2>1, q = p + Len(Spell(d)), Zenon
  <2> QED
    BY ONLY <1>2, <2>1, <2>2, <2>3, q <= Len(fmt) + 1, p \in Nat \ {0}
<1>41. PICK no : no = FALSE
  OBVIOUS
<1>42. PICK sharp : sharp = ("#" \in d.flags)
  OBVIOUS
<1>43. PICK zero : zero = ("0" \in d.flags)
  OBVIOUS
<1>44. PICK space : space = (" " \in d.flags)
  OBVIOUS
<1>45. PICK sign : sign = ("+" \in d.flags)
  OBVIOUS
<1>4. /\ no = FALSE /\ sharp = ("#" \in d.flags) /\ zero = ("0" \in d.flags)
      /\ space = (" " \in d.flags) /\ sign = ("+" \in d.flags)
  BY <1>41, <1>42, <1>43, <1>44, <1>45, Zenon
<1>5. no = FALSE /\ sharp \in BOOLEAN /\ zero \in BOOLEAN /\ space \in BOOLEAN /\ sign \in BOOLEAN
  <2>2. sharp \in BOOLEAN
    BY ONLY <1>42
  <2>3. zero \in BOOLEAN
    BY ONLY <1>43
  <2>4. space \in BOOLEAN
    <3>1. PICK c : c = " "
      BY Zenon
    <3>2. space = (c \in d.flags)
      BY ONLY <1>44, <3>1, Zenon
    <3> QED
      BY ONLY <3>2
  <2>5. sign \in BOOLEAN
    BY ONLY <1>45
  <2> QED
    BY ONLY <1>41, <2>2, <2>3, <2>4, <2>5
<1>6. /\ Given("#", "#" \in d.flags) = Given("#", sharp) /\ Given("0", "0" \in d.flags) = Given("0", zero)
      /\ Given("+", "+" \in d.flags) = Given("+", sign) /\ Given(" ", " " \in d.flags) = Given(" ", space)
  BY ONLY <1>4 DEF Given
<1>7. /\ p2 = p1 + Len(Given("#", sharp)) /\ p3 = p2 + Len(Given("0", zero))
      /\ p4 = p3 + Len(Given("+", sign)) /\ p5 = p4 + Len(Given(" ", space))
      /\ Holds(fmt, p1, Given("#", sharp)) /\ Holds(fmt, p2, Given("0", zero))
      /\ Holds(fmt, p3, Given("+", sign)) /\ Holds(fmt, p4, Given(" ", space))
  <2>1. /\ p2 = p1 + Len(Given("#", "#" \in d.flags)) /\ p3 = p2 + Len(Given("0", "0" \in d.flags))
        /\ p4 = p3 + Len(Given("+", "+" \in d.flags)) /\ p5 = p4 + Len(Given(" ", " " \in d.flags))
        /\ Holds(fmt, p1, Given("#", "#" \in d.flags)) /\ Holds(fmt, p2, Given("0", "0" \in d.flags))
        /\ Holds(fmt, p3, Given("+", "+" \in d.flags)) /\ Holds(fmt, p4, Given(" ", " " \in d.flags))
    BY <1>1, Zenon DEF Pieces
  <2> QED
    BY ONLY <1>6, <2>1
<1>8. /\ p6 = p5 + Len(WidthText(d)) /\ p7 = p6 + Len(PrecText(d)) /\ p8 = p7 + Len(Given("l", d.long))
      /\ At(fmt, p) = "%" /\ At(fmt, p8) = d.conv
      /\ Holds(fmt, p5, WidthText(d)) /\ Holds(fmt, p7, Given("l", d.long))
  BY <1>1, Zenon DEF Pieces
<1>9. /\ DigitOf(At(fmt, p6)) >= 10 /\ DigitOf(At(fmt, p7)) >= 10
      /\ d.prec # -1 => At(fmt, p6) = "." /\ Holds(fmt, p6 + 1, Decimal(d.prec))
                        /\ p7 = p6 + 1 + Len(Decimal(d.prec))
  BY ONLY <1>1, IsDirective(d), NumbersEnd, ZenonT(40)
<1> DEFINE w  == IF d.width = -1 THEN 0 ELSE d.width
           g0 == FlagsOf(no, no, no, no, no, 0, -1)
           g5 == FlagsOf(no, sharp, zero, space, sign, 0, -1)
           g6 == FlagsOf(no, sharp, zero, space, sign, w, -1)
           g7 == FlagsOf(no, sharp, zero, space, sign, w, d.prec)
           g8 == FlagsOf(d.long, sharp, zero, space, sign, w, d.prec)
<1>10. Reached(f, fmt, Moved(st, p1, g0, st.used))
  <2>1. Off(no)
    BY <1>5 DEF Off
  <2> QED
    BY <1>2, <1>3, <1>8, <2>1, PercentRead, Zenon
<1>11. Reached(f, fmt, Moved(st, p5, g5, st.used))
  <2>1. Off(no) /\ Either(sharp) /\ Either(zero) /\ Either(sign) /\ Either(space)
    BY ONLY <1>5 DEF Off, Either
  <2>2. FlagsAt(fmt, p1, p2, p3, p4, p5, sharp, zero, sign, space)
    BY ONLY <1>3, <1>7, Zenon DEF FlagsAt
  <2> QED
    BY ONLY <1>2, <1>10, <2>1, <2>2, Loop(f, fmt, args), FlagsRead, Zenon
<1>12. SetTo(g5, "width", w, g6) /\ SetTo(g6, "prec", d.prec, g7)
  BY FlagsNumbers, Zenon
<1>13. Either(d.long) /\ Off(no) /\ d.long \in BOOLEAN
  BY <1>5 DEF Either, Off, IsDirective
<1>14. Switched(g7, "l", d.long, g8)
  BY <1>13, FlagsSet, Zenon
<1>15. IsFlags(g5) /\ g5.width = 0
  BY DEF IsFlags, FlagsOf
<1>16. g5.in_format /\ g6.in_format /\ g7.in_format /\ g8.in_format
  BY FlagsOpen, Zenon
<1>17. g8 = FlagsFor(d)
  BY ONLY <1>4, Zenon DEF FlagsFor
<1>18. d.prec = -1 => g7 = g6
  OBVIOUS
<1> HIDE DEF g5, g6, g7, g8
<1>19. Reached(f, fmt, Moved(st, p6, g6, u))
  <2>1. Reached(f, fmt, Moved(st, p6, [g5 EXCEPT !.width = w], u))
    BY ONLY <1>2, <1>3, <1>8, <1>9, <1>11, <1>15, <1>16, Loop(f, fmt, args), IsDirective(d),
            st.used \in Nat, u = IF d.star THEN st.used + 1 ELSE st.used,
            d.star => args[st.used + 1].word = d.width, WidthStep, Zenon
  <2>2. g6 = [g5 EXCEPT !.width = w]
    BY ONLY <1>12 DEF SetTo
  <2> QED
    BY ONLY <2>1, <2>2, Zenon
<1>20. Reached(f, fmt, Moved(st, p7, g7, u))
  <2>1. d.prec = -1 => p7 = p6
    <3>1. ASSUME d.prec = -1 PROVE Len(PrecText(d)) = 0
      BY <3>1 DEF PrecText
    <3> QED
      BY ONLY <1>2, <1>8, <3>1
  <2> QED
    BY ONLY <1>2, <1>3, <1>9, <1>12, <1>16, <1>18, <1>19, <2>1, Loop(f, fmt, args), IsDirective(d),
            PrecStep, Zenon
<1>21. Reached(f, fmt, Moved(st, p8, g8, u))
  <2>1. "l" \in FlagChars
    BY DEF FlagChars
  <2> QED
    BY ONLY <1>2, <1>3, <1>8, <1>13, <1>14, <1>16, <1>20, <2>1, Loop(f, fmt, args), FlagStep, Zenon
<1> DEFINE m == Moved(st, p8, g8, u)
<1>22. IsState(m) /\ m.flags = g8 /\ m.used = u
  BY MovedFacts
<1>23. d.conv \in Conversions
  BY Zenon DEF IsDirective
<1>24. Reached(f, fmt, After(st, p8 + 1, g8, Converted(d.conv, m, args),
                             IF d.conv = "%" THEN u ELSE u + 1,
                             IF d.conv = "n" THEN Append(st.stored, st.written) ELSE st.stored))
  BY ONLY <1>2, <1>3, <1>8, <1>16, <1>21, <1>23, Loop(f, fmt, args), st.out \in Seq(S), st.written \in Nat,
          ConversionRead, ZenonT(40)
<1> HIDE DEF m
<1>25. Reached(f, fmt, After(st, q, FlagsFor(d), Converted(d.conv, m, args),
                             IF d.conv = "%" THEN u ELSE u + 1,
                             IF d.conv = "n" THEN Append(st.stored, st.written) ELSE st.stored))
  BY ONLY <1>3, <1>17, <1>24, Zenon
<1>26. IsState(m) /\ m.flags = FlagsFor(d) /\ m.used = u
  BY ONLY <1>17, <1>22, Zenon
<1> QED
  BY ONLY <1>25, <1>26, Zenon DEF Awaited

-----------------------------------------------------------------------------
(* What a conversion prints.                                               *)

\* The characters that vprintfmt prints of its own, and those of the formats.
Ink == DigitChars \cup {"x", "X", "+", "-", " ", "(", "n", "u", "l", ")"}
Inked == Ink \cup FormatChars \cup {"z"} \cup (UNION {Range(text) : text \in Texts})

\* The characters that are printed are characters of a text.
LEMMA InkIsInked ==
    /\ Ink \subseteq Inked /\ FormatChars \subseteq Inked /\ DigitChars \subseteq Inked
    /\ {"0", "x", "X", "+", "-", " ", "z", "k", "%"} \subseteq Inked
  BY DEF Inked, Ink, DigitChars, FormatChars, Conversions

\* The digits of a number are characters.
LEMMA NumeralText ==
    ASSUME NEW num \in Nat, NEW base \in {10, 16}, NEW digits \in {Digits, UpperDigits}
    PROVE  InBase(num, base, digits) \in Seq(Inked) /\ Len(InBase(num, base, digits)) \in Nat \ {0}
<1> DEFINE t == InBase(num, base, digits)
<1>1. Numeral(t, num, base, digits)
  BY InBaseDigits, Zenon
<1> HIDE DEF t
<1>2. t \in Seq(DigitChars) /\ Len(t) \in Nat \ {0}
  BY ONLY <1>1 DEF Numeral
<1>3. t \in Seq(Inked)
  <2>1. DigitChars \subseteq Inked
    BY InkIsInked
  <2> QED
    BY ONLY <1>2, <2>1
<1> QED
  BY <1>2, <1>3 DEF t

\* Padding, a sign, zeros and digits, in the order in which they are printed.
LEMMA PaddedText ==
    ASSUME NEW a \in Int, NEW sign \in Seq(Inked), NEW b \in Int, NEW digits \in Seq(Inked)
    PROVE  /\ Copies(" ", a) \in Seq(Inked) /\ Copies("0", b) \in Seq(Inked)
           /\ Copies(" ", a) \o sign \o Copies("0", b) \o digits \in Seq(Inked)
           /\ Copies("0", b) \o digits \in Seq(Inked)
           /\ Len(Copies("0", b) \o digits) = (IF b <= 0 THEN 0 ELSE b) + Len(digits)
           /\ Copies(" ", a) \o sign \o Copies("0", b) \o digits
              = Copies(" ", a) \o sign \o (Copies("0", b) \o digits)
<1> DEFINE x == Copies(" ", a)
           y == Copies("0", b)
<1>1. " " \in Inked /\ "0" \in Inked
  BY InkIsInked
<1>2. x \in Seq(Inked)
  BY ONLY <1>1, CopiesFacts
<1>3. y \in Seq(Inked) /\ Len(y) = IF b <= 0 THEN 0 ELSE b
  BY ONLY <1>1, CopiesFacts
<1> HIDE DEF x, y
<1>4. x \o sign \in Seq(Inked)
  BY ONLY <1>2, sign \in Seq(Inked), Joined
<1>5. x \o sign \o y \in Seq(Inked)
  BY ONLY <1>3, <1>4, Joined
<1>6. x \o sign \o y \o digits \in Seq(Inked)
  BY ONLY <1>5, digits \in Seq(Inked), Joined
<1>7. y \o digits \in Seq(Inked) /\ Len(y \o digits) = Len(y) + Len(digits)
  BY ONLY <1>3, digits \in Seq(Inked), Joined
<1>8. (x \o sign) \o y \o digits = (x \o sign) \o (y \o digits)
  <2> DEFINE z == x \o sign
  <2>1. z \in Seq(Inked)
    BY ONLY <1>4
  <2> HIDE DEF z
  <2>2. AreTexts(Inked, z, y, digits)
    BY ONLY <1>3, <2>1, digits \in Seq(Inked) DEF AreTexts
  <2>3. Associate(z, y, digits)
    BY ONLY <2>2, JoinedThree, Zenon
  <2> QED
    BY ONLY <2>3, Zenon DEF z, Associate
<1> QED
  <2>1. Len(y \o digits) = (IF b <= 0 THEN 0 ELSE b) + Len(digits)
    <3>1. PICK n : n = IF b <= 0 THEN 0 ELSE b
      BY Zenon
    <3>2. Len(y) = n
      BY ONLY <1>3, <3>1, Zenon
    <3>3. Len(y \o digits) = n + Len(digits)
      BY ONLY <1>7, <3>2, Zenon
    <3> QED
      BY ONLY <3>1, <3>3, Zenon
  <2>2. x \o sign \o y \o digits = x \o sign \o (y \o digits)
    BY ONLY <1>8, Zenon
  <2> QED
    BY ONLY <1>2, <1>3, <1>6, <1>7, <2>1, <2>2, Zenon DEF x, y

\* Nothing, one sign or two characters.
LEMMA SignText ==
    ASSUME NEW s, s \in {<<>>, <<"-">>, <<"+">>, <<" ">>, <<"0", "x">>, <<"0", "X">>}
    PROVE  s \in Seq(Inked)
<1>1. "-" \in Inked /\ "+" \in Inked /\ " " \in Inked /\ "0" \in Inked /\ "x" \in Inked /\ "X" \in Inked
  BY InkIsInked
<1>2. <<>> \in Seq(Inked) /\ <<"-">> \in Seq(Inked)
  BY ONLY <1>1, ShortTexts
<1>3. <<"+">> \in Seq(Inked)
  BY ONLY <1>1, ShortTexts
<1>4. <<" ">> \in Seq(Inked)
  BY ONLY <1>1, ShortTexts
<1>5. <<"0", "x">> \in Seq(Inked)
  BY ONLY <1>1, ShortTexts
<1>6. <<"0", "X">> \in Seq(Inked)
  BY ONLY <1>1, ShortTexts
<1> QED
  BY <1>2, <1>3, <1>4, <1>5, <1>6, Zenon

\* What print_dec_int prints, and its parts.
SignOf(num, signed, flags) ==
    IF ~ signed THEN <<>>
    ELSE IF signed /\ Signed(num, LongMod) < 0 THEN <<"-">>
    ELSE IF flags.sign THEN <<"+">>
    ELSE IF flags.spaceflag THEN <<" ">> ELSE <<>>
DigitsOf(num, signed) ==
    InBase(IF signed /\ Signed(num, LongMod) < 0 THEN LongMod - num ELSE num, 10, Digits)
PrecOf(flags, width) == IF flags.prec = -1 /\ flags.zeroflag THEN width ELSE flags.prec

\* print_dec_int, case by case.
LEMMA DecIntIs ==
    ASSUME NEW num, NEW signed, NEW flags
    PROVE  print_dec_int(num, signed, flags) =
               IF signed /\ num = LongMod \div 2 THEN <<"-">> \o InBase(num, 10, Digits)
               ELSE IF flags.prec = 0 /\ num = 0 THEN <<>>
               ELSE DecText(flags, SignOf(num, signed, flags), DigitsOf(num, signed),
                            PrecOf(flags, flags.width))
  BY Zenon DEF print_dec_int, SignOf, DigitsOf, PrecOf

\* The sign and the digits of a decimal number are texts.
LEMMA DecIntParts ==
    ASSUME NEW num \in 0 .. LongMod - 1, NEW signed, NEW flags
    PROVE  /\ SignOf(num, signed, flags) \in {<<>>, <<"-">>, <<"+">>, <<" ">>}
           /\ SignOf(num, signed, flags) \in Seq(Inked)
           /\ DigitsOf(num, signed) \in Seq(Inked) /\ Len(DigitsOf(num, signed)) \in Nat \ {0}
<1>1. SignOf(num, signed, flags) \in {<<>>, <<"-">>, <<"+">>, <<" ">>}
  BY Zenon DEF SignOf
<1>2. SignOf(num, signed, flags) \in Seq(Inked)
  BY <1>1, SignText, Zenon
<1> DEFINE n == IF signed /\ Signed(num, LongMod) < 0 THEN LongMod - num ELSE num
<1>3. n \in Nat
  <2>1. LongMod \in Nat /\ LongMod - num \in Nat /\ num \in Nat
    BY Mods
  <2> QED
    BY <2>1, Zenon
<1> HIDE DEF n
<1>4. InBase(n, 10, Digits) \in Seq(Inked) /\ Len(InBase(n, 10, Digits)) \in Nat \ {0}
  BY ONLY <1>3, NumeralText
<1> QED
  BY <1>1, <1>2, <1>4, Zenon DEF DigitsOf, n

\* What print_dec_int prints is a text.
LEMMA DecIntText ==
    ASSUME NEW num \in 0 .. LongMod - 1, NEW signed, NEW flags, flags.width \in Int, flags.prec \in Int
    PROVE  print_dec_int(num, signed, flags) \in Seq(Inked)
<1> DEFINE sign   == SignOf(num, signed, flags)
           digits == DigitsOf(num, signed)
           prec   == PrecOf(flags, flags.width)
           text   == DecText(flags, sign, digits, prec)
           least  == <<"-">> \o InBase(num, 10, Digits)
<1>1. sign \in Seq(Inked) /\ digits \in Seq(Inked)
  BY DecIntParts, Zenon
<1>2. prec \in Int
  BY Zenon DEF PrecOf
<1>3. least \in Seq(Inked)
  <2>1. num \in Nat /\ 10 \in {10, 16} /\ Digits \in {Digits, UpperDigits}
    BY Mods
  <2>2. InBase(num, 10, Digits) \in Seq(Inked) /\ <<"-">> \in Seq(Inked)
    BY <2>1, NumeralText, SignText, Zenon
  <2> QED
    BY ONLY <2>2, Joined
<1>4. print_dec_int(num, signed, flags) \in {least, <<>>, text}
  BY DecIntIs, Zenon
<1> HIDE DEF sign, digits, prec, least
<1>5. text \in Seq(Inked)
  <2> DEFINE pads  == flags.width - Most(Len(digits), prec) - Len(sign)
             zeros == prec - Len(sign) - Len(digits)
  <2>1. pads \in Int /\ zeros \in Int
    BY ONLY <1>1, <1>2, flags.width \in Int DEF Most
  <2>2. text = Copies(" ", pads) \o sign \o Copies("0", zeros) \o digits
    BY Zenon DEF DecText
  <2> HIDE DEF pads, zeros, text
  <2> QED
    BY ONLY <1>1, <2>1, <2>2, PaddedText
<1>6. <<>> \in Seq(Inked)
  BY SignText, Zenon
<1> QED
  BY ONLY <1>3, <1>4, <1>5, <1>6, Zenon

\* What %x, %X and %p print, and its parts.
PrefixFor(conv, num, flags) ==
    IF conv = "p" \/ (flags.sharpflag /\ num # 0) THEN <<"0", IF conv = "X" THEN "X" ELSE "x">> ELSE <<>>
HexDigits(conv, num) == InBase(num, 16, IF conv = "X" THEN UpperDigits ELSE Digits)
HexPads(flags, prefix, digits, prec) ==
    Copies(" ", flags.width - Len(prefix) - Most(Len(digits), prec)) \o prefix
    \o Copies("0", prec - Len(digits)) \o digits

\* The hexadecimal conversion, case by case.
LEMMA HexTextIs ==
    ASSUME NEW num, NEW conv, NEW flags
    PROVE  HexText(conv, num, flags) =
               IF flags.prec = 0 /\ num = 0 /\ conv # "p" THEN <<>>
               ELSE HexPads(flags, PrefixFor(conv, num, flags), HexDigits(conv, num),
                            PrecOf(flags, flags.width - Len(PrefixFor(conv, num, flags))))
  BY Zenon DEF HexText, HexPads, PrefixFor, HexDigits, PrecOf

\* The prefix and the digits of a hexadecimal number are texts.
LEMMA HexParts ==
    ASSUME NEW num \in Nat, NEW conv, NEW flags
    PROVE  /\ PrefixFor(conv, num, flags) \in {<<>>, <<"0", "x">>, <<"0", "X">>}
           /\ PrefixFor(conv, num, flags) \in Seq(Inked)
           /\ HexDigits(conv, num) \in Seq(Inked) /\ Len(HexDigits(conv, num)) \in Nat \ {0}
<1>1. PrefixFor(conv, num, flags) \in {<<>>, <<"0", "x">>, <<"0", "X">>}
  BY Zenon DEF PrefixFor
<1>2. PrefixFor(conv, num, flags) \in Seq(Inked)
  BY <1>1, SignText, Zenon
<1>3. (IF conv = "X" THEN UpperDigits ELSE Digits) \in {Digits, UpperDigits} /\ 16 \in {10, 16}
  BY Zenon
<1>4. HexDigits(conv, num) \in Seq(Inked) /\ Len(HexDigits(conv, num)) \in Nat \ {0}
  BY <1>3, NumeralText, Zenon DEF HexDigits
<1> QED
  BY <1>1, <1>2, <1>4, Zenon

\* What the hexadecimal conversion prints is a text.
LEMMA HexIsText ==
    ASSUME NEW num \in Nat, NEW conv, NEW flags, flags.width \in Int, flags.prec \in Int
    PROVE  HexText(conv, num, flags) \in Seq(Inked)
<1> DEFINE prefix == PrefixFor(conv, num, flags)
           digits == HexDigits(conv, num)
           prec   == PrecOf(flags, flags.width - Len(prefix))
           text   == HexPads(flags, prefix, digits, prec)
<1>1. prefix \in Seq(Inked) /\ digits \in Seq(Inked)
  BY HexParts, Zenon
<1>2. HexText(conv, num, flags) \in {<<>>, text}
  BY HexTextIs, Zenon
<1> HIDE DEF prefix, digits
<1>3. prec \in Int
  <2>1. flags.width - Len(prefix) \in Int
    BY ONLY <1>1, flags.width \in Int
  <2> QED
    BY <2>1, Zenon DEF PrecOf
<1> HIDE DEF prec
<1>4. text \in Seq(Inked)
  <2> DEFINE pads  == flags.width - Len(prefix) - Most(Len(digits), prec)
             zeros == prec - Len(digits)
  <2>1. pads \in Int /\ zeros \in Int
    BY ONLY <1>1, <1>3, flags.width \in Int DEF Most
  <2>2. text = Copies(" ", pads) \o prefix \o Copies("0", zeros) \o digits
    BY Zenon DEF HexPads
  <2> HIDE DEF pads, zeros, text
  <2> QED
    BY ONLY <1>1, <2>1, <2>2, PaddedText
<1>5. <<>> \in Seq(Inked)
  BY SignText, Zenon
<1> QED
  BY ONLY <1>2, <1>4, <1>5, Zenon

\* No copies, and as many.
LEMMA CopiesNone == ASSUME NEW c, NEW n \in Int, n <= 0 PROVE Copies(c, n) = <<>>
  BY DEF Copies
\* A number of copies below zero is none.
LEMMA CopiesSame ==
    ASSUME NEW c, NEW a \in Int, NEW b \in Int, a = b \/ (a <= 0 /\ b <= 0)
    PROVE  Copies(c, a) = Copies(c, b)
<1>1. CASE a = b
  BY <1>1
<1>2. CASE a <= 0 /\ b <= 0
  BY <1>2, CopiesNone, Zenon
<1> QED
  BY <1>1, <1>2

\* The empty text adds nothing.
LEMMA Nothing == ASSUME NEW S, NEW s \in Seq(S) PROVE s \o <<>> = s /\ <<>> \o s = s
  OBVIOUS

\* A number as C lays it out.
Laid(zero, prec, width, prefix, t) ==
    LET digits  == Copies("0", prec - Len(t)) \o t
        missing == width - Len(prefix) - Len(digits)
    IN IF zero /\ prec = -1 THEN prefix \o Copies("0", missing) \o digits
       ELSE Copies(" ", missing) \o prefix \o digits

\* The flags ask for a width, a precision and leading zeros.
Asks(flags, zero, prec, width) ==
    /\ flags.width = (IF width = -1 THEN 0 ELSE width) /\ flags.prec = prec
    /\ flags.zeroflag = zero
    /\ width \in {-1} \cup (Nat \ {0}) /\ prec \in {-1} \cup Nat

\* Where both lay out a number, print_dec_int does it like %x.
LEMMA DecAsHex ==
    ASSUME NEW flags, NEW zero, NEW prec, NEW width, Asks(flags, zero, prec, width),
           NEW prefix \in Seq(Inked), NEW t \in Seq(Inked), prec # -1 => prefix = <<>>
    PROVE  DecText(flags, prefix, t, PrecOf(flags, flags.width))
           = HexPads(flags, prefix, t, PrecOf(flags, flags.width - Len(prefix)))
<1> DEFINE w == flags.width
           l == Len(t)
           k == Len(prefix)
           e == PrecOf(flags, w)
           f == PrecOf(flags, w - k)
<1>1. l \in Nat /\ k \in Nat /\ w \in Nat /\ prec \in Int /\ prec >= -1
  <2>1. l \in Nat /\ k \in Nat
    BY Joined
  <2>2. w \in Nat /\ prec \in Int /\ prec >= -1
    BY DEF Asks
  <2> QED
    BY ONLY <2>1, <2>2
<1>2. flags.prec = prec
  BY DEF Asks
<1>a. prec # -1 => k = 0
  <2>1. Len(<<>>) = 0
    OBVIOUS
  <2> QED
    BY <2>1, Zenon
<1> HIDE DEF w, l, k, e, f
<1>3. (e = w /\ f = w - k) \/ (e = prec /\ f = prec)
  BY <1>2, Zenon DEF PrecOf, e, f, w
<1>4. w - Most(l, e) - k \in Int /\ w - k - Most(l, f) \in Int /\ e - k - l \in Int /\ f - l \in Int
  BY ONLY <1>1, <1>3 DEF Most
<1>5. \/ w - Most(l, e) - k = w - k - Most(l, f)
      \/ w - Most(l, e) - k <= 0 /\ w - k - Most(l, f) <= 0
  <2>1. CASE e = w /\ f = w - k
    <3>1. Most(l, e) >= w /\ Most(l, e) \in Int /\ Most(l, f) >= w - k /\ Most(l, f) \in Int
      BY ONLY <1>1, <2>1 DEF Most
    <3> QED
      BY ONLY <1>1, <3>1
  <2>2. CASE e = prec /\ f = prec
    <3>1. Most(l, e) = Most(l, f) /\ Most(l, e) \in Int
      BY ONLY <1>1, <2>2 DEF Most
    <3> QED
      BY ONLY <1>1, <3>1
  <2> QED
    BY ONLY <1>3, <2>1, <2>2
<1>6. e - k - l = f - l \/ (e - k - l <= 0 /\ f - l <= 0)
  BY ONLY <1>1, <1>a, <1>3
<1>7. Copies(" ", w - Most(l, e) - k) = Copies(" ", w - k - Most(l, f))
  BY ONLY <1>4, <1>5, CopiesSame
<1>8. Copies("0", e - k - l) = Copies("0", f - l)
  BY ONLY <1>4, <1>6, CopiesSame
<1> QED
  BY <1>7, <1>8, Zenon DEF DecText, HexPads, w, l, k, e, f

\* The code lays a number out as C does.
LEMMA Layout ==
    ASSUME NEW flags, NEW zero, NEW prec, NEW width, Asks(flags, zero, prec, width),
           NEW prefix \in Seq(Inked), NEW t \in Seq(Inked)
    PROVE  HexPads(flags, prefix, t, PrecOf(flags, flags.width - Len(prefix)))
           = Laid(zero, prec, width, prefix, t)
<1> DEFINE w == flags.width
           l == Len(t)
           k == Len(prefix)
           f == PrecOf(flags, w - k)
           pads == w - k - Most(l, f)
           digits  == Copies("0", prec - l) \o t
           missing == width - k - Len(digits)
<1>1. /\ l \in Nat /\ k \in Nat /\ w \in Nat /\ prec \in Int /\ prec >= -1 /\ width \in Int
      /\ w = width \/ (w = 0 /\ width = -1)
  <2>1. l \in Nat /\ k \in Nat
    BY Joined
  <2>2. w \in Nat /\ prec \in Int /\ prec >= -1 /\ width \in Int /\ (w = width \/ (w = 0 /\ width = -1))
    BY DEF Asks
  <2> QED
    BY ONLY <2>1, <2>2
<1>2. flags.prec = prec /\ flags.zeroflag = zero
  BY DEF Asks
<1>3. HexPads(flags, prefix, t, f) = Copies(" ", pads) \o prefix \o Copies("0", f - l) \o t
  BY Zenon DEF HexPads
<1>4. Laid(zero, prec, width, prefix, t) = IF zero /\ prec = -1 THEN prefix \o Copies("0", missing) \o digits
                                           ELSE Copies(" ", missing) \o prefix \o digits
  BY Zenon DEF Laid
<1>5. prec - l \in Int
  BY ONLY <1>1
<1> HIDE DEF w, l, k, f
<1>6. digits \in Seq(Inked) /\ Len(digits) = (IF prec - l <= 0 THEN 0 ELSE prec - l) + l
  BY ONLY <1>5, t \in Seq(Inked), prefix \in Seq(Inked), PaddedText, Zenon DEF l
<1>7. CASE zero /\ prec = -1
  <2>1. f = w - k
    BY <1>2, <1>7, Zenon DEF PrecOf, f
  <2>2. pads \in Int /\ pads <= 0
    BY ONLY <1>1, <2>1 DEF Most
  <2>3. prec - l <= 0
    BY ONLY <1>1, <1>7
  <2>4. digits = t
    <3>1. Copies("0", prec - l) = <<>>
      BY ONLY <1>5, <2>3, CopiesNone
    <3> QED
      BY ONLY <3>1, t \in Seq(Inked), Nothing, Zenon
  <2>5. missing = width - k - l
    BY <2>4, Zenon DEF l
  <2> HIDE DEF pads, digits, missing
  <2>6. /\ missing \in Int /\ f - l \in Int
        /\ missing = f - l \/ (missing <= 0 /\ f - l <= 0)
    BY ONLY <1>1, <2>1, <2>5
  <2>7. Copies("0", f - l) = Copies("0", missing)
    BY ONLY <2>6, CopiesSame
  <2>8. Copies(" ", pads) \o prefix = prefix
    <3>1. Copies(" ", pads) = <<>>
      BY ONLY <2>2, CopiesNone
    <3> QED
      BY ONLY <3>1, prefix \in Seq(Inked), Nothing, Zenon
  <2>9. HexPads(flags, prefix, t, f) = Laid(zero, prec, width, prefix, t)
    BY <1>3, <1>4, <1>7, <2>4, <2>7, <2>8, Zenon
  <2> QED
    BY <2>9, Zenon DEF f, w, k
<1>8. CASE ~ (zero /\ prec = -1)
  <2>1. f = prec
    BY <1>2, <1>8, Zenon DEF PrecOf, f
  <2> DEFINE n == Len(digits)
  <2>2. n = Most(l, prec) /\ n \in Nat
    <3>1. n = (IF prec - l <= 0 THEN 0 ELSE prec - l) + l
      BY <1>6
    <3> HIDE DEF digits, n
    <3> QED
      BY ONLY <1>1, <3>1 DEF Most
  <2>3. missing = width - k - n /\ pads = w - k - n
    BY <2>1, <2>2, Zenon
  <2> HIDE DEF n, pads, missing
  <2>4. /\ missing \in Int /\ pads \in Int
        /\ pads = missing \/ (pads <= 0 /\ missing <= 0)
    BY ONLY <1>1, <2>2, <2>3
  <2>5. Copies(" ", pads) = Copies(" ", missing)
    BY ONLY <2>4, CopiesSame
  <2>6. Copies(" ", pads) \o prefix \o Copies("0", prec - l) \o t = Copies(" ", pads) \o prefix \o digits
    <3> DEFINE x == Copies(" ", pads)
               y == Copies("0", prec - l)
    <3>1. pads \in Int
      BY ONLY <2>4
    <3>2. x \in Seq(Inked) /\ y \in Seq(Inked)
      BY ONLY <1>5, <3>1, t \in Seq(Inked), prefix \in Seq(Inked), PaddedText
    <3>3. digits = y \o t
      OBVIOUS
    <3> HIDE DEF x, y, digits
    <3>4. x \o prefix \o y \o t = x \o prefix \o (y \o t)
      <4> DEFINE z == x \o prefix
      <4>1. z \in Seq(Inked)
        BY ONLY <3>2, prefix \in Seq(Inked), Joined
      <4> HIDE DEF z
      <4>2. AreTexts(Inked, z, y, t)
        BY ONLY <3>2, <4>1, t \in Seq(Inked) DEF AreTexts
      <4>3. Associate(z, y, t)
        BY ONLY <4>2, JoinedThree, Zenon
      <4> QED
        BY ONLY <4>3, Zenon DEF z, Associate
    <3> QED
      BY ONLY <3>3, <3>4, Zenon DEF x, y
  <2>7. HexPads(flags, prefix, t, f) = Laid(zero, prec, width, prefix, t)
    BY <1>3, <1>4, <1>8, <2>1, <2>5, <2>6, Zenon
  <2> QED
    BY <2>7, Zenon DEF f, w, k
<1> QED
  BY <1>7, <1>8

\* The number of an integer conversion in the code, num, and in C, n.
InHalf(n, num) == n \in -(LongMod \div 2) .. (LongMod \div 2) - 1
                  /\ num = (IF n >= 0 THEN n ELSE n + LongMod) /\ num \in 0 .. LongMod - 1

\* The signed value of a word.
LEMMA SignedRange ==
    ASSUME NEW h \in Nat \ {0}, NEW mod, mod = 2 * h, NEW w \in Nat
    PROVE  /\ w % mod \in 0 .. mod - 1
           /\ Signed(w, mod) = (IF w % mod >= h THEN (w % mod) - mod ELSE w % mod)
           /\ Signed(w, mod) \in -h .. h - 1
<1>1. mod \in Nat \ {0} /\ mod \div 2 = h
  OBVIOUS
<1>2. w % mod \in 0 .. mod - 1
  BY ONLY <1>1, w \in Nat
<1>3. Signed(w, mod) = (IF w % mod >= h THEN (w % mod) - mod ELSE w % mod)
  BY <1>1, Zenon DEF Signed
<1> DEFINE r == w % mod
<1> HIDE DEF r
<1>4. (IF r >= h THEN r - mod ELSE r) \in -h .. h - 1
  <2>1. r \in 0 .. mod - 1
    BY <1>2 DEF r
  <2> QED
    BY ONLY <2>1, h \in Nat \ {0}, mod = 2 * h
<1> QED
  BY <1>2, <1>3, <1>4, Zenon DEF r

\* A signed value and its word.
LEMMA HalfWord ==
    ASSUME NEW n, n \in -(LongMod \div 2) .. (LongMod \div 2) - 1
    PROVE  InHalf(n, n % LongMod)
<1>1. PICK h \in Nat \ {0} : LongMod = 2 * h
  BY Mods
<1>2. LongMod \in Nat \ {0} /\ LongMod \div 2 = h
  BY ONLY <1>1
<1>3. CASE n >= 0
  <2>1. n \in 0 .. LongMod - 1
    BY ONLY <1>1, <1>2, <1>3, n \in -(LongMod \div 2) .. (LongMod \div 2) - 1
  <2>2. n % LongMod = n
    BY ONLY <1>2, <2>1, ModSmall
  <2> QED
    BY ONLY <1>3, <2>1, <2>2, n \in -(LongMod \div 2) .. (LongMod \div 2) - 1, Zenon DEF InHalf
<1>4. CASE ~ (n >= 0)
  <2>1. n \in -LongMod .. -1 /\ n + LongMod \in 0 .. LongMod - 1
    BY ONLY <1>1, <1>2, <1>4, n \in -(LongMod \div 2) .. (LongMod \div 2) - 1
  <2>2. n % LongMod = n + LongMod
    BY ONLY <1>2, <2>1, ModSmall
  <2> QED
    BY ONLY <1>4, <2>1, <2>2, n \in -(LongMod \div 2) .. (LongMod \div 2) - 1, Zenon DEF InHalf
<1> QED
  BY <1>3, <1>4

\* What the code makes of the argument of an integer conversion.
LEMMA NumOfIs ==
    ASSUME NEW c, NEW args, NEW m, NEW w, args[m.used + 1].word = w
    PROVE  NumOf(c, m, args) = IF m.flags.longflag \/ c = "p" THEN w
                               ELSE IF c \in {"x", "X"} THEN w % IntMod
                               ELSE Signed(w, IntMod) % LongMod
  BY Zenon DEF NumOf, Word, IntArg

\* Signed and unsigned numbers agree with C.
LEMMA NumbersAgree ==
    ASSUME NEW item, NEW args, NEW m, item.word \in 0 .. LongMod - 1, args[m.used + 1].word = item.word,
           NEW long \in BOOLEAN, item.dir.long = long, m.flags.longflag = long,
           NEW c, item.dir.conv = c, NEW num, num = NumOf(c, m, args)
    PROVE  /\ c \in {"d", "i"} => InHalf(Number(item), num)
           /\ c = "u" /\ (long \/ Signed(item.word, IntMod) >= 0) => num = Number(item)
           /\ c \in {"x", "X", "p"} => num = Number(item)
           /\ num \in 0 .. LongMod - 1
<1> DEFINE w == item.word
           mod == IF long \/ c = "p" THEN LongMod ELSE IntMod
<1>1. PICK k \in Nat \ {0}, h \in Nat \ {0} : IntMod = 2 * k /\ LongMod = 2 * h /\ k <= h
  BY Mods
<1>2. num = IF long \/ c = "p" THEN w ELSE IF c \in {"x", "X"} THEN w % IntMod ELSE Signed(w, IntMod) % LongMod
  <2>0. NumOf(c, m, args) = IF m.flags.longflag \/ c = "p" THEN w
              ELSE IF c \in {"x", "X"} THEN w % IntMod ELSE Signed(w, IntMod) % LongMod
    BY ONLY args[m.used + 1].word = item.word, Zenon DEF NumOf, Word, IntArg
  <2>1. num = IF m.flags.longflag \/ c = "p" THEN w
              ELSE IF c \in {"x", "X"} THEN w % IntMod ELSE Signed(w, IntMod) % LongMod
    BY ONLY <2>0, num = NumOf(c, m, args), Zenon
  <2>2. m.flags.longflag <=> long
    OBVIOUS
  <2> HIDE DEF w
  <2> QED
    BY ONLY <2>1, <2>2, Zenon
<1>3. Number(item) = IF c \in {"d", "i"} THEN Signed(w, mod) ELSE w % mod
  <2> DEFINE md == IF item.dir.long \/ item.dir.conv = "p" THEN LongMod ELSE IntMod
  <2>1. Number(item) = IF item.dir.conv \in {"d", "i"} THEN Signed(item.word, md) ELSE item.word % md
    BY Zenon DEF Number
  <2>2. md = mod
    OBVIOUS
  <2> HIDE DEF md, mod
  <2> QED
    BY <2>1, <2>2, Zenon
<1>4. w \in 0 .. LongMod - 1 /\ w \in Nat
  BY ONLY <1>1, item.word \in 0 .. LongMod - 1
<1> HIDE DEF w
<1>5. w % LongMod = w
  <2>1. LongMod \in Nat \ {0}
    BY ONLY <1>1
  <2> QED
    BY ONLY <1>4, <2>1, ModSmall
<1>6. /\ w % IntMod \in 0 .. IntMod - 1 /\ Signed(w, IntMod) \in -k .. k - 1
      /\ Signed(w, IntMod) = (IF w % IntMod >= k THEN (w % IntMod) - IntMod ELSE w % IntMod)
  BY ONLY <1>1, <1>4, SignedRange
<1>7. /\ Signed(w, LongMod) \in -h .. h - 1
      /\ Signed(w, LongMod) = (IF w >= h THEN w - LongMod ELSE w)
  <2>1. /\ Signed(w, LongMod) \in -h .. h - 1
        /\ Signed(w, LongMod) = (IF w % LongMod >= h THEN (w % LongMod) - LongMod ELSE w % LongMod)
    BY ONLY <1>1, <1>4, SignedRange
  <2> QED
    BY <1>5, <2>1, Zenon
<1>8. LongMod \div 2 = h
  BY ONLY <1>1
<1> DEFINE s == Signed(w, IntMod)
           l == Signed(w, LongMod)
           r == w % IntMod
<1>9. s \in -(LongMod \div 2) .. (LongMod \div 2) - 1 /\ l \in -(LongMod \div 2) .. (LongMod \div 2) - 1
  BY ONLY <1>1, <1>6, <1>7, <1>8
<1>10. InHalf(s, s % LongMod)
  BY <1>9, HalfWord, Zenon
<1>11. InHalf(l, w)
  <2> HIDE DEF l
  <2>1. w = (IF l >= 0 THEN l ELSE l + LongMod)
    <3>1. l = (IF w >= h THEN w - LongMod ELSE w)
      BY <1>7 DEF l
    <3> QED
      BY ONLY <1>1, <1>4, <3>1
  <2> QED
    BY ONLY <1>4, <1>9, <2>1, Zenon DEF InHalf
<1>12. r \in 0 .. LongMod - 1
  BY ONLY <1>1, <1>6
<1>13. s >= 0 => s % LongMod = r
  <2>1. ASSUME s >= 0 PROVE s = r
    <3> HIDE DEF s, r
    <3>1. s = (IF r >= k THEN r - IntMod ELSE r) /\ r \in 0 .. IntMod - 1
      BY <1>6 DEF s, r
    <3> QED
      BY ONLY <1>1, <2>1, <3>1
  <2>2. s >= 0 => s % LongMod = s
    BY <1>10, Zenon DEF InHalf
  <2> QED
    BY <2>1, <2>2, Zenon
<1>14. s % LongMod \in 0 .. LongMod - 1
  BY <1>10, Zenon DEF InHalf
<1> HIDE DEF s, l, r
<1>15. CASE long \/ c = "p"
  <2>1. num = w /\ Number(item) = IF c \in {"d", "i"} THEN l ELSE w
    BY <1>2, <1>3, <1>5, <1>15, Zenon DEF l
  <2>2. c = "u" => c \notin {"d", "i"}
    OBVIOUS
  <2>3. c \in {"x", "X", "p"} => c \notin {"d", "i"}
    OBVIOUS
  <2> QED
    BY ONLY <1>4, <1>11, <2>1, <2>2, <2>3, Zenon
<1>16. CASE ~ (long \/ c = "p")
  <2>1. num = (IF c \in {"x", "X"} THEN r ELSE s % LongMod) /\ Number(item) = IF c \in {"d", "i"} THEN s ELSE r
    BY <1>2, <1>3, <1>16, Zenon DEF s, r
  <2>2. c = "u" => c \notin {"d", "i"} /\ c \notin {"x", "X"}
    OBVIOUS
  <2>3. c \in {"x", "X", "p"} => c \notin {"d", "i"}
    OBVIOUS
  <2>4. c \in {"d", "i"} => c \notin {"x", "X"}
    OBVIOUS
  <2>5. num \in 0 .. LongMod - 1
    BY ONLY <1>12, <1>14, <2>1, Zenon
  <2>6. c \in {"d", "i"} => InHalf(Number(item), num)
    BY ONLY <1>10, <2>1, <2>4, Zenon
  <2>7. c = "u" /\ (long \/ Signed(item.word, IntMod) >= 0) => num = Number(item)
    BY <1>13, <1>16, <2>1, <2>2, Zenon DEF s, w
  <2>8. c \in {"x", "X", "p"} => num = Number(item)
    BY ONLY <1>16, <2>1, <2>3, Zenon
  <2> QED
    BY <2>5, <2>6, <2>7, <2>8, Zenon
<1> QED
  BY <1>15, <1>16, Zenon

\* A number that fills its width, and one without digits.
LEMMA LaidTight ==
    ASSUME NEW zero, NEW width \in Int, NEW prefix \in Seq(Inked), NEW t \in Seq(Inked),
           width - Len(prefix) - Len(t) <= 0
    PROVE  Laid(zero, -1, width, prefix, t) = prefix \o t
<1> DEFINE l == Len(t)
           k == Len(prefix)
           digits  == Copies("0", -1 - l) \o t
           missing == width - k - Len(digits)
<1>1. l \in Nat /\ k \in Nat
  BY Joined
<1>2. Laid(zero, -1, width, prefix, t) = IF zero THEN prefix \o Copies("0", missing) \o digits
                                         ELSE Copies(" ", missing) \o prefix \o digits
  BY Zenon DEF Laid
<1>3. width - k - l <= 0
  OBVIOUS
<1> HIDE DEF l, k
<1>4. digits = t
  <2>1. -1 - l \in Int /\ -1 - l <= 0
    BY ONLY <1>1
  <2>2. Copies("0", -1 - l) = <<>>
    BY ONLY <2>1, CopiesNone
  <2> QED
    BY ONLY <2>2, t \in Seq(Inked), Nothing, Zenon
<1>5. missing = width - k - l
  BY <1>4, Zenon DEF l
<1> HIDE DEF digits, missing
<1>6. missing \in Int /\ missing <= 0
  BY ONLY <1>1, <1>3, <1>5, width \in Int
<1>7. Copies("0", missing) = <<>> /\ Copies(" ", missing) = <<>>
  BY ONLY <1>6, CopiesNone
<1>8. prefix \o <<>> = prefix /\ <<>> \o prefix = prefix
  BY ONLY prefix \in Seq(Inked), Nothing, Zenon
<1> QED
  BY ONLY <1>2, <1>4, <1>7, <1>8, Zenon

\* No digits and no width: nothing is printed.
LEMMA LaidEmpty ==
    ASSUME NEW zero
    PROVE  Laid(zero, 0, -1, <<>>, <<>>) = <<>>
<1> DEFINE e == <<>>
           digits  == Copies("0", 0 - Len(e)) \o e
           missing == -1 - Len(e) - Len(digits)
<1>1. Laid(zero, 0, -1, e, e) = IF zero /\ 0 = -1 THEN e \o Copies("0", missing) \o digits
                                ELSE Copies(" ", missing) \o e \o digits
  BY Zenon DEF Laid
<1>2. Len(e) = 0 /\ e \o e = e
  OBVIOUS
<1> HIDE DEF e
<1>3. digits = e
  <2>1. 0 - Len(e) = 0
    BY ONLY <1>2
  <2>2. Copies("0", 0) = e
    BY CopiesNone DEF e
  <2> QED
    BY ONLY <1>2, <2>1, <2>2, Zenon
<1>4. missing = -1
  <2>1. Len(digits) = 0
    BY ONLY <1>2, <1>3, Zenon
  <2> HIDE DEF digits
  <2> QED
    BY ONLY <1>2, <2>1
<1>5. Copies(" ", missing) = e
  <2>1. missing \in Int /\ missing <= 0
    BY ONLY <1>4
  <2> QED
    BY <2>1, CopiesNone DEF e
<1>6. ~ (0 = -1)
  OBVIOUS
<1>7. Laid(zero, 0, -1, e, e) = e
  BY ONLY <1>1, <1>2, <1>3, <1>5, <1>6, Zenon
<1> QED
  BY <1>7 DEF e

\* What the flags of a directive ask for.
LEMMA FlagsAsk ==
    ASSUME NEW d, IsDirective(d), NEW zero, zero = ("0" \in d.flags)
    PROVE  /\ Asks(FlagsFor(d), zero, d.prec, d.width)
           /\ FlagsFor(d).width \in Int /\ FlagsFor(d).prec \in Int
           /\ (FlagsFor(d).sign <=> "+" \in d.flags) /\ (FlagsFor(d).sharpflag <=> "#" \in d.flags)
           /\ FlagsFor(d).longflag = d.long /\ ~ [FlagsFor(d) EXCEPT !.in_format = FALSE].in_format
<1>1. d.width \in {-1} \cup (Nat \ {0}) /\ d.prec \in {-1} \cup Nat
  <2>1. d.width \in {-1} \cup 1 .. (LongMod \div 2) - 1 /\ d.prec \in -1 .. (LongMod \div 2) - 1
    BY Zenon DEF IsDirective
  <2>2. LongMod \in Nat
    BY Mods
  <2> QED
    BY ONLY <2>1, <2>2
<1> DEFINE w == IF d.width = -1 THEN 0 ELSE d.width
<1>2. w \in Int
  BY ONLY <1>1
<1>3. /\ FlagsFor(d).width = w /\ FlagsFor(d).prec = d.prec
      /\ FlagsFor(d).longflag = d.long
      /\ FlagsFor(d).zeroflag = ("0" \in d.flags)
  BY DEF FlagsFor, FlagsOf
<1>4. FlagsFor(d).sign <=> "+" \in d.flags
  BY DEF FlagsFor, FlagsOf
<1>5. FlagsFor(d).sharpflag <=> "#" \in d.flags
  BY DEF FlagsFor, FlagsOf
<1>6. ~ [FlagsFor(d) EXCEPT !.in_format = FALSE].in_format
  BY DEF FlagsFor, FlagsOf
<1>7. Asks(FlagsFor(d), zero, d.prec, d.width)
  BY ONLY <1>1, <1>3, zero = ("0" \in d.flags), Zenon DEF Asks
<1> QED
  BY ONLY <1>1, <1>2, <1>3, <1>4, <1>5, <1>6, <1>7

\* The space flag is on when the directive has it.
LEMMA SpaceAsked ==
    ASSUME NEW d, NEW c, c = " "
    PROVE  FlagsFor(d).spaceflag <=> c \in d.flags
  BY DEF FlagsFor, FlagsOf

\* C's text of a number.
LEMMA NumberTextIs ==
    ASSUME NEW item, NEW zero, zero = ("0" \in item.dir.flags)
    PROVE  NumberText(item) = Laid(zero, item.dir.prec, item.dir.width, PrefixOf(item), NumberDigits(item))
  BY Zenon DEF NumberText, Laid

\* The sign, the digits and the number of print_dec_int are those of C.
DecNumber(item, d, signed, num, n) ==
    /\ d = item.dir /\ d.conv \in {"d", "i", "u"} /\ signed = (d.conv # "u")
    /\ num \in 0 .. LongMod - 1 /\ n = Number(item)
    /\ signed => InHalf(n, num)
    /\ ~ signed => num = n
DecAlike(item, d, signed, num, n) ==
    /\ SignOf(num, signed, FlagsFor(d)) = PrefixOf(item)
    /\ DigitsOf(num, signed) = InBase(IF n < 0 THEN -n ELSE n, 10, Digits)
    /\ n \in Int /\ (num = 0 <=> n = 0)
    /\ (signed /\ num = LongMod \div 2 <=> n = -(LongMod \div 2))
    /\ (n = -(LongMod \div 2) => PrefixOf(item) = <<"-">>)

\* print_dec_int prints a supported decimal number as C lays it out.
LEMMA DecAgrees ==
    ASSUME NEW item, NEW d, NEW signed, NEW num, NEW n, DecNumber(item, d, signed, num, n)
    PROVE  DecAlike(item, d, signed, num, n)
<1> d = item.dir /\ d.conv \in {"d", "i", "u"} /\ signed = (d.conv # "u") /\ num \in 0 .. LongMod - 1
    /\ n = Number(item) /\ (signed => InHalf(n, num)) /\ (~ signed => num = n)
  BY DEF DecNumber
<1>0. num \in 0 .. LongMod - 1
  OBVIOUS
<1>1. PICK h \in Nat \ {0} : LongMod = 2 * h
  BY Mods
<1>2. LongMod \in Nat \ {0} /\ LongMod \div 2 = h
  BY ONLY <1>1
<1>3. ASSUME signed PROVE n \in -h .. h - 1 /\ num = (IF n >= 0 THEN n ELSE n + LongMod)
  <2>1. InHalf(n, num)
    BY <1>3
  <2> QED
    BY ONLY <1>2, <2>1 DEF InHalf
<1>4. n \in Int /\ (num = 0 <=> n = 0)
  <2>1. CASE signed
    BY ONLY <1>1, <1>3, <2>1
  <2>2. CASE ~ signed
    <3>1. num = n
      BY <2>2
    <3> QED
      BY ONLY <1>1, <3>1, <1>0
  <2> QED
    BY <2>1, <2>2
<1>5. signed => Signed(num, LongMod) = n
  <2> SUFFICES ASSUME signed PROVE Signed(num, LongMod) = n
    OBVIOUS
  <2>1. num % LongMod = num
    BY ONLY <1>2, <1>0, ModSmall
  <2>2. Signed(num, LongMod) = IF num >= h THEN num - LongMod ELSE num
    BY ONLY <1>2, <2>1, Zenon DEF Signed
  <2> QED
    BY ONLY <1>1, <1>3, <2>2, signed, <1>0
<1>6. signed /\ Signed(num, LongMod) < 0 <=> n < 0
  <2>1. CASE signed
    BY <1>5, <2>1, Zenon
  <2>2. CASE ~ signed
    <3>1. num = n
      BY <2>2
    <3>2. ~ (n < 0)
      BY ONLY <1>1, <3>1, <1>0
    <3> QED
      BY ONLY <2>2, <3>2
  <2> QED
    BY <2>1, <2>2
<1>7. DigitsOf(num, signed) = InBase(IF n < 0 THEN -n ELSE n, 10, Digits)
  <2>1. DigitsOf(num, signed) = InBase(IF n < 0 THEN LongMod - num ELSE num, 10, Digits)
    BY ONLY <1>6, Zenon DEF DigitsOf
  <2>2. (IF n < 0 THEN LongMod - num ELSE num) = IF n < 0 THEN -n ELSE n
    <3>1. CASE signed
      BY ONLY <1>1, <1>3, <3>1
    <3>2. CASE ~ signed
      <4>1. num = n
        BY <3>2
      <4>2. ~ (n < 0)
        BY ONLY <1>6, <3>2
      <4> QED
        BY ONLY <4>1, <4>2
    <3> QED
      BY <3>1, <3>2
  <2> QED
    BY ONLY <2>1, <2>2, Zenon
<1> DEFINE plus  == "+" \in d.flags
           blank == " " \in d.flags
<1>8. SignOf(num, signed, FlagsFor(d)) = IF ~ signed THEN <<>> ELSE IF n < 0 THEN <<"-">>
                                         ELSE IF plus THEN <<"+">> ELSE IF blank THEN <<" ">> ELSE <<>>
  <2>1. FlagsFor(d).sign <=> plus
    BY DEF FlagsFor, FlagsOf
  <2>2. FlagsFor(d).spaceflag <=> blank
    <3>1. PICK c : c = " "
      BY Zenon
    <3>2. FlagsFor(d).spaceflag <=> c \in d.flags
      BY ONLY <3>1, SpaceAsked, Zenon
    <3> QED
      BY ONLY <3>1, <3>2, Zenon
  <2> HIDE DEF plus, blank
  <2> QED
    BY ONLY <1>6, <2>1, <2>2, Zenon DEF SignOf
<1>9. PrefixOf(item) = IF ~ signed THEN <<>> ELSE IF n < 0 THEN <<"-">>
                       ELSE IF plus THEN <<"+">> ELSE IF blank THEN <<" ">> ELSE <<>>
  <2> DEFINE c == item.dir.conv
             p == <<"0", IF c = "X" THEN "X" ELSE "x">>
             s == IF n < 0 THEN <<"-">> ELSE IF plus THEN <<"+">> ELSE IF blank THEN <<" ">> ELSE <<>>
             sharp == "#" \in item.dir.flags
  <2>1. PrefixOf(item) = CASE c \in {"d", "i"} -> s
                           [] c = "p" \/ (c \in {"x", "X"} /\ sharp /\ n # 0) -> p
                           [] OTHER -> <<>>
    BY Zenon DEF PrefixOf
  <2>2. CASE signed
    <3>1. c \in {"d", "i"} /\ c # "p" /\ c \notin {"x", "X"}
      BY <2>2
    <3> HIDE DEF c, p, s, sharp
    <3>2. PrefixOf(item) = s
      BY ONLY <2>1, <3>1
    <3> QED
      BY <2>2, <3>2, Zenon DEF s
  <2>3. CASE ~ signed
    <3>1. c \notin {"d", "i"} /\ c # "p" /\ c \notin {"x", "X"}
      BY <2>3
    <3> HIDE DEF c, p, s, sharp
    <3>2. PrefixOf(item) = <<>>
      BY ONLY <2>1, <3>1
    <3> QED
      BY <2>3, <3>2, Zenon
  <2> QED
    BY <2>2, <2>3
<1>10. signed /\ num = LongMod \div 2 <=> n = -(LongMod \div 2)
  <2>1. CASE signed
    BY ONLY <1>1, <1>2, <1>3, <2>1
  <2>2. CASE ~ signed
    <3>1. num = n
      BY <2>2
    <3>2. n # -(LongMod \div 2)
      BY ONLY <1>1, <1>2, <3>1, <1>0
    <3> QED
      BY ONLY <2>2, <3>2
  <2> QED
    BY <2>1, <2>2
<1>11. n = -(LongMod \div 2) => PrefixOf(item) = <<"-">>
  <2>1. n = -(LongMod \div 2) => n < 0
    BY ONLY <1>2
  <2> HIDE DEF plus, blank
  <2> QED
    BY ONLY <1>9, <1>10, <2>1, Zenon
<1>12. SignOf(num, signed, FlagsFor(d)) = PrefixOf(item)
  <2> DEFINE v == IF ~ signed THEN <<>> ELSE IF n < 0 THEN <<"-">>
                  ELSE IF plus THEN <<"+">> ELSE IF blank THEN <<" ">> ELSE <<>>
  <2>1. SignOf(num, signed, FlagsFor(d)) = v /\ PrefixOf(item) = v
    BY <1>8, <1>9
  <2> HIDE DEF v
  <2> QED
    BY ONLY <2>1
<1> QED
  BY ONLY <1>4, <1>7, <1>10, <1>11, <1>12, Zenon DEF DecAlike

\* What Supported asks of an integer conversion.
NoWidth(item)  == ~ (item.dir.prec = 0 /\ Number(item) = 0 /\ item.dir.width > 0)
\* What Supported says of each conversion.
LEMMA SupportedIs ==
    ASSUME NEW item, Supported(item), NEW c, c = item.dir.conv
    PROVE  /\ c \in {"s", "c", "n", "k", "%"} => item.dir.width = -1 /\ item.dir.prec = -1
           /\ c = "u" => (item.dir.long \/ Signed(item.word, IntMod) >= 0) /\ NoWidth(item)
           /\ c \in {"d", "i"} =>
                 /\ item.dir.prec # -1 => PrefixOf(item) = <<>>
                 /\ NoWidth(item)
                 /\ Number(item) = -(LongMod \div 2) =>
                        item.dir.width <= Len(Decimal(LongMod \div 2)) + 1
           /\ c = "p" => item.dir.prec # 0
           /\ c \in {"x", "X"} => NoWidth(item)
<1> DEFINE A == item.dir.width = -1 /\ item.dir.prec = -1
           U == (item.dir.long \/ Signed(item.word, IntMod) >= 0) /\ NoWidth(item)
           D == /\ item.dir.prec # -1 => PrefixOf(item) = <<>>
                /\ NoWidth(item)
                /\ Number(item) = -(LongMod \div 2) => item.dir.width <= Len(Decimal(LongMod \div 2)) + 1
           P == item.dir.prec # 0
           X == NoWidth(item)
<1>1. (CASE c \in {"s", "c", "n", "k", "%"} -> A [] c = "u" -> U [] c \in {"d", "i"} -> D
         [] c = "p" -> P [] OTHER -> X)
  BY Zenon DEF Supported, NoWidth
<1> HIDE DEF A, U, D, P, X
<1>2. c \in {"s", "c", "n", "k", "%"} => A
  BY ONLY <1>1
<1>3. c = "u" => U
  BY ONLY <1>1
<1>4. c \in {"d", "i"} => D
  BY ONLY <1>1
<1>5. c = "p" => P
  BY ONLY <1>1
<1>6. c \in {"x", "X"} => X
  BY ONLY <1>1
<1> QED
  BY ONLY <1>2, <1>3, <1>4, <1>5, <1>6, Zenon DEF A, U, D, P, X

\* %d, %i and %u print what C says, where they are supported.
LEMMA DecPrints ==
    ASSUME NEW item, NEW d, IsDirective(d), NEW signed, NEW num, NEW n, DecNumber(item, d, signed, num, n),
           Supported(item)
    PROVE  print_dec_int(num, signed, FlagsFor(d)) = NumberText(item)
<1> DEFINE flags  == FlagsFor(d)
           prefix == PrefixOf(item)
           t      == InBase(IF n < 0 THEN -n ELSE n, 10, Digits)
           nd     == NumberDigits(item)
<1> d = item.dir /\ d.conv \in {"d", "i", "u"} /\ signed = (d.conv # "u") /\ num \in 0 .. LongMod - 1
    /\ n = Number(item) /\ (~ signed => num = n)
  BY DEF DecNumber
<1>1. PICK h \in Nat \ {0} : LongMod = 2 * h
  BY Mods
<1>2. LongMod \div 2 = h
  BY ONLY <1>1
<1>3. /\ SignOf(num, signed, flags) = prefix /\ DigitsOf(num, signed) = t
      /\ n \in Int /\ (num = 0 <=> n = 0) /\ (signed /\ num = LongMod \div 2 <=> n = -(LongMod \div 2))
      /\ (n = -(LongMod \div 2) => prefix = <<"-">>)
  <2>1. DecAlike(item, d, signed, num, n)
    BY DecAgrees, Zenon
  <2> QED
    BY ONLY <2>1, Zenon DEF DecAlike
<1>4. prefix \in Seq(Inked) /\ t \in Seq(Inked) /\ Len(t) \in Nat \ {0}
  <2>1. /\ SignOf(num, signed, flags) \in Seq(Inked)
        /\ DigitsOf(num, signed) \in Seq(Inked) /\ Len(DigitsOf(num, signed)) \in Nat \ {0}
    BY DecIntParts, Zenon
  <2> HIDE DEF flags, prefix, t
  <2> QED
    BY ONLY <1>3, <2>1, Zenon
<1>5. PICK zero : zero = ("0" \in d.flags)
  OBVIOUS
<1>6. Asks(flags, zero, d.prec, d.width) /\ flags.prec = d.prec
  BY <1>5, FlagsAsk, Zenon DEF Asks
<1>7. NumberText(item) = Laid(zero, d.prec, d.width, prefix, nd)
  <2>1. zero = ("0" \in item.dir.flags)
    BY ONLY <1>5, d = item.dir
  <2>2. NumberText(item) = Laid(zero, item.dir.prec, item.dir.width, PrefixOf(item), NumberDigits(item))
    BY ONLY <2>1, NumberTextIs, Zenon
  <2> QED
    BY ONLY <2>2, d = item.dir, Zenon
<1>8. nd = IF d.prec = 0 /\ n = 0 THEN <<>> ELSE t
  <2>1. NumberDigits(item) =
            IF item.dir.prec = 0 /\ Number(item) = 0 THEN <<>>
            ELSE InBase(IF Number(item) < 0 THEN -Number(item) ELSE Number(item),
                        IF item.dir.conv \in {"d", "i", "u"} THEN 10 ELSE 16,
                        IF item.dir.conv = "X" THEN UpperDigits ELSE Digits)
    BY Zenon DEF NumberDigits
  <2>2. item.dir.conv \in {"d", "i", "u"} /\ item.dir.conv # "X"
    OBVIOUS
  <2> QED
    BY ONLY <2>1, <2>2, d = item.dir, n = Number(item), Zenon
<1>9. print_dec_int(num, signed, flags) =
          IF n = -h THEN <<"-">> \o InBase(num, 10, Digits)
          ELSE IF d.prec = 0 /\ n = 0 THEN <<>> ELSE DecText(flags, prefix, t, PrecOf(flags, flags.width))
  <2>1. print_dec_int(num, signed, flags) =
            IF signed /\ num = LongMod \div 2 THEN <<"-">> \o InBase(num, 10, Digits)
            ELSE IF flags.prec = 0 /\ num = 0 THEN <<>>
            ELSE DecText(flags, SignOf(num, signed, flags), DigitsOf(num, signed), PrecOf(flags, flags.width))
    BY DecIntIs, Zenon
  <2> HIDE DEF flags, prefix, t
  <2> QED
    BY ONLY <1>2, <1>3, <1>6, <2>1, Zenon
<1>10. /\ d.prec # -1 => prefix = <<>>
       /\ d.prec = 0 /\ n = 0 => ~ (d.width > 0)
       /\ n = -h => d.width <= Len(Decimal(h)) + 1
  <2>1. CASE signed
    <3>1. item.dir.conv \in {"d", "i"}
      BY <2>1
    <3>2. /\ item.dir.prec # -1 => PrefixOf(item) = <<>>
          /\ NoWidth(item)
          /\ Number(item) = -(LongMod \div 2) => item.dir.width <= Len(Decimal(LongMod \div 2)) + 1
      BY <3>1, SupportedIs, Zenon
    <3> QED
      BY ONLY <1>2, <3>2, d = item.dir, n = Number(item), Zenon DEF NoWidth
  <2>2. CASE ~ signed
    <3>1. item.dir.conv = "u"
      BY <2>2
    <3>2. NoWidth(item)
      BY <3>1, SupportedIs, Zenon
    <3>3. prefix = <<>>
      <4>1. SignOf(num, signed, flags) = <<>>
        BY ONLY <2>2, Zenon DEF SignOf
      <4> QED
        BY ONLY <1>3, <4>1, Zenon
    <3>4. n # -h
      <4>1. n = num
        BY <2>2
      <4> QED
        BY ONLY <1>1, <4>1, num \in 0 .. LongMod - 1
    <3> QED
      BY ONLY <3>2, <3>3, <3>4, d = item.dir, n = Number(item), Zenon DEF NoWidth
  <2> QED
    BY <2>1, <2>2
<1>11. d.width \in {-1} \cup (Nat \ {0}) /\ d.prec \in {-1} \cup Nat
  BY <1>6, Zenon DEF Asks
<1> HIDE DEF flags, prefix, t, nd
<1>12. CASE n = -h
  <2>1. prefix = <<"-">> /\ d.prec = -1
    <3>1. prefix = <<"-">>
      BY ONLY <1>2, <1>3, <1>12, Zenon
    <3>2. <<"-">> # <<>>
      OBVIOUS
    <3> QED
      BY ONLY <1>10, <3>1, <3>2, Zenon
  <2>2. num = h /\ n < 0 /\ -n = h /\ n # 0
    BY ONLY <1>1, <1>2, <1>3, <1>12
  <2>3. t = Decimal(h) /\ InBase(num, 10, Digits) = Decimal(h)
    BY ONLY <2>2, Zenon DEF t, Decimal
  <2>4. d.width - Len(prefix) - Len(t) <= 0 /\ d.width \in Int
    <3>1. Len(prefix) = 1
      BY ONLY <2>1
    <3> QED
      BY ONLY <1>4, <1>10, <1>11, <1>12, <2>3, <3>1
  <2>5. Laid(zero, -1, d.width, prefix, t) = prefix \o t
    BY ONLY <1>4, <2>4, LaidTight, Zenon
  <2> QED
    BY <1>7, <1>8, <1>9, <1>12, <2>1, <2>2, <2>3, <2>5, Zenon DEF flags
<1>13. CASE n # -h /\ d.prec = 0 /\ n = 0
  <2>1. d.width = -1 /\ prefix = <<>> /\ d.prec # -1
    <3>1. d.width = -1 /\ d.prec # -1
      BY ONLY <1>10, <1>11, <1>13
    <3> QED
      BY ONLY <1>10, <3>1, Zenon
  <2> QED
    BY <1>7, <1>8, <1>9, <1>13, <2>1, LaidEmpty, Zenon DEF flags
<1>14. CASE n # -h /\ ~ (d.prec = 0 /\ n = 0)
  <2>1. DecText(flags, prefix, t, PrecOf(flags, flags.width)) = Laid(zero, d.prec, d.width, prefix, t)
    <3>1. DecText(flags, prefix, t, PrecOf(flags, flags.width))
          = HexPads(flags, prefix, t, PrecOf(flags, flags.width - Len(prefix)))
      BY ONLY <1>4, <1>6, <1>10, DecAsHex
    <3>2. HexPads(flags, prefix, t, PrecOf(flags, flags.width - Len(prefix)))
          = Laid(zero, d.prec, d.width, prefix, t)
      BY ONLY <1>4, <1>6, Layout
    <3> QED
      BY ONLY <3>1, <3>2
  <2> QED
    BY <1>7, <1>8, <1>9, <1>14, <2>1, Zenon DEF flags
<1> QED
  BY <1>12, <1>13, <1>14

\* %x, %X and %p print what C says, where they are supported.
LEMMA HexPrints ==
    ASSUME NEW item, NEW d, d = item.dir, IsDirective(d), NEW c, c = d.conv, c \in {"x", "X", "p"},
           NEW num \in 0 .. LongMod - 1, num = Number(item), Supported(item)
    PROVE  HexText(c, num, FlagsFor(d)) = NumberText(item)
<1> DEFINE flags  == FlagsFor(d)
           prefix == PrefixOf(item)
           t      == HexDigits(c, num)
           nd     == NumberDigits(item)
<1>1. num \in Nat
  BY Mods
<1>2. prefix = PrefixFor(c, num, flags)
  <2> DEFINE p == <<"0", IF c = "X" THEN "X" ELSE "x">>
             s == IF num < 0 THEN <<"-">> ELSE IF "+" \in d.flags THEN <<"+">>
                  ELSE IF " " \in d.flags THEN <<" ">> ELSE <<>>
             sharp == "#" \in d.flags
  <2>1. PrefixOf(item) = CASE c \in {"d", "i"} -> s
                           [] c = "p" \/ (c \in {"x", "X"} /\ sharp /\ num # 0) -> p
                           [] OTHER -> <<>>
    BY Zenon DEF PrefixOf
  <2>2. flags.sharpflag <=> sharp
    BY DEF FlagsFor, FlagsOf
  <2>3. PrefixFor(c, num, flags) = IF c = "p" \/ (sharp /\ num # 0) THEN p ELSE <<>>
    <3> HIDE DEF sharp, flags
    <3> QED
      BY <2>2, Zenon DEF PrefixFor
  <2> HIDE DEF p, s, sharp, flags
  <2>4. (CASE c \in {"d", "i"} -> s
           [] c = "p" \/ (c \in {"x", "X"} /\ sharp /\ num # 0) -> p
           [] OTHER -> <<>>) = IF c = "p" \/ (sharp /\ num # 0) THEN p ELSE <<>>
    BY ONLY c \in {"x", "X", "p"}
  <2> QED
    BY <2>1, <2>3, <2>4, Zenon
<1>3. prefix \in Seq(Inked) /\ t \in Seq(Inked)
  BY ONLY <1>1, <1>2, HexParts, Zenon
<1>5. PICK zero : zero = ("0" \in d.flags)
  OBVIOUS
<1>6. Asks(flags, zero, d.prec, d.width) /\ flags.prec = d.prec
  BY <1>5, FlagsAsk, Zenon DEF Asks
<1>7. NumberText(item) = Laid(zero, d.prec, d.width, prefix, nd)
  <2>1. zero = ("0" \in item.dir.flags)
    BY ONLY <1>5, d = item.dir
  <2>2. NumberText(item) = Laid(zero, item.dir.prec, item.dir.width, PrefixOf(item), NumberDigits(item))
    BY ONLY <2>1, NumberTextIs, Zenon
  <2> QED
    BY ONLY <2>2, d = item.dir, Zenon
<1>8. nd = IF d.prec = 0 /\ num = 0 THEN <<>> ELSE t
  <2>1. NumberDigits(item) =
            IF item.dir.prec = 0 /\ Number(item) = 0 THEN <<>>
            ELSE InBase(IF Number(item) < 0 THEN -Number(item) ELSE Number(item),
                        IF item.dir.conv \in {"d", "i", "u"} THEN 10 ELSE 16,
                        IF item.dir.conv = "X" THEN UpperDigits ELSE Digits)
    BY Zenon DEF NumberDigits
  <2>2. item.dir.conv \notin {"d", "i", "u"} /\ ~ (num < 0)
    BY <1>1
  <2> QED
    BY ONLY <2>1, <2>2, c = d.conv, d = item.dir, num = Number(item), Zenon DEF HexDigits
<1>9. HexText(c, num, flags) =
          IF d.prec = 0 /\ num = 0 /\ c # "p" THEN <<>>
          ELSE HexPads(flags, prefix, t, PrecOf(flags, flags.width - Len(prefix)))
  BY ONLY <1>2, <1>6, HexTextIs, Zenon
<1>10. /\ d.prec = 0 => c # "p"
       /\ d.prec = 0 /\ num = 0 => ~ (d.width > 0) /\ prefix = <<>>
  <2>0. c = item.dir.conv
    OBVIOUS
  <2>1. c = "p" => d.prec # 0
    BY ONLY <2>0, Supported(item), d = item.dir, SupportedIs, Zenon
  <2>2. c \in {"x", "X"} => NoWidth(item)
    BY ONLY <2>0, Supported(item), SupportedIs, Zenon
  <2>3. c # "p" /\ num = 0 => prefix = <<>>
    BY ONLY <1>2, Zenon DEF PrefixFor
  <2>4. c # "p" => c \in {"x", "X"}
    OBVIOUS
  <2> QED
    BY ONLY <2>1, <2>2, <2>3, <2>4, d = item.dir, num = Number(item), Zenon DEF NoWidth
<1>11. d.width \in {-1} \cup (Nat \ {0}) /\ d.prec \in {-1} \cup Nat
  BY <1>6, Zenon DEF Asks
<1> HIDE DEF flags, prefix, t, nd
<1>12. CASE d.prec = 0 /\ num = 0
  <2>1. d.width = -1
    BY ONLY <1>10, <1>11, <1>12
  <2> QED
    BY <1>7, <1>8, <1>9, <1>10, <1>12, <2>1, LaidEmpty, Zenon DEF flags
<1>13. CASE ~ (d.prec = 0 /\ num = 0)
  <2>1. HexPads(flags, prefix, t, PrecOf(flags, flags.width - Len(prefix)))
        = Laid(zero, d.prec, d.width, prefix, t)
    BY ONLY <1>3, <1>6, Layout
  <2> QED
    BY <1>7, <1>8, <1>9, <1>13, <2>1, Zenon DEF flags
<1> QED
  BY <1>12, <1>13

\* What C prints for each conversion.
LEMMA ExpectedIs ==
    ASSUME NEW item, NEW c, c = item.dir.conv
    PROVE  /\ c = "s" => Expected(item) = puts_wo_nl(item)
           /\ c = "c" => Expected(item) = <<item.text[1]>>
           /\ c = "n" => Expected(item) = <<>>
           /\ c \in {"k", "%"} => Expected(item) = <<c>>
           /\ c \in {"d", "i", "u", "x", "X", "p"} => Expected(item) = NumberText(item)
<1> DEFINE S == IF item.null THEN NullText ELSE item.text
           C == <<item.text[1]>>
           K == <<item.dir.conv>>
           N == NumberText(item)
           E == <<>>
<1>1. Expected(item) = CASE c = "s" -> S [] c = "c" -> C [] c = "n" -> E [] c \in {"k", "%"} -> K [] OTHER -> N
  BY Zenon DEF Expected
<1>2. S = puts_wo_nl(item) /\ K = <<c>>
  BY Zenon DEF puts_wo_nl
<1> HIDE DEF S, C, K, N, E
<1>3. c = "s" => Expected(item) = S
  BY ONLY <1>1
<1>4. c = "c" => Expected(item) = C
  BY ONLY <1>1
<1>5. c = "n" => Expected(item) = E
  BY ONLY <1>1
<1>6. c \in {"k", "%"} => Expected(item) = K
  BY ONLY <1>1
<1>7. c \in {"d", "i", "u", "x", "X", "p"} => Expected(item) = N
  BY ONLY <1>1
<1> QED
  BY ONLY <1>2, <1>3, <1>4, <1>5, <1>6, <1>7, Zenon DEF C, N, E

\* What c is converted from, and into.
Sees(c, m, args, num, flags, signed, a) ==
    /\ num = NumOf(c, m, args) /\ flags = m.flags /\ signed = (c # "u")
    /\ c # "%" => a = args[m.used + 1]
Becomes(c, text, num, flags, signed, a) ==
    /\ c \in {"x", "X", "p"} => text = HexText(c, num, flags)
    /\ c \in {"d", "i", "u"} => text = print_dec_int(num, signed, flags)
    /\ c = "s" => text = puts_wo_nl(a)
    /\ c = "c" => text = <<a.text[1]>>
    /\ c = "n" => text = <<>>
    /\ c = "%" => text = <<c>>
\* What the conversion character makes of the argument, conversion by conversion.
LEMMA ConvertedIs ==
    ASSUME NEW c, NEW m, NEW args, NEW num, NEW flags, NEW signed, NEW a,
           Sees(c, m, args, num, flags, signed, a)
    PROVE  Becomes(c, Converted(c, m, args), num, flags, signed, a)
<1> DEFINE X == HexText(c, NumOf(c, m, args), m.flags)
           D == print_dec_int(NumOf(c, m, args), c # "u", m.flags)
           S == puts_wo_nl(args[m.used + 1])
           C == <<args[m.used + 1].text[1]>>
           E == <<>>
           O == <<c>>
<1>1. Converted(c, m, args) = CASE c \in {"x", "X", "p"} -> X [] c \in {"d", "i", "u"} -> D
                                [] c = "s" -> S [] c = "c" -> C [] c = "n" -> E [] OTHER -> O
  BY Zenon DEF Converted
<1>2. D = print_dec_int(num, signed, flags) /\ X = HexText(c, num, flags) /\ E = <<>> /\ O = <<c>>
  BY DEF Sees
<1>3. c # "%" => S = puts_wo_nl(a) /\ C = <<a.text[1]>>
  BY DEF Sees
<1> HIDE DEF X, D, S, C, E, O
<1>4. /\ c \in {"x", "X", "p"} => Converted(c, m, args) = X
      /\ c \in {"d", "i", "u"} => Converted(c, m, args) = D
      /\ c = "s" => Converted(c, m, args) = S
      /\ c = "c" => Converted(c, m, args) = C
      /\ c = "n" => Converted(c, m, args) = E
      /\ c = "%" => Converted(c, m, args) = O
  BY ONLY <1>1
<1>5. c = "s" => Converted(c, m, args) = puts_wo_nl(a)
  <2>1. c = "s" => c # "%"
    OBVIOUS
  <2> QED
    BY ONLY <1>3, <1>4, <2>1, Zenon
<1>6. c = "c" => Converted(c, m, args) = <<a.text[1]>>
  <2>1. c = "c" => c # "%"
    OBVIOUS
  <2> QED
    BY ONLY <1>3, <1>4, <2>1, Zenon
<1> QED
  BY ONLY <1>2, <1>4, <1>5, <1>6, Zenon DEF Becomes

\* An argument of an item.
ItemArgs == [word : 0 .. LongMod - 1, text : Seq(Inked) \ {<<>>}, null : BOOLEAN]
Argument(item) == [word |-> item.word, text |-> item.text, null |-> item.null]

\* The texts that %s and %c print are texts.
LEMMA TextsInked ==
    ASSUME NEW a, a.text \in Seq(Inked) \ {<<>>}, a.null \in BOOLEAN
    PROVE  puts_wo_nl(a) \in Seq(Inked) /\ <<a.text[1]>> \in Seq(Inked)
<1>1. NullText \in Seq(Inked)
  <2>1. "(" \in Inked /\ "n" \in Inked /\ "u" \in Inked /\ "l" \in Inked /\ ")" \in Inked
    BY DEF Inked, Ink
  <2> QED
    BY ONLY <2>1 DEF NullText
<1>2. puts_wo_nl(a) \in {NullText, a.text}
  BY Zenon DEF puts_wo_nl
<1>3. a.text[1] \in Inked
  <2> DEFINE t == a.text
  <2>1. t \in Seq(Inked) /\ t # <<>>
    OBVIOUS
  <2> HIDE DEF t
  <2>2. 1 \in 1 .. Len(t)
    BY ONLY <2>1
  <2>3. t[1] \in Inked
    BY ONLY <2>1, <2>2, ElementOfSeq
  <2> QED
    BY <2>3 DEF t
<1>4. <<a.text[1]>> \in Seq(Inked)
  BY ONLY <1>3, ShortTexts
<1> QED
  BY <1>1, <1>2, <1>4

\* What an item's directive is read as: c converted with argument a.
ItemAt(item, d, c, m, args, num, flags, signed, long) ==
    /\ d = item.dir /\ IsDirective(d) /\ c = d.conv /\ c \in Conversions
    /\ item.word \in 0 .. LongMod - 1 /\ item.text \in Seq(Inked) \ {<<>>} /\ item.null \in BOOLEAN
    /\ flags = m.flags /\ flags = FlagsFor(d) /\ flags.width \in Int /\ flags.prec \in Int
    /\ num = NumOf(c, m, args) /\ Either(long) /\ item.dir.long = long /\ flags.longflag = long
    /\ signed = (c # "u")
    /\ c # "%" => args[m.used + 1] = Argument(item)

Prints(item, c, text) == text \in Seq(Inked) /\ (Supported(item) => text = Expected(item))

\* The number that an integer conversion sees is the number of its item.
LEMMA ItemNumber ==
    ASSUME NEW item, NEW d, NEW c, NEW m, NEW args, NEW num, NEW flags, NEW signed, NEW long,
           ItemAt(item, d, c, m, args, num, flags, signed, long), c \in {"d", "i", "u", "x", "X", "p"}
    PROVE  /\ c \in {"d", "i"} => InHalf(Number(item), num)
           /\ c = "u" /\ (long \/ Signed(item.word, IntMod) >= 0) => num = Number(item)
           /\ c \in {"x", "X", "p"} => num = Number(item)
           /\ num \in 0 .. LongMod - 1
<1>1. /\ item.word \in 0 .. LongMod - 1 /\ item.dir.long = long /\ m.flags.longflag = long
      /\ item.dir.conv = c /\ num = NumOf(c, m, args)
  BY Zenon DEF ItemAt
<1>2. long \in BOOLEAN
  BY Zenon DEF ItemAt, Either
<1>3. c # "%"
  OBVIOUS
<1>4. args[m.used + 1] = Argument(item)
  BY ONLY <1>3, ItemAt(item, d, c, m, args, num, flags, signed, long), Zenon DEF ItemAt
<1>5. args[m.used + 1].word = item.word
  BY ONLY <1>4 DEF Argument
<1> QED
  BY ONLY <1>1, <1>2, <1>5, NumbersAgree

\* %x, %X and %p print what C says.
LEMMA HexPrinted ==
    ASSUME NEW item, NEW d, NEW c, NEW m, NEW args, NEW num, NEW flags, NEW signed, NEW long,
           ItemAt(item, d, c, m, args, num, flags, signed, long), c \in {"x", "X", "p"}
    PROVE  Prints(item, c, HexText(c, num, flags))
<1>1. num = Number(item) /\ num \in 0 .. LongMod - 1
  BY ItemNumber
<1>2. num \in Nat
  <2>1. LongMod \in Nat
    BY Mods
  <2> QED
    BY ONLY <1>1, <2>1
<1>3. d = item.dir /\ IsDirective(d) /\ c = d.conv /\ flags = FlagsFor(d)
      /\ flags.width \in Int /\ flags.prec \in Int
  BY Zenon DEF ItemAt
<1>4. HexText(c, num, flags) \in Seq(Inked)
  BY ONLY <1>2, <1>3, HexIsText, Zenon
<1>5. Supported(item) => HexText(c, num, flags) = NumberText(item)
  BY ONLY <1>1, <1>3, c \in {"x", "X", "p"}, HexPrints, Zenon
<1>6. Expected(item) = NumberText(item)
  <2>1. c = item.dir.conv /\ c \in {"d", "i", "u", "x", "X", "p"}
    BY <1>3
  <2> QED
    BY ONLY <2>1, ExpectedIs, Zenon
<1> QED
  BY ONLY <1>4, <1>5, <1>6, Zenon DEF Prints

\* %d, %i and %u print what C says.
LEMMA DecPrinted ==
    ASSUME NEW item, NEW d, NEW c, NEW m, NEW args, NEW num, NEW flags, NEW signed, NEW long,
           ItemAt(item, d, c, m, args, num, flags, signed, long), c \in {"d", "i", "u"}
    PROVE  Prints(item, c, print_dec_int(num, signed, flags))
<1> DEFINE n == Number(item)
<1>1. /\ c \in {"d", "i"} => InHalf(n, num)
      /\ c = "u" /\ (long \/ Signed(item.word, IntMod) >= 0) => num = n
      /\ num \in 0 .. LongMod - 1
  BY ItemNumber
<1>3. d = item.dir /\ IsDirective(d) /\ c = d.conv /\ flags = FlagsFor(d)
      /\ flags.width \in Int /\ flags.prec \in Int /\ signed = (c # "u") /\ item.dir.long = long
  BY Zenon DEF ItemAt
<1>4. print_dec_int(num, signed, flags) \in Seq(Inked)
  BY ONLY <1>1, <1>3, DecIntText, Zenon
<1>5. ASSUME Supported(item) PROVE print_dec_int(num, signed, flags) = NumberText(item)
  <2>1. signed => InHalf(n, num)
    <3>1. signed => c \in {"d", "i"}
      BY ONLY <1>3, c \in {"d", "i", "u"}
    <3> QED
      BY ONLY <1>1, <3>1, Zenon
  <2>2. ~ signed => num = n
    <3>1. ~ signed => c = "u"
      BY ONLY <1>3
    <3>2. c = "u" => (long \/ Signed(item.word, IntMod) >= 0)
      <4>1. c = "u" => (item.dir.long \/ Signed(item.word, IntMod) >= 0)
        <5>1. c = item.dir.conv
          BY <1>3
        <5> QED
          BY <5>1, <1>5, SupportedIs
      <4> QED
        BY ONLY <1>3, <4>1
    <3> QED
      BY ONLY <1>1, <3>1, <3>2, Zenon
  <2>3. DecNumber(item, d, signed, num, n)
    <3>1. d = item.dir /\ d.conv \in {"d", "i", "u"} /\ n = Number(item) /\ signed = (d.conv # "u")
      BY <1>3
    <3> HIDE DEF n
    <3> QED
      BY ONLY <1>1, <2>1, <2>2, <3>1 DEF DecNumber
  <2> QED
    BY ONLY <1>3, <1>5, <2>3, DecPrints, Zenon
<1>6. Expected(item) = NumberText(item)
  <2>1. c = item.dir.conv /\ c \in {"d", "i", "u", "x", "X", "p"}
    BY <1>3
  <2> QED
    BY ONLY <2>1, ExpectedIs, Zenon
<1> QED
  BY ONLY <1>4, <1>5, <1>6, Zenon DEF Prints

\* %s and %c print what C says.
LEMMA TextPrinted ==
    ASSUME NEW item, NEW c, c = item.dir.conv, item.text \in Seq(Inked) \ {<<>>}, item.null \in BOOLEAN,
           NEW a, a = Argument(item)
    PROVE  /\ c = "s" => Prints(item, c, puts_wo_nl(a))
           /\ c = "c" => Prints(item, c, <<a.text[1]>>)
           /\ c = "n" => Prints(item, c, <<>>)
           /\ c \in {"k", "%"} => Prints(item, c, <<c>>)
<1>1. a.text = item.text /\ a.null = item.null
  BY DEF Argument
<1>2. puts_wo_nl(a) = puts_wo_nl(item)
  BY ONLY <1>1, Zenon DEF puts_wo_nl
<1>3. puts_wo_nl(a) \in Seq(Inked) /\ <<a.text[1]>> \in Seq(Inked)
  BY <1>1, TextsInked, Zenon
<1>4. <<>> \in Seq(Inked)
  BY SignText, Zenon
<1>5. c \in {"k", "%"} => <<c>> \in Seq(Inked)
  <2>1. c \in {"k", "%"} => c \in FormatChars
    BY ONLY TRUE DEF FormatChars, Conversions
  <2>2. FormatChars \subseteq Inked
    BY ONLY TRUE, Zenon DEF Inked
  <2> QED
    BY ONLY <2>1, <2>2, ShortTexts
<1>6. /\ c = "s" => Expected(item) = puts_wo_nl(item)
      /\ c = "c" => Expected(item) = <<item.text[1]>>
      /\ c = "n" => Expected(item) = <<>>
      /\ c \in {"k", "%"} => Expected(item) = <<c>>
  BY ExpectedIs, Zenon
<1> QED
  BY ONLY <1>1, <1>2, <1>3, <1>4, <1>5, <1>6, Zenon DEF Prints

\* What vprintfmt prints for an item is what C says.
LEMMA ItemPrinted ==
    ASSUME NEW item, NEW d, d = item.dir, IsDirective(d), Argument(item) \in ItemArgs,
           NEW m, m.flags = FlagsFor(d), NEW args, d.conv # "%" => args[m.used + 1] = Argument(item)
    PROVE  Prints(item, d.conv, Converted(d.conv, m, args))
<1>0. PICK c : c = d.conv
  OBVIOUS
<1>1. PICK num : num = NumOf(c, m, args)
  OBVIOUS
<1>2. PICK flags : flags = m.flags
  OBVIOUS
<1>3. PICK signed : signed = (c # "u")
  OBVIOUS
<1>4. PICK long : long = d.long
  OBVIOUS
<1>5. /\ item.word \in 0 .. LongMod - 1 /\ item.text \in Seq(Inked) \ {<<>>} /\ item.null \in BOOLEAN
  BY DEF Argument, ItemArgs
<1>6. ItemAt(item, d, c, m, args, num, flags, signed, long)
  <2>1. c \in Conversions /\ d.long \in BOOLEAN
    BY <1>0, Zenon DEF IsDirective
  <2>2. FlagsFor(d).longflag = d.long
    BY DEF FlagsFor, FlagsOf
  <2>3. flags.width \in Int /\ flags.prec \in Int
    <3>1. FlagsFor(d).width \in Int /\ FlagsFor(d).prec \in Int
      <4>1. PICK zero : zero = ("0" \in d.flags)
        OBVIOUS
      <4> QED
        BY ONLY <4>1, IsDirective(d), FlagsAsk, Zenon
    <3> QED
      BY ONLY <3>1, <1>2, m.flags = FlagsFor(d), Zenon
  <2>4. item.dir.long = long /\ flags.longflag = long /\ Either(long)
    BY <1>2, <1>4, <2>1, <2>2, Zenon DEF Either
  <2> QED
    BY <1>0, <1>1, <1>2, <1>3, <1>5, <2>1, <2>3, <2>4, Zenon DEF ItemAt
<1>7. PICK a : a = Argument(item)
  OBVIOUS
<1>8. c # "%" => a = args[m.used + 1]
  BY <1>0, <1>7, Zenon
<1>9. PICK text : text = Converted(c, m, args)
  OBVIOUS
<1>10. /\ c \in {"x", "X", "p"} => text = HexText(c, num, flags)
       /\ c \in {"d", "i", "u"} => text = print_dec_int(num, signed, flags)
       /\ c = "s" => text = puts_wo_nl(a)
       /\ c = "c" => text = <<a.text[1]>>
       /\ c = "n" => text = <<>>
       /\ c = "%" => text = <<c>>
  <2>1. Sees(c, m, args, num, flags, signed, a)
    BY ONLY <1>1, <1>2, <1>3, <1>8, Zenon DEF Sees
  <2>2. Becomes(c, Converted(c, m, args), num, flags, signed, a)
    BY ONLY <2>1, ConvertedIs, Zenon
  <2> QED
    BY ONLY <1>9, <2>2, Zenon DEF Becomes
<1>11. c = item.dir.conv
  BY <1>0, Zenon
<1>12. c \in {"x", "X", "p"} => Prints(item, c, text)
  BY ONLY <1>6, <1>10, HexPrinted, Zenon
<1>13. c \in {"d", "i", "u"} => Prints(item, c, text)
  BY ONLY <1>6, <1>10, DecPrinted, Zenon
<1>14. /\ c = "s" => Prints(item, c, text)
       /\ c = "c" => Prints(item, c, text)
       /\ c = "n" => Prints(item, c, text)
  BY ONLY <1>5, <1>7, <1>10, <1>11, TextPrinted, Zenon
<1>15. c = "%" => Prints(item, c, text)
  BY ONLY <1>5, <1>7, <1>10, <1>11, TextPrinted
<1>16. c \in {"d", "i", "u", "x", "X", "p", "s", "c", "n", "%"}
  BY <1>6 DEF ItemAt, Conversions
<1>17. Prints(item, c, text)
  BY ONLY <1>12, <1>13, <1>14, <1>15, <1>16
<1> QED
  BY ONLY <1>0, <1>9, <1>17, Zenon

-----------------------------------------------------------------------------
(* From item to item.                                                      *)

\* An item of a format, its spelling and its arguments.
IsItem(item) ==
    /\ Argument(item) \in ItemArgs
    /\ \/ item.dir.conv = "k" /\ item.dir.star = FALSE
       \/ IsDirective(item.dir)

\* A directive is spelled as a text that is not empty.
LEMMA SpellText ==
    ASSUME NEW item, IsItem(item), NEW d, d = item.dir
    PROVE  Spell(d) \in Seq(FormatChars) /\ Len(Spell(d)) \in Nat \ {0} /\ Spell(d) \in Seq(Inked)
<1> DEFINE a1 == <<"%">>
           a2 == Given("#", "#" \in d.flags)
           a3 == Given("0", "0" \in d.flags)
           a4 == Given("+", "+" \in d.flags)
           a5 == Given(" ", " " \in d.flags)
           a6 == WidthText(d)
           a7 == PrecText(d)
           a8 == Given("l", d.long)
           a9 == <<d.conv>>
           b2 == a1 \o a2
           b3 == b2 \o a3
           b4 == b3 \o a4
           b5 == b4 \o a5
           b6 == b5 \o a6
           b7 == b6 \o a7
           b8 == b7 \o a8
           b9 == b8 \o a9
<1>1. CASE d.conv = "k"
  <2>1. Spell(d) = <<"k">>
    BY <1>1, Zenon DEF Spell
  <2>2. "k" \in FormatChars /\ "k" \in Inked
    BY InkIsInked DEF FormatChars
  <2> QED
    BY ONLY <2>1, <2>2, ShortTexts
<1>2. CASE IsDirective(d)
  <2>1. /\ a1 \in Seq(FormatChars) /\ a2 \in Seq(FormatChars) /\ a3 \in Seq(FormatChars)
        /\ a4 \in Seq(FormatChars) /\ a5 \in Seq(FormatChars) /\ a6 \in Seq(FormatChars)
        /\ a7 \in Seq(FormatChars) /\ a8 \in Seq(FormatChars) /\ a9 \in Seq(FormatChars)
    BY <1>2, PieceTypes
  <2>2. Spell(d) = b9
    <3>1. d.conv # "k"
      <4>1. d.conv \in Conversions
        BY <1>2, Zenon DEF IsDirective
      <4> QED
        BY ONLY <4>1 DEF Conversions
    <3> QED
      BY <3>1, Zenon DEF Spell, WidthText, PrecText
  <2>3. Len(a9) = 1
    OBVIOUS
  <2> HIDE DEF a1, a2, a3, a4, a5, a6, a7, a8, a9
  <2>4. b5 \in Seq(FormatChars)
    <3>1. b2 \in Seq(FormatChars)
      BY ONLY <2>1, Joined
    <3> HIDE DEF b2
    <3>2. b3 \in Seq(FormatChars)
      BY ONLY <2>1, <3>1, Joined
    <3> HIDE DEF b3
    <3>3. b4 \in Seq(FormatChars)
      BY ONLY <2>1, <3>2, Joined
    <3> HIDE DEF b4
    <3> QED
      BY ONLY <2>1, <3>3, Joined
  <2> HIDE DEF b5
  <2>5. b8 \in Seq(FormatChars)
    <3>1. b6 \in Seq(FormatChars)
      BY ONLY <2>1, <2>4, Joined
    <3> HIDE DEF b6
    <3>2. b7 \in Seq(FormatChars)
      BY ONLY <2>1, <3>1, Joined
    <3> HIDE DEF b7
    <3> QED
      BY ONLY <2>1, <3>2, Joined
  <2> HIDE DEF b8
  <2>6. b9 \in Seq(FormatChars) /\ Len(b9) \in Nat \ {0}
    <3>1. b9 \in Seq(FormatChars) /\ Len(b8) \in Nat /\ Len(b9) = Len(b8) + Len(a9)
      BY ONLY <2>1, <2>5, Joined
    <3> HIDE DEF b9
    <3> QED
      BY ONLY <2>3, <3>1
  <2>7. FormatChars \subseteq Inked
    BY InkIsInked
  <2> HIDE DEF b9
  <2> QED
    BY ONLY <2>2, <2>6, <2>7
<1>3. d.conv = "k" \/ IsDirective(d)
  BY Zenon DEF IsItem
<1> QED
  BY ONLY <1>1, <1>2, <1>3, Zenon

\* Two elements, one behind the other.
LEMMA PairIs ==
    ASSUME NEW u, NEW v
    PROVE  <<u>> \o <<v>> = <<u, v>>
<1> DEFINE S == {u, v}
           a == <<u>>
           b == <<v>>
           c == a \o b
           e == <<u, v>>
<1>1. a \in Seq(S) /\ b \in Seq(S) /\ e \in Seq(S) /\ Len(a) = 1 /\ Len(b) = 1 /\ Len(e) = 2
      /\ a[1] = u /\ b[1] = v /\ e[1] = u /\ e[2] = v
  OBVIOUS
<1> HIDE DEF S, a, b, e
<1>2. c \in Seq(S) /\ Len(c) = 2 /\ \A i \in 1 .. 1 + 1 : c[i] = IF i <= 1 THEN a[i] ELSE b[i - 1]
  BY ONLY <1>1, ConcatProperties
<1> HIDE DEF c
<1>3. \A i \in 1 .. Len(c) : c[i] = e[i]
  BY ONLY <1>1, <1>2
<1>4. c = e
  BY ONLY <1>1, <1>2, <1>3, SeqEqual
<1> QED
  BY <1>4 DEF c, e, a, b

\* The word that a width takes comes first, then the argument itself.
LEMMA ArgumentsAre ==
    ASSUME NEW item, IsItem(item), NEW d, d = item.dir, NEW a, a = Argument(item), NEW x, x = Arguments(item)
    PROVE  /\ d.conv = "k" => Len(x) = 0
           /\ IsDirective(d) =>
                 /\ Len(x) = (IF d.star THEN 1 ELSE 0) + (IF d.conv = "%" THEN 0 ELSE 1)
                 /\ d.star => x[1].word = d.width
                 /\ d.conv # "%" => x[(IF d.star THEN 1 ELSE 0) + 1] = a
           /\ x \in Seq(ItemArgs)
<1> DEFINE w == [a EXCEPT !.word = d.width]
           s == IF d.star THEN <<w>> ELSE <<>>
           r == IF d.conv \in {"k", "%"} THEN <<>> ELSE <<a>>
<1>1. x = s \o r
  BY DEF Arguments, Argument
<1>2. a \in ItemArgs
  BY Zenon DEF IsItem
<1>3. d.star = FALSE \/ IsDirective(d)
  BY Zenon DEF IsItem
<1>4. d.star => w \in ItemArgs /\ w.word = d.width
  <2> SUFFICES ASSUME d.star PROVE w \in ItemArgs /\ w.word = d.width
    OBVIOUS
  <2>1. d.width \in 1 .. (IntMod \div 2) - 1
    BY <1>3, Zenon DEF IsDirective
  <2>2. PICK k \in Nat \ {0}, h \in Nat \ {0} : IntMod = 2 * k /\ LongMod = 2 * h /\ k <= h
    BY Mods
  <2>3. d.width \in 0 .. LongMod - 1
    <3>1. IntMod \div 2 = k
      BY ONLY <2>2
    <3> QED
      BY ONLY <2>1, <2>2, <3>1
  <2> QED
    BY ONLY <1>2, <2>3 DEF ItemArgs
<1>5. d.star \in BOOLEAN
  BY <1>3, Zenon DEF IsDirective
<1>6. d.conv = "k" => d.star = FALSE
  <2>1. IsDirective(d) => d.conv \in Conversions
    BY Zenon DEF IsDirective
  <2>2. "k" \notin Conversions
    BY DEF Conversions
  <2> QED
    BY <2>1, <2>2, Zenon DEF IsItem
<1>7. IsDirective(d) => d.conv # "k"
  <2>1. IsDirective(d) => d.conv \in Conversions
    BY Zenon DEF IsDirective
  <2>2. "k" \notin Conversions
    BY DEF Conversions
  <2> QED
    BY <2>1, <2>2, Zenon
<1> HIDE DEF w
<1>8. x \in Seq(ItemArgs)
  <2>1. s \in Seq(ItemArgs)
    BY ONLY <1>2, <1>4, <1>5
  <2>2. r \in Seq(ItemArgs)
    BY ONLY <1>2
  <2> HIDE DEF s, r
  <2> QED
    BY ONLY <1>1, <2>1, <2>2, Joined
<1>9. d.conv = "k" => Len(x) = 0
  BY ONLY <1>1, <1>6
<1>10. ASSUME IsDirective(d)
       PROVE  /\ Len(x) = (IF d.star THEN 1 ELSE 0) + (IF d.conv = "%" THEN 0 ELSE 1)
              /\ d.star => x[1].word = d.width
              /\ d.conv # "%" => x[(IF d.star THEN 1 ELSE 0) + 1] = a
  <2>1. CASE d.star /\ d.conv = "%"
    <3>1. x = <<w>>
      BY ONLY <1>1, <2>1
    <3> QED
      BY ONLY <1>4, <2>1, <3>1
  <2>2. CASE d.star /\ d.conv # "%"
    <3>1. x = <<w, a>>
      <4>1. s = <<w>> /\ r = <<a>>
        BY ONLY <1>7, <1>10, <2>2
      <4> HIDE DEF s, r
      <4> QED
        BY ONLY <1>1, <4>1, PairIs, Zenon
    <3>2. Len(x) = 2 /\ x[1] = w /\ x[1 + 1] = a
      BY ONLY <3>1
    <3> QED
      BY ONLY <1>4, <2>2, <3>2
  <2>3. CASE ~ d.star /\ d.conv = "%"
    <3>1. x = <<>>
      BY ONLY <1>1, <2>3
    <3> QED
      BY ONLY <2>3, <3>1
  <2>4. CASE ~ d.star /\ d.conv # "%"
    <3>1. x = <<a>>
      BY ONLY <1>1, <1>7, <1>10, <2>4
    <3> QED
      BY ONLY <2>4, <3>1
  <2> QED
    BY ONLY <1>5, <2>1, <2>2, <2>3, <2>4
<1> QED
  BY <1>8, <1>9, <1>10, Zenon

\* The state of the loop between two items.
AtItem(st) ==
    /\ IsState(st) /\ "in_format" \in DOMAIN st.flags /\ ~ st.flags.in_format
    /\ st.out \in Seq(Inked) /\ st.written = Len(st.out)
    /\ st.used \in Nat /\ st.at \in Nat \ {0}

\* An item that prints text leads to the next one.
Leads(st, at, flags, text, used, stored, next) ==
    /\ AtItem(st) /\ at \in Nat \ {0} /\ "in_format" \in DOMAIN flags /\ text \in Seq(Inked)
    /\ used \in Nat /\ next = After(st, at, flags, text, used, stored)
Comes(st, at, text, used, stored, next) ==
    /\ AtItem(next) /\ next.at = at /\ next.out = st.out \o text /\ next.used = used
    /\ next.stored = stored

\* Where the loop stands behind an item.
LEMMA AfterFacts ==
    ASSUME NEW st, NEW at, NEW flags, NEW text, NEW used, NEW stored, NEW next,
           Leads(st, at, flags, text, used, stored, next)
    PROVE  Comes(st, at, text, used, stored, next)
<1>0. /\ AtItem(st) /\ at \in Nat \ {0} /\ "in_format" \in DOMAIN flags /\ text \in Seq(Inked)
      /\ used \in Nat /\ next = After(st, at, flags, text, used, stored)
  BY Zenon DEF Leads
<1>1. /\ IsState(next) /\ next.at = at /\ next.out = st.out \o text /\ next.used = used
      /\ next.stored = stored /\ next.written = st.written + Len(text)
      /\ next.flags = [flags EXCEPT !.in_format = FALSE]
  BY <1>0 DEF After, IsState
<1>2. ~ next.flags.in_format /\ "in_format" \in DOMAIN next.flags
  <2>1. ~ [flags EXCEPT !.in_format = FALSE].in_format /\ "in_format" \in DOMAIN [flags EXCEPT !.in_format = FALSE]
    BY ONLY <1>0
  <2> QED
    BY ONLY <1>1, <2>1, Zenon
<1>3. st.out \in Seq(Inked) /\ st.written = Len(st.out)
  BY <1>0, Zenon DEF AtItem
<1>4. st.out \o text \in Seq(Inked) /\ Len(st.out \o text) = Len(st.out) + Len(text)
  BY ONLY <1>0, <1>3, Joined
<1> QED
  BY ONLY <1>0, <1>1, <1>2, <1>3, <1>4, Zenon DEF AtItem, Comes

\* What the loop has done when it has read an item with the arguments x.
Taken(args, used, x) == \A j \in 1 .. Len(x) : args[used + j] = x[j]
ReadOn(st, next, item, text, q, x) ==
    /\ AtItem(next) /\ next.at = q /\ next.out = st.out \o text /\ Prints(item, item.dir.conv, text)
    /\ next.used = st.used + Len(x)
    /\ next.stored = (IF item.dir.conv = "n" THEN Append(st.stored, st.written) ELSE st.stored)
    /\ text \in Seq(Inked) /\ (item.dir.conv = "n" => text = <<>>)

\* The loop reads a literal character.
LEMMA LiteralRead ==
    ASSUME NEW fmt, NEW args, NEW f, Loop(f, fmt, args), NEW st, AtItem(st), Reached(f, fmt, st),
           NEW item, IsItem(item), NEW d, d = item.dir, d.conv = "k",
           Holds(fmt, st.at, Spell(d)), NEW q, q = st.at + Len(Spell(d)), q <= Len(fmt) + 1,
           NEW x, x = Arguments(item)
    PROVE  \E next, text : Reached(f, fmt, next) /\ ReadOn(st, next, item, text, q, x)
<1> DEFINE text == <<"k">>
           next == Turn(fmt, args, st)
<1>1. Spell(d) = text
  BY Zenon DEF Spell
<1>2. IsState(st) /\ ~ st.flags.in_format /\ "in_format" \in DOMAIN st.flags /\ st.at \in Nat \ {0}
      /\ st.used \in Nat
  BY Zenon DEF AtItem
<1>3. At(fmt, st.at) = "k"
  <2>1. st.at \in Nat
    BY ONLY <1>2
  <2> QED
    BY ONLY <1>1, <2>1, Holds(fmt, st.at, Spell(d)), HoldsOne, Zenon DEF text
<1>4. next = Printed(st, text, st.used)
  <2>1. PICK c : c = "k"
    OBVIOUS
  <2>2. c # "" /\ c # "%"
    BY ONLY <2>1
  <2>3. Turn(fmt, args, st) = Printed(st, <<c>>, st.used)
    BY ONLY <1>2, <1>3, <2>1, <2>2, CharTurn, Zenon
  <2> QED
    BY <2>1, <2>3, Zenon
<1>5. next = After(st, st.at + 1, st.flags, text, st.used, st.stored)
  BY <1>4, Zenon DEF Printed, After
<1>6. "k" \in Inked
  BY InkIsInked
<1>7. text \in Seq(Inked) /\ Len(text) = 1
  BY ONLY <1>6, ShortTexts
<1>8. Len(fmt) \in Nat
  BY Zenon DEF Loop
<1>9. q = st.at + 1 /\ st.at + 1 \in Nat \ {0} /\ st.at + 1 \in Nat /\ st.at < st.at + 1 /\ st.at \in 1 .. Len(fmt)
  <2>1. q = st.at + 1
    <3>1. Len(Spell(d)) = 1
      BY ONLY <1>1, <1>7, Zenon
    <3> QED
      BY ONLY <3>1, q = st.at + Len(Spell(d)), Zenon
  <2> QED
    BY ONLY <1>2, <1>8, <2>1, q <= Len(fmt) + 1
<1> HIDE DEF next, text
<1>10. /\ AtItem(next) /\ next.at = st.at + 1 /\ next.out = st.out \o text /\ next.used = st.used
       /\ next.stored = st.stored
  <2>1. PICK at : at = st.at + 1
    OBVIOUS
  <2>2. PICK flags : flags = st.flags
    OBVIOUS
  <2>3. PICK used : used = st.used
    OBVIOUS
  <2>4. PICK stored : stored = st.stored
    OBVIOUS
  <2>5. next = After(st, at, flags, text, used, stored) /\ at \in Nat \ {0} /\ used \in Nat
        /\ "in_format" \in DOMAIN flags
    BY ONLY <1>2, <1>5, <1>9, <2>1, <2>2, <2>3, <2>4, Zenon
  <2>6. /\ AtItem(next) /\ next.at = at /\ next.out = st.out \o text /\ next.used = used
        /\ next.stored = stored
    <3>1. Leads(st, at, flags, text, used, stored, next)
      BY ONLY <1>7, <2>5, AtItem(st), Zenon DEF Leads
    <3>2. Comes(st, at, text, used, stored, next)
      BY ONLY <3>1, AfterFacts, Zenon
    <3> QED
      BY ONLY <3>2, Zenon DEF Comes
  <2> QED
    BY ONLY <2>1, <2>3, <2>4, <2>6, Zenon
<1>11. Reached(f, fmt, next)
  <2>1. next.at \in Nat /\ st.at < next.at
    BY ONLY <1>9, <1>10
  <2> QED
    BY ONLY <1>9, <2>1, Loop(f, fmt, args), Reached(f, fmt, st), Onwards, Zenon DEF next
<1>12. Prints(item, item.dir.conv, text)
  <2>1. /\ item.text \in Seq(Inked) \ {<<>>} /\ item.null \in BOOLEAN
    BY DEF Argument, ItemArgs, IsItem
  <2>2. PICK c : c = item.dir.conv
    OBVIOUS
  <2>3. c \in {"k", "%"}
    BY ONLY <2>2, d = item.dir, d.conv = "k"
  <2>4. Prints(item, c, <<c>>)
    <3>1. PICK a : a = Argument(item)
      OBVIOUS
    <3> QED
      BY ONLY <2>1, <2>2, <2>3, <3>1, TextPrinted, Zenon
  <2> QED
    BY <2>2, <2>4, Zenon DEF text
<1>13. Len(x) = 0
  <2>1. PICK a : a = Argument(item)
    OBVIOUS
  <2> QED
    BY ONLY <2>1, IsItem(item), d = item.dir, d.conv = "k", x = Arguments(item), ArgumentsAre, Zenon
<1>14. next.used = st.used + Len(x)
  BY ONLY <1>2, <1>10, <1>13
<1>15. item.dir.conv # "n"
  <2>1. item.dir.conv = "k"
    OBVIOUS
  <2> QED
    BY ONLY <2>1
<1>16. ReadOn(st, next, item, text, q, x)
  BY ONLY <1>7, <1>9, <1>10, <1>12, <1>14, <1>15, Zenon DEF ReadOn
<1> QED
  BY <1>11, <1>16, Zenon

\* The loop reads a whole directive: percent sign, flags, width, precision, l, conversion.
LEMMA DirectiveItem ==
    ASSUME NEW fmt, NEW args, NEW f, Loop(f, fmt, args), NEW st, AtItem(st), Reached(f, fmt, st),
           NEW item, IsItem(item), NEW d, d = item.dir, IsDirective(d),
           Holds(fmt, st.at, Spell(d)), NEW q, q = st.at + Len(Spell(d)), q <= Len(fmt) + 1,
           NEW x, x = Arguments(item), Taken(args, st.used, x)
    PROVE  \E next, text : Reached(f, fmt, next) /\ ReadOn(st, next, item, text, q, x)
<1>1. IsState(st) /\ ~ st.flags.in_format /\ st.at \in Nat \ {0}
      /\ st.used \in Nat /\ st.out \in Seq(Inked) /\ st.written = Len(st.out)
  BY Zenon DEF AtItem
<1>2. PICK p : p = st.at
  OBVIOUS
<1>3. PICK u : u = IF d.star THEN st.used + 1 ELSE st.used
  OBVIOUS
<1>4. PICK a : a = Argument(item)
  OBVIOUS
<1>5. /\ Len(x) = (IF d.star THEN 1 ELSE 0) + (IF d.conv = "%" THEN 0 ELSE 1)
      /\ d.star => x[1].word = d.width
      /\ d.conv # "%" => x[(IF d.star THEN 1 ELSE 0) + 1] = a
  BY ONLY <1>4, IsItem(item), d = item.dir, IsDirective(d), x = Arguments(item), ArgumentsAre
<1>6. d.star \in BOOLEAN /\ d.conv \in Conversions
  BY Zenon DEF IsDirective
<1>7. d.star => args[st.used + 1].word = d.width
  <2> SUFFICES ASSUME d.star PROVE args[st.used + 1].word = d.width
    OBVIOUS
  <2>1. 1 \in 1 .. Len(x)
    BY ONLY <1>5, d.star
  <2>2. args[st.used + 1] = x[1]
    BY <2>1, Zenon DEF Taken
  <2> QED
    BY <1>5, <2>2, Zenon
<1>8. d.conv # "%" => args[u + 1] = a
  <2> SUFFICES ASSUME d.conv # "%" PROVE args[u + 1] = a
    OBVIOUS
  <2>1. CASE d.star
    <3>1. 2 \in 1 .. Len(x) /\ x[2] = a
      BY ONLY <1>5, <2>1, d.conv # "%"
    <3>2. args[st.used + 2] = x[2]
      BY <3>1, Zenon DEF Taken
    <3>3. u + 1 = st.used + 2
      BY ONLY <1>1, <1>3, <2>1
    <3> QED
      BY <3>1, <3>2, <3>3, Zenon
  <2>2. CASE ~ d.star
    <3>1. 1 \in 1 .. Len(x) /\ x[1] = a
      BY ONLY <1>5, <2>2, d.conv # "%"
    <3>2. args[st.used + 1] = x[1]
      BY <3>1, Zenon DEF Taken
    <3> QED
      BY <1>3, <2>2, <3>1, <3>2, Zenon
  <2> QED
    BY <2>1, <2>2, Zenon
<1>9. st.written \in Nat
  BY ONLY <1>1, LenProperties
<1>10. PICK m : /\ IsState(m) /\ m.flags = FlagsFor(d) /\ m.used = u
                /\ Reached(f, fmt, After(st, q, FlagsFor(d), Converted(d.conv, m, args),
                                         IF d.conv = "%" THEN u ELSE u + 1,
                                         IF d.conv = "n" THEN Append(st.stored, st.written) ELSE st.stored))
  <2>1. p \in Nat \ {0} /\ Holds(fmt, p, Spell(d)) /\ q = p + Len(Spell(d))
    BY <1>1, <1>2, Zenon
  <2> QED
    <3>1. Awaits(Inked, fmt, args, f, st, p, d, q, u)
      BY ONLY <1>1, <1>2, <1>3, <1>7, <1>9, <2>1, Loop(f, fmt, args), Reached(f, fmt, st), IsDirective(d),
              q <= Len(fmt) + 1, Zenon DEF Awaits
    <3>2. PICK m : Awaited(fmt, args, f, st, d, q, u, m)
      BY ONLY <3>1, DirectiveRead, Zenon
    <3> QED
      BY ONLY <3>2, Zenon DEF Awaited
<1>11. PICK text : text = Converted(d.conv, m, args)
  OBVIOUS
<1>12. PICK used : used = IF d.conv = "%" THEN u ELSE u + 1
  OBVIOUS
<1>13. PICK stored : stored = IF d.conv = "n" THEN Append(st.stored, st.written) ELSE st.stored
  OBVIOUS
<1>14. PICK flags : flags = FlagsFor(d)
  OBVIOUS
<1>15. PICK next : next = After(st, q, flags, text, used, stored)
  OBVIOUS
<1>16. Reached(f, fmt, next)
  BY ONLY <1>10, <1>11, <1>12, <1>13, <1>14, <1>15, Zenon
<1>17. Prints(item, d.conv, text)
  <2>1. Argument(item) \in ItemArgs
    BY Zenon DEF IsItem
  <2>2. d.conv # "%" => args[m.used + 1] = Argument(item)
    BY ONLY <1>4, <1>8, <1>10, Zenon
  <2>3. Prints(item, d.conv, Converted(d.conv, m, args))
    BY ONLY <1>10, <2>1, <2>2, d = item.dir, IsDirective(d), ItemPrinted, Zenon
  <2> QED
    BY ONLY <1>11, <2>3, Zenon
<1>18. text \in Seq(Inked)
  BY ONLY <1>17, Zenon DEF Prints
<1>19. d.conv = "n" => text = <<>>
  <2> SUFFICES ASSUME d.conv = "n" PROVE text = <<>>
    OBVIOUS
  <2>1. Converted("n", m, args) = <<>>
    <3>1. "n" \notin {"x", "X", "p"} /\ "n" \notin {"d", "i", "u"} /\ "n" # "s" /\ "n" # "c"
      OBVIOUS
    <3> QED
      BY ONLY <3>1 DEF Converted
  <2> QED
    BY <1>11, <2>1, Zenon
<1>20. q \in Nat \ {0}
  <2>1. Len(Spell(d)) \in Nat
    BY SpellText, Zenon
  <2> QED
    BY ONLY <1>1, <2>1, q = st.at + Len(Spell(d))
<1>21. used \in Nat /\ used = st.used + Len(x)
  <2>1. CASE d.star
    BY ONLY <1>1, <1>3, <1>5, <1>12, <2>1
  <2>2. CASE ~ d.star
    BY ONLY <1>1, <1>3, <1>5, <1>12, <2>2
  <2> QED
    BY <2>1, <2>2, Zenon
<1>22. "in_format" \in DOMAIN flags
  BY <1>14 DEF FlagsFor, FlagsOf
<1>23. Comes(st, q, text, used, stored, next)
  <2>1. Leads(st, q, flags, text, used, stored, next)
    BY ONLY <1>15, <1>18, <1>20, <1>21, <1>22, AtItem(st), Zenon DEF Leads
  <2> QED
    BY ONLY <2>1, AfterFacts, Zenon
<1>24. /\ AtItem(next) /\ next.at = q /\ next.out = st.out \o text /\ next.used = used
       /\ next.stored = stored
  BY ONLY <1>23, Zenon DEF Comes
<1>25. ReadOn(st, next, item, text, q, x)
  BY ONLY <1>13, <1>17, <1>18, <1>19, <1>21, <1>24, d = item.dir, Zenon DEF ReadOn
<1> QED
  BY <1>16, <1>25, Zenon

\* The loop reads an item of a format, from its first character to the place behind it.
LEMMA ItemRead ==
    ASSUME NEW fmt, NEW args, NEW f, Loop(f, fmt, args), NEW st, AtItem(st), Reached(f, fmt, st),
           NEW item, IsItem(item), NEW s, s = Spell(item.dir),
           Holds(fmt, st.at, s), NEW q, q = st.at + Len(s), q <= Len(fmt) + 1,
           NEW x, x = Arguments(item), Taken(args, st.used, x)
    PROVE  \E next, text : Reached(f, fmt, next) /\ ReadOn(st, next, item, text, q, x)
<1>1. PICK d : d = item.dir
  OBVIOUS
<1>2. Holds(fmt, st.at, Spell(d)) /\ q = st.at + Len(Spell(d))
  BY <1>1, Zenon
<1>3. d.conv = "k" \/ IsDirective(d)
  BY <1>1, Zenon DEF IsItem
<1>4. CASE d.conv = "k"
  BY <1>1, <1>2, <1>4, LiteralRead, Zenon
<1>5. CASE IsDirective(d)
  BY <1>1, <1>2, <1>5, DirectiveItem, Zenon
<1> QED
  BY ONLY <1>3, <1>4, <1>5, Zenon

-----------------------------------------------------------------------------
(* Formats of one item, and of two.                                        *)

Appends(g, n, seqs) == g = [k \in 0 .. n |-> IF k = 0 THEN <<>> ELSE g[k - 1] \o seqs[k]]

\* Concat by its own recursion.
LEMMA ConcatIs ==
    ASSUME NEW seqs, NEW n, n = Len(seqs), NEW g, Appends(g, n, seqs)
    PROVE  \E h : Appends(h, n, seqs) /\ Concat(seqs) = h[n]
<1> DEFINE upto == CHOOSE h : Appends(h, n, seqs)
<1>1. Appends(upto, n, seqs)
  BY Zenon
<1>2. Concat(seqs) = upto[n]
  BY DEF Concat, Appends
<1> QED
  BY <1>1, <1>2

\* Concat of none, of one and of two texts.
LEMMA ConcatFacts ==
    ASSUME NEW S, NEW a \in Seq(S), NEW b \in Seq(S)
    PROVE  /\ Concat(<<>>) = <<>>
           /\ Concat(<<a>>) = a
           /\ Concat(<<a, b>>) = a \o b
<1>1. <<>> \o a = a
  BY Nothing
<1>2. Concat(<<>>) = <<>>
  <2> DEFINE s == <<>>
             g == [k \in 0 .. 0 |-> <<>>]
  <2>1. Len(s) = 0
    OBVIOUS
  <2>2. Appends(g, 0, s)
    BY DEF Appends
  <2>3. PICK h : Appends(h, 0, s) /\ Concat(s) = h[0]
    BY <2>1, <2>2, ConcatIs
  <2>4. h[0] = <<>>
    BY <2>3 DEF Appends
  <2> QED
    BY <2>3, <2>4
<1>3. Concat(<<a>>) = a
  <2> DEFINE s == <<a>>
             g == [k \in 0 .. 1 |-> IF k = 0 THEN <<>> ELSE a]
  <2>1. Len(s) = 1 /\ s[1] = a
    OBVIOUS
  <2> HIDE DEF s
  <2>2. Appends(g, 1, s)
    <3>1. \A k \in 0 .. 1 : (IF k = 0 THEN <<>> ELSE a) = IF k = 0 THEN <<>> ELSE g[k - 1] \o s[k]
      <4> TAKE k \in 0 .. 1
      <4>1. CASE k = 0
        BY <4>1
      <4>2. CASE k = 1
        BY ONLY <1>1, <2>1, <4>2
      <4> QED
        BY <4>1, <4>2
    <3> QED
      BY <3>1, Zenon DEF Appends
  <2>3. PICK h : Appends(h, 1, s) /\ Concat(s) = h[1]
    BY <2>1, <2>2, ConcatIs
  <2>4. h[0] = <<>> /\ h[1] = h[0] \o s[1]
    BY <2>3, SMTT(30) DEF Appends
  <2> QED
    BY <1>1, <2>1, <2>3, <2>4 DEF s
<1>4. Concat(<<a, b>>) = a \o b
  <2> DEFINE s == <<a, b>>
             c == a \o b
             g == [k \in 0 .. 2 |-> IF k = 0 THEN <<>> ELSE IF k = 1 THEN a ELSE c]
  <2>1. Len(s) = 2 /\ s[1] = a /\ s[2] = b
    OBVIOUS
  <2> HIDE DEF s
  <2>2. Appends(g, 2, s)
    <3>1. \A k \in 0 .. 2 : (IF k = 0 THEN <<>> ELSE IF k = 1 THEN a ELSE c)
                             = IF k = 0 THEN <<>> ELSE g[k - 1] \o s[k]
      <4> TAKE k \in 0 .. 2
      <4>1. CASE k = 0
        BY <4>1
      <4>2. CASE k = 1
        BY ONLY <1>1, <2>1, <4>2
      <4>3. CASE k = 2
        <5>1. g[1] = a
          OBVIOUS
        <5> HIDE DEF g
        <5>2. k - 1 = 1 /\ k # 0 /\ k # 1
          BY ONLY <4>3
        <5> QED
          BY ONLY <2>1, <4>3, <5>1, <5>2
      <4> QED
        BY <4>1, <4>2, <4>3
    <3> QED
      BY <3>1, Zenon DEF Appends
  <2>3. PICK h : Appends(h, 2, s) /\ Concat(s) = h[2]
    BY <2>1, <2>2, ConcatIs
  <2>4. h[0] = <<>> /\ h[1] = h[0] \o s[1] /\ h[2] = h[1] \o s[2]
    <3>1. 0 \in 0 .. 2 /\ 1 \in 0 .. 2 /\ 2 \in 0 .. 2 /\ 1 - 1 = 0 /\ 2 - 1 = 1
      OBVIOUS
    <3>2. \A k \in 0 .. 2 : h[k] = IF k = 0 THEN <<>> ELSE h[k - 1] \o s[k]
      BY <2>3 DEF Appends
    <3> HIDE DEF c, g
    <3>3. h[0] = <<>> /\ h[1] = h[0] \o s[1] /\ h[2] = h[1] \o s[2]
      <4>1. h[0] = <<>>
        BY ONLY <3>1, <3>2
      <4>2. h[1] = IF 1 = 0 THEN <<>> ELSE h[1 - 1] \o s[1]
        BY ONLY <3>1, <3>2, Zenon
      <4>3. h[2] = IF 2 = 0 THEN <<>> ELSE h[2 - 1] \o s[2]
        BY ONLY <3>1, <3>2, Zenon
      <4>4. 1 # 0 /\ 2 # 0
        OBVIOUS
      <4> QED
        BY ONLY <3>1, <4>1, <4>2, <4>3, <4>4, Zenon
    <3> QED
      BY <3>3
  <2> QED
    BY <1>1, <2>1, <2>3, <2>4 DEF s
<1> QED
  BY <1>2, <1>3, <1>4

-----------------------------------------------------------------------------
(* What is printed in the end.                                             *)

\* The loop of vprintfmt starts where an item may begin.
LEMMA StartsAtItem ==
    ASSUME NEW fmt, NEW args, NEW f, Loop(f, fmt, args)
    PROVE  /\ AtItem(Start) /\ Reached(f, fmt, Start)
           /\ Start.at = 1 /\ Start.out = <<>> /\ Start.used = 0 /\ Start.stored = <<>>
<1>1. /\ IsState(Start) /\ Start.at = 1 /\ Start.out = <<>> /\ Start.used = 0 /\ Start.stored = <<>>
      /\ Start.written = 0 /\ Start.flags = Flags(FALSE, 0)
  BY DEF Start, IsState
<1>2. "in_format" \in DOMAIN Flags(FALSE, 0) /\ ~ Flags(FALSE, 0).in_format
  BY DEF Flags
<1>3. <<>> \in Seq(Inked) /\ Len(<<>>) = 0
  OBVIOUS
<1>4. 0 \in Nat /\ 1 \in Nat \ {0} /\ 0 < 1
  OBVIOUS
<1>5. AtItem(Start)
  BY ONLY <1>1, <1>2, <1>3, <1>4, Zenon DEF AtItem
<1>6. Len(fmt) \in Nat /\ Runs(f, Len(fmt), fmt, args)
  BY Zenon DEF Loop
<1>7. f[0] = Start
  BY <1>6, RunFacts, Zenon
<1>8. 0 \in 0 .. Len(fmt)
  BY ONLY <1>6
<1> QED
  BY ONLY <1>1, <1>4, <1>5, <1>7, <1>8, Zenon DEF Reached

\* The loop that is at the end of the format has done all its turns.
LEMMA EndsThere ==
    ASSUME NEW S, NEW fmt \in Seq(S), NEW args, NEW f, Loop(f, fmt, args), NEW st, Reached(f, fmt, st),
           st.at = Len(fmt) + 1
    PROVE  f[Len(fmt)] = st
<1>1. st.at \notin DOMAIN fmt
  <2>1. Len(fmt) \in Nat /\ DOMAIN fmt = 1 .. Len(fmt)
    BY ONLY fmt \in Seq(S), LenProperties
  <2> QED
    BY ONLY <2>1, st.at = Len(fmt) + 1
<1>2. At(fmt, st.at) = ""
  BY ONLY <1>1, Zenon DEF At
<1> QED
  BY <1>2, Arrived, Zenon

\* The arguments of two items, one behind the other.
LEMMA TakenParts ==
    ASSUME NEW S, NEW x \in Seq(S), NEW y \in Seq(S), NEW args, args = x \o y
    PROVE  Taken(args, 0, x) /\ Taken(args, Len(x), y)
<1>1. /\ Len(x) \in Nat /\ Len(y) \in Nat
      /\ \A i \in 1 .. Len(x) + Len(y) : args[i] = IF i <= Len(x) THEN x[i] ELSE y[i - Len(x)]
  BY ConcatProperties, LenProperties
<1>2. ASSUME NEW j \in 1 .. Len(x) PROVE args[0 + j] = x[j]
  BY ONLY <1>1, j \in 1 .. Len(x)
<1>3. ASSUME NEW j \in 1 .. Len(y) PROVE args[Len(x) + j] = y[j]
  <2>1. Len(x) + j \in 1 .. Len(x) + Len(y) /\ ~ (Len(x) + j <= Len(x)) /\ (Len(x) + j) - Len(x) = j
    BY ONLY <1>1, j \in 1 .. Len(y)
  <2> QED
    BY ONLY <1>1, <2>1
<1> QED
  BY <1>2, <1>3 DEF Taken

\* One item is read to the end of its format.
LEMMA OneRead ==
    ASSUME NEW a, IsItem(a), NEW s, s = Spell(a.dir), NEW x, x = Arguments(a)
    PROVE  \E n, t : vprintfmt(s, x) = n /\ ReadOn(Start, n, a, t, 1 + Len(s), x)
<1>1. s \in Seq(FormatChars) /\ Len(s) \in Nat
  <2>1. PICK d : d = a.dir
    OBVIOUS
  <2>2. Spell(d) \in Seq(FormatChars) /\ Len(Spell(d)) \in Nat \ {0}
    BY ONLY <2>1, IsItem(a), SpellText, Zenon
  <2> QED
    BY <2>1, <2>2, Zenon
<1>2. PICK f : Runs(f, Len(s), s, x) /\ vprintfmt(s, x) = f[Len(s)]
  BY <1>1, LoopRun, Zenon
<1>3. Loop(f, s, x)
  BY <1>1, <1>2, Zenon DEF Loop
<1>4. AtItem(Start) /\ Reached(f, s, Start) /\ Start.at = 1 /\ Start.used = 0
  BY <1>3, StartsAtItem, Zenon
<1>5. Holds(s, Start.at, s)
  BY <1>1, <1>4, HoldsSelf, Zenon
<1>6. Taken(x, Start.used, x)
  BY <1>4 DEF Taken
<1>7. PICK q : q = Start.at + Len(s)
  OBVIOUS
<1>8. q <= Len(s) + 1 /\ q = Len(s) + 1 /\ q = 1 + Len(s)
  BY ONLY <1>1, <1>4, <1>7
<1>9. PICK n, t : Reached(f, s, n) /\ ReadOn(Start, n, a, t, q, x)
  BY <1>3, <1>4, <1>5, <1>6, <1>7, <1>8, ItemRead, Zenon
<1>10. n.at = Len(s) + 1
  BY <1>8, <1>9, Zenon DEF ReadOn
<1>11. f[Len(s)] = n
  BY <1>1, <1>3, <1>9, <1>10, EndsThere, Zenon
<1> QED
  BY <1>2, <1>8, <1>9, <1>11, Zenon

\* Two are read one after the other.
LEMMA TwoRead ==
    ASSUME NEW a, IsItem(a), NEW b, IsItem(b), NEW s, s = Spell(a.dir), NEW z, z = Spell(b.dir),
           NEW x, x = Arguments(a), NEW y, y = Arguments(b), NEW fmt, fmt = s \o z,
           NEW args, args = x \o y
    PROVE  \E m, t, n, u : /\ vprintfmt(fmt, args) = n
                           /\ ReadOn(Start, m, a, t, 1 + Len(s), x)
                           /\ ReadOn(m, n, b, u, Len(fmt) + 1, y)
<1>1. s \in Seq(FormatChars) /\ z \in Seq(FormatChars)
  <2>1. PICK d : d = a.dir
    OBVIOUS
  <2>2. PICK e : e = b.dir
    OBVIOUS
  <2>3. Spell(d) \in Seq(FormatChars)
    BY ONLY <2>1, IsItem(a), SpellText, Zenon
  <2>4. Spell(e) \in Seq(FormatChars)
    BY ONLY <2>2, IsItem(b), SpellText, Zenon
  <2> QED
    BY <2>1, <2>2, <2>3, <2>4, Zenon
<1>2. fmt \in Seq(FormatChars) /\ Len(s) \in Nat /\ Len(z) \in Nat /\ Len(fmt) = Len(s) + Len(z)
      /\ Len(fmt) \in Nat
  <2>1. fmt \in Seq(FormatChars) /\ Len(s) \in Nat /\ Len(z) \in Nat /\ Len(fmt) = Len(s) + Len(z)
    BY ONLY <1>1, fmt = s \o z, Joined
  <2> QED
    BY ONLY <2>1
<1>3. x \in Seq(ItemArgs) /\ y \in Seq(ItemArgs)
  <2>1. PICK d : d = a.dir
    OBVIOUS
  <2>2. PICK e : e = b.dir
    OBVIOUS
  <2>3. PICK v : v = Argument(a)
    OBVIOUS
  <2>4. PICK w : w = Argument(b)
    OBVIOUS
  <2>5. x \in Seq(ItemArgs)
    BY ONLY <2>1, <2>3, IsItem(a), x = Arguments(a), ArgumentsAre, Zenon
  <2>6. y \in Seq(ItemArgs)
    BY ONLY <2>2, <2>4, IsItem(b), y = Arguments(b), ArgumentsAre, Zenon
  <2> QED
    BY <2>5, <2>6
<1>4. Taken(args, 0, x) /\ Taken(args, Len(x), y) /\ Len(x) \in Nat
  BY ONLY <1>3, args = x \o y, TakenParts, LenProperties
<1>5. PICK f : Runs(f, Len(fmt), fmt, args) /\ vprintfmt(fmt, args) = f[Len(fmt)]
  BY <1>2, LoopRun, Zenon
<1>6. Loop(f, fmt, args)
  BY <1>2, <1>5, Zenon DEF Loop
<1>7. AtItem(Start) /\ Reached(f, fmt, Start) /\ Start.at = 1 /\ Start.used = 0
  BY <1>6, StartsAtItem, Zenon
<1>8. Holds(fmt, 1, s) /\ Holds(fmt, 1 + Len(s), z)
  <2>1. Holds(fmt, 1, s \o z)
    BY ONLY <1>2, fmt = s \o z, HoldsSelf, Zenon
  <2>2. 1 \in Nat
    OBVIOUS
  <2> QED
    BY ONLY <1>1, <2>1, <2>2, HoldsParts, Zenon
<1>9. PICK p : p = Start.at + Len(s)
  OBVIOUS
<1>10. p <= Len(fmt) + 1 /\ p = 1 + Len(s)
  BY ONLY <1>2, <1>7, <1>9
<1>11. PICK m, t : Reached(f, fmt, m) /\ ReadOn(Start, m, a, t, p, x)
  <2>1. Holds(fmt, Start.at, s) /\ Taken(args, Start.used, x)
    BY <1>4, <1>7, <1>8, Zenon
  <2> QED
    BY <1>6, <1>7, <1>9, <1>10, <2>1, ItemRead, Zenon
<1>12. AtItem(m) /\ m.at = p /\ m.used = Start.used + Len(x)
  BY <1>11, Zenon DEF ReadOn
<1>13. m.used = Len(x)
  BY ONLY <1>4, <1>7, <1>12
<1>14. PICK q : q = m.at + Len(z)
  OBVIOUS
<1>15. q <= Len(fmt) + 1 /\ q = Len(fmt) + 1
  BY ONLY <1>2, <1>10, <1>12, <1>14
<1>16. PICK n, u : Reached(f, fmt, n) /\ ReadOn(m, n, b, u, q, y)
  <2>1. Holds(fmt, m.at, z) /\ Taken(args, m.used, y)
    BY <1>4, <1>8, <1>10, <1>12, <1>13, Zenon
  <2> QED
    BY <1>6, <1>11, <1>12, <1>14, <1>15, <2>1, ItemRead, Zenon
<1>17. n.at = Len(fmt) + 1
  BY <1>15, <1>16, Zenon DEF ReadOn
<1>18. f[Len(fmt)] = n
  BY <1>2, <1>6, <1>16, <1>17, EndsThere, Zenon
<1> QED
  BY <1>5, <1>10, <1>11, <1>15, <1>16, <1>18, Zenon

\* The items that are explored.
LEMMA ItemsAre ==
    /\ \A a \in Items : IsItem(a) /\ a.dir.conv # "n" /\ a.dir.long \in BOOLEAN
    /\ \A b \in Tails : IsItem(b) /\ b.dir.long \in BOOLEAN
<1>1. ASSUME NEW a \in Items PROVE IsItem(a) /\ a.dir.conv # "n" /\ a.dir.long \in BOOLEAN
  <2>1. PICK d \in Directives, w \in Words, s \in Texts :
            a = [dir |-> d, word |-> w, text |-> s, null |-> FALSE]
    BY DEF Items
  <2>2. a.dir = d /\ Argument(a) = [word |-> w, text |-> s, null |-> FALSE]
    BY ONLY <2>1 DEF Argument
  <2>3. /\ d.star \in BOOLEAN /\ d.long \in BOOLEAN
        /\ d.width \in {-1} \cup 1 .. (LongMod \div 2) - 1 /\ d.prec \in -1 .. (LongMod \div 2) - 1
        /\ d.star => d.width \in 1 .. (IntMod \div 2) - 1
        /\ d.conv \in {"d", "i", "u", "x", "X", "p", "s", "c"}
    BY FormatsAssumption, Zenon
  <2>4. d.conv \in Conversions /\ d.conv # "n"
    <3>1. d.conv \in {"d", "i", "u", "x", "X", "p", "s", "c"}
      BY <2>3
    <3> QED
      BY ONLY <3>1 DEF Conversions
  <2>5. IsDirective(d)
    BY ONLY <2>3, <2>4, Zenon DEF IsDirective
  <2>6. w \in 0 .. LongMod - 1
    BY FormatsAssumption
  <2>7. s \in Seq(Inked) \ {<<>>}
    <3>1. s \in Seq(Range(s)) /\ s # <<>>
      BY FormatsAssumption, Zenon
    <3>2. Range(s) \subseteq Inked
      BY DEF Inked
    <3>3. PICK R : R = Range(s)
      OBVIOUS
    <3> QED
      BY ONLY <3>1, <3>2, <3>3
  <2>8. Argument(a) \in ItemArgs
    BY ONLY <2>2, <2>6, <2>7 DEF ItemArgs
  <2> QED
    BY ONLY <2>2, <2>3, <2>4, <2>5, <2>8, Zenon DEF IsItem
<1>2. ASSUME NEW b \in Tails PROVE IsItem(b) /\ b.dir.long \in BOOLEAN
  <2>1. PICK d \in {Literal, Percent, [Literal EXCEPT !.conv = "d"], [Literal EXCEPT !.conv = "s"],
                    [Literal EXCEPT !.conv = "n"]} :
            b = [dir |-> d, word |-> LongMod - 1, text |-> <<"z">>, null |-> TRUE]
    BY DEF Tails
  <2>2. b.dir = d /\ Argument(b) = [word |-> LongMod - 1, text |-> <<"z">>, null |-> TRUE]
    BY ONLY <2>1 DEF Argument
  <2>3. d.star = FALSE /\ d.long = FALSE /\ d.width = -1 /\ d.prec = -1 /\ d.conv \in {"k", "%", "d", "s", "n"}
    BY ONLY TRUE DEF Literal, Percent
  <2>4. PICK h \in Nat \ {0} : LongMod = 2 * h
    BY Mods
  <2>5. LongMod - 1 \in 0 .. LongMod - 1 /\ -1 \in -1 .. (LongMod \div 2) - 1
    BY ONLY <2>4
  <2>6. <<"z">> \in Seq(Inked) \ {<<>>}
    <3>1. "z" \in Inked
      BY InkIsInked
    <3> QED
      BY ONLY <3>1, ShortTexts
  <2>7. Argument(b) \in ItemArgs
    BY ONLY <2>2, <2>5, <2>6 DEF ItemArgs
  <2>8. d.conv = "k" \/ d.conv \in Conversions
    <3>1. d.conv \in {"k", "%", "d", "s", "n"}
      BY <2>3
    <3> QED
      BY ONLY <3>1 DEF Conversions
  <2>9. d.conv # "k" => IsDirective(d)
    BY ONLY <2>3, <2>5, <2>8 DEF IsDirective
  <2>10. d.long \in BOOLEAN
    BY <2>3
  <2> QED
    BY ONLY <2>2, <2>3, <2>7, <2>9, <2>10, Zenon DEF IsItem
<1> QED
  BY <1>1, <1>2

-----------------------------------------------------------------------------
(* FormatsConform.                                                         *)

\* The items of a state: none, one, or one and a tail.
ItemsFew ==
    \/ items = <<>>
    \/ \E a \in Items : items = <<a>>
    \/ \E a \in Items, b \in Tails : items = <<a, b>>

\* What C says of a supported item is what reading on has printed.
LEMMA ExpectedText ==
    ASSUME NEW item, NEW st, NEW next, NEW text, NEW q, NEW x, ReadOn(st, next, item, text, q, x),
           Supported(item)
    PROVE  Expected(item) = text /\ Expected(item) \in Seq(Inked)
  BY Zenon DEF ReadOn, Prints

\* The empty format.
LEMMA NoneShown ==
    ASSUME items = <<>>
    PROVE  PrintsAsC /\ CountsOutput
<1>1. DOMAIN items = {} /\ Len(items) = 0
  OBVIOUS
<1>2. [i \in DOMAIN items |-> Spell(items[i].dir)] = <<>> /\ [i \in DOMAIN items |-> Arguments(items[i])] = <<>>
      /\ [i \in DOMAIN items |-> Expected(items[i])] = <<>>
  BY ONLY <1>1
<1>3. Concat(<<>>) = <<>>
  <2>1. <<>> \in Seq({})
    OBVIOUS
  <2> QED
    BY ONLY <2>1, ConcatFacts
<1>4. Format(items) = <<>> /\ Args(items) = <<>>
  BY ONLY <1>2, <1>3, Zenon DEF Format, Args
<1>5. Len(<<>>) = 0 /\ 0 \in Nat
  OBVIOUS
<1>6. PICK f : Runs(f, Len(<<>>), <<>>, <<>>) /\ vprintfmt(<<>>, <<>>) = f[Len(<<>>)]
  BY ONLY <1>5, LoopRun, Zenon
<1>7. f[0] = Start
  BY ONLY <1>5, <1>6, RunFacts, Zenon
<1>8. Result = Start
  BY ONLY <1>4, <1>5, <1>6, <1>7, Zenon DEF Result
<1>9. Start.out = <<>> /\ Start.used = 0 /\ Start.written = 0
  BY DEF Start
<1>10. PrintsAsC
  BY ONLY <1>2, <1>3, <1>4, <1>5, <1>8, <1>9, Zenon DEF PrintsAsC
<1>11. Len(items) # 2
  BY ONLY <1>1
<1>12. CountsOutput
  BY ONLY <1>5, <1>8, <1>9, <1>11, Zenon DEF CountsOutput
<1> QED
  BY <1>10, <1>12

\* A format of one item.
LEMMA OneShown ==
    ASSUME NEW a, IsItem(a), items = <<a>>
    PROVE  PrintsAsC /\ CountsOutput
<1> DEFINE s == Spell(a.dir)
           x == Arguments(a)
           e == Expected(a)
<1>1. DOMAIN items = {1} /\ Len(items) = 1 /\ items[1] = a
  OBVIOUS
<1>2. /\ [i \in DOMAIN items |-> Spell(items[i].dir)] = <<s>> /\ [i \in DOMAIN items |-> Arguments(items[i])] = <<x>>
      /\ [i \in DOMAIN items |-> Expected(items[i])] = <<e>>
  <2>1. [i \in DOMAIN items |-> Spell(items[i].dir)] = <<s>>
    BY ONLY <1>1
  <2>2. [i \in DOMAIN items |-> Arguments(items[i])] = <<x>>
    BY ONLY <1>1
  <2>3. [i \in DOMAIN items |-> Expected(items[i])] = <<e>>
    BY ONLY <1>1
  <2> QED
    BY <2>1, <2>2, <2>3, Zenon
<1>3. s \in Seq(FormatChars) /\ x \in Seq(ItemArgs)
  <2>1. PICK d : d = a.dir
    OBVIOUS
  <2>2. PICK v : v = Argument(a)
    OBVIOUS
  <2>3. PICK y : y = x
    OBVIOUS
  <2>4. Spell(d) \in Seq(FormatChars)
    BY ONLY <2>1, IsItem(a), SpellText, Zenon
  <2>5. y \in Seq(ItemArgs)
    BY ONLY <2>1, <2>2, <2>3, IsItem(a), ArgumentsAre, Zenon
  <2> QED
    BY <2>1, <2>3, <2>4, <2>5, Zenon
<1>4. PICK n, t : vprintfmt(s, x) = n /\ ReadOn(Start, n, a, t, 1 + Len(s), x)
  BY ONLY IsItem(a), OneRead, Zenon
<1> HIDE DEF s, x, e
<1>5. Concat(<<s>>) = s /\ Concat(<<x>>) = x
  BY ONLY <1>3, ConcatFacts
<1>6. Format(items) = s /\ Args(items) = x
  BY ONLY <1>2, <1>5, Zenon DEF Format, Args
<1>7. Result = n
  BY ONLY <1>4, <1>6, Zenon DEF Result
<1>8. /\ AtItem(n) /\ n.out = Start.out \o t /\ n.used = Start.used + Len(x) /\ t \in Seq(Inked)
  BY ONLY <1>4, Zenon DEF ReadOn
<1>9. Start.out = <<>> /\ Start.used = 0
  BY DEF Start
<1>10. n.out = t
  BY ONLY <1>8, <1>9, Nothing
<1>11. n.used = Len(x)
  <2>1. Len(x) \in Nat
    BY ONLY <1>3, LenProperties
  <2> QED
    BY ONLY <1>8, <1>9, <2>1
<1>12. Supported(a) => Concat(<<e>>) = t
  <2> SUFFICES ASSUME Supported(a) PROVE Concat(<<e>>) = t
    OBVIOUS
  <2>1. e = t /\ e \in Seq(Inked)
    BY <1>4, ExpectedText, Zenon DEF e
  <2> QED
    BY ONLY <2>1, ConcatFacts
<1>13. PrintsAsC
  <2>1. (\A i \in DOMAIN items : Supported(items[i])) => Supported(a)
    BY ONLY <1>1
  <2> QED
    BY ONLY <1>2, <1>6, <1>7, <1>10, <1>11, <1>12, <2>1, Zenon DEF PrintsAsC
<1>14. Len(items) # 2
  BY ONLY <1>1
<1>15. CountsOutput
  BY ONLY <1>7, <1>8, <1>14, Zenon DEF CountsOutput, AtItem
<1> QED
  BY <1>13, <1>15

\* A format of two items: the second is read where the first one ends.
LEMMA TwoShown ==
    ASSUME NEW a, IsItem(a), a.dir.conv # "n", NEW b, IsItem(b), items = <<a, b>>
    PROVE  PrintsAsC /\ CountsOutput
<1> DEFINE s == Spell(a.dir)
           x == Arguments(a)
           e == Expected(a)
           z == Spell(b.dir)
           y == Arguments(b)
           g == Expected(b)
           fmt == s \o z
           args == x \o y
<1>1. DOMAIN items = {1, 2} /\ DOMAIN items = 1 .. 2 /\ Len(items) = 2 /\ items[1] = a /\ items[2] = b
  OBVIOUS
<1>2. /\ [i \in DOMAIN items |-> Spell(items[i].dir)] = <<s, z>> /\ [i \in DOMAIN items |-> Arguments(items[i])] = <<x, y>>
      /\ [i \in DOMAIN items |-> Expected(items[i])] = <<e, g>>
  <2>1. [i \in DOMAIN items |-> Spell(items[i].dir)] = <<s, z>>
    BY ONLY <1>1
  <2>2. [i \in DOMAIN items |-> Arguments(items[i])] = <<x, y>>
    BY ONLY <1>1
  <2>3. [i \in DOMAIN items |-> Expected(items[i])] = <<e, g>>
    BY ONLY <1>1
  <2> QED
    BY <2>1, <2>2, <2>3, Zenon
<1>3. s \in Seq(FormatChars) /\ x \in Seq(ItemArgs) /\ z \in Seq(FormatChars) /\ y \in Seq(ItemArgs)
  <2>1. ASSUME NEW item, IsItem(item) PROVE Spell(item.dir) \in Seq(FormatChars) /\ Arguments(item) \in Seq(ItemArgs)
    <3>1. PICK d : d = item.dir
      OBVIOUS
    <3>2. PICK v : v = Argument(item)
      OBVIOUS
    <3>3. PICK w : w = Arguments(item)
      OBVIOUS
    <3>4. Spell(d) \in Seq(FormatChars)
      BY ONLY <2>1, <3>1, SpellText, Zenon
    <3>5. w \in Seq(ItemArgs)
      BY ONLY <2>1, <3>1, <3>2, <3>3, ArgumentsAre, Zenon
    <3> QED
      BY ONLY <3>1, <3>3, <3>4, <3>5, Zenon
  <2> QED
    BY <2>1, Zenon
<1>4. PICK m, t, n, u : /\ vprintfmt(fmt, args) = n
                        /\ ReadOn(Start, m, a, t, 1 + Len(s), x)
                        /\ ReadOn(m, n, b, u, Len(fmt) + 1, y)
  BY ONLY IsItem(a), IsItem(b), TwoRead, Zenon
<1> HIDE DEF s, x, e, z, y, g
<1>5. Concat(<<s, z>>) = fmt /\ Concat(<<x, y>>) = args
  BY ONLY <1>3, ConcatFacts
<1>6. Format(items) = fmt /\ Args(items) = args
  BY ONLY <1>2, <1>5, Zenon DEF Format, Args
<1>7. Result = n
  BY ONLY <1>4, <1>6, Zenon DEF Result
<1>8. /\ AtItem(m) /\ m.out = Start.out \o t /\ m.used = Start.used + Len(x) /\ t \in Seq(Inked)
      /\ m.stored = (IF a.dir.conv = "n" THEN Append(Start.stored, Start.written) ELSE Start.stored)
  BY ONLY <1>4, Zenon DEF ReadOn
<1>9. /\ AtItem(n) /\ n.out = m.out \o u /\ n.used = m.used + Len(y) /\ u \in Seq(Inked)
      /\ n.stored = (IF b.dir.conv = "n" THEN Append(m.stored, m.written) ELSE m.stored)
      /\ b.dir.conv = "n" => u = <<>>
  BY ONLY <1>4, Zenon DEF ReadOn
<1>10. Start.out = <<>> /\ Start.used = 0 /\ Start.stored = <<>>
  BY DEF Start
<1>11. m.out = t
  BY ONLY <1>8, <1>10, Nothing
<1>12. n.out = t \o u
  BY ONLY <1>9, <1>11, Zenon
<1>13. n.used = Len(args)
  <2>1. Len(x) \in Nat /\ Len(y) \in Nat /\ Len(args) = Len(x) + Len(y)
    BY ONLY <1>3, Joined
  <2> QED
    BY ONLY <1>8, <1>9, <1>10, <2>1
<1>14. Supported(a) /\ Supported(b) => Concat(<<e, g>>) = t \o u
  <2> SUFFICES ASSUME Supported(a), Supported(b) PROVE Concat(<<e, g>>) = t \o u
    OBVIOUS
  <2>1. e = t /\ e \in Seq(Inked)
    BY <1>4, ExpectedText, Zenon DEF e
  <2>2. g = u /\ g \in Seq(Inked)
    BY <1>4, ExpectedText, Zenon DEF g
  <2> QED
    BY ONLY <2>1, <2>2, ConcatFacts
<1> HIDE DEF fmt, args
<1>15. PrintsAsC
  <2>1. (\A i \in DOMAIN items : Supported(items[i])) => Supported(a) /\ Supported(b)
    BY ONLY <1>1
  <2> QED
    BY ONLY <1>2, <1>6, <1>7, <1>12, <1>13, <1>14, <2>1, Zenon DEF PrintsAsC
<1>16. b.dir.conv = "n" => n.stored = <<Len(n.out)>>
  <2> SUFFICES ASSUME b.dir.conv = "n" PROVE n.stored = <<Len(n.out)>>
    OBVIOUS
  <2>1. n.out = t
    BY ONLY <1>8, <1>9, <1>12, b.dir.conv = "n", Nothing
  <2>2. m.stored = <<>>
    BY <1>8, <1>10, Zenon
  <2>3. m.written = Len(t)
    BY ONLY <1>8, <1>11, Zenon DEF AtItem
  <2>4. n.stored = Append(<<>>, Len(t))
    BY <1>9, <2>2, <2>3, Zenon
  <2>5. Append(<<>>, Len(t)) = <<Len(t)>>
    OBVIOUS
  <2> QED
    BY ONLY <2>1, <2>4, <2>5, Zenon
<1>17. CountsOutput
  <2>1. n.written = Len(n.out)
    BY ONLY <1>9, Zenon DEF AtItem
  <2> QED
    BY ONLY <1>1, <1>7, <1>16, <2>1, Zenon DEF CountsOutput
<1> QED
  BY <1>15, <1>17

\* strtol reads back the word of each item.
LEMMA ReadsItems ==
    ASSUME \A i \in DOMAIN items : items[i].word \in Nat /\ items[i].dir.long \in BOOLEAN
    PROVE  ReadsBack
<1>1. PICK h \in Nat \ {0} : LongMod = 2 * h
  BY Mods
<1>2. LongMod \div 2 = h
  BY ONLY <1>1
<1>3. ASSUME NEW i \in DOMAIN items, NEW base \in {0, 10, 16}, NEW sign \in {<<>>, <<"-">>}
      PROVE  LET n == items[i].word % (LongMod \div 2)
                 hex == base = 16 \/ (base = 0 /\ items[i].dir.long)
                 text == <<" ", "\t">> \o sign
                         \o (IF base = 0 /\ hex THEN <<"0", "x">> ELSE <<>>)
                         \o InBase(n, IF hex THEN 16 ELSE 10, Digits)
             IN strtol(text \o <<"z">>, 1, base) = << IF sign = <<>> THEN n ELSE -n, Len(text) + 1 >>
  <2> DEFINE n == items[i].word % (LongMod \div 2)
             hex == base = 16 \/ (base = 0 /\ items[i].dir.long)
  <2>1. n \in 0 .. h - 1
    BY <1>2
  <2>2. hex \in BOOLEAN /\ (base = 16 => hex) /\ (base = 10 => ~ hex)
    OBVIOUS
  <2>3. PICK v : v = n
    OBVIOUS
  <2>4. PICK k \in BOOLEAN : k = hex
    BY ONLY <2>2
  <2>5. v \in 0 .. h - 1 /\ (base = 16 => k) /\ (base = 10 => ~ k)
    BY ONLY <2>1, <2>2, <2>3, <2>4
  <2>a. Answers(v, base, k, sign)
    <3>1. Asked(h, v, base, k, sign)
      BY ONLY <1>1, <2>5, base \in {0, 10, 16}, sign \in {<<>>, <<"-">>}, k \in BOOLEAN, h \in Nat \ {0}, Zenon DEF Asked
    <3> QED
      BY ONLY <3>1, ReadBack, Zenon
  <2>6. LET text == <<" ", "\t">> \o sign \o (IF base = 0 /\ k THEN <<"0", "x">> ELSE <<>>)
                    \o InBase(v, IF k THEN 16 ELSE 10, Digits)
        IN strtol(text \o <<"z">>, 1, base) = << IF sign = <<>> THEN v ELSE -v, Len(text) + 1 >>
    BY ONLY <2>a, Zenon DEF Answers
  <2> HIDE DEF n, hex
  <2>7. LET text == <<" ", "\t">> \o sign \o (IF base = 0 /\ hex THEN <<"0", "x">> ELSE <<>>)
                    \o InBase(n, IF hex THEN 16 ELSE 10, Digits)
        IN strtol(text \o <<"z">>, 1, base) = << IF sign = <<>> THEN n ELSE -n, Len(text) + 1 >>
    BY ONLY <2>3, <2>4, <2>6
  <2> QED
    BY <2>7 DEF n, hex
<1> QED
  BY <1>3, Zenon DEF ReadsBack

\* Every format of the items prints what C says, is counted, and its numbers are
\* read back.
LEMMA FewConform == ItemsFew => FormatsConform
<1>1. CASE items = <<>>
  <2>1. PrintsAsC /\ CountsOutput
    BY <1>1, NoneShown, Zenon
  <2>2. \A i \in DOMAIN items : items[i].word \in Nat /\ items[i].dir.long \in BOOLEAN
    BY ONLY <1>1
  <2> QED
    BY <2>1, <2>2, ReadsItems, Zenon DEF FormatsConform
<1>2. ASSUME NEW a, IsItem(a) PROVE a.word \in Nat
  <2>1. a.word \in 0 .. LongMod - 1
    BY <1>2 DEF IsItem, Argument, ItemArgs
  <2>2. LongMod \in Nat
    BY Mods
  <2> QED
    BY ONLY <2>1, <2>2
<1>3. ASSUME NEW a \in Items, items = <<a>> PROVE FormatsConform
  <2>1. IsItem(a) /\ a.dir.long \in BOOLEAN
    BY ItemsAre, Zenon
  <2>2. PrintsAsC /\ CountsOutput
    BY <1>3, <2>1, OneShown, Zenon
  <2>3. a.word \in Nat
    BY <1>2, <2>1, Zenon
  <2>4. \A i \in DOMAIN items : items[i].word \in Nat /\ items[i].dir.long \in BOOLEAN
    <3>1. \A i \in DOMAIN items : items[i] = a
      BY ONLY <1>3
    <3> QED
      BY ONLY <2>1, <2>3, <3>1, Zenon
  <2> QED
    BY <2>2, <2>4, ReadsItems, Zenon DEF FormatsConform
<1>4. ASSUME NEW a \in Items, NEW b \in Tails, items = <<a, b>> PROVE FormatsConform
  <2>1. IsItem(a) /\ a.dir.long \in BOOLEAN /\ a.dir.conv # "n" /\ IsItem(b) /\ b.dir.long \in BOOLEAN
    BY ItemsAre, Zenon
  <2>2. PrintsAsC /\ CountsOutput
    BY <1>4, <2>1, TwoShown, Zenon
  <2>3. a.word \in Nat /\ b.word \in Nat
    BY <1>2, <2>1, Zenon
  <2>4. \A i \in DOMAIN items : items[i].word \in Nat /\ items[i].dir.long \in BOOLEAN
    <3>1. \A i \in DOMAIN items : items[i] \in {a, b}
      BY ONLY <1>4
    <3> QED
      BY ONLY <2>1, <2>3, <3>1
  <2> QED
    BY <2>2, <2>4, ReadsItems, Zenon DEF FormatsConform
<1> QED
  BY <1>1, <1>3, <1>4, Zenon DEF ItemsFew

\* Append to a sequence of one.
LEMMA AppendOne ==
    ASSUME NEW u, NEW v
    PROVE  Append(<<u>>, v) = <<u, v>>
<1>1. <<u>> \in Seq({u, v}) /\ v \in {u, v}
  OBVIOUS
<1>2. Append(<<u>>, v) = <<u>> \o <<v>>
  BY ONLY <1>1, AppendIsConcat
<1> QED
  BY ONLY <1>2, PairIs, Zenon

\* A step of the exploration leaves a format of at most two items.
LEMMA FewNext == ItemsFew /\ [FormatsNext]_items => ItemsFew'
<1> SUFFICES ASSUME ItemsFew, [FormatsNext]_items PROVE ItemsFew'
  OBVIOUS
<1>1. CASE Len(items) = 0 /\ \E i \in Items : items' = <<i>>
  BY <1>1, Zenon DEF ItemsFew
<1>2. ASSUME Len(items) = 1, NEW i \in Tails, items' = Append(items, i) PROVE ItemsFew'
  <2>1. items # <<>>
    BY ONLY <1>2
  <2>2. ASSUME NEW a, NEW b, items = <<a, b>> PROVE FALSE
    BY ONLY <1>2, <2>2
  <2>3. PICK a \in Items : items = <<a>>
    BY <2>1, <2>2, Zenon DEF ItemsFew
  <2>4. items' = <<a, i>>
    BY ONLY <1>2, <2>3, AppendOne, Zenon
  <2> QED
    BY <2>4, Zenon DEF ItemsFew
<1>3. CASE UNCHANGED items
  BY <1>3, Zenon DEF ItemsFew
<1> QED
  BY <1>1, <1>2, <1>3, Zenon DEF FormatsNext

(* vprintfmt prints every supported format as C says, takes its arguments    *)
(* one by one and counts what it has printed, and strtol reads every number  *)
(* back (lib/printk.c, and user/printf.c): for every word size, every        *)
(* set of directives, words and texts.  The turns of the loop over a format  *)
(* are followed item by item (ItemRead).                                     *)
THEOREM FormatsPrinted == FormatsSpec => []FormatsConform
<1>1. FormatsInit => ItemsFew
  BY Zenon DEF FormatsInit, ItemsFew
<1> QED
  BY <1>1, FewNext, FewConform, PTL DEF FormatsSpec

-----------------------------------------------------------------------------
(* The types of what vprintfmt is called with and of what it prints.       *)

\* What vprintfmt prints of its own, and what a call may print.
Own == {"0", "1", "2", "3", "4", "5", "6", "7", "8", "9", "a", "b", "c", "d", "e", "f",
        "A", "B", "C", "D", "E", "F", "x", "X", "+", "-", " ", "(", "n", "u", "l", ")"}

Argued(f) == UNION {Range(a.text) : a \in Range(f.args)}
Chars ==
    Own \cup (UNION {Range(text) : text \in Writes})
        \cup (UNION {Range(f.fmt) : f \in Formats})
        \cup (UNION {Argued(f) : f \in Formats})

\* A text is a sequence of characters, and none of them is Nul.
LEMMA TextFacts ==
    ASSUME NEW t, IsText(t)
    PROVE  t \in Seq(Range(t)) /\ Nul \notin Range(t)
<1>1. t \in Seq(Range(t) \ {Nul})
  BY DEF IsText
<1>2. t \in Seq(Range(t))
  BY <1>1, SeqMonotonic
<1>3. Range(t) \subseteq Range(t) \ {Nul}
  BY <1>1, RangeOfSeq
<1> QED
  BY <1>2, <1>3

\* None of it is a Nul.
LEMMA OwnChars == Own \subseteq Chars /\ Nul \notin Chars
<1>1. Nul \notin Own
  BY DEF Own, Nul
<1>2. ASSUME NEW t \in Writes PROVE Nul \notin Range(t)
  BY TextFacts, CallsAssumption
<1>3. ASSUME NEW f \in Formats PROVE Nul \notin Range(f.fmt)
  BY TextFacts, CallsAssumption
<1>4. ASSUME NEW f \in Formats PROVE Nul \notin Argued(f)
  <2> SUFFICES ASSUME NEW a \in Range(f.args) PROVE Nul \notin Range(a.text)
    BY DEF Argued
  <2>1. IsArgument(a)
    BY CallsAssumption
  <2> QED
    BY <2>1, TextFacts DEF IsArgument
<1> HIDE DEF Own, Argued
<1> QED
  BY <1>1, <1>2, <1>3, <1>4 DEF Chars

\* Digits of the bases in use.
LEMMA DigitsFacts ==
    /\ Digits \in Seq(Chars) /\ Len(Digits) = 16
    /\ UpperDigits \in Seq(Chars) /\ Len(UpperDigits) = 16
<1>1. /\ {"0", "1", "2", "3", "4", "5", "6", "7", "8", "9",
          "a", "b", "c", "d", "e", "f"} \subseteq Own
      /\ {"0", "1", "2", "3", "4", "5", "6", "7", "8", "9",
          "A", "B", "C", "D", "E", "F"} \subseteq Own
  BY DEF Own
<1>2. Digits \in Seq(Own) /\ Len(Digits) = 16
  BY <1>1 DEF Digits
<1>3. UpperDigits \in Seq(Own) /\ Len(UpperDigits) = 16
  BY <1>1 DEF UpperDigits
<1> QED
  BY <1>2, <1>3, OwnChars, SeqMonotonic

\* The lemmas on InBase that its callers need: digits, at least one.
LEMMA InBaseType ==
    ASSUME NEW num \in Nat, NEW base \in {10, 16}, NEW digits \in {Digits, UpperDigits}
    PROVE  InBase(num, base, digits) \in Seq(Chars)
<1>1. digits \in Seq(Chars) /\ Len(digits) = 16
  BY DigitsFacts
<1>2. PICK buf \in [0 .. num -> Seq(Chars)] :
         InBase(num, base, digits) = buf[num] /\ Puts(buf, num, base, digits)
  BY <1>1, InBaseRun, Zenon
<1> QED
  BY <1>2

\* What the flags, the state and an argument of vprintfmt may be.
FlagSet ==
    [in_format : BOOLEAN, longflag : BOOLEAN, sharpflag : BOOLEAN, zeroflag : BOOLEAN,
     spaceflag : BOOLEAN, sign : BOOLEAN, width : Int, prec : Int]
States ==
    [at : Nat \ {0}, flags : FlagSet, out : Seq(Chars), written : Nat, used : Nat,
     stored : Seq(Nat)]

\* A padded decimal is a text.
LEMMA DecTextType ==
    ASSUME NEW flags \in FlagSet, NEW sign \in Seq(Chars), NEW digits \in Seq(Chars), NEW prec \in Int
    PROVE  DecText(flags, sign, digits, prec) \in Seq(Chars)
<1> DEFINE pads == flags.width - Most(Len(digits), prec) - Len(sign)
           zeros == prec - Len(sign) - Len(digits)
<1>1. pads \in Int /\ zeros \in Int
  BY DEF FlagSet, Most
<1>2. " " \in Chars /\ "0" \in Chars
  BY OwnChars DEF Own
<1> HIDE DEF pads, zeros
<1>3. Copies(" ", pads) \in Seq(Chars) /\ Copies("0", zeros) \in Seq(Chars)
  BY <1>1, <1>2, CopiesFacts
<1>4. Copies(" ", pads) \o sign \o Copies("0", zeros) \o digits \in Seq(Chars)
  BY <1>3, ConcatProperties
<1> QED
  BY <1>4, Zenon DEF DecText, pads, zeros

\* So is what print_dec_int prints,
LEMMA DecIntType ==
    ASSUME NEW num \in 0 .. LongMod - 1, NEW signed \in BOOLEAN, NEW flags \in FlagSet
    PROVE  print_dec_int(num, signed, flags) \in Seq(Chars)
<1>1. LongMod \in Nat \ {0} /\ num \in Nat /\ num % LongMod = num /\ LongMod - num \in Nat
  BY Mods
<1> DEFINE neg    == signed /\ Signed(num, LongMod) < 0
           digits == InBase(IF neg THEN LongMod - num ELSE num, 10, Digits)
           sign   == IF ~signed THEN <<>>
                     ELSE IF neg THEN <<"-">>
                     ELSE IF flags.sign THEN <<"+">>
                     ELSE IF flags.spaceflag THEN <<" ">> ELSE <<>>
           prec   == IF flags.prec = -1 /\ flags.zeroflag THEN flags.width ELSE flags.prec
<1>2. \A k \in Nat : InBase(k, 10, Digits) \in Seq(Chars)
  BY InBaseType
<1>3. digits \in Seq(Chars)
  <2> HIDE DEF neg
  <2> QED
    BY <1>1, <1>2
<1>4. "-" \in Chars /\ "+" \in Chars /\ " " \in Chars
  BY OwnChars DEF Own
<1>5. sign \in Seq(Chars)
  <2> DEFINE minus == <<"-">>
             plus  == <<"+">>
             blank == <<" ">>
             none  == <<>>
  <2>1. minus \in Seq(Chars) /\ plus \in Seq(Chars) /\ blank \in Seq(Chars) /\ none \in Seq(Chars)
    <3>1. minus \in Seq(Chars)
      BY <1>4, OneOf
    <3>2. plus \in Seq(Chars)
      BY <1>4, OneOf
    <3>3. blank \in Seq(Chars)
      BY <1>4, OneOf
    <3>4. none \in Seq(Chars)
      OBVIOUS
    <3> HIDE DEF minus, plus, blank, none, sign
    <3> QED
      BY <3>1, <3>2, <3>3, <3>4
  <2>2. sign \in {minus, plus, blank, none}
    <3> HIDE DEF minus, plus, blank, none, neg
    <3> QED
      BY DEF minus, plus, blank, none
  <2> HIDE DEF minus, plus, blank, none, sign
  <2> QED
    BY <2>1, <2>2
<1>6. prec \in Int
  BY DEF FlagSet
<1> HIDE DEF neg, digits, sign, prec
<1>7. DecText(flags, sign, digits, prec) \in Seq(Chars)
  BY <1>3, <1>5, <1>6, DecTextType
<1>8. <<"-">> \o InBase(num, 10, Digits) \in Seq(Chars) /\ <<>> \in Seq(Chars)
  <2>1. <<"-">> \in Seq(Chars) /\ InBase(num, 10, Digits) \in Seq(Chars)
    BY <1>1, <1>2, <1>4, OneOf
  <2> QED
    BY <2>1, ConcatProperties
<1>9. print_dec_int(num, signed, flags) =
          IF signed /\ num = LongMod \div 2 THEN <<"-">> \o InBase(num, 10, Digits)
          ELSE IF flags.prec = 0 /\ num = 0 THEN <<>> ELSE DecText(flags, sign, digits, prec)
  BY Zenon DEF print_dec_int, neg, digits, sign, prec
<1> QED
  BY <1>7, <1>8, <1>9

\* and what %x, %X and %p print.
LEMMA HexTextType ==
    ASSUME NEW conv, NEW num \in Nat, NEW flags \in FlagSet
    PROVE  HexText(conv, num, flags) \in Seq(Chars)
<1> DEFINE prefixed == conv = "p" \/ (flags.sharpflag /\ num # 0)
           prefix == IF prefixed THEN <<"0", IF conv = "X" THEN "X" ELSE "x">> ELSE <<>>
           digits == InBase(num, 16, IF conv = "X" THEN UpperDigits ELSE Digits)
           prec   == IF flags.prec = -1 /\ flags.zeroflag THEN flags.width - Len(prefix)
                     ELSE flags.prec
           pads   == flags.width - Len(prefix) - Most(Len(digits), prec)
           zeros  == prec - Len(digits)
<1>1. digits \in Seq(Chars)
  BY InBaseType
<1>2. "0" \in Chars /\ "x" \in Chars /\ "X" \in Chars /\ " " \in Chars
  BY OwnChars DEF Own
<1>3. prefix \in Seq(Chars)
  <2> DEFINE x == IF conv = "X" THEN "X" ELSE "x"
             zero == "0"
  <2>1. x \in Chars /\ zero \in Chars
    BY <1>2
  <2>2. prefix = IF prefixed THEN <<zero, x>> ELSE <<>>
    OBVIOUS
  <2> HIDE DEF x, zero, prefix, prefixed
  <2>3. <<zero, x>> \in Seq(Chars)
    BY <2>1
  <2> QED
    BY <2>2, <2>3
<1> HIDE DEF prefix, digits
<1>4. prec \in Int
  BY <1>3 DEF FlagSet
<1> HIDE DEF prec
<1>5. pads \in Int /\ zeros \in Int
  BY <1>1, <1>3, <1>4 DEF FlagSet, Most
<1> HIDE DEF pads, zeros
<1>6. Copies(" ", pads) \in Seq(Chars) /\ Copies("0", zeros) \in Seq(Chars)
  BY <1>5, <1>2, CopiesFacts
<1>7. Copies(" ", pads) \o prefix \o Copies("0", zeros) \o digits \in Seq(Chars)
  BY <1>1, <1>3, <1>6, ConcatProperties
<1>8. HexText(conv, num, flags) =
          IF flags.prec = 0 /\ num = 0 /\ conv # "p" THEN <<>>
          ELSE Copies(" ", pads) \o prefix \o Copies("0", zeros) \o digits
  BY Zenon DEF HexText, prefixed, prefix, digits, prec, pads, zeros
<1>9. <<>> \in Seq(Chars)
  OBVIOUS
<1> QED
  BY ONLY <1>7, <1>8, <1>9

-----------------------------------------------------------------------------
(* What every turn keeps: the types, and the count of what is printed.     *)

\* At reads the format's characters, and the Nul behind them.
LEMMA AtFacts ==
    ASSUME NEW s \in Seq(Chars)
    PROVE  /\ \A i \in 1 .. Len(s) : At(s, i) = s[i] /\ At(s, i) \in Chars /\ At(s, i) # ""
           /\ At(s, Len(s) + 1) = ""
           /\ \A i \in Nat \ {0} : At(s, i) # "" => i \in 1 .. Len(s)
<1>1. DOMAIN s = 1 .. Len(s) /\ Len(s) \in Nat
  OBVIOUS
<1>2. ASSUME NEW i \in 1 .. Len(s) PROVE At(s, i) = s[i] /\ At(s, i) \in Chars /\ At(s, i) # ""
  <2>1. s[i] \in Chars /\ "" \notin Chars
    BY OwnChars, ElementOfSeq DEF Nul
  <2>2. At(s, i) = s[i]
    BY <1>1 DEF At
  <2> QED
    BY <2>1, <2>2
<1>3. ASSUME NEW i, i \notin 1 .. Len(s) PROVE At(s, i) = ""
  BY <1>1, <1>3, Zenon DEF At
<1>4. Len(s) + 1 \notin 1 .. Len(s)
  BY <1>1
<1> QED
  BY <1>2, <1>3, <1>4, Zenon

\* strtol stops at the end of the format at the latest.
LEMMA StrtolType ==
    ASSUME NEW fmt \in Seq(Chars), NEW i \in 1 .. Len(fmt) + 1
    PROVE  strtol(fmt, i, 10)[1] \in Int /\ strtol(fmt, i, 10)[2] \in 1 .. Len(fmt) + 1
<1> DEFINE L     == Len(fmt)
           start == SkipSpace(fmt, i)
           b     == BaseOf(fmt, IF At(fmt, start) \in {"-", "+"} THEN start + 1 ELSE start, 10)
           begin == IF At(fmt, start) \in {"-", "+"} THEN start + 1 ELSE start
           end   == SkipDigits(fmt, begin, 10)
           ret   == DigitsFrom(fmt, begin, end, 10)
           neg   == At(fmt, start) = "-"
<1>1. L \in Nat /\ DOMAIN fmt = 1 .. L
  OBVIOUS
<1>2. At(fmt, L + 1) = ""
  BY AtFacts
<1>3. start \in i .. L + 1
  <2> DEFINE T == {j \in i .. L + 1 : ~ isspace(At(fmt, j))}
  <2>1. L + 1 \in T
    <3>1. ~ isspace(At(fmt, L + 1))
      BY <1>2, Zenon DEF isspace
    <3> HIDE DEF L
    <3> QED
      BY <1>1, <3>1 DEF L
  <2>2. T \subseteq Nat /\ T # {}
    BY <1>1, <2>1
  <2>3. start = Min(T)
    BY Zenon DEF SkipSpace
  <2>4. Min(T) \in T
    <3> HIDE DEF T
    <3> QED
      BY <2>2, MinFacts
  <2> QED
    BY <2>3, <2>4
<1>4. begin \in 1 .. L + 1
  <2>1. At(fmt, start) \in {"-", "+"} => start # L + 1
    BY <1>2
  <2> HIDE DEF start
  <2> QED
    BY <1>1, <1>3, <2>1
<1> HIDE DEF begin
<1>5. end \in begin .. L + 1
  <2> DEFINE T == {j \in begin .. L + 1 : DigitOf(At(fmt, j)) >= 10}
  <2>1. L + 1 \in T
    <3>1. DigitOf(At(fmt, L + 1)) >= 10
      <4>1. DigitOf(At(fmt, L + 1)) = 99
        BY <1>2, NotDigits, Zenon
      <4> QED
        BY <4>1
    <3>2. L + 1 \in begin .. L + 1
      BY <1>1, <1>4
    <3> QED
      BY <3>1, <3>2
  <2>2. T \subseteq Nat /\ T # {}
    BY <1>1, <1>4, <2>1
  <2>3. end = Min(T)
    BY Zenon DEF SkipDigits
  <2>4. Min(T) \in T
    <3> HIDE DEF T
    <3> QED
      BY <2>2, MinFacts
  <2> QED
    BY <2>3, <2>4
<1> HIDE DEF end
<1>6. ret \in 0 .. LongMod - 1
  <2>1. begin \in Nat /\ end \in Nat /\ begin <= end
    BY <1>1, <1>4, <1>5
  <2>2. PICK f \in [begin .. end -> 0 .. LongMod - 1] : ret = f[end]
    BY <2>1, DigitsFromRun, SMTT(30)
  <2> HIDE DEF ret
  <2> QED
    BY <2>1, <2>2
<1> HIDE DEF ret, start, neg
<1>7. strtol(fmt, i, 10) = << Signed(IF neg THEN -ret ELSE ret, LongMod), end >>
  <2>1. b = <<10, begin>>
    BY DEF BaseOf, begin
  <2>2. b[2] = begin /\ b[1] = 10
    <3> HIDE DEF b
    <3> QED
      BY <2>1
  <2> HIDE DEF b
  <2>3. strtol(fmt, i, 10) = << Signed(IF neg THEN -DigitsFrom(fmt, b[2], SkipDigits(fmt, b[2], b[1]), b[1])
                                        ELSE DigitsFrom(fmt, b[2], SkipDigits(fmt, b[2], b[1]), b[1]), LongMod),
                                SkipDigits(fmt, b[2], b[1]) >>
    BY Zenon DEF strtol, ReadTo, b, start, neg
  <2> QED
    BY <2>2, <2>3, Zenon DEF ret, end
<1>8. LongMod \in Nat \ {0} /\ (IF neg THEN -ret ELSE ret) \in Int
  BY <1>6, Mods
<1>9. Signed(IF neg THEN -ret ELSE ret, LongMod) \in Int
  BY <1>8, SignedType
<1> QED
  BY <1>1, <1>4, <1>5, <1>7, <1>9

\* A state within the format that has printed what a text may hold.
Kept(fmt, st) ==
    st \in States /\ st.at \in 1 .. Len(fmt) + 1 /\ st.written = Len(st.out)

\* Reading on keeps a state so, and so does printing.
LEMMA MovedKeeps ==
    ASSUME NEW fmt, NEW st, Kept(fmt, st), NEW at \in 1 .. Len(fmt) + 1, Len(fmt) \in Nat,
           NEW flags \in FlagSet, NEW used \in Nat
    PROVE  Kept(fmt, Moved(st, at, flags, used))
  BY DEF Kept, Moved, States

LEMMA PrintedKeeps ==
    ASSUME NEW fmt, NEW st, Kept(fmt, st), st.at <= Len(fmt), Len(fmt) \in Nat,
           NEW text \in Seq(Chars), NEW used \in Nat
    PROVE  Kept(fmt, Printed(st, text, used))
<1>1. [st.flags EXCEPT !.in_format = FALSE] \in FlagSet
  BY DEF Kept, States, FlagSet
<1>2. st.out \o text \in Seq(Chars) /\ Len(st.out \o text) = Len(st.out) + Len(text)
  BY ConcatProperties DEF Kept, States
<1> QED
  BY <1>1, <1>2 DEF Kept, Printed, States

\* What a turn makes of a state, by the character c it sees.
TurnCase(fmt, args, st, c, new) ==
    \/ c = "" /\ new = st
    \/ c = "%" /\ new = Moved(st, st.at + 1, Flags(TRUE, -1), st.used)
    \/ c # "" /\ new = Printed(st, <<c>>, st.used)
    \/ /\ c \in FlagChars
       /\ new = Moved(st, st.at + 1, SetFlag(st.flags, c), st.used)
    \/ /\ c = "*"
       /\ new = Moved(st, st.at + 1,
              [st.flags EXCEPT !.width = IntArg(st, args)], st.used + 1)
    \/ /\ c # ""
       /\ new = Moved(st, strtol(fmt, st.at, 10)[2],
              [st.flags EXCEPT !.width = strtol(fmt, st.at, 10)[1]], st.used)
    \/ /\ c = "." /\ At(fmt, st.at + 1) = "*"
       /\ new = Moved(st, st.at + 2,
              [st.flags EXCEPT !.prec = IntArg(st, args)], st.used + 1)
    \/ /\ c = "."
       /\ new = Moved(st, strtol(fmt, st.at + 1, 10)[2],
              [st.flags EXCEPT !.prec = strtol(fmt, st.at + 1, 10)[1]], st.used)
    \/ /\ c \in {"x", "X", "p"}
       /\ new =
              Printed(st, HexText(c, NumOf(c, st, args), st.flags), st.used + 1)
    \/ /\ c \in {"d", "i", "u"}
       /\ new =
              Printed(st, print_dec_int(NumOf(c, st, args), c # "u", st.flags), st.used + 1)
    \/ /\ c = "n"
       /\ new =
           [at |-> st.at + 1, flags |-> [st.flags EXCEPT !.in_format = FALSE],
            out |-> st.out, written |-> st.written, used |-> st.used + 1,
            stored |-> Append(st.stored, st.written)]
    \/ /\ c = "s"
       /\ new = Printed(st, puts_wo_nl(args[st.used + 1]), st.used + 1)
    \/ /\ c = "c"
       /\ new = Printed(st, <<args[st.used + 1].text[1]>>, st.used + 1)

LEMMA TurnCases ==
    ASSUME NEW fmt, NEW args, NEW st, IsState(st), NEW c, c = At(fmt, st.at)
    PROVE  TurnCase(fmt, args, st, c, Turn(fmt, args, st))
<1> USE DEF TurnCase
<1>1. CASE c = ""
  BY <1>1, EndTurn
<1>2. CASE c # "" /\ ~ st.flags.in_format
  <2>1. CASE c = "%"
    BY <1>2, <2>1, PercentTurn, Zenon
  <2>2. CASE c # "%"
    BY <1>2, <2>2, CharTurn, Zenon
  <2> QED
    BY <2>1, <2>2
<1>3. CASE c # "" /\ st.flags.in_format
  <2>1. CASE c \in FlagChars
    BY <1>3, <2>1, FlagTurn, Zenon
  <2>2. CASE c = "*"
    BY <1>3, <2>2, StarTurn, Zenon
  <2>3. CASE c \notin FlagChars /\ c # "*" /\ DigitOf(c) \in 1 .. 9
    <3>1. c \notin {"", "*"}
      BY <1>3, <2>3
    <3> QED
      BY <1>3, <2>3, <3>1, WidthTurn, Zenon
  <2>4. CASE c = "."
    <3>0. DigitOf(".") \notin 1 .. 9
      <4>1. 99 \notin 1 .. 9
        OBVIOUS
      <4> QED
        BY <4>1, NotDigits, Zenon
    <3>1. CASE At(fmt, st.at + 1) = "*"
      BY <1>3, <2>4, <3>0, <3>1, PrecStarTurn, Zenon
    <3>2. CASE At(fmt, st.at + 1) # "*"
      BY <1>3, <2>4, <3>0, <3>2, PrecTurn, Zenon
    <3> QED
      BY <3>1, <3>2
  <2>5. CASE c \notin FlagChars \cup {"*", "."} /\ DigitOf(c) \notin 1 .. 9
    <3> DEFINE next == [st EXCEPT !.at = @ + 1]
    <3>1. c \notin FlagChars /\ c \notin {"", "*", "."}
      BY <1>3, <2>5
    <3>2. Turn(fmt, args, st) = Convert(c, next, args)
      BY <1>3, <2>5, <3>1, ConvertTurn, Zenon
    <3>3. CASE c \in {"x", "X", "p"}
      BY <3>2, <3>3, ConvertIs, Zenon
    <3>4. CASE c \in {"d", "i", "u"}
      BY <3>2, <3>4, ConvertIs, Zenon
    <3>5. CASE c = "n"
      BY <3>2, <3>5, ConvertIs, Zenon
    <3>6. CASE c = "s"
      BY <3>2, <3>6, ConvertIs, Zenon
    <3>7. CASE c = "c"
      BY <3>2, <3>7, ConvertIs, Zenon
    <3>8. CASE c \notin {"x", "X", "p", "d", "i", "u", "n", "s", "c"}
      BY <1>3, <3>2, <3>8, ConvertIs, Zenon
    <3> QED
      BY <3>3, <3>4, <3>5, <3>6, <3>7, <3>8
  <2> QED
    BY <2>1, <2>2, <2>3, <2>4, <2>5
<1> QED
  BY <1>1, <1>2, <1>3

\* Arguments are taken one by one.
LEMMA TurnUses ==
    ASSUME NEW fmt, NEW args, NEW st, IsState(st), NEW new, new = Turn(fmt, args, st)
    PROVE  IsState(new) /\ new.used \in {st.used, st.used + 1}
<1>1. \A at, flags, used : IsState(Moved(st, at, flags, used)) /\ Moved(st, at, flags, used).used = used
  BY DEF IsState, Moved
<1>2. \A text, used : IsState(Printed(st, text, used)) /\ Printed(st, text, used).used = used
  BY DEF IsState, Printed
<1> DEFINE n == [at |-> st.at + 1, flags |-> [st.flags EXCEPT !.in_format = FALSE],
                 out |-> st.out, written |-> st.written, used |-> st.used + 1,
                 stored |-> Append(st.stored, st.written)]
<1>3. IsState(n) /\ n.used = st.used + 1
  BY DEF IsState
<1> DEFINE c == At(fmt, st.at)
<1>4. c = At(fmt, st.at)
  OBVIOUS
<1> HIDE DEF n, c
<1>5. \/ new = st
      \/ \E at, flags : \E u \in {st.used, st.used + 1} : new = Moved(st, at, flags, u)
      \/ \E text : \E u \in {st.used, st.used + 1} : new = Printed(st, text, u)
      \/ new = n
  <2> DEFINE Move(m) == \E at, flags : \E u \in {st.used, st.used + 1} : m = Moved(st, at, flags, u)
             Show(m) == \E text : \E u \in {st.used, st.used + 1} : m = Printed(st, text, u)
  <2>1. \A at, flags : Move(Moved(st, at, flags, st.used)) /\ Move(Moved(st, at, flags, st.used + 1))
    BY Zenon
  <2>2. \A text : Show(Printed(st, text, st.used)) /\ Show(Printed(st, text, st.used + 1))
    BY Zenon
  <2> HIDE DEF Move, Show
  <2>3. new = st \/ Move(new) \/ Show(new) \/ new = n
    <3>1. TurnCase(fmt, args, st, c, new)
      BY <1>4, TurnCases
    <3> QED
      BY <2>1, <2>2, <3>1 DEF TurnCase, n
  <2> QED
    BY <2>3, Zenon DEF Move, Show
<1> QED
  BY <1>1, <1>2, <1>3, <1>5

\* The arguments that the calls of a program may pass.
ArgSet == [word : 0 .. LongMod - 1, text : Seq(Chars), null : BOOLEAN]

\* The number of a conversion is a word.
LEMMA NumOfType ==
    ASSUME NEW args \in Seq(ArgSet), NEW st \in States, st.used + 1 <= Len(args), NEW c
    PROVE  /\ IntArg(st, args) \in Int
           /\ NumOf(c, st, args) \in 0 .. LongMod - 1
<1> DEFINE w == args[st.used + 1].word
<1>1. w \in 0 .. LongMod - 1 /\ LongMod \in Nat \ {0} /\ IntMod \in Nat \ {0} /\ IntMod <= LongMod
  <2>1. st.used + 1 \in 1 .. Len(args)
    BY DEF States
  <2>2. args[st.used + 1] \in ArgSet
    BY <2>1, ElementOfSeq
  <2> QED
    BY <2>2, Mods DEF ArgSet
<1>2. Word(st, args) = w
  BY Zenon DEF Word
<1> HIDE DEF w
<1>3. Signed(w, IntMod) \in Int /\ w % IntMod \in 0 .. IntMod - 1
  <2>1. w \in Int
    BY <1>1
  <2>2. Signed(w, IntMod) \in Int
    BY <1>1, <2>1, SignedType
  <2>3. w % IntMod \in 0 .. IntMod - 1
    BY <1>1, <2>1
  <2> QED
    BY <2>2, <2>3
<1>4. \A v \in Int : v % LongMod \in 0 .. LongMod - 1
  BY <1>1
<1>5. IntArg(st, args) = Signed(w, IntMod)
  BY <1>2, Zenon DEF IntArg
<1>6. NumOf(c, st, args) \in {w, w % IntMod, IntArg(st, args) % LongMod}
  BY <1>2 DEF NumOf
<1>7. IntArg(st, args) % LongMod \in 0 .. LongMod - 1
  BY <1>3, <1>4, <1>5
<1>8. w % IntMod \in 0 .. LongMod - 1
  BY <1>1, <1>3
<1> QED
  BY <1>1, <1>3, <1>5, <1>6, <1>7, <1>8

\* Flags stay flags.
LEMMA FlagsType ==
    ASSUME NEW flags \in FlagSet, NEW c, NEW n \in Int
    PROVE  /\ SetFlag(flags, c) \in FlagSet /\ Flags(TRUE, -1) \in FlagSet
           /\ Flags(FALSE, 0) \in FlagSet
           /\ [flags EXCEPT !.width = n] \in FlagSet /\ [flags EXCEPT !.prec = n] \in FlagSet
<1>1. Flags(TRUE, -1) \in FlagSet /\ Flags(FALSE, 0) \in FlagSet
  BY DEF FlagSet, Flags
<1>2. [flags EXCEPT !.width = n] \in FlagSet /\ [flags EXCEPT !.prec = n] \in FlagSet
  BY DEF FlagSet
<1>3. /\ [flags EXCEPT !.sharpflag = TRUE] \in FlagSet /\ [flags EXCEPT !.zeroflag = TRUE] \in FlagSet
      /\ [flags EXCEPT !.sign = TRUE] \in FlagSet /\ [flags EXCEPT !.spaceflag = TRUE] \in FlagSet
      /\ [flags EXCEPT !.longflag = TRUE] \in FlagSet
  BY DEF FlagSet
<1>4. SetFlag(flags, c) \in FlagSet
  BY <1>3 DEF SetFlag
<1> QED
  BY <1>1, <1>2, <1>4

\* Every turn keeps the state within the format.
LEMMA TurnKeeps ==
    ASSUME NEW fmt \in Seq(Chars), NEW args \in Seq(ArgSet), NEW st, Kept(fmt, st),
           NEW new, new = Turn(fmt, args, st), new.used <= Len(args),
           "c" \in Range(fmt) => \A i \in 1 .. Len(args) : args[i].text # <<>>
    PROVE  Kept(fmt, new)
<1> DEFINE c == At(fmt, st.at)
           L == Len(fmt)
<1>1. /\ st \in States /\ st.at \in 1 .. L + 1 /\ st.written = Len(st.out) /\ L \in Nat
      /\ st.used \in Nat /\ st.flags \in FlagSet /\ Len(args) \in Nat /\ L = Len(fmt)
  BY DEF Kept, States
<1>0. /\ st.at \in Nat \ {0} /\ st.used + 1 \in Nat
      /\ st.at \in 1 .. L => st.at + 1 \in 1 .. L + 1 /\ st.at <= Len(fmt)
  BY <1>1
<1>2. IsState(st)
  BY <1>1 DEF States, IsState
<1>3. TurnCase(fmt, args, st, c, new)
  BY <1>2, TurnCases
<1> HIDE DEF c, L
<1>4. c # "" => st.at \in 1 .. L /\ c \in Chars /\ st.at + 1 \in 1 .. L + 1
  <2> SUFFICES ASSUME c # "" PROVE st.at \in 1 .. L /\ c \in Chars /\ st.at + 1 \in 1 .. L + 1
    OBVIOUS
  <2>2. st.at \in 1 .. L
    BY <1>0, AtFacts DEF c, L
  <2>3. c \in Chars
    BY <2>2, AtFacts DEF c, L
  <2> QED
    BY <1>0, <2>2, <2>3
<1>5. \A at \in 1 .. L + 1, flags \in FlagSet :
          Kept(fmt, Moved(st, at, flags, st.used)) /\ Kept(fmt, Moved(st, at, flags, st.used + 1))
  <2>1. st.used \in Nat /\ st.used + 1 \in Nat
    BY <1>1
  <2>2. \A at \in 1 .. L + 1, flags \in FlagSet, used \in Nat : Kept(fmt, Moved(st, at, flags, used))
    BY <1>1, MovedKeeps
  <2> QED
    BY <2>1, <2>2
<1>6. c # "" => \A text \in Seq(Chars) :
          Kept(fmt, Printed(st, text, st.used)) /\ Kept(fmt, Printed(st, text, st.used + 1))
  <2> SUFFICES ASSUME c # "", NEW text \in Seq(Chars)
               PROVE  Kept(fmt, Printed(st, text, st.used)) /\ Kept(fmt, Printed(st, text, st.used + 1))
    OBVIOUS
  <2>1. st.at <= Len(fmt) /\ Len(fmt) \in Nat /\ st.used \in Nat /\ st.used + 1 \in Nat
    BY <1>0, <1>1, <1>4, Zenon
  <2>2. \A used \in Nat : Kept(fmt, Printed(st, text, used))
    BY <2>1, PrintedKeeps
  <2> QED
    BY <2>1, <2>2
<1>7. \A text, used : Printed(st, text, used).used = used
  BY DEF Printed
<1>8. \A at, flags, used : Moved(st, at, flags, used).used = used
  BY DEF Moved
<1>9. st.used + 1 <= Len(args) =>
          /\ IntArg(st, args) \in Int /\ NumOf(c, st, args) \in 0 .. LongMod - 1
          /\ args[st.used + 1] \in ArgSet
  <2> SUFFICES ASSUME st.used + 1 <= Len(args)
               PROVE  /\ IntArg(st, args) \in Int /\ NumOf(c, st, args) \in 0 .. LongMod - 1
                      /\ args[st.used + 1] \in ArgSet
    OBVIOUS
  <2>1. st.used + 1 \in 1 .. Len(args)
    BY <1>1
  <2> QED
    BY <1>1, <2>1, NumOfType, ElementOfSeq
<1>10. CASE c = "" /\ new = st
  BY <1>10
<1>11. CASE c = "%" /\ new = Moved(st, st.at + 1, Flags(TRUE, -1), st.used)
  <2>1. Flags(TRUE, -1) \in FlagSet
    <3>1. 0 \in Int
      OBVIOUS
    <3> QED
      BY <1>1, <3>1, FlagsType
  <2> QED
    BY <1>1, <1>4, <1>5, <1>11, <2>1
<1>12. CASE c # "" /\ new = Printed(st, <<c>>, st.used)
  <2>1. <<c>> \in Seq(Chars)
    BY <1>4, <1>12, OneOf
  <2> QED
    BY <1>1, <1>6, <1>12, <2>1
<1>13. CASE c \in FlagChars /\ new = Moved(st, st.at + 1, SetFlag(st.flags, c), st.used)
  <2>1. SetFlag(st.flags, c) \in FlagSet /\ c # ""
    <3>1. 0 \in Int
      OBVIOUS
    <3>2. "" \notin FlagChars
      BY DEF FlagChars
    <3>3. c # ""
      BY <1>13, <3>2
    <3> QED
      BY <1>1, <3>1, <3>3, FlagsType
  <2> QED
    BY <1>1, <1>4, <1>5, <1>13, <2>1
<1>14. CASE c = "*" /\ new = Moved(st, st.at + 1, [st.flags EXCEPT !.width = IntArg(st, args)], st.used + 1)
  <2>1. st.used + 1 <= Len(args)
    BY <1>8, <1>14
  <2>2. [st.flags EXCEPT !.width = IntArg(st, args)] \in FlagSet
    BY <1>1, <1>9, <2>1, FlagsType
  <2> QED
    BY <1>1, <1>4, <1>5, <1>14, <2>2
<1>15. CASE c # "" /\ new = Moved(st, strtol(fmt, st.at, 10)[2],
                                  [st.flags EXCEPT !.width = strtol(fmt, st.at, 10)[1]], st.used)
  <2> DEFINE r == strtol(fmt, st.at, 10)
  <2>1. r[1] \in Int /\ r[2] \in 1 .. L + 1
    BY <1>1, StrtolType DEF L
  <2> HIDE DEF r
  <2>2. [st.flags EXCEPT !.width = r[1]] \in FlagSet
    BY <1>1, <2>1, FlagsType
  <2>3. new = Moved(st, r[2], [st.flags EXCEPT !.width = r[1]], st.used)
    BY <1>15, Zenon DEF r
  <2> QED
    BY <1>1, <1>5, <2>1, <2>2, <2>3
<1>16. CASE /\ c = "." /\ At(fmt, st.at + 1) = "*"
            /\ new = Moved(st, st.at + 2, [st.flags EXCEPT !.prec = IntArg(st, args)], st.used + 1)
  <2>1. st.used + 1 <= Len(args)
    BY <1>8, <1>16
  <2>2. [st.flags EXCEPT !.prec = IntArg(st, args)] \in FlagSet
    BY <1>1, <1>9, <2>1, FlagsType
  <2>3. st.at + 1 \in 1 .. L
    <3> DEFINE i == st.at + 1
    <3>1. i \in Nat \ {0} /\ "*" # ""
      BY <1>1
    <3>2. At(fmt, i) # ""
      BY <1>16, <3>1, Zenon
    <3> HIDE DEF i
    <3>3. i \in 1 .. L
      BY <3>1, <3>2, AtFacts DEF L
    <3> QED
      BY <3>3 DEF i
  <2>4. st.at + 2 \in 1 .. L + 1
    BY <1>1, <2>3
  <2> QED
    BY <1>5, <1>16, <2>2, <2>4, Zenon
<1>17. CASE /\ c = "."
            /\ new = Moved(st, strtol(fmt, st.at + 1, 10)[2],
                           [st.flags EXCEPT !.prec = strtol(fmt, st.at + 1, 10)[1]], st.used)
  <2> DEFINE r == strtol(fmt, st.at + 1, 10)
  <2>1. r[1] \in Int /\ r[2] \in 1 .. L + 1
    <3>1. st.at + 1 \in 1 .. L + 1
      BY <1>4, <1>17
    <3> QED
      BY <1>1, <3>1, StrtolType DEF L
  <2> HIDE DEF r
  <2>2. [st.flags EXCEPT !.prec = r[1]] \in FlagSet
    BY <1>1, <2>1, FlagsType
  <2>3. new = Moved(st, r[2], [st.flags EXCEPT !.prec = r[1]], st.used)
    BY <1>17, Zenon DEF r
  <2> QED
    BY <1>1, <1>5, <2>1, <2>2, <2>3
<1>18. CASE /\ c \in {"x", "X", "p"}
            /\ new = Printed(st, HexText(c, NumOf(c, st, args), st.flags), st.used + 1)
  <2> DEFINE num == NumOf(c, st, args)
  <2>1. st.used + 1 <= Len(args)
    BY <1>7, <1>18
  <2>2. num \in Nat
    BY <1>9, <2>1
  <2> HIDE DEF num
  <2>3. HexText(c, num, st.flags) \in Seq(Chars)
    BY <1>1, <2>2, HexTextType
  <2>4. c # "" /\ new = Printed(st, HexText(c, num, st.flags), st.used + 1)
    BY <1>18, Zenon DEF num
  <2> QED
    BY <1>6, <2>3, <2>4, Zenon
<1>19. CASE /\ c \in {"d", "i", "u"}
            /\ new = Printed(st, print_dec_int(NumOf(c, st, args), c # "u", st.flags), st.used + 1)
  <2> DEFINE num == NumOf(c, st, args)
             signed == c # "u"
  <2>1. st.used + 1 <= Len(args)
    BY <1>7, <1>19
  <2>2. num \in 0 .. LongMod - 1 /\ signed \in BOOLEAN
    BY <1>9, <2>1
  <2> HIDE DEF num, signed
  <2>3. print_dec_int(num, signed, st.flags) \in Seq(Chars)
    BY <1>1, <2>2, DecIntType
  <2>4. new = Printed(st, print_dec_int(num, signed, st.flags), st.used + 1) /\ c # ""
    BY <1>19, Zenon DEF num, signed
  <2> QED
    BY <1>6, <2>3, <2>4, Zenon
<1>20. CASE /\ c = "n"
            /\ new = [at |-> st.at + 1, flags |-> [st.flags EXCEPT !.in_format = FALSE],
                      out |-> st.out, written |-> st.written, used |-> st.used + 1,
                      stored |-> Append(st.stored, st.written)]
  <2> DEFINE flags == [st.flags EXCEPT !.in_format = FALSE]
             stored == Append(st.stored, st.written)
  <2>1. flags \in FlagSet /\ stored \in Seq(Nat) /\ st.at + 1 \in 1 .. L + 1
    BY <1>1, <1>4, <1>20, AppendProperties DEF FlagSet, States
  <2>2. new = [at |-> st.at + 1, flags |-> flags, out |-> st.out, written |-> st.written,
               used |-> st.used + 1, stored |-> stored]
    BY <1>20
  <2> HIDE DEF flags, stored
  <2> QED
    BY <1>1, <2>1, <2>2 DEF Kept, States, L
<1>21. CASE c = "s" /\ new = Printed(st, puts_wo_nl(args[st.used + 1]), st.used + 1)
  <2> DEFINE a == args[st.used + 1]
  <2>1. st.used + 1 <= Len(args)
    BY <1>7, <1>21
  <2>2. a \in ArgSet
    BY <1>9, <2>1
  <2> HIDE DEF a
  <2>3. NullText \in Seq(Chars)
    <3>1. {"(", "n", "u", "l", ")"} \subseteq Chars
      BY OwnChars DEF Own
    <3> QED
      BY <3>1 DEF NullText
  <2>4. puts_wo_nl(a) \in Seq(Chars)
    BY <2>2, <2>3 DEF puts_wo_nl, ArgSet
  <2> QED
    BY <1>1, <1>6, <1>21, <2>4 DEF a
<1>22. CASE c = "c" /\ new = Printed(st, <<args[st.used + 1].text[1]>>, st.used + 1)
  <2> DEFINE t == args[st.used + 1].text
             x == t[1]
  <2>1. st.used + 1 <= Len(args)
    BY <1>7, <1>22
  <2>2. "c" \in Range(fmt)
    <3>1. st.at \in 1 .. L /\ fmt[st.at] = "c"
      BY <1>1, <1>4, <1>22, AtFacts DEF L, c
    <3> QED
      BY <3>1, RangeEquality DEF L
  <2>3. t \in Seq(Chars) /\ t # <<>>
    <3>1. st.used + 1 \in 1 .. Len(args)
      BY <1>1, <2>1
    <3> QED
      BY <1>9, <2>1, <2>2, <3>1 DEF ArgSet
  <2> HIDE DEF t
  <2>4. x \in Chars
    <3>1. 1 \in 1 .. Len(t)
      BY <2>3, EmptySeq
    <3> QED
      BY <2>3, <3>1, ElementOfSeq
  <2>5. new = Printed(st, <<x>>, st.used + 1)
    BY <1>22, Zenon DEF t
  <2> HIDE DEF x
  <2>6. <<x>> \in Seq(Chars)
    BY <2>4, OneOf
  <2>7. c # ""
    BY <1>22
  <2> QED
    BY <1>6, <2>5, <2>6, <2>7, Zenon
<1> QED
  BY <1>3, <1>10, <1>11, <1>12, <1>13, <1>14, <1>15, <1>16, <1>17, <1>18, <1>19, <1>20, <1>21, <1>22,
     Zenon DEF TurnCase

-----------------------------------------------------------------------------
(* What vprintfmt prints.                                                  *)

\* What a well-formed call prints is characters, and their number is counted.
LEMMA PrintsText ==
    ASSUME NEW fmt \in Seq(Chars), NEW args \in Seq(ArgSet),
           NEW r, r = vprintfmt(fmt, args), r.used <= Len(args),
           "c" \in Range(fmt) => \A i \in 1 .. Len(args) : args[i].text # <<>>
    PROVE  Kept(fmt, r)
<1> DEFINE n == Len(fmt)
<1>1. n \in Nat /\ Len(args) \in Nat
  OBVIOUS
<1>2. PICK f : Runs(f, n, fmt, args) /\ r = f[n]
  BY <1>1, LoopRun
<1>3. f[0] = Start
  BY <1>1, <1>2, RunFacts
<1>4. \A k \in 1 .. n : k - 1 \in 0 .. n /\ f[k] = Turn(fmt, args, f[k - 1])
  BY <1>1, <1>2, RunFacts
<1>5. IsState(Start) /\ Start.used = 0 /\ Kept(fmt, Start)
  <2>1. Flags(FALSE, 0) \in FlagSet
    BY DEF Flags, FlagSet
  <2> DEFINE flags == Flags(FALSE, 0)
             none  == <<>>
  <2>2. Start = [at |-> 1, flags |-> flags, out |-> none, written |-> 0, used |-> 0, stored |-> none]
    BY DEF Start
  <2>3. none \in Seq(Chars) /\ none \in Seq(Nat) /\ Len(none) = 0
    <3>1. \A S : <<>> \in Seq(S)
      BY EmptySeq
    <3>2. Len(<<>>) = 0
      OBVIOUS
    <3> QED
      BY <3>1, <3>2
  <2>4. flags \in FlagSet
    BY <2>1
  <2> HIDE DEF flags, none
  <2>5. Start \in States
    BY <2>2, <2>3, <2>4 DEF States
  <2> QED
    BY <1>1, <2>2, <2>3, <2>4, <2>5 DEF IsState, Kept
<1> HIDE DEF n
<1>6. \A k \in 0 .. n : IsState(f[k]) /\ f[k].used \in Nat
  <2> DEFINE T == {k \in 0 .. n : ~ (IsState(f[k]) /\ f[k].used \in Nat)}
  <2> SUFFICES ASSUME T # {} PROVE FALSE
    OBVIOUS
  <2>1. PICK k \in T : \A m \in T : k <= m
    <3>1. T \subseteq Nat
      BY <1>1
    <3> HIDE DEF T
    <3> QED
      BY <3>1, LeastElement
  <2>2. k # 0
    BY <1>3, <1>5
  <2>3. k \in 1 .. n /\ k - 1 \in 0 .. n /\ ~ (k <= k - 1)
    BY <1>1, <2>2
  <2>4. IsState(f[k - 1]) /\ f[k - 1].used \in Nat
    BY <2>1, <2>3
  <2>5. f[k] = Turn(fmt, args, f[k - 1])
    BY <1>4, <2>3
  <2>6. IsState(f[k]) /\ f[k].used \in {f[k - 1].used, f[k - 1].used + 1}
    BY <2>4, <2>5, TurnUses
  <2> QED
    BY <2>4, <2>6
<1>7. \A k \in 0 .. n : f[k].used <= f[n].used
  <2> DEFINE T == {j \in 0 .. n : ~ (f[n - j].used <= f[n].used)}
  <2>1. T = {}
    <3> SUFFICES ASSUME T # {} PROVE FALSE
      OBVIOUS
    <3>1. PICK j \in T : \A m \in T : j <= m
      <4>1. T \subseteq Nat
        BY <1>1
      <4> HIDE DEF T
      <4> QED
        BY <4>1, LeastElement
    <3>2. j # 0
      <4>1. n - 0 = n /\ n \in 0 .. n
        BY <1>1
      <4>2. f[n - 0].used <= f[n].used
        BY <1>6, <4>1
      <4> QED
        BY <4>2
    <3>3. j \in 1 .. n /\ j - 1 \in 0 .. n /\ ~ (j <= j - 1)
      BY <1>1, <3>2
    <3> DEFINE k == n - (j - 1)
    <3>4. k \in 1 .. n /\ k - 1 = n - j /\ k \in 0 .. n /\ k - 1 \in 0 .. n /\ n \in 0 .. n
      BY <1>1, <3>3
    <3>5. f[k].used <= f[n].used
      BY <3>1, <3>3
    <3>6. f[k] = Turn(fmt, args, f[k - 1])
      BY <1>4, <3>4
    <3>7. f[k].used \in {f[k - 1].used, f[k - 1].used + 1}
      BY <1>6, <3>4, <3>6, TurnUses
    <3>8. f[k - 1].used \in Nat /\ f[k].used \in Nat /\ f[n].used \in Nat
      BY <1>6, <3>4
    <3>9. f[k - 1].used <= f[n].used
      <4> HIDE DEF k
      <4> QED
        BY <3>5, <3>7, <3>8
    <3> QED
      BY <3>4, <3>9
  <2>2. ASSUME NEW k \in 0 .. n PROVE f[k].used <= f[n].used
    <3>1. n - k \in 0 .. n /\ n - (n - k) = k
      BY <1>1
    <3>2. f[n - (n - k)].used <= f[n].used
      BY <2>1, <3>1
    <3> QED
      BY <3>1, <3>2
  <2> QED
    BY <2>2
<1>8. \A k \in 0 .. n : Kept(fmt, f[k])
  <2> DEFINE T == {k \in 0 .. n : ~ Kept(fmt, f[k])}
  <2> SUFFICES ASSUME T # {} PROVE FALSE
    OBVIOUS
  <2>1. PICK k \in T : \A m \in T : k <= m
    <3>1. T \subseteq Nat
      BY <1>1
    <3> HIDE DEF T
    <3> QED
      BY <3>1, LeastElement
  <2>2. k # 0
    BY <1>3, <1>5
  <2>3. k \in 1 .. n /\ k - 1 \in 0 .. n /\ ~ (k <= k - 1) /\ n \in 0 .. n
    BY <1>1, <2>2
  <2>4. Kept(fmt, f[k - 1])
    BY <2>1, <2>3
  <2>5. f[k] = Turn(fmt, args, f[k - 1])
    BY <1>4, <2>3
  <2>6. f[k].used <= Len(args)
    <3>1. f[k].used <= f[n].used /\ f[n].used <= Len(args) /\ f[k].used \in Nat /\ f[n].used \in Nat
      BY <1>2, <1>6, <1>7, <2>3
    <3> QED
      BY <1>1, <3>1
  <2>7. Kept(fmt, f[k])
    BY <2>4, <2>5, <2>6, TurnKeeps
  <2> QED
    BY <2>7
<1> QED
  <2>1. n \in 0 .. n
    BY <1>1
  <2> QED
    BY <1>2, <1>8, <2>1

\* A position and the one before it.
LEMMA Below ==
    ASSUME NEW n \in Nat, NEW k \in 1 .. n
    PROVE  k \in Nat /\ (k - 1) + 1 = k /\ 1 \in 1 .. n
  OBVIOUS

\* A text without "%" prints itself, to its Nul.
Plain(buf, n) ==
    /\ n \in 0 .. Len(buf)
    /\ \A i \in 1 .. n : buf[i] \notin {"", "%"}
    /\ At(buf, n + 1) = ""

\* After k turns a text without % has printed its first k characters.
Told(st, buf, k) ==
    /\ IsState(st) /\ st.at = k + 1 /\ st.flags \in FlagSet /\ ~ st.flags.in_format
    /\ st.out = SubSeq(buf, 1, k) /\ st.written = k

\* One turn prints one more.
LEMMA TellOne ==
    ASSUME NEW S, NEW buf \in Seq(S), NEW k \in 1 .. Len(buf), NEW st, Told(st, buf, k - 1), NEW args,
           buf[k] \notin {"", "%"}
    PROVE  Told(Turn(buf, args, st), buf, k)
<1> DEFINE c == buf[k]
<1>1. Len(buf) \in Nat /\ DOMAIN buf = 1 .. Len(buf) /\ k \in Nat /\ (k - 1) + 1 = k
      /\ 1 \in 1 .. Len(buf)
  <2>1. Len(buf) \in Nat /\ DOMAIN buf = 1 .. Len(buf)
    BY LenProperties
  <2> QED
    BY <2>1, Below, Zenon
<1>2. st.at = k /\ At(buf, st.at) = c /\ IsState(st) /\ ~ st.flags.in_format
  <2>1. st.at = k
    BY <1>1 DEF Told
  <2> QED
    BY <1>1, <2>1 DEF At, Told
<1>3. c # "" /\ c # "%"
  OBVIOUS
<1> HIDE DEF c
<1>4. Turn(buf, args, st) = Printed(st, <<c>>, st.used)
  BY <1>2, <1>3, CharTurn
<1>5. SubSeq(buf, 1, k) = SubSeq(buf, 1, k - 1) \o <<c>>
  <2>1. 1 \in 1 .. Len(buf) /\ k \in 1 .. Len(buf)
    BY <1>1
  <2> QED
    BY <2>1, SubSeqRecursiveSecond DEF c
<1>6. /\ [st.flags EXCEPT !.in_format = FALSE].in_format = FALSE
      /\ [st.flags EXCEPT !.in_format = FALSE] \in FlagSet
  BY DEF Told, FlagSet
<1> DEFINE p == Printed(st, <<c>>, st.used)
<1>7. /\ IsState(p) /\ p.at = st.at + 1 /\ p.flags = [st.flags EXCEPT !.in_format = FALSE]
      /\ p.out = st.out \o <<c>> /\ p.written = st.written + 1
  BY DEF Printed, IsState
<1> HIDE DEF p
<1> QED
  BY <1>1, <1>2, <1>4, <1>5, <1>6, <1>7 DEF Told, p

\* A text without % prints itself, up to its Nul, and its length is returned.
LEMMA PlainPrinted ==
    ASSUME NEW S, NEW buf \in Seq(S), NEW n, Plain(buf, n), NEW args
    PROVE  /\ vprintfmt(buf, args).out = SubSeq(buf, 1, n)
           /\ vprintfmt(buf, args).written = n
<1> DEFINE l == Len(buf)
<1>1. l \in Nat /\ DOMAIN buf = 1 .. l /\ n \in 0 .. l /\ n \in Nat
  <2>1. l \in Nat /\ DOMAIN buf = 1 .. l
    BY LenProperties
  <2>2. n \in 0 .. l
    BY DEF Plain
  <2> HIDE DEF l
  <2> QED
    BY <2>1, <2>2
<1>2. PICK f : Runs(f, l, buf, args) /\ vprintfmt(buf, args) = f[l]
  BY <1>1, LoopRun
<1>3. f[0] = Start
  BY <1>1, <1>2, RunFacts
<1>4. \A k \in 1 .. l : k - 1 \in 0 .. l /\ f[k] = Turn(buf, args, f[k - 1])
  BY <1>1, <1>2, RunFacts
<1>5. Told(f[0], buf, 0)
  <2>1. Flags(FALSE, 0) \in FlagSet /\ Flags(FALSE, 0).in_format = FALSE
    BY DEF Flags, FlagSet
  <2>2. SubSeq(buf, 1, 0) = <<>>
    BY <1>1, SubSeqEmpty
  <2> DEFINE flags == Flags(FALSE, 0)
             none  == <<>>
  <2>3. Start = [at |-> 1, flags |-> flags, out |-> none, written |-> 0, used |-> 0, stored |-> none]
    BY DEF Start
  <2>4. flags \in FlagSet /\ ~ flags.in_format /\ SubSeq(buf, 1, 0) = none
    BY <2>1, <2>2
  <2> HIDE DEF flags, none
  <2> QED
    BY <1>3, <2>3, <2>4 DEF Told, IsState
<1>6. \A k \in 0 .. n : Told(f[k], buf, k)
  <2> DEFINE T == {k \in 0 .. n : ~ Told(f[k], buf, k)}
  <2> SUFFICES ASSUME T # {} PROVE FALSE
    OBVIOUS
  <2>1. PICK k \in T : \A m \in T : k <= m
    <3>1. T \subseteq Nat
      BY <1>1
    <3> HIDE DEF T
    <3> QED
      BY <3>1, LeastElement
  <2>2. k # 0
    BY <1>5
  <2>3. k \in 1 .. n /\ k \in 1 .. l /\ k - 1 \in 0 .. n /\ ~ (k <= k - 1)
    <3>1. k \in 0 .. n
      OBVIOUS
    <3> HIDE DEF T, l
    <3> QED
      BY <1>1, <2>2, <3>1
  <2>4. Told(f[k - 1], buf, k - 1)
    BY <2>1, <2>3
  <2>5. f[k] = Turn(buf, args, f[k - 1])
    BY <1>4, <2>3
  <2>6. buf[k] \notin {"", "%"}
    BY <2>3 DEF Plain
  <2>7. Told(f[k], buf, k)
    BY <2>3, <2>4, <2>5, <2>6, TellOne
  <2> QED
    BY <2>7
<1>7. \A k \in n .. l : f[k] = f[n]
  <2> DEFINE T == {k \in n .. l : f[k] # f[n]}
  <2> SUFFICES ASSUME T # {} PROVE FALSE
    OBVIOUS
  <2>1. PICK k \in T : \A m \in T : k <= m
    <3>1. T \subseteq Nat
      BY <1>1
    <3> HIDE DEF T
    <3> QED
      BY <3>1, LeastElement
  <2>2. k # n
    OBVIOUS
  <2>3. k \in 1 .. l /\ k - 1 \in n .. l /\ ~ (k <= k - 1)
    <3>1. k \in n .. l
      OBVIOUS
    <3> HIDE DEF T, l
    <3> QED
      BY <1>1, <2>2, <3>1
  <2>4. f[k - 1] = f[n]
    BY <2>1, <2>3
  <2>5. f[k] = Turn(buf, args, f[n])
    BY <1>4, <2>3, <2>4
  <2>6. At(buf, f[n].at) = ""
    <3>1. n \in 0 .. n
      BY <1>1
    <3>2. f[n].at = n + 1
      BY <1>6, <3>1 DEF Told
    <3> QED
      BY <3>2 DEF Plain
  <2>7. f[k] = f[n]
    BY <2>5, <2>6, EndTurn
  <2> QED
    BY <2>7
<1>8. n \in 0 .. n /\ l \in n .. l
  BY <1>1
<1>9. f[l] = f[n] /\ Told(f[n], buf, n)
  BY <1>6, <1>7, <1>8
<1> QED
  BY <1>2, <1>9 DEF Told

-----------------------------------------------------------------------------
(* The program has its own copy of the text of lib/printk.c.               *)

\* What the program's printf does in each step is what printk does.
LEMMA UserIntArg ==
    ASSUME NEW a, NEW b
    PROVE  UserCopy!IntArg(a, b) = IntArg(a, b)
  BY DEF UserCopy!IntArg, IntArg, UserCopy!Word, Word, UserCopy!Signed, Signed,
     UserCopy!IntMod, IntMod, UserCopy!Pow2, Pow2

LEMMA UserStrtol ==
    ASSUME NEW a, NEW b, NEW c
    PROVE  UserCopy!strtol(a, b, c) = strtol(a, b, c)
<1>1. ASSUME NEW ch PROVE UserCopy!DigitOf(ch) = DigitOf(ch) /\ UserCopy!isspace(ch) = isspace(ch)
  BY DEF UserCopy!DigitOf, DigitOf, UserCopy!Digits, Digits, UserCopy!UpperDigits, UpperDigits,
     UserCopy!isspace, isspace
<1>2. ASSUME NEW s, NEW i PROVE UserCopy!At(s, i) = At(s, i)
  BY DEF UserCopy!At, At
<1>3. ASSUME NEW S PROVE UserCopy!Min(S) = Min(S)
  BY DEF UserCopy!Min, Min
<1>4. ASSUME NEW s, NEW i PROVE UserCopy!SkipSpace(s, i) = SkipSpace(s, i)
  BY <1>1, <1>2, <1>3 DEF UserCopy!SkipSpace, SkipSpace
<1>5. ASSUME NEW s, NEW i, NEW base PROVE UserCopy!SkipDigits(s, i, base) = SkipDigits(s, i, base)
  BY DEF UserCopy!SkipDigits, SkipDigits, UserCopy!DigitOf, DigitOf, UserCopy!Digits, Digits,
     UserCopy!UpperDigits, UpperDigits,
     UserCopy!Min, Min, UserCopy!At, At
<1>6. UserCopy!LongMod = LongMod
  BY DEF UserCopy!LongMod, LongMod, UserCopy!Pow2, Pow2
<1>7. ASSUME NEW s, NEW i, NEW j, NEW base
      PROVE  UserCopy!DigitsFrom(s, i, j, base) = DigitsFrom(s, i, j, base)
  BY DEF UserCopy!DigitsFrom, DigitsFrom, UserCopy!DigitOf, DigitOf, UserCopy!Digits, Digits,
     UserCopy!UpperDigits, UpperDigits,
     UserCopy!LongMod, LongMod, UserCopy!Pow2, Pow2
<1>8. ASSUME NEW s, NEW i, NEW base PROVE UserCopy!BaseOf(s, i, base) = BaseOf(s, i, base)
  BY <1>2 DEF UserCopy!BaseOf, BaseOf
<1>9. ASSUME NEW w, NEW mod PROVE UserCopy!Signed(w, mod) = Signed(w, mod)
  BY DEF UserCopy!Signed, Signed
<1>10. ASSUME NEW s, NEW end, NEW neg, NEW from PROVE UserCopy!ReadTo(s, end, neg, from) = ReadTo(s, end, neg, from)
  BY <1>6, <1>7, <1>9 DEF UserCopy!ReadTo, ReadTo
<1> QED
  BY <1>2, <1>4, <1>5, <1>8, <1>10 DEF UserCopy!strtol, strtol

LEMMA UserDecInt ==
    ASSUME NEW a, NEW b, NEW c
    PROVE  UserCopy!print_dec_int(a, b, c) = print_dec_int(a, b, c)
  BY DEF UserCopy!print_dec_int, print_dec_int, UserCopy!InBase, InBase,
     UserCopy!Digits, Digits, UserCopy!DecText, DecText, UserCopy!Copies,
     Copies, UserCopy!Most, Most, UserCopy!Signed, Signed, UserCopy!LongMod,
     LongMod, UserCopy!Pow2, Pow2

LEMMA UserHexText ==
    ASSUME NEW a, NEW b, NEW c
    PROVE  UserCopy!HexText(a, b, c) = HexText(a, b, c)
  BY SMTT(30) DEF UserCopy!HexText, HexText, UserCopy!InBase, InBase, UserCopy!Digits,
     Digits, UserCopy!UpperDigits, UpperDigits, UserCopy!Copies, Copies,
     UserCopy!Most, Most

LEMMA UserConvert ==
    ASSUME NEW c, NEW st, NEW args
    PROVE  UserCopy!Convert(c, st, args) = Convert(c, st, args)
  BY UserIntArg, UserDecInt, UserHexText DEF UserCopy!Convert, Convert,
     UserCopy!NumOf, NumOf, UserCopy!puts_wo_nl, puts_wo_nl, UserCopy!NullText,
     NullText, UserCopy!Emit, Emit, UserCopy!Take, Take, UserCopy!Word, Word,
     UserCopy!IntMod, IntMod, UserCopy!LongMod, LongMod, UserCopy!Pow2, Pow2,
     UserCopy!IntArg, IntArg, UserCopy!Signed, Signed

\* So are the flags and the characters it reads,
LEMMA UserSet ==
    ASSUME NEW st, NEW c
    PROVE  UserCopy!Set(st, c) = Set(st, c)
  BY DEF UserCopy!Set, Set

LEMMA UserDigitOf ==
    ASSUME NEW c
    PROVE  UserCopy!DigitOf(c) = DigitOf(c)
  BY DEF UserCopy!DigitOf, DigitOf, UserCopy!Digits, Digits,
     UserCopy!UpperDigits, UpperDigits

LEMMA UserEmit ==
    ASSUME NEW st, NEW c
    PROVE  UserCopy!Emit(st, c) = Emit(st, c)
  BY DEF UserCopy!Emit, Emit

LEMMA UserTake ==
    ASSUME NEW st
    PROVE  UserCopy!Take(st) = Take(st)
  BY DEF UserCopy!Take, Take

LEMMA UserAt ==
    ASSUME NEW st, NEW c
    PROVE  UserCopy!At(st, c) = At(st, c)
  BY DEF UserCopy!At, At

LEMMA UserFlags ==
    ASSUME NEW st, NEW c
    PROVE  UserCopy!Flags(st, c) = Flags(st, c)
  BY DEF UserCopy!Flags, Flags

\* every turn,
LEMMA UserTurn ==
    ASSUME NEW fmt, NEW st, NEW args
    PROVE  UserCopy!Turn(fmt, args, st) = Turn(fmt, args, st)
  BY Zenon, UserConvert, UserIntArg, UserStrtol, UserSet, UserDigitOf, UserEmit,
     UserTake, UserAt, UserFlags DEF UserCopy!Turn, Turn

\* and the text: the program's vprintfmt is the kernel's.
LEMMA UserCopyIs ==
    ASSUME NEW fmt, NEW args
    PROVE  UserCopy!vprintfmt(fmt, args) = vprintfmt(fmt, args)
  BY UserTurn DEF UserCopy!vprintfmt, vprintfmt, UserCopy!Start, Start,
     UserCopy!Flags, Flags

-----------------------------------------------------------------------------
(* What one call of printf or write does to the console.                   *)

\* Console: what one call does to the console's record.
IsConsole(c) ==
    c = [buffer |-> c.buffer, tail |-> c.tail, shown |-> c.shown, ret |-> c.ret]

\* A change of one or two fields leaves the others.
LEMMA ShownIs ==
    ASSUME NEW c, IsConsole(c), NEW v, NEW d, d = [c EXCEPT !.shown = v]
    PROVE  IsConsole(d) /\ d.buffer = c.buffer /\ d.tail = c.tail /\ d.shown = v /\ d.ret = c.ret
  BY DEF IsConsole

LEMMA RetIs ==
    ASSUME NEW c, IsConsole(c), NEW v, NEW d, d = [c EXCEPT !.ret = v]
    PROVE  IsConsole(d) /\ d.buffer = c.buffer /\ d.tail = c.tail /\ d.shown = c.shown /\ d.ret = v
  BY DEF IsConsole

Returned(c, tail, ret) == [c EXCEPT !.tail = tail, !.ret = ret]

LEMMA TailIs ==
    ASSUME NEW c, IsConsole(c), NEW v, NEW w
    PROVE  /\ IsConsole(Returned(c, v, w)) /\ Returned(c, v, w).buffer = c.buffer
           /\ Returned(c, v, w).tail = v /\ Returned(c, v, w).shown = c.shown
           /\ Returned(c, v, w).ret = w
<1> DEFINE d == Returned(c, v, w)
           e == [c EXCEPT !.tail = v]
<1>1. IsConsole(e) /\ e.buffer = c.buffer /\ e.tail = v /\ e.shown = c.shown
  BY DEF IsConsole
<1>2. d = [e EXCEPT !.ret = w]
  BY DEF Returned
<1> HIDE DEF e, d
<1>3. IsConsole(e)
  BY <1>1
<1>4. IsConsole(d) /\ d.buffer = e.buffer /\ d.tail = e.tail /\ d.shown = e.shown /\ d.ret = w
  BY ONLY <1>2, <1>3, RetIs
<1> QED
  BY <1>1, <1>4 DEF d

\* putc shows one text more,
LEMMA PutcIs ==
    ASSUME NEW c, IsConsole(c), NEW text
    PROVE  /\ IsConsole(putc(c, text)) /\ putc(c, text).buffer = c.buffer
           /\ putc(c, text).tail = c.tail /\ putc(c, text).ret = c.ret
           /\ putc(c, text).shown = c.shown \o text
<1> DEFINE d == putc(c, text)
           v == c.shown \o text
<1>1. d = [c EXCEPT !.shown = v]
  BY DEF putc
<1> HIDE DEF d, v
<1>2. IsConsole(d) /\ d.buffer = c.buffer /\ d.tail = c.tail /\ d.shown = v /\ d.ret = c.ret
  BY <1>1, ShownIs
<1> QED
  BY <1>2 DEF d, v

\* and stdout_write shows what printk makes of its buffer.
LEMMA StdoutIs ==
    ASSUME NEW c, IsConsole(c), NEW buf
    PROVE  /\ IsConsole(stdout_write(c, buf))
           /\ stdout_write(c, buf).buffer = c.buffer /\ stdout_write(c, buf).tail = c.tail
           /\ stdout_write(c, buf).shown = c.shown \o vprintfmt(buf, <<>>).out
           /\ stdout_write(c, buf).ret = vprintfmt(buf, <<>>).written
<1> DEFINE p == vprintfmt(buf, <<>>)
           d == putc(c, p.out)
<1>1. stdout_write(c, buf) = [d EXCEPT !.ret = p.written]
  BY DEF stdout_write, printk
<1>2. IsConsole(d) /\ d.buffer = c.buffer /\ d.tail = c.tail /\ d.shown = c.shown \o p.out
  BY PutcIs, Zenon
<1> DEFINE e == stdout_write(c, buf)
           w == p.written
<1> HIDE DEF d, e, w
<1>3. e = [d EXCEPT !.ret = w]
  BY <1>1 DEF e, w
<1>4. IsConsole(e) /\ e.buffer = d.buffer /\ e.tail = d.tail /\ e.shown = d.shown /\ e.ret = w
  <2>1. IsConsole(d)
    BY <1>2
  <2> QED
    BY ONLY <1>3, <2>1, RetIs
<1> HIDE DEF p
<1>5. IsConsole(e) /\ e.buffer = c.buffer /\ e.tail = c.tail /\ e.shown = c.shown \o p.out /\ e.ret = p.written
  BY <1>2, <1>4 DEF w
<1> QED
  BY <1>5 DEF e, p

\* A call shows its text on its descriptor's way.
Coloured(fd, text) == IF fd = 2 THEN RedText \o text \o Clear ELSE text

\* Nothing stands before a text.
LEMMA EmptyFirst == ASSUME NEW S, NEW t \in Seq(S) PROVE <<>> \o t = t
  BY ConcatEmptySeq

\* A write to either file of the console shows the text, stderr's in red.
LEMMA SysWriteIs ==
    ASSUME NEW c, IsConsole(c), c.shown = <<>>, NEW fd \in {1, 2}, NEW buf,
           NEW S, vprintfmt(buf, <<>>).out \in Seq(S)
    PROVE  /\ IsConsole(sys_write(c, fd, buf))
           /\ sys_write(c, fd, buf).buffer = c.buffer /\ sys_write(c, fd, buf).tail = c.tail
           /\ sys_write(c, fd, buf).shown = Coloured(fd, vprintfmt(buf, <<>>).out)
           /\ sys_write(c, fd, buf).ret = vprintfmt(buf, <<>>).written
<1> DEFINE p == vprintfmt(buf, <<>>)
<1>1. CASE fd = 1
  <2>1. sys_write(c, fd, buf) = stdout_write(c, buf) /\ fd # 2
    BY <1>1 DEF sys_write
  <2>2. c.shown \o p.out = p.out
    BY EmptyFirst
  <2>3. Coloured(fd, p.out) = p.out
    BY <2>1 DEF Coloured
  <2> DEFINE e == stdout_write(c, buf)
  <2>4. /\ IsConsole(e) /\ e.buffer = c.buffer /\ e.tail = c.tail /\ e.shown = c.shown \o p.out
        /\ e.ret = p.written
    BY StdoutIs
  <2> HIDE DEF e, p
  <2>5. IsConsole(e) /\ e.buffer = c.buffer /\ e.tail = c.tail /\ e.shown = Coloured(fd, p.out) /\ e.ret = p.written
    BY <2>2, <2>3, <2>4
  <2> QED
    BY <2>1, <2>5 DEF e, p
<1>2. CASE fd = 2
  <2> DEFINE a == putc(c, RedText)
             b == stdout_write(a, buf)
             d == putc(b, Clear)
  <2>1. sys_write(c, fd, buf) = d
    BY <1>2 DEF sys_write, stderr_write
  <2>2. /\ IsConsole(a) /\ a.buffer = c.buffer /\ a.tail = c.tail /\ a.shown = c.shown \o RedText
    BY PutcIs
  <2>3. /\ IsConsole(b) /\ b.buffer = a.buffer /\ b.tail = a.tail /\ b.shown = a.shown \o p.out
        /\ b.ret = p.written
    <3> HIDE DEF a
    <3> QED
      BY <2>2, StdoutIs
  <2>4. /\ IsConsole(d) /\ d.buffer = b.buffer /\ d.tail = b.tail /\ d.shown = b.shown \o Clear
        /\ d.ret = b.ret
    <3> HIDE DEF b
    <3> QED
      BY <2>3, PutcIs
  <2>5. c.shown \o RedText = RedText
    <3>1. RedText \in Seq({"<red>"})
      BY DEF RedText
    <3> QED
      BY <3>1, EmptyFirst
  <2>6. Coloured(fd, p.out) = RedText \o p.out \o Clear
    BY <1>2 DEF Coloured
  <2> HIDE DEF a, b, d, p
  <2>7. d.shown = Coloured(fd, p.out)
    BY <2>2, <2>3, <2>4, <2>5, <2>6
  <2> QED
    BY <2>1, <2>2, <2>3, <2>4, <2>7 DEF p
<1> QED
  BY <1>1, <1>2

\* Positions and prefixes of a sequence.
LEMMA Prefix ==
    ASSUME NEW S, NEW s \in Seq(S), NEW n \in 0 .. Len(s)
    PROVE  /\ SubSeq(s, 1, n) \in Seq(S) /\ Len(SubSeq(s, 1, n)) = n
           /\ \A i \in 1 .. n : SubSeq(s, 1, n)[i] = s[i]
  OBVIOUS

LEMMA Within ==
    ASSUME NEW l \in Nat, NEW n \in 0 .. l
    PROVE  n \in Nat /\ \A i \in 1 .. n : i \in 1 .. l
  OBVIOUS

LEMMA Room ==
    ASSUME NEW l \in Nat, NEW n \in Nat, n < l
    PROVE  n \in 0 .. l /\ n + 1 \in 1 .. l
  OBVIOUS

LEMMA OneLess == ASSUME NEW n \in Nat PROVE n < n + 1
  OBVIOUS

\* A character that printk shows as it is.
IsPlain(c) == c \notin {"", "%"}

\* A text with its Nul behind it prints itself.
LEMMA EndedPlain ==
    ASSUME NEW S, NEW t \in Seq(S), \A i \in 1 .. Len(t) : IsPlain(t[i]),
           NEW T, NEW buf \in Seq(T), Len(t) < Len(buf), buf[Len(t) + 1] = Nul,
           \A i \in 1 .. Len(t) : buf[i] = t[i]
    PROVE  Plain(buf, Len(t)) /\ SubSeq(buf, 1, Len(t)) = t
<1>1. Len(t) \in Nat /\ Len(buf) \in Nat /\ DOMAIN buf = 1 .. Len(buf)
  BY LenProperties
<1>2. Len(t) \in 0 .. Len(buf) /\ Len(t) + 1 \in 1 .. Len(buf)
  BY ONLY <1>1, Len(t) < Len(buf), Room, Zenon
<1>3. At(buf, Len(t) + 1) = ""
  BY <1>1, <1>2, Zenon DEF At, Nul
<1>4. Plain(buf, Len(t))
  BY <1>2, <1>3, Zenon DEF Plain, IsPlain
<1> DEFINE U == S \cup T
           u == SubSeq(buf, 1, Len(t))
<1>5. u \in Seq(T) /\ Len(u) = Len(t) /\ \A i \in 1 .. Len(t) : u[i] = buf[i]
  BY <1>2, Prefix, Zenon
<1>6. t \in Seq(U) /\ u \in Seq(U)
  <2>1. S \subseteq U /\ T \subseteq U
    OBVIOUS
  <2> HIDE DEF U, u
  <2> QED
    BY <1>5, <2>1, SeqMonotonic, Zenon
<1>7. u = t
  <2> HIDE DEF u, U
  <2> QED
    BY <1>5, <1>6, SeqEqual, Zenon
<1> QED
  BY <1>4, <1>7, Zenon

\* write shows what printk makes of its copy, and keeps printf's buffer.
LEMMA WriteIs ==
    ASSUME NEW c, IsConsole(c), NEW fd \in {1, 2}, NEW S, NEW text \in Seq(S), NEW count \in 0 .. Len(text),
           NEW T, vprintfmt(Copied(text, count), <<>>).out \in Seq(T)
    PROVE  /\ IsConsole(write(c, fd, text, count))
           /\ write(c, fd, text, count).buffer = c.buffer
           /\ write(c, fd, text, count).tail = c.tail
           /\ write(c, fd, text, count).shown = Coloured(fd, vprintfmt(Copied(text, count), <<>>).out)
           /\ write(c, fd, text, count).ret = vprintfmt(Copied(text, count), <<>>).written
<1> DEFINE d == [c EXCEPT !.shown = <<>>]
<1>1. IsConsole(d) /\ d.buffer = c.buffer /\ d.tail = c.tail /\ d.shown = <<>>
  BY DEF IsConsole
<1>2. write(c, fd, text, count) = sys_write(d, fd, Copied(text, count))
  BY DEF write
<1> HIDE DEF d
<1> QED
  BY <1>1, <1>2, SysWriteIs

\* A plain text that is ended with a Nul is printed, and nothing behind it.
LEMMA EndedPrinted ==
    ASSUME NEW S, NEW t \in Seq(S), \A i \in 1 .. Len(t) : IsPlain(t[i]),
           NEW T, NEW buf \in Seq(T), Len(t) < Len(buf), buf[Len(t) + 1] = Nul,
           \A i \in 1 .. Len(t) : buf[i] = t[i], NEW args
    PROVE  vprintfmt(buf, args).out = t /\ vprintfmt(buf, args).written = Len(t)
<1>1. Plain(buf, Len(t)) /\ SubSeq(buf, 1, Len(t)) = t
  BY EndedPlain
<1>2. vprintfmt(buf, args).out = SubSeq(buf, 1, Len(t)) /\ vprintfmt(buf, args).written = Len(t)
  BY <1>1, PlainPrinted
<1> QED
  BY <1>1, <1>2

\* The copy that write makes is ended, so its text is printed.
LEMMA CopiedIs ==
    ASSUME NEW S, NEW text \in Seq(S), NEW count \in 0 .. Len(text),
           \A i \in 1 .. count : IsPlain(text[i]), NEW args
    PROVE  /\ SubSeq(text, 1, count) \in Seq(S) /\ Len(SubSeq(text, 1, count)) = count
           /\ vprintfmt(Copied(text, count), args).out = SubSeq(text, 1, count)
           /\ vprintfmt(Copied(text, count), args).written = count
<1> DEFINE t == SubSeq(text, 1, count)
           T == S \cup {Nul}
           buf == Copied(text, count)
<1>1. t \in Seq(S) /\ Len(t) = count /\ \A i \in 1 .. count : t[i] = text[i]
  BY Prefix, Zenon
<1>2. buf = Append(t, Nul)
  BY DEF Copied
<1>3. S \subseteq T /\ Nul \in T
  OBVIOUS
<1> HIDE DEF t, T, buf
<1>4. \A i \in 1 .. Len(t) : IsPlain(t[i])
  BY <1>1, Zenon
<1>5. t \in Seq(T)
  BY <1>1, <1>3, SeqMonotonic, Zenon
<1>6. /\ Append(t, Nul) \in Seq(T) /\ Len(t) < Len(Append(t, Nul))
      /\ Append(t, Nul)[Len(t) + 1] = Nul
      /\ \A i \in 1 .. Len(t) : Append(t, Nul)[i] = t[i]
  <2>1. Nul \in T
    BY <1>3
  <2> QED
    BY ONLY <1>5, <2>1, AppendIs
<1>7. buf \in Seq(T) /\ Len(t) < Len(buf) /\ buf[Len(t) + 1] = Nul
      /\ \A i \in 1 .. Len(t) : buf[i] = t[i]
  BY <1>2, <1>6, Zenon
<1>8. t \in Seq(S)
  BY <1>1
<1>9. vprintfmt(buf, args).out = t /\ vprintfmt(buf, args).written = Len(t)
  <2>1. buf \in Seq(T) /\ Len(t) < Len(buf) /\ buf[Len(t) + 1] = Nul
    BY <1>7
  <2>2. \A i \in 1 .. Len(t) : buf[i] = t[i]
    BY <1>7
  <2> QED
    BY ONLY <1>4, <2>1, <2>2, <1>8, EndedPrinted, Zenon
<1> QED
  BY <1>1, <1>9, Zenon DEF t, buf

-----------------------------------------------------------------------------
(* What a call keeps, and what it shows.                                   *)

\* No write touches printf's buffer, whatever its text.
LEMMA SysWriteKeeps ==
    ASSUME NEW c, IsConsole(c), NEW fd, NEW buf
    PROVE  /\ IsConsole(sys_write(c, fd, buf))
           /\ sys_write(c, fd, buf).buffer = c.buffer /\ sys_write(c, fd, buf).tail = c.tail
<1>1. CASE fd = 1
  <2>1. sys_write(c, fd, buf) = stdout_write(c, buf)
    BY <1>1 DEF sys_write
  <2> DEFINE e == stdout_write(c, buf)
  <2>2. IsConsole(e) /\ e.buffer = c.buffer /\ e.tail = c.tail
    BY StdoutIs
  <2> HIDE DEF e
  <2> QED
    BY <2>1, <2>2 DEF e
<1>2. CASE fd # 1
  <2> DEFINE a == putc(c, RedText)
             b == stdout_write(a, buf)
             d == putc(b, Clear)
  <2>1. sys_write(c, fd, buf) = d
    BY <1>2 DEF sys_write, stderr_write
  <2>2. IsConsole(a) /\ a.buffer = c.buffer /\ a.tail = c.tail
    BY PutcIs
  <2>3. IsConsole(b) /\ b.buffer = a.buffer /\ b.tail = a.tail
    <3> HIDE DEF a
    <3> QED
      BY <2>2, StdoutIs
  <2>4. IsConsole(d) /\ d.buffer = b.buffer /\ d.tail = b.tail
    <3> HIDE DEF b
    <3> QED
      BY <2>3, PutcIs
  <2> HIDE DEF a, b, d
  <2> QED
    BY <2>1, <2>2, <2>3, <2>4
<1> QED
  BY <1>1, <1>2

\* Nor does write in the program.
LEMMA WriteKeeps ==
    ASSUME NEW c, IsConsole(c), NEW fd, NEW text, NEW count
    PROVE  /\ IsConsole(write(c, fd, text, count))
           /\ write(c, fd, text, count).buffer = c.buffer
           /\ write(c, fd, text, count).tail = c.tail
<1> DEFINE d == [c EXCEPT !.shown = <<>>]
<1>1. IsConsole(d) /\ d.buffer = c.buffer /\ d.tail = c.tail
  BY DEF IsConsole
<1>2. write(c, fd, text, count) = sys_write(d, fd, Copied(text, count))
  BY DEF write
<1> HIDE DEF d
<1> QED
  BY <1>1, <1>2, SysWriteKeeps

\* A call of write with a text of plain characters.
LEMMA WriteShows ==
    ASSUME NEW c, IsConsole(c), NEW fd \in {1, 2}, NEW S, NEW text \in Seq(S), NEW count \in 0 .. Len(text),
           \A i \in 1 .. count : IsPlain(text[i])
    PROVE  /\ write(c, fd, text, count).shown = Coloured(fd, SubSeq(text, 1, count))
           /\ write(c, fd, text, count).ret = count
<1>1. /\ SubSeq(text, 1, count) \in Seq(S)
      /\ vprintfmt(Copied(text, count), <<>>).out = SubSeq(text, 1, count)
      /\ vprintfmt(Copied(text, count), <<>>).written = count
  BY CopiedIs
<1>2. vprintfmt(Copied(text, count), <<>>).out \in Seq(S)
  BY <1>1, Zenon
<1>3. /\ write(c, fd, text, count).shown = Coloured(fd, vprintfmt(Copied(text, count), <<>>).out)
      /\ write(c, fd, text, count).ret = vprintfmt(Copied(text, count), <<>>).written
  BY <1>2, WriteIs
<1> QED
  BY <1>1, <1>3, Zenon

\* printf's buffer with text behind what it holds.
Over(c, text) ==
    [i \in DOMAIN c.buffer |-> IF i - c.tail \in DOMAIN text THEN text[i - c.tail] ELSE c.buffer[i]]

\* putc of printf fills the buffer behind its tail.
LEMMA CollectIs ==
    ASSUME NEW c, IsConsole(c), NEW text
    PROVE  /\ IsConsole(Collect(c, text)) /\ Collect(c, text).shown = c.shown
           /\ Collect(c, text).tail = c.tail + Len(text)
           /\ Collect(c, text).buffer = Over(c, text)
<1> DEFINE d == Collect(c, text)
           v == c.tail + Len(text)
           b == Over(c, text)
           e == [c EXCEPT !.tail = v]
<1>1. d = [c EXCEPT !.tail = v, !.buffer = b]
  BY DEF Collect, Over
<1> HIDE DEF v, b, d
<1>2. /\ IsConsole(e) /\ e.tail = v /\ e.buffer = c.buffer /\ e.shown = c.shown /\ e.ret = c.ret
  BY DEF IsConsole
<1>3. d = [e EXCEPT !.buffer = b]
  BY <1>1
<1> HIDE DEF e
<1>4. IsConsole(d) /\ d.tail = e.tail /\ d.buffer = b /\ d.shown = e.shown /\ d.ret = e.ret
  BY <1>2, <1>3 DEF IsConsole
<1> QED
  BY <1>2, <1>4 DEF v, b, d

\* Positions before the Nul.
LEMMA Before ==
    ASSUME NEW l \in Nat, NEW n \in Nat, n < l
    PROVE  \A i \in 1 .. n : i \in 1 .. l /\ i # n + 1
  OBVIOUS

\* The Nul alone.
LEMMA OneNul == DOMAIN <<Nul>> = {1} /\ <<Nul>>[1] = Nul /\ Len(<<Nul>>) = 1
  OBVIOUS

\* The text stands at the start of the buffer, and its Nul behind it.
LEMMA CollectedIs ==
    ASSUME NEW S, Nul \in S, NEW c, IsConsole(c), c.tail = 0, c.buffer \in Seq(S), NEW t \in Seq(S),
           Len(t) < Len(c.buffer), NEW d, d = Collected(c, t)
    PROVE  /\ IsConsole(d) /\ d.shown = c.shown
           /\ d.buffer \in Seq(S) /\ Len(d.buffer) = Len(c.buffer)
           /\ d.buffer[Len(t) + 1] = Nul
           /\ \A i \in 1 .. Len(t) : d.buffer[i] = t[i]
<1> DEFINE e == Collect(c, t)
           b == c.buffer
           n == Len(t)
           l == Len(b)
<1>1. /\ n \in Nat /\ DOMAIN t = 1 .. n /\ \A i \in 1 .. n : t[i] \in S
      /\ l \in Nat /\ DOMAIN b = 1 .. l /\ n < l /\ \A i \in 1 .. l : b[i] \in S
  BY LenProperties, ElementOfSeq
<1>2. /\ IsConsole(e) /\ e.shown = c.shown /\ e.tail = 0 + n
      /\ e.buffer = [i \in DOMAIN b |-> IF i - 0 \in DOMAIN t THEN t[i - 0] ELSE b[i]]
  <2>1. IsConsole(e) /\ e.shown = c.shown /\ e.tail = 0 + n /\ e.buffer = Over(c, t)
    BY CollectIs
  <2> QED
    BY <2>1 DEF Over
<1> HIDE DEF b, e, n, l
<1>3. /\ e.tail = n /\ DOMAIN e.buffer = 1 .. l
      /\ \A i \in 1 .. l : e.buffer[i] = IF i \in 1 .. n THEN t[i] ELSE b[i]
  <2>1. 0 + n = n /\ \A i \in 1 .. l : i - 0 = i
    BY <1>1
  <2> QED
    BY <1>1, <1>2, <2>1
<1> DEFINE z == <<Nul>>
<1>4. d = Collect(e, z)
  BY DEF Collected, e
<1> HIDE DEF z
<1>5. /\ IsConsole(d) /\ d.shown = e.shown
      /\ d.buffer = [i \in DOMAIN e.buffer |->
                        IF i - e.tail \in DOMAIN z THEN z[i - e.tail] ELSE e.buffer[i]]
  <2>1. IsConsole(e)
    BY <1>2
  <2>2. IsConsole(d) /\ d.shown = e.shown /\ d.buffer = Over(e, z)
    BY ONLY <1>4, <2>1, CollectIs
  <2> QED
    BY <2>2 DEF Over
<1>6. /\ DOMAIN d.buffer = 1 .. l
      /\ d.buffer = [i \in 1 .. l |-> d.buffer[i]]
      /\ \A i \in 1 .. l : d.buffer[i] = IF i = n + 1 THEN Nul ELSE e.buffer[i]
  <2>1. \A i \in 1 .. l : (i - n \in {1}) <=> (i = n + 1)
    BY <1>1
  <2>2. d.buffer = [i \in 1 .. l |-> IF i - n \in {1} THEN z[i - n] ELSE e.buffer[i]]
    BY <1>3, <1>5, OneNul DEF z
  <2>3. DOMAIN d.buffer = 1 .. l /\ d.buffer = [i \in 1 .. l |-> d.buffer[i]]
    BY <2>2
  <2>4. ASSUME NEW i \in 1 .. l PROVE d.buffer[i] = IF i = n + 1 THEN Nul ELSE e.buffer[i]
    <3>1. CASE i = n + 1
      <4>1. i - n = 1
        BY <1>1, <3>1
      <4> QED
        BY <2>2, <3>1, <4>1, OneNul DEF z
    <3>2. CASE i # n + 1
      BY <2>1, <2>2, <3>2
    <3> QED
      BY <3>1, <3>2
  <2> QED
    BY <2>3, <2>4
<1>7. \A i \in 1 .. l : d.buffer[i] \in S
  BY <1>1, <1>3, <1>6
<1>8. d.buffer \in Seq(S) /\ Len(d.buffer) = l
  <2> DEFINE g == d.buffer
  <2>1. g \in [1 .. l -> S]
    BY <1>6, <1>7
  <2> HIDE DEF g
  <2>2. g \in Seq(S) /\ Len(g) = l
    BY <1>1, <2>1
  <2> QED
    BY <2>2 DEF g
<1>9. d.buffer[n + 1] = Nul
  <2>1. n + 1 \in 1 .. l
    BY ONLY <1>1, Room, Zenon
  <2> QED
    BY <1>6, <2>1
<1>10. \A i \in 1 .. n : d.buffer[i] = t[i]
  <2>1. \A i \in 1 .. n : i \in 1 .. l /\ i # n + 1
    BY ONLY <1>1, Before, Zenon
  <2> QED
    BY <1>3, <1>6, <2>1
<1> QED
  BY <1>2, <1>5, <1>8, <1>9, <1>10 DEF n, l, b

\* What a program's printf leaves, and shows.
LEMMA PrintfKeeps ==
    ASSUME NEW S, Nul \in S, NEW c, IsConsole(c), c.tail = 0, c.buffer \in Seq(S), NEW fmt, NEW args,
           vprintfmt(fmt, args).out \in Seq(S), Len(vprintfmt(fmt, args).out) < Len(c.buffer),
           NEW p, p = printf(c, fmt, args)
    PROVE  /\ IsConsole(p) /\ p.tail = 0 /\ p.buffer \in Seq(S) /\ Len(p.buffer) = Len(c.buffer)
           /\ p.ret = vprintfmt(fmt, args).written
           /\ (\A i \in 1 .. Len(vprintfmt(fmt, args).out) : IsPlain(vprintfmt(fmt, args).out[i]))
                => p.shown = vprintfmt(fmt, args).out
<1> DEFINE r == vprintfmt(fmt, args)
           t == r.out
           a == [c EXCEPT !.shown = <<>>]
           d == Collected(a, t)
           e == sys_write(d, 1, d.buffer)
           w == r.written
<1>1. user_vprintfmt(fmt, args) = r
  BY UserCopyIs, Zenon DEF user_vprintfmt
<1> DEFINE zero == 0
<1>2. p = [e EXCEPT !.tail = zero, !.ret = w]
  BY <1>1 DEF printf
<1> HIDE DEF zero
<1>3. t \in Seq(S) /\ Len(t) < Len(c.buffer)
  OBVIOUS
<1> HIDE DEF r, t, w
<1>4. IsConsole(a) /\ a.buffer = c.buffer /\ a.tail = 0 /\ a.shown = <<>>
  <2>1. a = [c EXCEPT !.shown = <<>>]
    OBVIOUS
  <2> HIDE DEF a
  <2> QED
    BY ONLY <2>1, IsConsole(c), c.tail = 0, ShownIs, SMTT(30)
<1> HIDE DEF a
<1>5. /\ IsConsole(d) /\ d.shown = <<>>
      /\ d.buffer \in Seq(S) /\ Len(d.buffer) = Len(c.buffer)
      /\ d.buffer[Len(t) + 1] = Nul
      /\ \A i \in 1 .. Len(t) : d.buffer[i] = t[i]
  <2>1. a.buffer \in Seq(S) /\ Len(t) < Len(a.buffer)
    BY <1>3, <1>4
  <2> HIDE DEF d
  <2>2. d = Collected(a, t)
    BY DEF d
  <2> QED
    BY ONLY <1>3, <1>4, <2>1, <2>2, Nul \in S, CollectedIs
<1> HIDE DEF d
<1>6. IsConsole(e) /\ e.buffer = d.buffer
  BY <1>5, SysWriteKeeps
<1>7. ASSUME \A i \in 1 .. Len(t) : IsPlain(t[i]) PROVE e.shown = t
  <2> DEFINE buf == d.buffer
  <2>1. buf \in Seq(S) /\ Len(t) < Len(buf) /\ buf[Len(t) + 1] = Nul /\ \A i \in 1 .. Len(t) : buf[i] = t[i]
    BY <1>3, <1>5
  <2> HIDE DEF buf
  <2>2. vprintfmt(buf, <<>>).out = t
    BY ONLY <1>3, <1>7, <2>1, EndedPrinted
  <2>3. vprintfmt(d.buffer, <<>>).out = t /\ vprintfmt(d.buffer, <<>>).out \in Seq(S)
    BY <1>3, <2>2 DEF buf
  <2>4. e.shown = Coloured(1, t)
    BY <1>5, <2>3, SysWriteIs
  <2> QED
    BY <2>4 DEF Coloured
<1> HIDE DEF e
<1>8. IsConsole(p) /\ p.buffer = e.buffer /\ p.tail = zero /\ p.shown = e.shown /\ p.ret = w
  <2>1. IsConsole(e)
    BY <1>6
  <2> DEFINE g == Returned(e, zero, w)
  <2>2. IsConsole(g) /\ g.buffer = e.buffer /\ g.tail = zero /\ g.shown = e.shown /\ g.ret = w
    BY ONLY <2>1, TailIs
  <2>3. p = g
    BY <1>2 DEF Returned
  <2> HIDE DEF g
  <2> QED
    BY <2>2, <2>3
<1>9. /\ IsConsole(p) /\ p.tail = 0 /\ p.buffer \in Seq(S) /\ Len(p.buffer) = Len(c.buffer) /\ p.ret = r.written
      /\ (\A i \in 1 .. Len(t) : IsPlain(t[i])) => p.shown = t
  <2>1. p.buffer \in Seq(S) /\ Len(p.buffer) = Len(c.buffer)
    BY <1>5, <1>6, <1>8
  <2>2. p.ret = r.written
    BY <1>8 DEF w
  <2>3. (\A i \in 1 .. Len(t) : IsPlain(t[i])) => p.shown = t
    BY <1>7, <1>8
  <2> QED
    BY <1>8, <2>1, <2>2, <2>3 DEF zero
<1> QED
  BY <1>9 DEF r, t

-----------------------------------------------------------------------------
(* ConsoleCalls: every call shows its text and returns its length.         *)

\* What a byte of printf's buffer may be.
Memory == Chars \cup {Nul}

\* Between two calls.
CallsInv ==
    /\ IsConsole(console) /\ console.buffer \in Seq(Memory) /\ Len(console.buffer) = BufferSize
    /\ ShowsText /\ ReturnsLength

\* A text fits in memory.
LEMMA MemoryFacts ==
    /\ Nul \in Memory /\ Chars \subseteq Memory
    /\ \A t \in Seq(Chars) : t \in Seq(Memory)
<1>1. Nul \in Memory /\ Chars \subseteq Memory
  BY DEF Memory
<1> QED
  BY <1>1, SeqMonotonic

\* Characters that are not "%" print themselves.
LEMMA RangePlain ==
    ASSUME NEW t \in Seq(Chars), "%" \notin Range(t)
    PROVE  \A i \in 1 .. Len(t) : IsPlain(t[i])
<1>1. Range(t) = {t[i] : i \in 1 .. Len(t)}
  BY RangeEquality
<1>2. \A i \in 1 .. Len(t) : t[i] \in Chars
  BY ElementOfSeq
<1>3. "" \notin Chars
  BY OwnChars DEF Nul
<1> QED
  BY <1>1, <1>2, <1>3 DEF IsPlain

\* What the programs print is made of Chars.
LEMMA TextInChars ==
    /\ \A text \in Writes : text \in Seq(Chars)
    /\ \A f \in Formats : f.fmt \in Seq(Chars)
<1>1. ASSUME NEW text \in Writes PROVE text \in Seq(Chars)
  <2>1. text \in Seq(Range(text))
    BY CallsAssumption, TextFacts
  <2>2. Range(text) \subseteq Chars
    BY DEF Chars
  <2> QED
    BY <2>1, <2>2, SeqMonotonic
<1>2. ASSUME NEW f \in Formats PROVE f.fmt \in Seq(Chars)
  <2>1. f.fmt \in Seq(Range(f.fmt))
    BY CallsAssumption, TextFacts
  <2>2. Range(f.fmt) \subseteq Chars
    BY DEF Chars
  <2> QED
    BY <2>1, <2>2, SeqMonotonic
<1> QED
  BY <1>1, <1>2

\* A format with its arguments prints such a text, and returns its length.
LEMMA FormatPrints ==
    ASSUME NEW f \in Formats
    PROVE  /\ vprintfmt(f.fmt, f.args).out \in Seq(Chars)
           /\ vprintfmt(f.fmt, f.args).written = Len(vprintfmt(f.fmt, f.args).out)
<1>1. f.fmt \in Seq(Chars)
  BY TextInChars
<1>2. /\ f.args \in Seq(Range(f.args)) /\ \A a \in Range(f.args) : IsArgument(a)
      /\ vprintfmt(f.fmt, f.args).used <= Len(f.args)
      /\ "c" \in Range(f.fmt) => \A a \in Range(f.args) : a.text # <<>>
  BY CallsAssumption
<1>3. ASSUME NEW a \in Range(f.args) PROVE a \in ArgSet
  <2>1. /\ a = [word |-> a.word, text |-> a.text, null |-> a.null]
        /\ a.word \in 0 .. LongMod - 1 /\ IsText(a.text) /\ a.null \in BOOLEAN
    BY <1>2 DEF IsArgument
  <2>2. Range(a.text) \subseteq Chars
    BY DEF Chars, Argued
  <2>3. a.text \in Seq(Chars)
    BY <2>1, <2>2, TextFacts, SeqMonotonic
  <2> QED
    BY <2>1, <2>3 DEF ArgSet
<1>4. f.args \in Seq(ArgSet)
  BY <1>2, <1>3, SeqMonotonic
<1>5. "c" \in Range(f.fmt) => \A i \in 1 .. Len(f.args) : f.args[i].text # <<>>
  <2>1. \A i \in 1 .. Len(f.args) : f.args[i] \in Range(f.args)
    BY <1>2, ElementOfSeq
  <2> QED
    BY <1>2, <2>1
<1> DEFINE r == vprintfmt(f.fmt, f.args)
<1>6. Kept(f.fmt, r)
  BY <1>1, <1>2, <1>4, <1>5, PrintsText
<1> HIDE DEF r
<1>7. r.out \in Seq(Chars) /\ r.written = Len(r.out)
  BY <1>6 DEF Kept, States
<1> QED
  BY <1>7 DEF r

\* The invariant holds at first,
LEMMA CallsStart == CallsInit => CallsInv
<1> SUFFICES ASSUME CallsInit PROVE CallsInv
  OBVIOUS
<1> DEFINE b == Copies(Nul, BufferSize)
<1>1. b \in Seq(Memory) /\ Len(b) = BufferSize
  <2>1. BufferSize \in Nat /\ ~ (BufferSize <= 0)
    BY ConsoleAssumption
  <2>2. b = [i \in 1 .. BufferSize |-> Nul]
    BY <2>1 DEF Copies
  <2> HIDE DEF b
  <2>3. b \in [1 .. BufferSize -> Memory]
    BY <2>2, MemoryFacts
  <2> QED
    BY <2>1, <2>3
<1> DEFINE none == <<>>
<1>2. Len(none) = 0
  OBVIOUS
<1> HIDE DEF b, none
<1>3. /\ console = [buffer |-> b, tail |-> 0, shown |-> none, ret |-> 0]
      /\ call = [fd |-> 1, text |-> none]
  BY DEF CallsInit, Quiet, b, none
<1> QED
  BY <1>1, <1>2, <1>3 DEF CallsInv, IsConsole, ShowsText, ReturnsLength

\* after a printf
LEMMA PrintfStep == CallsInv /\ CallPrintf => CallsInv'
<1> SUFFICES ASSUME CallsInv, CallPrintf PROVE CallsInv'
  OBVIOUS
<1>1. PICK f \in Formats :
         /\ Fits(f.fmt, f.args)
         /\ console' = printf(console, f.fmt, f.args)
         /\ call' = [fd |-> 1, text |-> vprintfmt(f.fmt, f.args).out]
  BY DEF CallPrintf
<1> DEFINE r == vprintfmt(f.fmt, f.args)
           t == r.out
<1>2. t \in Seq(Chars) /\ r.written = Len(t)
  BY FormatPrints
<1>3. Len(t) < BufferSize
  BY <1>1, UserCopyIs DEF Fits, user_vprintfmt
<1>4. Nul \in Memory /\ t \in Seq(Memory)
  BY <1>2, MemoryFacts
<1>5. /\ IsConsole(console') /\ console'.tail = 0 /\ console'.buffer \in Seq(Memory)
      /\ Len(console'.buffer) = Len(console.buffer)
      /\ console'.ret = r.written
      /\ (\A i \in 1 .. Len(t) : IsPlain(t[i])) => console'.shown = t
  <2>1. /\ IsConsole(console) /\ console.tail = 0 /\ console.buffer \in Seq(Memory)
        /\ Len(t) < Len(console.buffer)
    BY <1>3 DEF CallsInv, ReturnsLength
  <2> QED
    BY <1>1, <1>4, <2>1, PrintfKeeps
<1> HIDE DEF t, r
<1>6. call'.fd = 1 /\ call'.text = t
  BY <1>1 DEF t, r
<1>7. "%" \notin Range(t) => console'.shown = t
  BY <1>2, <1>5, RangePlain
<1> QED
  BY <1>2, <1>5, <1>6, <1>7 DEF CallsInv, ShowsText, ReturnsLength

\* and after a write.
LEMMA WriteStep == CallsInv /\ CallWrite => CallsInv'
<1> SUFFICES ASSUME CallsInv, CallWrite PROVE CallsInv'
  OBVIOUS
<1>1. PICK fd \in {1, 2}, text \in Writes : \E count \in 0 .. Len(text) :
         /\ console' = write(console, fd, text, count)
         /\ call' = [fd |-> fd, text |-> SubSeq(text, 1, count)]
  BY DEF CallWrite
<1>2. PICK count \in 0 .. Len(text) :
         /\ console' = write(console, fd, text, count)
         /\ call' = [fd |-> fd, text |-> SubSeq(text, 1, count)]
  BY <1>1
<1>3. text \in Seq(Chars)
  BY TextInChars
<1> DEFINE t == SubSeq(text, 1, count)
<1>4. t \in Seq(Chars) /\ Len(t) = count /\ \A i \in 1 .. count : t[i] = text[i]
  BY <1>3, Prefix
<1>5. /\ IsConsole(console') /\ console'.tail = 0 /\ console'.buffer \in Seq(Memory)
      /\ Len(console'.buffer) = BufferSize
  <2>1. IsConsole(console) /\ console.tail = 0 /\ console.buffer \in Seq(Memory)
        /\ Len(console.buffer) = BufferSize
    BY DEF CallsInv, ReturnsLength
  <2> DEFINE w == write(console, fd, text, count)
  <2>2. IsConsole(w) /\ w.buffer = console.buffer /\ w.tail = console.tail
    BY <2>1, WriteKeeps
  <2> HIDE DEF w
  <2>3. console' = w
    BY <1>2 DEF w
  <2> QED
    BY <2>1, <2>2, <2>3
<1>6. ASSUME "%" \notin Range(t) PROVE console'.shown = Coloured(fd, t) /\ console'.ret = count
  <2>1. \A i \in 1 .. count : IsPlain(text[i])
    <3> HIDE DEF t
    <3>1. \A i \in 1 .. Len(t) : IsPlain(t[i])
      BY <1>4, <1>6, RangePlain
    <3> QED
      BY <1>4, <3>1
  <2>2. IsConsole(console)
    BY DEF CallsInv
  <2> QED
    BY <1>2, <1>3, <2>1, <2>2, WriteShows
<1> HIDE DEF t
<1>7. call'.fd = fd /\ call'.text = t
  BY <1>2 DEF t
<1> QED
  BY <1>4, <1>5, <1>6, <1>7 DEF CallsInv, ShowsText, ReturnsLength, Coloured

\* Every step keeps it.
LEMMA CallsInductive == CallsInv /\ [CallsNext]_callVars => CallsInv'
<1>1. CASE CallPrintf
  BY <1>1, PrintfStep
<1>2. CASE CallWrite
  BY <1>2, WriteStep
<1>3. CASE UNCHANGED callVars
  BY <1>3 DEF callVars, CallsInv, IsConsole, ShowsText, ReturnsLength
<1> QED
  BY <1>1, <1>2, <1>3 DEF CallsNext

\* Each call of printf and write shows its text, all of it and once, and
\* returns its length, whatever longer text was printed before: the buffer that
\* printf never clears is ended behind every text, and so is the copy that write
\* makes on its stack.  A text with a % in it is a format to the kernel
\* (vfs.c:32).
THEOREM CallsPrinted == CallsSpec => []CallsConform
<1>1. CallsInv => CallsConform
  BY DEF CallsInv, CallsConform
<1> QED
  BY <1>1, CallsStart, CallsInductive, PTL DEF CallsSpec
=============================================================================
