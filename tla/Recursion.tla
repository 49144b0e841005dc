------------------------------ MODULE Recursion ------------------------------
(***************************************************************************)
(* What the other proofs need of induction and of lists: a function that   *)
(* is defined along an interval of the numbers has the values it is said   *)
(* to have; FoldLeft, FlattenSeq, Reverse and MapThenFoldSet do their work *)
(* step by step; what Kept keeps of a list and where it stands there; that *)
(* Ranked by an order is sorted and leaves equals as they were; and what   *)
(* the parts of a list hold together.                                      *)
(***************************************************************************)
EXTENDS Keeping, Integers, FiniteSetsExt, SequencesExt, FiniteSetTheorems, FunctionTheorems,
        SequenceTheorems, WellFoundedInduction, TLAPS

\* Some number of a set is the least.
LEMMA LeastNumber ==
  ASSUME NEW S \in SUBSET Nat, S # {}
  PROVE  \E m \in S : \A k \in S : m <= k
<1>1. IsWellFoundedOn(OpToRel(<, Nat), Nat)
  BY NatLessThanWellFounded
<1>2. PICK m \in S : \A k \in S : ~(<<k, m>> \in OpToRel(<, Nat))
  BY <1>1, WFMin
<1>3. \A k \in S : ~(k < m)
  BY <1>2 DEF OpToRel
<1>4. QED BY <1>3

\* What holds of nought and goes on from one number to the next holds of all.
LEMMA Induction ==
  ASSUME NEW n \in Nat, NEW S, 0 \in S, \A i \in 1..n : i - 1 \in S => i \in S
  PROVE  0..n \subseteq S
<1> SUFFICES ASSUME (0..n) \ S # {} PROVE FALSE
  OBVIOUS
<1> DEFINE rest == (0..n) \ S
<1>1. rest \in SUBSET Nat /\ rest # {}
  OBVIOUS
<1>2. PICK m \in rest : \A k \in rest : m <= k
  BY <1>1, LeastNumber
<1>3. m \in 1..n /\ m - 1 \in 0..n
  BY <1>2
<1>4. m - 1 \in S
  BY <1>2, <1>3
<1>5. QED BY <1>2, <1>3, <1>4

\* The steps of a recursion over 1..n, and a function that takes them.
AreSteps(s, n, T) == s \in [1..n -> [T -> T]]
TakesSteps(g, n, T, a, s) ==
  g \in [0..n -> T] /\ g[0] = a /\ \A i \in 1..n : g[i] = s[i][g[i-1]]

\* A function whose values are told from their predecessors exists.
LEMMA RecursionIsDefined ==
  ASSUME NEW n \in Nat, NEW T, NEW a \in T, NEW s, AreSteps(s, n, T)
  PROVE  \E g : TakesSteps(g, n, T, a, s)
<1> USE DEF AreSteps
<1> DEFINE S == {k \in 0..n : \E g \in [0..k -> T] :
                                g[0] = a /\ \A i \in 1..k : g[i] = s[i][g[i-1]]}
<1>1. 0 \in S
  <2>1. [i \in 0..0 |-> a] \in [0..0 -> T] /\ [i \in 0..0 |-> a][0] = a
    OBVIOUS
  <2>2. \A i \in 1..0 : [j \in 0..0 |-> a][i] = s[i][[j \in 0..0 |-> a][i-1]]
    OBVIOUS
  <2>3. 0 \in 0..n
    OBVIOUS
  <2>4. QED BY <2>1, <2>2, <2>3
<1>2. ASSUME NEW k \in 1..n, k - 1 \in S PROVE k \in S
  <2>1. PICK g \in [0..(k-1) -> T] : g[0] = a /\ \A i \in 1..(k-1) : g[i] = s[i][g[i-1]]
    BY <1>2
  <2> DEFINE v == s[k][g[k-1]]
  <2>2. g[k-1] \in T /\ s[k] \in [T -> T]
    OBVIOUS
  <2>3. v \in T
    BY <2>2
  <2> HIDE DEF v
  <2> DEFINE h == [i \in 0..k |-> IF i = k THEN v ELSE g[i]]
  <2>4. \A i \in 0..k : i # k => i \in 0..(k-1)
    OBVIOUS
  <2>5. h \in [0..k -> T]
    BY <2>3, <2>4
  <2>6. h[k] = v /\ \A i \in 0..(k-1) : h[i] = g[i]
    OBVIOUS
  <2>7. h[0] = a
    BY <2>1, <2>6
  <2> HIDE DEF h
  <2>8. ASSUME NEW i \in 1..k PROVE h[i] = s[i][h[i-1]]
    <3>1. i - 1 \in 0..(k-1)
      OBVIOUS
    <3>2. h[i-1] = g[i-1]
      BY <2>6, <3>1
    <3>3. CASE i = k
      BY <2>6, <3>2, <3>3 DEF v
    <3>4. CASE i # k
      <4>1. i \in 1..(k-1) /\ i \in 0..(k-1)
        BY <3>4
      <4>2. QED BY <2>1, <2>6, <3>2, <4>1
    <3>5. QED BY <3>3, <3>4
  <2>9. \E f \in [0..k -> T] : f[0] = a /\ \A i \in 1..k : f[i] = s[i][f[i-1]]
    BY <2>5, <2>7, <2>8
  <2>10. k \in 0..n
    OBVIOUS
  <2>11. QED BY <2>9, <2>10
<1> HIDE DEF S
<1>3. n \in S
  <2>1. 0..n \subseteq S
    BY <1>1, <1>2, Induction
  <2>2. QED BY <2>1
<1>4. QED BY <1>3 DEF S, TakesSteps
-----------------------------------------------------------------------------
\* The elements of a sequence and one more.
LEMMA AppendToSet ==
  ASSUME NEW X, NEW t \in Seq(X), NEW x \in X
  PROVE  ToSet(Append(t, x)) = ToSet(t) \cup {x}
<1> DEFINE u == Append(t, x)
<1>1. /\ Len(t) \in Nat /\ DOMAIN t = 1..Len(t) /\ DOMAIN u = 1..(Len(t) + 1)
      /\ u[Len(t) + 1] = x /\ \A i \in 1..Len(t) : u[i] = t[i]
  OBVIOUS
<1> HIDE DEF u
<1>2. ASSUME NEW i \in DOMAIN u PROVE u[i] \in ToSet(t) \cup {x}
  <2>1. CASE i = Len(t) + 1
    BY <1>1, <2>1
  <2>2. CASE i # Len(t) + 1
    <3>1. i \in 1..Len(t)
      BY <1>1, <2>2
    <3>2. QED BY <1>1, <3>1 DEF ToSet
  <2>3. QED BY <2>1, <2>2
<1>3. ASSUME NEW y \in ToSet(t) \cup {x} PROVE \E i \in DOMAIN u : u[i] = y
  <2>1. CASE y = x
    <3>1. Len(t) + 1 \in DOMAIN u
      BY <1>1
    <3>2. QED BY <1>1, <2>1, <3>1
  <2>2. CASE y \in ToSet(t)
    <3>1. PICK i \in DOMAIN t : t[i] = y
      BY <2>2 DEF ToSet
    <3>2. i \in DOMAIN u
      BY <1>1
    <3>3. QED BY <1>1, <3>1, <3>2
  <2>3. QED BY <2>1, <2>2
<1>4. QED BY <1>2, <1>3 DEF ToSet, u

\* The parts of Kept(c, S), one for every part of c.
IsKeeping(f, c, S) ==
  /\ f[0] = <<>>
  /\ \A i \in 1..Len(c) : f[i] = IF c[i] \in S THEN Append(f[i-1], c[i]) ELSE f[i-1]

\* What is kept of a sequence is told from what is kept of its parts.
LEMMA KeptStepwise ==
  ASSUME NEW X, NEW c \in Seq(X), NEW S
  PROVE  \E f : IsKeeping(f, c, S) /\ Kept(c, S) = f[Len(c)]
<1> DEFINE N == Len(c)
           next(h, i) == IF c[i] \in S THEN Append(h[i-1], c[i]) ELSE h[i-1]
           body(h) == [i \in 0..N |-> IF i = 0 THEN <<>> ELSE next(h, i)]
           f == CHOOSE h : h = body(h)
           s == [i \in 1..N |-> [p \in Seq(X) |-> IF c[i] \in S THEN Append(p, c[i]) ELSE p]]
<1>1. N \in Nat /\ c \in [1..N -> X]
  OBVIOUS
<1>2. Kept(c, S) = f[N]
  BY DEF Kept
<1>3. <<>> \in Seq(X) /\ s \in [1..N -> [Seq(X) -> Seq(X)]]
  <2>1. ASSUME NEW i \in 1..N, NEW p \in Seq(X)
        PROVE  (IF c[i] \in S THEN Append(p, c[i]) ELSE p) \in Seq(X)
    BY <1>1
  <2>2. QED BY <2>1
<1> HIDE DEF N, s
<1>4. PICK g \in [0..N -> Seq(X)] : g[0] = <<>> /\ \A i \in 1..N : g[i] = s[i][g[i-1]]
  <2> DEFINE T == Seq(X)
             e == <<>>
  <2>1. e \in T /\ AreSteps(s, N, T)
    BY <1>3 DEF AreSteps
  <2> HIDE DEF T, e
  <2>2. PICK g : TakesSteps(g, N, T, e, s)
    BY <1>1, <2>1, RecursionIsDefined
  <2>3. QED BY <2>2 DEF T, e, TakesSteps
<1>5. \A i \in 1..N : g[i] = next(g, i)
  <2>1. ASSUME NEW i \in 1..N PROVE g[i] = next(g, i)
    <3>1. g[i-1] \in Seq(X)
      BY <1>1
    <3>2. QED BY <1>4, <3>1 DEF s
  <2>2. QED BY <2>1
<1> HIDE DEF next
<1>6. g = body(g)
  <2>1. \A i \in 0..N : g[i] = IF i = 0 THEN <<>> ELSE next(g, i)
    BY <1>1, <1>4, <1>5
  <2>2. QED BY <2>1
<1>7. f = body(f)
  BY <1>6
<1> HIDE DEF f
<1>8. f[0] = <<>> /\ \A i \in 1..N : f[i] = next(f, i)
  <2> DEFINE b == body(f)
  <2>1. \A i \in 0..N : b[i] = IF i = 0 THEN <<>> ELSE next(f, i)
    OBVIOUS
  <2>2. f = b
    BY <1>7
  <2> HIDE DEF b
  <2>3. QED BY <1>1, <2>1, <2>2
<1>9. IsKeeping(f, c, S)
  BY <1>8 DEF IsKeeping, N, next
<1>10. QED BY <1>2, <1>9 DEF N

\* The elements that are kept are those of the set, in a sequence of the same kind.
LEMMA KeptIs ==
  ASSUME NEW X, NEW c \in Seq(X), NEW S
  PROVE  Kept(c, S) \in Seq(X) /\ ToSet(Kept(c, S)) = ToSet(c) \cap S
<1> DEFINE N == Len(c)
<1>1. N \in Nat /\ c \in [1..N -> X]
  OBVIOUS
<1>2. PICK f : IsKeeping(f, c, S) /\ Kept(c, S) = f[N]
  BY KeptStepwise
<1>3. <<>> \in Seq(X)
  OBVIOUS
<1>4. f[0] = <<>> /\ \A i \in 1..N : f[i] = IF c[i] \in S THEN Append(f[i-1], c[i]) ELSE f[i-1]
  BY <1>2 DEF IsKeeping
<1> HIDE DEF N
<1> DEFINE before(i) == {c[j] : j \in 1..i}
           D == {i \in 0..N : f[i] \in Seq(X) /\ ToSet(f[i]) = before(i) \cap S}
<1>5. 0 \in D
  <2>1. before(0) = {} /\ ToSet(<<>>) = {}
    BY DEF ToSet
  <2> HIDE DEF before
  <2>2. f[0] \in Seq(X) /\ ToSet(f[0]) = before(0) \cap S
    BY <1>3, <1>4, <2>1
  <2>3. QED BY <1>1, <2>2
<1>6. ASSUME NEW i \in 1..N, i - 1 \in D PROVE i \in D
  <2>1. f[i-1] \in Seq(X) /\ ToSet(f[i-1]) = before(i-1) \cap S
    BY <1>6
  <2>2. before(i) = before(i-1) \cup {c[i]}
    BY <1>1
  <2>3. c[i] \in X /\ i \in 0..N
    BY <1>1
  <2> HIDE DEF before
  <2>4. CASE c[i] \in S
    <3>1. f[i] = Append(f[i-1], c[i])
      BY <1>4, <2>4
    <3>2. ToSet(f[i]) = ToSet(f[i-1]) \cup {c[i]}
      BY <2>1, <2>3, <3>1, AppendToSet
    <3>3. f[i] \in Seq(X)
      BY <2>1, <2>3, <3>1
    <3>4. QED BY <2>1, <2>2, <2>3, <2>4, <3>2, <3>3
  <2>5. CASE c[i] \notin S
    <3>1. f[i] = f[i-1]
      BY <1>4, <2>5
    <3>2. QED BY <2>1, <2>2, <2>3, <2>5, <3>1
  <2>6. QED BY <2>4, <2>5
<1>7. N \in D
  <2> HIDE DEF D
  <2>1. 0..N \subseteq D
    BY <1>1, <1>5, <1>6, Induction
  <2>2. QED BY <1>1, <2>1
<1>8. before(N) = ToSet(c)
  BY DEF ToSet, N
<1>9. QED BY <1>2, <1>7, <1>8

\* Where the elements that are kept were: in the same order, and each with at least
\* as many behind it.
Places(k, c, n, g) ==
  /\ g \in [1..Len(k) -> 1..n]
  /\ \A i \in 1..Len(k) : c[g[i]] = k[i] /\ Len(k) - i <= n - g[i]
  /\ \A i, j \in 1..Len(k) : i < j => g[i] < g[j]

\* The elements that are kept stay in order.
LEMMA KeptInOrder ==
  ASSUME NEW X, NEW c \in Seq(X), NEW S
  PROVE  \E g : Places(Kept(c, S), c, Len(c), g)
<1> DEFINE N == Len(c)
<1>1. N \in Nat /\ \A i \in 1..N : c[i] \in X
  OBVIOUS
<1>2. PICK f : IsKeeping(f, c, S) /\ Kept(c, S) = f[N]
  BY KeptStepwise
<1>3. f[0] = <<>> /\ \A i \in 1..N : f[i] = IF c[i] \in S THEN Append(f[i-1], c[i]) ELSE f[i-1]
  BY <1>2 DEF IsKeeping
<1> HIDE DEF N
<1> DEFINE D == {i \in 0..N : f[i] \in Seq(X) /\ \E g : Places(f[i], c, i, g)}
<1>4. 0 \in D
  <2>1. f[0] \in Seq(X) /\ Len(f[0]) = 0
    BY <1>3
  <2>2. Places(f[0], c, 0, [i \in 1..0 |-> i])
    BY <2>1 DEF Places
  <2>3. QED BY <1>1, <2>1, <2>2
<1>5. ASSUME NEW n \in 1..N, n - 1 \in D PROVE n \in D
  <2>1. n \in 0..N /\ c[n] \in X /\ n - 1 \in 0..N
    BY <1>1
  <2>2. f[n-1] \in Seq(X)
    BY <1>5
  <2>3. PICK g : Places(f[n-1], c, n - 1, g)
    BY <1>5
  <2> DEFINE k == f[n-1]
             m == Len(k)
  <2>4. /\ m \in Nat /\ g \in [1..m -> 1..(n-1)]
        /\ \A i \in 1..m : g[i] \in 1..(n-1) /\ c[g[i]] = k[i] /\ m - i <= n - 1 - g[i]
        /\ \A i, j \in 1..m : i < j => g[i] < g[j]
    <3>1. Len(f[n-1]) \in Nat
      BY <2>2
    <3>2. /\ g \in [1..m -> 1..(n-1)]
          /\ \A i \in 1..m : c[g[i]] = k[i] /\ m - i <= n - 1 - g[i]
          /\ \A i, j \in 1..m : i < j => g[i] < g[j]
      BY <2>3 DEF Places
    <3>3. \A i \in 1..m : g[i] \in 1..(n-1)
      BY <3>2
    <3>4. QED BY <3>1, <3>2, <3>3
  <2>5. k \in Seq(X)
    BY <2>2
  <2> HIDE DEF k, m, D
  <2>6. \A i \in 1..(n-1) : i \in 1..n
    BY <1>1
  <2>7. CASE c[n] \notin S
    <3>1. f[n] = k
      BY <1>3, <2>7 DEF k
    <3>2. Places(k, c, n, g)
      BY <1>1, <2>4, <2>6 DEF Places, m
    <3>3. QED BY <2>1, <2>5, <3>1, <3>2 DEF D
  <2>8. CASE c[n] \in S
    <3> DEFINE l == Append(k, c[n])
               h == [i \in 1..(m+1) |-> IF i = m + 1 THEN n ELSE g[i]]
    <3>1. f[n] = l
      BY <1>3, <2>8 DEF k
    <3>2. /\ l \in Seq(X) /\ Len(l) = m + 1
          /\ l[m+1] = c[n] /\ \A i \in 1..m : l[i] = k[i]
      BY <2>1, <2>5 DEF m
    <3>3. \A i \in 1..(m+1) : i # m + 1 => i \in 1..m
      BY <2>4
    <3>4. h \in [1..(m+1) -> 1..n]
      BY <2>4, <2>6, <3>3
    <3>5. h[m+1] = n /\ \A i \in 1..m : h[i] = g[i]
      BY <2>4
    <3> HIDE DEF l, h
    <3>6. ASSUME NEW i \in 1..(m+1) PROVE c[h[i]] = l[i] /\ m + 1 - i <= n - h[i]
      <4>1. CASE i = m + 1
        BY <2>4, <3>2, <3>5, <4>1
      <4>2. CASE i # m + 1
        <5>1. i \in 1..m
          BY <3>3, <4>2
        <5>2. c[h[i]] = l[i]
          BY <2>4, <3>2, <3>5, <5>1
        <5>3. g[i] \in 1..(n-1) /\ m - i <= n - 1 - g[i] /\ h[i] = g[i]
          BY <2>4, <3>5, <5>1
        <5>4. QED BY <2>4, <5>2, <5>3
      <4>3. QED BY <4>1, <4>2
    <3>7. ASSUME NEW i \in 1..(m+1), NEW j \in 1..(m+1), i < j PROVE h[i] < h[j]
      <4>1. i \in 1..m /\ h[i] = g[i] /\ g[i] \in 1..(n-1)
        BY <2>4, <3>5, <3>7
      <4>2. CASE j = m + 1
        BY <3>5, <4>1, <4>2
      <4>3. CASE j # m + 1
        <5>1. j \in 1..m /\ h[j] = g[j]
          BY <3>3, <3>5, <4>3
        <5>2. QED BY <2>4, <3>7, <4>1, <5>1
      <4>4. QED BY <4>2, <4>3
    <3>8. Places(l, c, n, h)
      <4>1. 1..Len(l) = 1..(m+1) /\ \A i \in 1..(m+1) : Len(l) - i = m + 1 - i
        <5>1. Len(l) = m + 1 /\ m \in Nat
          BY <2>4, <3>2
        <5>2. QED BY <5>1
      <4>2. h \in [1..Len(l) -> 1..n]
        BY <3>4, <4>1
      <4>3. \A i \in 1..Len(l) : c[h[i]] = l[i] /\ Len(l) - i <= n - h[i]
        BY <3>6, <4>1
      <4>4. \A i, j \in 1..Len(l) : i < j => h[i] < h[j]
        BY <3>7, <4>1
      <4>5. QED BY <4>2, <4>3, <4>4 DEF Places
    <3>9. QED BY <2>1, <3>1, <3>2, <3>8 DEF D
  <2>9. QED BY <2>7, <2>8
<1>6. N \in D
  <2> HIDE DEF D
  <2>1. 0..N \subseteq D
    BY <1>1, <1>4, <1>5, Induction
  <2>2. QED BY <1>1, <2>1
<1>7. QED BY <1>2, <1>6 DEF N

\* Places of places.
LEMMA PlacesCompose ==
  ASSUME NEW X, NEW q \in Seq(X), NEW p \in Seq(X), NEW l \in Seq(X), NEW g, NEW h,
         Places(q, p, Len(p), g), Places(p, l, Len(l), h)
  PROVE  Len(q) <= Len(p) /\ Places(q, l, Len(l), [i \in 1..Len(q) |-> h[g[i]]])
<1> DEFINE a == Len(q)
           b == Len(p)
           c == Len(l)
           f == [i \in 1..a |-> h[g[i]]]
<1>1. a \in Nat /\ b \in Nat /\ c \in Nat
  OBVIOUS
<1>2. /\ g \in [1..a -> 1..b] /\ \A i \in 1..a : p[g[i]] = q[i] /\ a - i <= b - g[i]
      /\ \A i, j \in 1..a : i < j => g[i] < g[j]
      /\ h \in [1..b -> 1..c] /\ \A i \in 1..b : l[h[i]] = p[i] /\ b - i <= c - h[i]
      /\ \A i, j \in 1..b : i < j => h[i] < h[j]
  BY DEF Places
<1> HIDE DEF a, b, c
<1>3. \A i \in 1..a : g[i] \in 1..b /\ h[g[i]] \in 1..c
  BY <1>2
<1>4. a <= b
  <2>1. CASE a >= 1
    <3>1. 1 \in 1..a
      BY <1>1, <2>1
    <3>2. g[1] \in 1..b /\ a - 1 <= b - g[1]
      BY <1>2, <1>3, <3>1
    <3>3. QED BY <1>1, <3>2
  <2>2. QED BY <1>1, <2>1
<1>5. f \in [1..a -> 1..c] /\ \A i \in 1..a : f[i] = h[g[i]]
  BY <1>3
<1> HIDE DEF f
<1>6. ASSUME NEW i \in 1..a PROVE l[f[i]] = q[i] /\ a - i <= c - f[i]
  <2>1. /\ g[i] \in 1..b /\ p[g[i]] = q[i] /\ a - i <= b - g[i]
        /\ l[h[g[i]]] = p[g[i]] /\ b - g[i] <= c - h[g[i]] /\ h[g[i]] \in 1..c
    BY <1>2, <1>3
  <2>2. f[i] = h[g[i]]
    BY <1>5
  <2>3. l[f[i]] = q[i]
    BY <2>1, <2>2
  <2>4. /\ a - i <= b - g[i] /\ b - g[i] <= c - f[i]
        /\ i \in Int /\ g[i] \in Int /\ f[i] \in Int
    BY <1>1, <2>1, <2>2
  <2>5. a - i <= c - f[i]
    BY <1>1, <2>4
  <2>6. QED BY <2>3, <2>5
<1>7. ASSUME NEW i \in 1..a, NEW j \in 1..a, i < j PROVE f[i] < f[j]
  <2>1. g[i] \in 1..b /\ g[j] \in 1..b /\ g[i] < g[j]
    BY <1>2, <1>3, <1>7
  <2>2. h[g[i]] < h[g[j]]
    BY <1>2, <2>1
  <2>3. f[i] = h[g[i]] /\ f[j] = h[g[j]]
    BY <1>5
  <2>4. QED BY <2>2, <2>3
<1>8. Places(q, l, c, f)
  BY <1>5, <1>6, <1>7 DEF Places, a
<1>9. QED BY <1>4, <1>8 DEF a, b, c, f

\* A number above those of a set is the greatest when it is added.
LEMMA GreatestIsAdded ==
  ASSUME NEW n \in Nat, NEW u \in SUBSET (1..n), n \in u
  PROVE  Max(u) = n
<1>1. \A y \in u : n >= y
  OBVIOUS
<1>2. \A x \in u : (\A y \in u : x >= y) => x = n
  BY <1>1
<1>3. QED BY <1>1, <1>2 DEF Max

\* What FoldLeft folds along the set of the places.
Folds(it, n, a, s) ==
  it = [u \in SUBSET (1..n) |-> IF u = {} THEN a ELSE s[Max(u)][it[u \ {Max(u)}]]]

\* A fold along a sequence exists when its steps stay within a set.
LEMMA FoldIsDefined ==
  ASSUME NEW n \in Nat, NEW T, NEW a \in T, NEW s, AreSteps(s, n, T)
  PROVE  \E it \in [SUBSET (1..n) -> T] : Folds(it, n, a, s)
<1> USE DEF AreSteps
<1> DEFINE S == {k \in 0..n : \E it \in [SUBSET (1..k) -> T] :
                   \A u \in SUBSET (1..k) :
                     it[u] = IF u = {} THEN a ELSE s[Max(u)][it[u \ {Max(u)}]]}
<1>1. 0 \in S
  <2> DEFINE g == [u \in SUBSET (1..0) |-> a]
  <2>1. 1..0 = {} /\ 0 \in 0..n
    OBVIOUS
  <2>2. g \in [SUBSET (1..0) -> T] /\ \A u \in SUBSET (1..0) : u = {} /\ g[u] = a
    BY <2>1
  <2> HIDE DEF g
  <2>3. QED BY <2>1, <2>2
<1>2. ASSUME NEW k \in 1..n, k - 1 \in S PROVE k \in S
  <2>1. PICK g \in [SUBSET (1..(k-1)) -> T] :
               \A u \in SUBSET (1..(k-1)) :
                 g[u] = IF u = {} THEN a ELSE s[Max(u)][g[u \ {Max(u)}]]
    BY <1>2
  <2> DEFINE h == [u \in SUBSET (1..k) |-> IF k \in u THEN s[k][g[u \ {k}]] ELSE g[u]]
  <2>2. \A u \in SUBSET (1..k) : u \ {k} \in SUBSET (1..(k-1))
    OBVIOUS
  <2>3. \A u \in SUBSET (1..k) : k \notin u => u \in SUBSET (1..(k-1))
    OBVIOUS
  <2>4. s[k] \in [T -> T]
    OBVIOUS
  <2>5. h \in [SUBSET (1..k) -> T]
    BY <2>2, <2>3, <2>4
  <2>6. \A u \in SUBSET (1..k) : h[u] = IF k \in u THEN s[k][g[u \ {k}]] ELSE g[u]
    OBVIOUS
  <2> HIDE DEF h
  <2>7. ASSUME NEW u \in SUBSET (1..k)
        PROVE  h[u] = IF u = {} THEN a ELSE s[Max(u)][h[u \ {Max(u)}]]
    <3>1. CASE k \in u
      <4>1. Max(u) = k
        BY <3>1, GreatestIsAdded
      <4>2. u \ {k} \in SUBSET (1..k) /\ k \notin u \ {k}
        OBVIOUS
      <4>3. h[u \ {k}] = g[u \ {k}]
        BY <2>6, <4>2
      <4>4. QED BY <2>6, <3>1, <4>1, <4>3
    <3>2. CASE k \notin u
      <4>1. h[u] = g[u] /\ u \in SUBSET (1..(k-1))
        BY <2>3, <2>6, <3>2
      <4>2. u \ {Max(u)} \in SUBSET (1..k) /\ k \notin u \ {Max(u)}
        BY <3>2
      <4>3. h[u \ {Max(u)}] = g[u \ {Max(u)}]
        BY <2>6, <4>2
      <4>4. QED BY <2>1, <4>1, <4>3
    <3>3. QED BY <3>1, <3>2
  <2>8. k \in 0..n
    OBVIOUS
  <2>9. QED BY <2>5, <2>7, <2>8
<1> HIDE DEF S
<1>3. n \in S
  <2>1. 0..n \subseteq S
    BY <1>1, <1>2, Induction
  <2>2. QED BY <2>1
<1>4. PICK it \in [SUBSET (1..n) -> T] :
             \A u \in SUBSET (1..n) : it[u] = IF u = {} THEN a ELSE s[Max(u)][it[u \ {Max(u)}]]
  BY <1>3 DEF S
<1>5. it = [u \in SUBSET (1..n) |-> IF u = {} THEN a ELSE s[Max(u)][it[u \ {Max(u)}]]]
  BY <1>4
<1>6. QED BY <1>4, <1>5 DEF Folds

\* The places up to one, and the one.
LEMMA PrefixIs ==
  ASSUME NEW n \in Nat, NEW i \in 1..n
  PROVE  /\ 1..i \in SUBSET (1..n) /\ 1..i # {} /\ Max(1..i) = i
         /\ (1..i) \ {i} = 1..(i-1)
<1>1. i \in Nat /\ i \in 1..i /\ 1..i \in SUBSET (1..i)
  OBVIOUS
<1>2. Max(1..i) = i
  BY <1>1, GreatestIsAdded
<1>3. QED BY <1>1, <1>2

\* A fold whose steps are functions.
IsFold(it, n, T, a, s) ==
  /\ it[{}] = a
  /\ \A u \in SUBSET (1..n) :
       u # {} => /\ Max(u) \in 1..n /\ it[u \ {Max(u)}] \in T
                 /\ it[u] = s[Max(u)][it[u \ {Max(u)}]]

\* A fold, place by place.
LEMMA FoldPlaces ==
  ASSUME NEW n \in Nat, NEW T, NEW a \in T, NEW s, AreSteps(s, n, T),
         NEW it \in [SUBSET (1..n) -> T], Folds(it, n, a, s)
  PROVE  IsFold(it, n, T, a, s)
<1>1. {} \in SUBSET (1..n)
  OBVIOUS
<1>2. ASSUME NEW u \in SUBSET (1..n), u # {} PROVE Max(u) \in 1..n
  <2> DEFINE back == {n - y : y \in u}
  <2>1. back \in SUBSET Nat /\ back # {}
    BY <1>2
  <2>2. PICK m \in back : \A y \in back : m <= y
    BY <2>1, LeastNumber
  <2>3. PICK x \in u : m = n - x
    BY <2>2
  <2>4. ASSUME NEW y \in u PROVE x >= y
    <3>1. n - y \in back /\ x \in Int /\ y \in Int
      OBVIOUS
    <3>2. n - x <= n - y
      BY <2>2, <2>3, <3>1
    <3>3. QED BY <3>1, <3>2
  <2>5. Max(u) \in u
    BY <2>3, <2>4 DEF Max
  <2>6. QED BY <2>5
<1>3. \A u \in SUBSET (1..n) : it[u] = IF u = {} THEN a ELSE s[Max(u)][it[u \ {Max(u)}]]
  BY DEF Folds
<1>4. ASSUME NEW u \in SUBSET (1..n), u # {} PROVE it[u \ {Max(u)}] \in T
  OBVIOUS
<1>5. QED BY <1>1, <1>2, <1>3, <1>4 DEF IsFold

\* A fold exists when its steps stay within a set.
LEMMA FoldExists ==
  ASSUME NEW n \in Nat, NEW T, NEW a \in T, NEW s, AreSteps(s, n, T)
  PROVE  \E it : it \in [SUBSET (1..n) -> T] /\ Folds(it, n, a, s) /\ IsFold(it, n, T, a, s)
<1>1. PICK it \in [SUBSET (1..n) -> T] : Folds(it, n, a, s)
  BY FoldIsDefined
<1>2. IsFold(it, n, T, a, s)
  BY <1>1, FoldPlaces
<1>3. QED BY <1>1, <1>2

\* A fold goes from place to place, and so it takes its steps.
LEMMA FoldTakesSteps ==
  ASSUME NEW n \in Nat, NEW T, NEW a \in T, NEW s, AreSteps(s, n, T), NEW j, j[{}] = a,
         \A i \in 1..n : j[1..(i-1)] \in T => j[1..i] = s[i][j[1..(i-1)]]
  PROVE  \E f : TakesSteps(f, n, T, a, s) /\ f[n] = j[1..n]
<1> DEFINE f == [i \in 0..n |-> j[1..i]]
           S == {i \in 0..n : f[i] \in T}
<1>1. f[0] = a /\ 0 \in 0..n /\ n \in 0..n
  <2>1. 1..0 = {} /\ 0 \in 0..n /\ n \in 0..n
    OBVIOUS
  <2>2. QED BY <2>1
<1>2. ASSUME NEW i \in 1..n, f[i-1] \in T PROVE f[i] = s[i][f[i-1]] /\ f[i] \in T /\ i \in 0..n
  <2>1. i \in 0..n /\ i - 1 \in 0..n
    OBVIOUS
  <2>2. f[i] = s[i][f[i-1]]
    BY <1>2, <2>1
  <2>3. s[i] \in [T -> T]
    BY DEF AreSteps
  <2>4. QED BY <1>2, <2>1, <2>2, <2>3
<1>3. DOMAIN f = 0..n /\ f[n] = j[1..n] /\ f = [i \in 0..n |-> f[i]]
  BY <1>1
<1> HIDE DEF f
<1>4. 0..n \subseteq S
  <2>1. 0 \in S
    BY <1>1
  <2>2. \A i \in 1..n : i - 1 \in S => i \in S
    BY <1>2
  <2> HIDE DEF S
  <2>3. QED BY <2>1, <2>2, Induction
<1>5. \A i \in 0..n : f[i] \in T
  BY <1>4
<1>6. \A i \in 1..n : f[i] = s[i][f[i-1]]
  <2>1. \A i \in 1..n : i - 1 \in 0..n
    OBVIOUS
  <2>2. QED BY <1>2, <1>5, <2>1
<1>7. f \in [0..n -> T]
  BY <1>3, <1>5
<1>8. QED BY <1>1, <1>3, <1>6, <1>7 DEF TakesSteps

\* Each value such a function goes through is of the type, the one it ends with as
\* well as those its steps begin with.
LEMMA StepsAreTaken ==
  ASSUME NEW n \in Nat, NEW T, NEW a, NEW s, NEW f, TakesSteps(f, n, T, a, s)
  PROVE  f \in [0..n -> T] /\ f[0] = a /\ \A i \in 1..n : f[i] = s[i][f[i-1]] /\ f[i-1] \in T
<1>1. f \in [0..n -> T] /\ f[0] = a /\ \A i \in 1..n : f[i] = s[i][f[i-1]]
  BY DEF TakesSteps
<1>2. \A i \in 1..n : i - 1 \in 0..n
  OBVIOUS
<1>3. \A i \in 1..n : f[i-1] \in T
  BY <1>1, <1>2
<1>4. QED BY <1>1, <1>3

\* Where the elements that are kept were: all the places of elements of the set, in
\* order.
IsSelection(g, k, c, n, S) ==
  /\ g \in [1..Len(k) -> 1..n]
  /\ \A i \in 1..Len(k) : k[i] = c[g[i]] /\ c[g[i]] \in S
  /\ \A i, j \in 1..Len(k) : i < j => g[i] < g[j]
  /\ \A m \in 1..n : c[m] \in S => \E i \in 1..Len(k) : g[i] = m

\* One more place in a selection.
LEMMA SelectionGrows ==
  ASSUME NEW X, NEW c, NEW S, NEW n \in Nat, n >= 1, c[n] \in X, c[n] \in S,
         NEW k \in Seq(X), NEW g, IsSelection(g, k, c, n - 1, S)
  PROVE  \E h : IsSelection(h, Append(k, c[n]), c, n, S)
<1> DEFINE m == Len(k)
           l == Append(k, c[n])
           h == [i \in 1..(m+1) |-> IF i = m + 1 THEN n ELSE g[i]]
<1>1. /\ m \in Nat /\ g \in [1..m -> 1..(n-1)]
      /\ \A i \in 1..m : k[i] = c[g[i]] /\ c[g[i]] \in S
      /\ \A i, j \in 1..m : i < j => g[i] < g[j]
      /\ \A j \in 1..(n-1) : c[j] \in S => \E i \in 1..m : g[i] = j
  BY DEF IsSelection
<1>2. Len(l) = m + 1 /\ l[m+1] = c[n] /\ \A i \in 1..m : l[i] = k[i]
  OBVIOUS
<1> HIDE DEF m, l
<1>3. \A i \in 1..(m+1) : i # m + 1 => i \in 1..m
  BY <1>1
<1>4. \A i \in 1..m : g[i] \in 1..(n-1) /\ g[i] \in 1..n /\ g[i] < n /\ i \in 1..(m+1) /\ i # m + 1
  BY <1>1
<1>5. h[m+1] = n /\ \A i \in 1..m : h[i] = g[i]
  BY <1>1, <1>4
<1>6. h \in [1..(m+1) -> 1..n]
  <2>1. n \in 1..n
    OBVIOUS
  <2>2. QED BY <1>3, <1>4, <2>1
<1> HIDE DEF h
<1>7. ASSUME NEW i \in 1..(m+1) PROVE l[i] = c[h[i]] /\ c[h[i]] \in S
  <2>1. CASE i = m + 1
    BY <1>2, <1>5, <2>1
  <2>2. CASE i # m + 1
    BY <1>1, <1>2, <1>3, <1>5, <2>2
  <2>3. QED BY <2>1, <2>2
<1>8. ASSUME NEW i \in 1..(m+1), NEW j \in 1..(m+1), i < j PROVE h[i] < h[j]
  <2>1. i \in 1..m
    BY <1>1, <1>8
  <2>2. CASE j = m + 1
    BY <1>4, <1>5, <2>1, <2>2
  <2>3. CASE j # m + 1
    <3>1. j \in 1..m
      BY <1>3, <2>3
    <3>2. QED BY <1>1, <1>5, <1>8, <2>1, <3>1
  <2>4. QED BY <2>2, <2>3
<1>9. ASSUME NEW j \in 1..n, c[j] \in S PROVE \E i \in 1..(m+1) : h[i] = j
  <2>1. CASE j = n
    <3>1. m + 1 \in 1..(m+1)
      BY <1>1
    <3>2. QED BY <1>5, <2>1, <3>1
  <2>2. CASE j # n
    <3>1. j \in 1..(n-1)
      BY <2>2
    <3>2. PICK i \in 1..m : g[i] = j
      BY <1>1, <1>9, <3>1
    <3>3. QED BY <1>4, <1>5, <3>2
  <2>3. QED BY <2>1, <2>2
<1>10. IsSelection(h, l, c, n, S)
  BY <1>2, <1>6, <1>7, <1>8, <1>9 DEF IsSelection
<1>11. QED BY <1>10 DEF l

\* Kept selects.
LEMMA KeptSelects ==
  ASSUME NEW X, NEW c \in Seq(X), NEW S
  PROVE  \E g : IsSelection(g, Kept(c, S), c, Len(c), S)
<1> DEFINE N == Len(c)
<1>1. N \in Nat /\ \A i \in 1..N : c[i] \in X
  OBVIOUS
<1>2. PICK f : IsKeeping(f, c, S) /\ Kept(c, S) = f[N]
  BY KeptStepwise
<1>3. f[0] = <<>> /\ \A i \in 1..N : f[i] = IF c[i] \in S THEN Append(f[i-1], c[i]) ELSE f[i-1]
  BY <1>2 DEF IsKeeping
<1> HIDE DEF N
<1> DEFINE D == {i \in 0..N : f[i] \in Seq(X) /\ \E g : IsSelection(g, f[i], c, i, S)}
<1>4. 0 \in D
  <2>1. f[0] \in Seq(X) /\ Len(f[0]) = 0
    BY <1>3
  <2>2. IsSelection([i \in 1..0 |-> i], f[0], c, 0, S)
    BY <2>1 DEF IsSelection
  <2>3. QED BY <1>1, <2>1, <2>2
<1>5. ASSUME NEW n \in 1..N, n - 1 \in D PROVE n \in D
  <2>1. n \in 0..N /\ c[n] \in X /\ n - 1 \in 0..N /\ n \in Nat /\ n >= 1
    BY <1>1
  <2>2. f[n-1] \in Seq(X)
    BY <1>5
  <2>3. PICK g : IsSelection(g, f[n-1], c, n - 1, S)
    BY <1>5
  <2>4. CASE c[n] \in S
    <3>1. f[n] = Append(f[n-1], c[n])
      BY <1>3, <2>4
    <3>2. f[n] \in Seq(X)
      BY <2>1, <2>2, <3>1
    <3>3. \E h : IsSelection(h, f[n], c, n, S)
      BY <2>1, <2>2, <2>3, <2>4, <3>1, SelectionGrows
    <3>4. QED BY <2>1, <3>2, <3>3
  <2>5. CASE c[n] \notin S
    <3>1. f[n] = f[n-1]
      BY <1>3, <2>5
    <3>2. /\ g \in [1..Len(f[n-1]) -> 1..(n-1)]
          /\ \A i \in 1..Len(f[n-1]) : f[n-1][i] = c[g[i]] /\ c[g[i]] \in S
          /\ \A i, j \in 1..Len(f[n-1]) : i < j => g[i] < g[j]
          /\ \A m \in 1..(n-1) : c[m] \in S => \E i \in 1..Len(f[n-1]) : g[i] = m
      BY <2>3 DEF IsSelection
    <3>3. g \in [1..Len(f[n-1]) -> 1..n]
      <4>1. \A i \in 1..(n-1) : i \in 1..n
        BY <2>1
      <4>2. QED BY <3>2, <4>1
    <3>4. \A m \in 1..n : m = n \/ m \in 1..(n-1)
      BY <2>1
    <3>5. \A m \in 1..n : c[m] \in S => \E i \in 1..Len(f[n-1]) : g[i] = m
      BY <2>5, <3>2, <3>4
    <3>6. IsSelection(g, f[n-1], c, n, S)
      BY <3>2, <3>3, <3>5 DEF IsSelection
    <3>7. QED BY <2>1, <2>2, <3>1, <3>6
  <2>6. QED BY <2>4, <2>5
<1>6. N \in D
  <2> HIDE DEF D
  <2>1. 0..N \subseteq D
    BY <1>1, <1>4, <1>5, Induction
  <2>2. QED BY <1>1, <2>1
<1>7. QED BY <1>2, <1>6 DEF N

\* As much is kept as there are places of elements of the set.
LEMMA KeptCounts ==
  ASSUME NEW X, NEW c \in Seq(X), NEW S
  PROVE  LET P == {i \in 1..Len(c) : c[i] \in S}
         IN IsFiniteSet(P) /\ Len(Kept(c, S)) = Cardinality(P)
<1> DEFINE P == {i \in 1..Len(c) : c[i] \in S}
           k == Kept(c, S)
           n == Len(c)
           m == Len(k)
<1>1. PICK g : IsSelection(g, k, c, n, S)
  BY KeptSelects
<1>2. k \in Seq(X)
  BY KeptIs
<1>3. m \in Nat /\ n \in Nat
  BY <1>2
<1>4. /\ g \in [1..m -> 1..n] /\ \A i \in 1..m : c[g[i]] \in S
      /\ \A i, j \in 1..m : i < j => g[i] < g[j]
      /\ \A j \in 1..n : c[j] \in S => \E i \in 1..m : g[i] = j
  BY <1>1 DEF IsSelection
<1> HIDE DEF k, n, m
<1>5. P = {i \in 1..n : c[i] \in S}
  BY DEF n
<1> HIDE DEF P
<1>6. g \in [1..m -> P] /\ \A p \in P : \E i \in 1..m : g[i] = p
  BY <1>4, <1>5
<1>7. ASSUME NEW i \in 1..m, NEW j \in 1..m, g[i] = g[j] PROVE i = j
  <2>1. g[i] \in 1..n /\ g[j] \in 1..n
    BY <1>4
  <2>2. ~(i < j) /\ ~(j < i)
    BY <1>3, <1>4, <1>7, <2>1
  <2>3. QED BY <1>3, <2>2
<1>8. g \in Bijection(1..m, P)
  BY <1>6, <1>7, Fun_IsBij
<1>9. IsFiniteSet(1..m) /\ Cardinality(1..m) = m
  BY <1>3, FS_Interval
<1>10. ExistsBijection(1..m, P)
  BY <1>8 DEF ExistsBijection
<1>11. IsFiniteSet(P) /\ Cardinality(P) = m
  BY <1>9, <1>10, FS_Bijection
<1>12. QED BY <1>11 DEF m, k, P

\* Nothing is kept just if there is nothing of the set.
LEMMA KeptNothing ==
  ASSUME NEW X, NEW c \in Seq(X), NEW S
  PROVE  Kept(c, S) = <<>> <=> \A i \in 1..Len(c) : c[i] \notin S
<1>1. Kept(c, S) \in Seq(X) /\ ToSet(Kept(c, S)) = ToSet(c) \cap S
  BY KeptIs
<1>2. Kept(c, S) = <<>> <=> ToSet(Kept(c, S)) = {}
  <2> DEFINE k == Kept(c, S)
  <2>1. k \in Seq(X)
    BY <1>1
  <2> HIDE DEF k
  <2>2. DOMAIN k = 1..Len(k) /\ Len(k) \in Nat /\ (k = <<>> <=> Len(k) = 0)
    BY <2>1, EmptySeq
  <2>3. k # <<>> => 1 \in DOMAIN k
    BY <2>2
  <2>4. k # <<>> => k[1] \in ToSet(k)
    BY <2>3 DEF ToSet
  <2>5. k = <<>> => DOMAIN k = {}
    BY <2>2
  <2>6. QED BY <2>4, <2>5 DEF ToSet, k
<1>3. DOMAIN c = 1..Len(c)
  OBVIOUS
<1>4. QED BY <1>1, <1>2, <1>3 DEF ToSet

\* What is kept of one set is no more than what is kept of a larger one.
LEMMA KeptGrows ==
  ASSUME NEW X, NEW c \in Seq(X), NEW S, NEW T, \A i \in 1..Len(c) : c[i] \in S => c[i] \in T
  PROVE  Len(Kept(c, S)) <= Len(Kept(c, T))
<1> DEFINE P == {i \in 1..Len(c) : c[i] \in S}
           Q == {i \in 1..Len(c) : c[i] \in T}
<1>1. IsFiniteSet(P) /\ Len(Kept(c, S)) = Cardinality(P)
  BY KeptCounts
<1>2. IsFiniteSet(Q) /\ Len(Kept(c, T)) = Cardinality(Q)
  BY KeptCounts
<1>3. P \in SUBSET Q
  OBVIOUS
<1> HIDE DEF P, Q
<1>4. Cardinality(P) <= Cardinality(Q)
  BY <1>2, <1>3, FS_Subset
<1>5. QED BY <1>1, <1>2, <1>4

\* The places of a sequence are as many as its length, and some of them are finitely
\* many.
LEMMA PlacesAreFinite ==
  ASSUME NEW n \in Nat
  PROVE  /\ IsFiniteSet(1..n) /\ Cardinality(1..n) = n
         /\ \A P \in SUBSET (1..n) : IsFiniteSet(P) /\ Cardinality(P) \in Nat /\ Cardinality(P) <= n
<1>1. IsFiniteSet(1..n) /\ Cardinality(1..n) = n
  BY FS_Interval
<1>2. ASSUME NEW P \in SUBSET (1..n)
      PROVE  IsFiniteSet(P) /\ Cardinality(P) \in Nat /\ Cardinality(P) <= n
  <2>1. IsFiniteSet(P) /\ Cardinality(P) <= n
    BY <1>1, FS_Subset
  <2>2. QED BY <2>1, FS_CardinalityType
<1>3. QED BY <1>1, <1>2

\* The smaller of two numbers, and the larger.
LEMMA OfTwo ==
  ASSUME NEW a \in Int, NEW b \in Int
  PROVE  /\ Min({a, b}) = IF a <= b THEN a ELSE b
         /\ Max({a, b}) = IF a >= b THEN a ELSE b
BY DEF Min, Max

\* The first few of a sequence.
FirstOf(s, k) == SubSeq(s, 1, Min({k, Len(s)}))

\* As many as are wanted, if there are.
LEMMA FirstFew ==
  ASSUME NEW X, NEW s \in Seq(X), NEW k \in Nat
  PROVE  /\ FirstOf(s, k) \in Seq(X)
         /\ Len(FirstOf(s, k)) = IF k <= Len(s) THEN k ELSE Len(s)
         /\ \A i \in 1..Len(FirstOf(s, k)) : FirstOf(s, k)[i] = s[i] /\ i \in 1..Len(s)
<1> DEFINE m == Min({k, Len(s)})
           t == SubSeq(s, 1, m)
<1>1. Len(s) \in Nat /\ \A i \in 1..Len(s) : s[i] \in X
  OBVIOUS
<1>2. m \in Nat /\ m = (IF k <= Len(s) THEN k ELSE Len(s))
  BY <1>1, OfTwo
<1> HIDE DEF m
<1>3. \A i \in 1..m : i \in 1..Len(s) /\ s[i] \in X
  BY <1>1, <1>2
<1>4. /\ t \in Seq(X) /\ Len(t) = IF 1 <= m THEN m - 1 + 1 ELSE 0
      /\ \A i \in 1..m-1+1 : t[i] = s[1+i-1]
  BY <1>2, <1>3, SubSeqProperties
<1> HIDE DEF t
<1>5. Len(t) = m /\ m - 1 + 1 = m
  BY <1>2, <1>4
<1>6. \A i \in 1..m : 1 + i - 1 = i
  BY <1>2
<1>7. \A i \in 1..m : t[i] = s[i]
  BY <1>4, <1>5, <1>6
<1>8. QED BY <1>2, <1>3, <1>4, <1>5, <1>7 DEF t, m, FirstOf

\* A sequence backwards.
LEMMA Backwards ==
  ASSUME NEW X, NEW s \in Seq(X)
  PROVE  /\ Reverse(s) \in Seq(X) /\ Len(Reverse(s)) = Len(s)
         /\ \A i \in 1..Len(s) : Reverse(s)[i] = s[Len(s) - i + 1] /\ Len(s) - i + 1 \in 1..Len(s)
         /\ ToSet(Reverse(s)) = ToSet(s)
<1> DEFINE n == Len(s)
           r == Reverse(s)
<1>1. n \in Nat /\ DOMAIN s = 1..n /\ \A i \in 1..n : s[i] \in X
  OBVIOUS
<1>2. r = [i \in 1..n |-> s[(n - i) + 1]]
  BY DEF Reverse
<1> HIDE DEF n, r
<1>3. \A i \in 1..n : n - i + 1 \in 1..n /\ (n - i) + 1 = n - i + 1 /\ n - (n - i + 1) + 1 = i
  BY <1>1
<1>4. DOMAIN r = 1..n /\ \A i \in 1..n : r[i] = s[n - i + 1]
  BY <1>2, <1>3
<1>5. r \in [1..n -> X]
  BY <1>1, <1>2, <1>3
<1>6. r \in Seq(X) /\ Len(r) = n
  BY <1>1, <1>5, SeqDef
<1>7. ToSet(r) = ToSet(s)
  <2>1. \A i \in 1..n : \E j \in 1..n : s[i] = r[j]
    BY <1>3, <1>4
  <2>2. \A i \in 1..n : \E j \in 1..n : r[i] = s[j]
    BY <1>3, <1>4
  <2>3. ToSet(r) = {r[i] : i \in 1..n} /\ ToSet(s) = {s[i] : i \in 1..n}
    BY <1>1, <1>4 DEF ToSet
  <2>4. QED BY <2>1, <2>2, <2>3
<1>8. QED BY <1>3, <1>4, <1>6, <1>7 DEF n, r

\* Two sequences with the same first part keep the same of it.
LEMMA KeptAlike ==
  ASSUME NEW n \in Nat, NEW c, NEW d, NEW S, NEW f, NEW g, IsKeeping(f, c, S), IsKeeping(g, d, S),
         n <= Len(c), n <= Len(d), Len(c) \in Nat, Len(d) \in Nat, \A i \in 1..n : c[i] = d[i]
  PROVE  f[n] = g[n]
<1> DEFINE D == {i \in 0..n : f[i] = g[i]}
<1>1. f[0] = g[0]
  BY DEF IsKeeping
<1>2. ASSUME NEW i \in 1..n, f[i-1] = g[i-1] PROVE f[i] = g[i]
  <2>1. i \in 1..Len(c) /\ i \in 1..Len(d) /\ c[i] = d[i]
    OBVIOUS
  <2>2. /\ f[i] = IF c[i] \in S THEN Append(f[i-1], c[i]) ELSE f[i-1]
        /\ g[i] = IF d[i] \in S THEN Append(g[i-1], d[i]) ELSE g[i-1]
    BY <2>1 DEF IsKeeping
  <2>3. QED BY <1>2, <2>1, <2>2
<1>3. 0 \in D /\ \A i \in 1..n : i - 1 \in D => i \in D
  BY <1>1, <1>2
<1> HIDE DEF D
<1>4. n \in D
  <2>1. 0..n \subseteq D
    BY <1>3, Induction
  <2>2. QED BY <2>1
<1>5. QED BY <1>4 DEF D

\* What is kept of no elements, and of one more.
LEMMA KeptOfAppend ==
  ASSUME NEW X, NEW S
  PROVE  /\ Kept(<<>>, S) = <<>>
         /\ \A s \in Seq(X), x \in X :
              Kept(Append(s, x), S) = IF x \in S THEN Append(Kept(s, S), x) ELSE Kept(s, S)
<1>1. Kept(<<>>, S) = <<>>
  <2>1. <<>> \in Seq(X) /\ Len(<<>>) = 0
    OBVIOUS
  <2>2. PICK f : IsKeeping(f, <<>>, S) /\ Kept(<<>>, S) = f[Len(<<>>)]
    BY <2>1, KeptStepwise
  <2>3. QED BY <2>1, <2>2 DEF IsKeeping
<1>2. ASSUME NEW s \in Seq(X), NEW x \in X
      PROVE  Kept(Append(s, x), S) = IF x \in S THEN Append(Kept(s, S), x) ELSE Kept(s, S)
  <2> DEFINE t == Append(s, x)
             n == Len(s)
  <2>1. /\ n \in Nat /\ t \in Seq(X) /\ Len(t) = n + 1 /\ t[n+1] = x
        /\ \A i \in 1..n : t[i] = s[i]
    OBVIOUS
  <2> HIDE DEF t
  <2>2. PICK f : IsKeeping(f, s, S) /\ Kept(s, S) = f[n]
    BY KeptStepwise
  <2>3. PICK g : IsKeeping(g, t, S) /\ Kept(t, S) = g[Len(t)]
    BY <2>1, KeptStepwise
  <2> HIDE DEF n
  <2>4. f[n] = g[n]
    <3>1. n <= Len(s) /\ Len(s) \in Nat /\ n <= Len(t) /\ Len(t) \in Nat
      BY <2>1 DEF n
    <3>2. \A i \in 1..n : s[i] = t[i]
      BY <2>1
    <3>3. QED BY <2>1, <2>2, <2>3, <3>1, <3>2, KeptAlike
  <2>5. g[n+1] = IF x \in S THEN Append(g[n], x) ELSE g[n]
    <3>1. n + 1 \in 1..Len(t) /\ n + 1 - 1 = n
      BY <2>1
    <3>2. \A i \in 1..Len(t) : g[i] = IF t[i] \in S THEN Append(g[i-1], t[i]) ELSE g[i-1]
      BY <2>3 DEF IsKeeping
    <3>3. QED BY <2>1, <3>1, <3>2
  <2>6. QED BY <2>1, <2>2, <2>3, <2>4, <2>5 DEF t
<1>3. QED BY <1>1, <1>2

\* The sums of the parts of a sequence.
SumsUp(f, s) == f[0] = 0 /\ \A i \in 1..Len(s) : f[i] = f[i-1] + s[i]

\* Total sums up.
LEMMA TotalStepwise ==
  ASSUME NEW s \in Seq(Nat)
  PROVE  \E f : f \in [0..Len(s) -> Nat] /\ SumsUp(f, s) /\ Total(s) = f[Len(s)]
<1> DEFINE n == Len(s)
           step == [i \in 1..n |-> [t \in Nat |-> t + s[i]]]
           body(j) == [u \in SUBSET (1..n) |->
                         IF u = {} THEN 0 ELSE j[u \ {Max(u)}] + s[Max(u)]]
<1>1. n \in Nat /\ DOMAIN s = 1..n /\ \A i \in 1..n : s[i] \in Nat
  OBVIOUS
<1>2. AreSteps(step, n, Nat) /\ \A m \in 1..n, t \in Nat : step[m][t] = t + s[m]
  BY <1>1 DEF AreSteps
<1>3. Total(s) = (CHOOSE j : j = body(j))[1..n]
  BY <1>1 DEF Total, FoldLeft, MapThenFoldSet
<1> HIDE DEF step, n
<1>4. \E j : j = body(j)
  <2>1. PICK it : it \in [SUBSET (1..n) -> Nat] /\ IsFold(it, n, Nat, 0, step)
    BY <1>1, <1>2, FoldExists
  <2>2. \A u \in SUBSET (1..n) : it[u] = body(it)[u]
    BY <1>2, <2>1 DEF IsFold
  <2> HIDE DEF body
  <2>3. it = body(it)
    BY <2>1, <2>2 DEF body
  <2>5. QED BY <2>3
<1>5. PICK j : j = body(j) /\ Total(s) = j[1..n]
  BY <1>3, <1>4
<1>6. \A u \in SUBSET (1..n) : j[u] = IF u = {} THEN 0 ELSE j[u \ {Max(u)}] + s[Max(u)]
  BY <1>5
<1>7. j[{}] = 0 /\ \A i \in 1..n : j[1..i] = j[1..(i-1)] + s[i]
  BY <1>1, <1>6, PrefixIs
<1>8. \A i \in 1..n : j[1..(i-1)] \in Nat => j[1..i] = step[i][j[1..(i-1)]]
  BY <1>2, <1>7
<1>9. \E f : TakesSteps(f, n, Nat, 0, step) /\ f[n] = j[1..n]
  <2> DEFINE T == Nat
             a == 0
  <2>1. /\ a \in T /\ AreSteps(step, n, T) /\ j[{}] = a
        /\ \A i \in 1..n : j[1..(i-1)] \in T => j[1..i] = step[i][j[1..(i-1)]]
    BY <1>2, <1>7, <1>8
  <2> HIDE DEF T, a
  <2>2. \E f : TakesSteps(f, n, T, a, step) /\ f[n] = j[1..n]
    BY <1>1, <2>1, FoldTakesSteps
  <2>3. QED BY <2>2 DEF T, a
<1>10. PICK f : TakesSteps(f, n, Nat, 0, step) /\ f[n] = j[1..n]
  BY <1>9
<1>11. f \in [0..n -> Nat] /\ f[0] = 0 /\ \A i \in 1..n : f[i] = step[i][f[i-1]]
  BY <1>10 DEF TakesSteps
<1>12. \A i \in 1..n : f[i] = f[i-1] + s[i]
  <2>1. \A i \in 1..n : f[i-1] \in Nat
    BY <1>1, <1>11
  <2>2. QED BY <1>2, <1>11, <2>1
<1>13. SumsUp(f, s)
  BY <1>11, <1>12 DEF SumsUp, n
<1>14. QED BY <1>5, <1>10, <1>11, <1>13 DEF n

\* Whatever sums up a sequence ends with its total.
LEMMA TotalIs ==
  ASSUME NEW s \in Seq(Nat), NEW f, SumsUp(f, s)
  PROVE  Total(s) = f[Len(s)] /\ Total(s) \in Nat
<1>1. PICK g : g \in [0..Len(s) -> Nat] /\ SumsUp(g, s) /\ Total(s) = g[Len(s)]
  BY TotalStepwise
<1> DEFINE n == Len(s)
           D == {i \in 0..n : f[i] = g[i]}
<1>2. n \in Nat /\ g[n] \in Nat
  BY <1>1
<1>3. f[0] = 0 /\ \A i \in 1..n : f[i] = f[i-1] + s[i]
  BY DEF SumsUp
<1>4. g[0] = 0 /\ \A i \in 1..n : g[i] = g[i-1] + s[i]
  BY <1>1 DEF SumsUp
<1> HIDE DEF n
<1>5. 0 \in D
  BY <1>2, <1>3, <1>4
<1>6. \A i \in 1..n : i - 1 \in D => i \in D
  BY <1>2, <1>3, <1>4
<1> HIDE DEF D
<1>7. 0..n \subseteq D
  BY <1>2, <1>5, <1>6, Induction
<1>8. n \in D
  BY <1>2, <1>7
<1>9. f[n] = g[n]
  BY <1>8 DEF D
<1>10. QED BY <1>1, <1>2, <1>9 DEF n

\* The total of no numbers, and of one more.
LEMMA TotalOfNone == Total(<<>>) = 0
<1> DEFINE s == <<>>
           f == [i \in 0..0 |-> 0]
<1>1. s \in Seq(Nat) /\ Len(s) = 0
  OBVIOUS
<1>2. SumsUp(f, s) /\ f[0] = 0
  BY <1>1 DEF SumsUp
<1> HIDE DEF s, f
<1>3. Total(s) = 0
  BY <1>1, <1>2, TotalIs
<1>4. QED BY <1>3 DEF s

\* One more number adds to the total.
LEMMA TotalOfAppend ==
  ASSUME NEW s \in Seq(Nat), NEW x \in Nat
  PROVE  Total(Append(s, x)) = Total(s) + x
<1> DEFINE n == Len(s)
           t == Append(s, x)
<1>1. PICK f : f \in [0..n -> Nat] /\ SumsUp(f, s) /\ Total(s) = f[n]
  BY TotalStepwise
<1> DEFINE g == [i \in 0..(n+1) |-> IF i = n + 1 THEN f[n] + x ELSE f[i]]
<1>2. n \in Nat /\ t \in Seq(Nat) /\ Len(t) = n + 1 /\ t[n+1] = x /\ \A i \in 1..n : t[i] = s[i]
  OBVIOUS
<1>3. f[0] = 0 /\ \A i \in 1..n : f[i] = f[i-1] + s[i]
  BY <1>1 DEF SumsUp
<1> HIDE DEF n, t
<1>4. g[n+1] = f[n] + x /\ \A i \in 0..n : g[i] = f[i]
  BY <1>2
<1> HIDE DEF g
<1>5. SumsUp(g, t)
  <2>1. g[0] = 0
    BY <1>2, <1>3, <1>4
  <2>2. ASSUME NEW i \in 1..(n+1) PROVE g[i] = g[i-1] + t[i]
    <3>1. CASE i = n + 1
      <4>1. i - 1 = n /\ n \in 0..n
        BY <1>2, <3>1
      <4>2. QED BY <1>2, <1>4, <3>1, <4>1
    <3>2. CASE i # n + 1
      <4>1. i \in 1..n /\ i \in 0..n /\ i - 1 \in 0..n
        BY <1>2, <3>2
      <4>2. QED BY <1>2, <1>3, <1>4, <4>1
    <3>3. QED BY <3>1, <3>2
  <2>3. QED BY <1>2, <2>1, <2>2 DEF SumsUp
<1>6. Total(t) = g[n+1]
  BY <1>2, <1>5, TotalIs
<1>7. QED BY <1>1, <1>4, <1>6 DEF t

\* The parts of a sequence put together, one after the other.
Joins(f, s) == f[0] = <<>> /\ \A i \in 1..Len(s) : f[i] = f[i-1] \o s[i]

\* FlattenSeq puts the parts together.
LEMMA FlattenStepwise ==
  ASSUME NEW X, NEW s \in Seq(Seq(X))
  PROVE  \E f : f \in [0..Len(s) -> Seq(X)] /\ Joins(f, s) /\ FlattenSeq(s) = f[Len(s)]
<1> DEFINE n == Len(s)
           T == Seq(X)
           a == <<>>
           step == [i \in 1..n |-> [t \in T |-> t \o s[i]]]
           body(h) == [i \in 1..n |-> IF i = 1 THEN s[i] ELSE h[i-1] \o s[i]]
           F == CHOOSE h : h = body(h)
<1>0. n \in Nat
  OBVIOUS
<1>1. n \in Nat /\ DOMAIN s = 1..n /\ (\A i \in 1..n : s[i] \in T) /\ a \in T
  OBVIOUS
<1>2. AreSteps(step, n, T) /\ \A i \in 1..n, t \in T : step[i][t] = t \o s[i]
  BY <1>1 DEF AreSteps
<1>3. FlattenSeq(s) = IF n = 0 THEN s ELSE F[n]
  BY DEF FlattenSeq
<1>4. n = 0 => s = <<>>
  BY EmptySeq
<1> HIDE DEF n, step, a
<1>5. PICK g : TakesSteps(g, n, T, a, step)
  <2> HIDE DEF T
  <2>1. QED BY <1>1, <1>2, RecursionIsDefined
<1>6. g \in [0..n -> T] /\ g[0] = <<>> /\ \A i \in 1..n : g[i] = g[i-1] \o s[i]
  <2>1. g \in [0..n -> T] /\ g[0] = <<>> /\ \A i \in 1..n : g[i] = step[i][g[i-1]]
    BY <1>5 DEF TakesSteps, a
  <2>2. \A i \in 1..n : i - 1 \in 0..n
    BY <1>1
  <2> HIDE DEF T
  <2>3. \A i \in 1..n : g[i-1] \in T
    BY <2>1, <2>2
  <2>4. QED BY <1>2, <2>1, <2>3
<1>7. F = body(F)
  <2> DEFINE h == [i \in 1..n |-> g[i]]
  <2>1. ASSUME NEW i \in 1..n PROVE h[i] = IF i = 1 THEN s[i] ELSE h[i-1] \o s[i]
    <3>1. CASE i = 1
      <4>1. s[i] \in Seq(X) /\ i - 1 = 0
        BY <1>1, <3>1
      <4>2. g[i] = <<>> \o s[i]
        BY <1>6, <4>1, Zenon
      <4>3. QED BY <3>1, <4>1, <4>2, ConcatEmptySeq
    <3>2. CASE i # 1
      <4>1. i - 1 \in 1..n
        BY <1>0, <3>2
      <4>2. QED BY <1>6, <3>2, <4>1
    <3>3. QED BY <3>1, <3>2
  <2>2. h = body(h)
    BY <2>1
  <2> HIDE DEF h, body
  <2>3. QED BY <2>2
<1>8. \A i \in 1..n : F[i] = IF i = 1 THEN s[i] ELSE F[i-1] \o s[i]
  <2> DEFINE b == body(F)
  <2>1. \A i \in 1..n : b[i] = IF i = 1 THEN s[i] ELSE F[i-1] \o s[i]
    BY SMTT(30)
  <2>2. F = b
    BY <1>7, Zenon
  <2> HIDE DEF b, F
  <2>3. QED BY <2>1, <2>2
<1> HIDE DEF F
<1>9. \A i \in 1..n : F[i] = g[i]
  <2> DEFINE D == {i \in 0..n : i = 0 \/ F[i] = g[i]}
  <2>1. 0 \in D
    BY <1>0
  <2>2. ASSUME NEW i \in 1..n, i - 1 \in D PROVE i \in D
    <3>1. CASE i = 1
      <4>1. s[i] \in Seq(X) /\ i - 1 = 0 /\ F[i] = s[i]
        BY <1>1, <1>8, <3>1
      <4>2. g[i] = <<>> \o s[i]
        BY <1>6, <4>1, Zenon
      <4>3. g[i] = s[i]
        BY <4>1, <4>2, ConcatEmptySeq
      <4>4. i \in 0..n
        BY <1>0
      <4>5. QED BY <4>1, <4>3, <4>4
    <3>2. CASE i # 1
      <4>1. i - 1 # 0 /\ i \in 0..n
        BY <1>0, <3>2
      <4>2. F[i-1] = g[i-1]
        BY <2>2, <4>1, Zenon
      <4>3. F[i] = F[i-1] \o s[i]
        BY <1>8, <3>2, Zenon
      <4>4. g[i] = g[i-1] \o s[i]
        BY <1>6, Zenon
      <4>5. F[i] = g[i]
        BY <4>2, <4>3, <4>4
      <4>6. QED BY <4>1, <4>5
    <3>3. QED BY <3>1, <3>2
  <2> HIDE DEF D
  <2>3. 0..n \subseteq D
    BY <1>1, <2>1, <2>2, Induction
  <2>4. \A i \in 1..n : i \in 0..n /\ i # 0
    BY <1>1
  <2>5. QED BY <2>3, <2>4 DEF D
<1>10. FlattenSeq(s) = g[n]
  <2>1. CASE n = 0
    BY <1>3, <1>4, <1>6, <2>1
  <2>2. CASE n # 0
    <3>1. n \in 1..n
      BY <1>1, <2>2
    <3>2. QED BY <1>3, <1>9, <2>2, <3>1
  <2>3. QED BY <2>1, <2>2
<1>11. Joins(g, s)
  BY <1>6 DEF Joins, n
<1>12. QED BY <1>6, <1>10, <1>11 DEF n

\* It does not matter which of three is put to its neighbour first.
LEMMA JoinsJoin ==
  \A X : \A a, b, c \in Seq(X) : a \o (b \o c) = (a \o b) \o c
<1>1. ASSUME NEW X, NEW a \in Seq(X), NEW b \in Seq(X), NEW c \in Seq(X)
      PROVE  a \o (b \o c) = (a \o b) \o c
  BY ConcatAssociative
<1>2. QED BY <1>1

\* Whatever puts the parts together ends with FlattenSeq.
LEMMA FlattenIs ==
  ASSUME NEW X, NEW s \in Seq(Seq(X)), NEW f, Joins(f, s)
  PROVE  FlattenSeq(s) = f[Len(s)] /\ FlattenSeq(s) \in Seq(X)
<1> DEFINE n == Len(s)
<1>1. PICK g : g \in [0..n -> Seq(X)] /\ Joins(g, s) /\ FlattenSeq(s) = g[n]
  BY FlattenStepwise
<1>2. n \in Nat
  OBVIOUS
<1>3. f[0] = <<>> /\ \A i \in 1..n : f[i] = f[i-1] \o s[i]
  BY DEF Joins
<1>4. g[0] = <<>> /\ \A i \in 1..n : g[i] = g[i-1] \o s[i]
  BY <1>1 DEF Joins
<1> HIDE DEF n
<1> DEFINE D == {i \in 0..n : f[i] = g[i]}
<1>5. 0 \in D
  BY <1>2, <1>3, <1>4
<1>6. ASSUME NEW i \in 1..n, i - 1 \in D PROVE i \in D
  <2>1. i \in 0..n /\ f[i-1] = g[i-1]
    BY <1>2, <1>6
  <2>2. f[i] = f[i-1] \o s[i]
    BY <1>3, Zenon
  <2>3. g[i] = g[i-1] \o s[i]
    BY <1>4, Zenon
  <2>4. QED BY <2>1, <2>2, <2>3
<1> HIDE DEF D
<1>7. 0..n \subseteq D
  BY <1>2, <1>5, <1>6, Induction
<1>8. n \in D
  BY <1>2, <1>7
<1>9. f[n] = g[n] /\ g[n] \in Seq(X)
  BY <1>1, <1>2, <1>8 DEF D
<1>10. QED BY <1>1, <1>9 DEF n

\* Nothing is made of nothing, and one more part goes to the end.
LEMMA FlattenOfNone == FlattenSeq(<<>>) = <<>>
  BY DEF FlattenSeq

\* One more part goes to the end.
LEMMA FlattenOfAppend ==
  ASSUME NEW X, NEW s \in Seq(Seq(X)), NEW x \in Seq(X)
  PROVE  /\ FlattenSeq(s) \in Seq(X) /\ FlattenSeq(Append(s, x)) \in Seq(X)
         /\ FlattenSeq(Append(s, x)) = FlattenSeq(s) \o x
<1> DEFINE n == Len(s)
           t == Append(s, x)
<1>1. PICK f : f \in [0..n -> Seq(X)] /\ Joins(f, s) /\ FlattenSeq(s) = f[n]
  BY FlattenStepwise
<1> DEFINE g == [i \in 0..(n+1) |-> IF i = n + 1 THEN f[n] \o x ELSE f[i]]
<1>0. n \in Nat
  OBVIOUS
<1>2. n \in Nat /\ t \in Seq(Seq(X)) /\ Len(t) = n + 1 /\ t[n+1] = x /\ \A i \in 1..n : t[i] = s[i]
  OBVIOUS
<1>3. f[0] = <<>> /\ \A i \in 1..n : f[i] = f[i-1] \o s[i]
  BY <1>1 DEF Joins
<1> HIDE DEF n, t
<1>4. g[n+1] = f[n] \o x /\ \A i \in 0..n : g[i] = f[i]
  BY <1>2
<1> HIDE DEF g
<1>5. Joins(g, t)
  <2>1. g[0] = <<>>
    BY <1>2, <1>3, <1>4
  <2>2. ASSUME NEW i \in 1..(n+1) PROVE g[i] = g[i-1] \o t[i]
    <3>1. CASE i = n + 1
      <4>1. i - 1 = n /\ n \in 0..n
        BY <1>0, <3>1
      <4>2. QED BY <1>2, <1>4, <3>1, <4>1
    <3>2. CASE i # n + 1
      <4>1. i \in 1..n /\ i \in 0..n /\ i - 1 \in 0..n
        BY <1>0, <3>2
      <4>2. QED BY <1>2, <1>3, <1>4, <4>1
    <3>3. QED BY <3>1, <3>2
  <2>3. QED BY <1>2, <2>1, <2>2 DEF Joins
<1>6. FlattenSeq(t) = g[n+1] /\ FlattenSeq(t) \in Seq(X)
  BY <1>2, <1>5, FlattenIs
<1>7. f[n] \in Seq(X)
  BY <1>1, <1>2
<1>8. QED BY <1>1, <1>4, <1>6, <1>7 DEF t

\* An order of the places in which no two are level, and the places in that order.
Orders(R, n) ==
  /\ \A i \in 1..n : <<i, i>> \notin R
  /\ \A i, j, k \in 1..n : <<i, j>> \in R /\ <<j, k>> \in R => <<i, k>> \in R
  /\ \A i, j \in 1..n : i = j \/ <<i, j>> \in R \/ <<j, i>> \in R
OrderedBy(p, n, R) ==
  /\ p \in [1..n -> 1..n]
  /\ \A i, j \in 1..n : i < j <=> <<p[i], p[j]>> \in R
  /\ \A i \in 1..n : \E k \in 1..n : p[k] = i
RankedBy(t, s, p) == Len(t) = Len(s) /\ \A k \in 1..Len(s) : t[k] = s[p[k]]

\* A sequence is ranked as its places are ordered.
LEMMA RankedIs ==
  ASSUME NEW X, NEW s \in Seq(X), NEW R, Orders(R, Len(s))
  PROVE  \E p : OrderedBy(p, Len(s), R) /\ RankedBy(Ranked(s, R), s, p) /\ Ranked(s, R) \in Seq(X)
<1> DEFINE n == Len(s)
           below(i) == {j \in 1..n : <<j, i>> \in R}
           rank(i) == Cardinality(below(i))
<1>1. n \in Nat /\ DOMAIN s = 1..n
  OBVIOUS
<1>2. /\ \A i \in 1..n : <<i, i>> \notin R
      /\ \A i, j, k \in 1..n : <<i, j>> \in R /\ <<j, k>> \in R => <<i, k>> \in R
      /\ \A i, j \in 1..n : i = j \/ <<i, j>> \in R \/ <<j, i>> \in R
  BY DEF Orders
<1>3. ASSUME NEW i \in 1..n
      PROVE  /\ IsFiniteSet(below(i)) /\ rank(i) \in Nat
             /\ Cardinality(below(i) \cup {i}) = rank(i) + 1 /\ i \notin below(i)
  <2>1. below(i) \in SUBSET (1..n) /\ i \notin below(i)
    BY <1>2
  <2> HIDE DEF below
  <2>2. IsFiniteSet(below(i)) /\ rank(i) \in Nat
    BY <1>1, <2>1, PlacesAreFinite
  <2>3. QED BY <2>1, <2>2, FS_AddElement
<1>4. ASSUME NEW i \in 1..n, NEW S, S \in SUBSET (1..n), below(i) \cup {i} \subseteq S
      PROVE  rank(i) < Cardinality(S)
  <2> HIDE DEF below
  <2>1. IsFiniteSet(S) /\ Cardinality(S) \in Nat
    BY <1>1, <1>4, PlacesAreFinite
  <2> DEFINE b == below(i) \cup {i}
  <2>2. b \in SUBSET S /\ Cardinality(b) = rank(i) + 1 /\ rank(i) \in Nat
    BY <1>3, <1>4
  <2> HIDE DEF b, rank
  <2>3. Cardinality(b) <= Cardinality(S)
    BY <2>1, <2>2, FS_Subset
  <2>4. QED BY <2>1, <2>2, <2>3
<1>5. ASSUME NEW i \in 1..n, NEW k \in 1..n, <<i, k>> \in R PROVE rank(i) < rank(k)
  <2>1. below(i) \cup {i} \subseteq below(k) /\ below(k) \in SUBSET (1..n)
    BY <1>2, <1>5
  <2> HIDE DEF below
  <2>2. QED BY <1>4, <2>1
<1>6. ASSUME NEW i \in 1..n PROVE rank(i) < n
  <2>1. below(i) \cup {i} \subseteq 1..n
    OBVIOUS
  <2>2. Cardinality(1..n) = n
    BY <1>1, PlacesAreFinite
  <2> HIDE DEF below
  <2> DEFINE S == 1..n
  <2>3. S \in SUBSET (1..n) /\ below(i) \cup {i} \subseteq S /\ Cardinality(S) = n
    BY <2>1, <2>2
  <2> HIDE DEF S, rank
  <2>4. rank(i) < Cardinality(S)
    BY <1>4, <2>3
  <2>5. QED BY <2>3, <2>4
<1> HIDE DEF below
<1>7. \A i, k \in 1..n : rank(i) = rank(k) => i = k
  <2>1. ASSUME NEW i \in 1..n, NEW k \in 1..n, rank(i) = rank(k), i # k PROVE FALSE
    <3>1. rank(i) \in Nat /\ rank(k) \in Nat
      BY <1>3
    <3>2. <<i, k>> \in R \/ <<k, i>> \in R
      BY <1>2, <2>1
    <3>3. rank(i) < rank(k) \/ rank(k) < rank(i)
      BY <1>5, <3>2
    <3> HIDE DEF rank
    <3>4. QED BY <2>1, <3>1, <3>3
  <2>2. QED BY <2>1
<1>8. ASSUME NEW k \in 1..n PROVE \E i \in 1..n : rank(i) = k - 1
  <2> DEFINE r == [i \in 1..n |-> rank(i) + 1]
             S == 1..n
  <2>1. \A i \in 1..n : rank(i) \in Nat /\ rank(i) < n
    BY <1>3, <1>6
  <2> HIDE DEF rank
  <2>2. \A i \in 1..n : rank(i) + 1 \in 1..n
    BY <1>1, <2>1
  <2>3. r \in [S -> S] /\ \A i, j \in S : r[i] = r[j] => i = j
    <3>1. \A i, j \in 1..n : rank(i) + 1 = rank(j) + 1 => rank(i) = rank(j)
      BY <2>1
    <3>2. QED BY <1>7, <2>2, <3>1
  <2>4. IsFiniteSet(S)
    BY <1>1, PlacesAreFinite
  <2> HIDE DEF r, S
  <2>5. r \in Injection(S, S)
    BY <2>3 DEF Injection, IsInjective, Restrict
  <2>6. r \in Surjection(S, S)
    BY <2>4, <2>5, FS_Injection
  <2>7. \E i \in S : r[i] = k
    BY <2>6 DEF Surjection, S
  <2>8. \E i \in 1..n : rank(i) + 1 = k
    BY <2>7 DEF S, r
  <2>9. QED BY <2>1, <2>8
<1> DEFINE at(k) == CHOOSE i \in 1..n : rank(i) = k - 1
           p == [k \in 1..n |-> at(k)]
           t == Ranked(s, R)
<1>9. ASSUME NEW k \in 1..n PROVE at(k) \in 1..n /\ rank(at(k)) = k - 1
  BY <1>8
<1>10. t = [k \in 1..n |-> s[at(k)]]
  BY <1>1 DEF Ranked, below
<1> HIDE DEF at, rank, t
<1>11. p \in [1..n -> 1..n] /\ \A k \in 1..n : p[k] = at(k) /\ rank(p[k]) = k - 1
  BY <1>9
<1> HIDE DEF p
<1>12. ASSUME NEW i \in 1..n, NEW j \in 1..n PROVE i < j <=> <<p[i], p[j]>> \in R
  <2>1. p[i] \in 1..n /\ p[j] \in 1..n /\ rank(p[i]) = i - 1 /\ rank(p[j]) = j - 1
    BY <1>11
  <2>2. ASSUME i < j PROVE <<p[i], p[j]>> \in R
    <3>1. p[i] # p[j] /\ ~(rank(p[j]) < rank(p[i]))
      BY <2>1, <2>2
    <3>2. QED BY <1>2, <1>5, <2>1, <3>1
  <2>3. ASSUME <<p[i], p[j]>> \in R PROVE i < j
    <3>1. rank(p[i]) < rank(p[j])
      BY <1>5, <2>1, <2>3
    <3>2. QED BY <2>1, <3>1
  <2>4. QED BY <2>2, <2>3
<1>13. ASSUME NEW i \in 1..n PROVE \E k \in 1..n : p[k] = i
  <2> DEFINE k == rank(i) + 1
  <2>1. rank(i) \in Nat /\ rank(i) < n
    BY <1>3, <1>6
  <2>2. k \in 1..n /\ k - 1 = rank(i)
    BY <1>1, <2>1
  <2> HIDE DEF k
  <2>3. p[k] \in 1..n /\ rank(p[k]) = rank(i)
    BY <1>11, <2>2
  <2>4. p[k] = i
    BY <1>7, <2>3
  <2>5. QED BY <2>2, <2>4
<1>14. OrderedBy(p, n, R)
  BY <1>11, <1>12, <1>13 DEF OrderedBy
<1>15. \A k \in 1..n : at(k) \in 1..n /\ s[at(k)] \in X
  BY <1>1, <1>9
<1>16. t \in Seq(X) /\ Len(t) = n /\ \A k \in 1..n : t[k] = s[p[k]]
  BY <1>1, <1>10, <1>11, <1>15
<1>17. QED BY <1>14, <1>16 DEF RankedBy, n, t

\* An order of elements, in which some may be level, and the places as it sorts them.
Weak(W, X) ==
  /\ \A x, y \in X : ~(<<x, y>> \in W /\ <<y, x>> \in W)
  /\ \A x, y, z \in X : <<x, z>> \in W => <<x, y>> \in W \/ <<y, z>> \in W
By(s, W) ==
  {q \in (DOMAIN s) \X (DOMAIN s) :
     <<s[q[1]], s[q[2]]>> \in W \/ (q[1] < q[2] /\ ~(<<s[q[2]], s[q[1]]>> \in W))}

\* What a sort promises: it moves the elements, and leaves none before a lesser one.
IsSort(t, s, W, p) ==
  /\ Len(t) = Len(s) /\ p \in [1..Len(s) -> 1..Len(s)]
  /\ \A k \in 1..Len(s) : t[k] = s[p[k]]
  /\ \A i, j \in 1..Len(s) : p[i] = p[j] => i = j
  /\ \A i \in 1..Len(s) : \E k \in 1..Len(s) : p[k] = i
  /\ \A i, j \in 1..Len(s) : <<t[i], t[j]>> \in W => i < j
  /\ ToSet(t) = ToSet(s)

\* It keeps it.
LEMMA SortedIs ==
  ASSUME NEW X, NEW s \in Seq(X), NEW W, Weak(W, X)
  PROVE  Ranked(s, By(s, W)) \in Seq(X) /\ \E p : IsSort(Ranked(s, By(s, W)), s, W, p)
<1> DEFINE n == Len(s)
           R == By(s, W)
           t == Ranked(s, R)
<1>1. n \in Nat /\ DOMAIN s = 1..n /\ \A i \in 1..n : s[i] \in X
  OBVIOUS
<1>2. \A i, j \in 1..n : <<i, j>> \in R <=>
        <<s[i], s[j]>> \in W \/ (i < j /\ ~(<<s[j], s[i]>> \in W))
  BY <1>1 DEF By
<1>3. /\ \A x, y \in X : ~(<<x, y>> \in W /\ <<y, x>> \in W)
      /\ \A x, y, z \in X : <<x, z>> \in W => <<x, y>> \in W \/ <<y, z>> \in W
  BY DEF Weak
<1> HIDE DEF n, R
<1>4. ASSUME NEW i \in 1..n PROVE <<i, i>> \notin R
  <2>1. ~(i < i) /\ ~(<<s[i], s[i]>> \in W)
    BY <1>1, <1>3
  <2>2. QED BY <1>2, <2>1
<1>5. ASSUME NEW i \in 1..n, NEW j \in 1..n PROVE i = j \/ <<i, j>> \in R \/ <<j, i>> \in R
  <2>1. i < j \/ j < i \/ i = j
    OBVIOUS
  <2>2. QED BY <1>2, <2>1
<1>6. ASSUME NEW i \in 1..n, NEW j \in 1..n, NEW k \in 1..n, <<i, j>> \in R, <<j, k>> \in R
      PROVE  <<i, k>> \in R
  <2>1. i < j /\ j < k => i < k
    OBVIOUS
  <2> DEFINE w(x, y) == <<s[x], s[y]>> \in W
  <2>2. /\ w(i, j) \/ (i < j /\ ~w(j, i))
        /\ w(j, k) \/ (j < k /\ ~w(k, j))
        /\ (w(i, k) \/ (i < k /\ ~w(k, i))) => <<i, k>> \in R
    BY <1>2, <1>6
  <2>3. /\ w(i, j) => w(i, k) \/ w(k, j)
        /\ w(j, k) => w(j, i) \/ w(i, k)
        /\ w(k, i) => w(k, j) \/ w(j, i)
        /\ ~(w(i, j) /\ w(j, i)) /\ ~(w(j, k) /\ w(k, j)) /\ ~(w(i, k) /\ w(k, i))
    BY <1>1, <1>3
  <2> HIDE DEF w
  <2>4. QED BY <2>1, <2>2, <2>3
<1>7. Orders(R, n)
  BY <1>4, <1>5, <1>6 DEF Orders
<1>8. PICK p : OrderedBy(p, n, R) /\ RankedBy(t, s, p) /\ t \in Seq(X)
  BY <1>7, RankedIs DEF n
<1>9. /\ p \in [1..n -> 1..n] /\ \A i, j \in 1..n : i < j <=> <<p[i], p[j]>> \in R
      /\ \A i \in 1..n : \E k \in 1..n : p[k] = i
  BY <1>8 DEF OrderedBy
<1>10. Len(t) = n /\ \A k \in 1..n : t[k] = s[p[k]]
  BY <1>8 DEF RankedBy, n
<1> HIDE DEF t
<1>11. ASSUME NEW i \in 1..n, NEW j \in 1..n, p[i] = p[j] PROVE i = j
  <2>1. p[i] \in 1..n /\ p[j] \in 1..n
    BY <1>9
  <2>2. ~(i < j) /\ ~(j < i)
    BY <1>4, <1>9, <1>11, <2>1
  <2>3. QED BY <2>2
<1>12. ASSUME NEW i \in 1..n, NEW j \in 1..n, <<t[i], t[j]>> \in W PROVE i < j
  <2>1. p[i] \in 1..n /\ p[j] \in 1..n /\ t[i] = s[p[i]] /\ t[j] = s[p[j]]
    BY <1>9, <1>10
  <2>2. <<p[i], p[j]>> \in R
    BY <1>2, <1>12, <2>1
  <2>3. QED BY <1>9, <2>2
<1>13. ToSet(t) = ToSet(s)
  <2>1. DOMAIN t = 1..n
    BY <1>8, <1>10
  <2>2. ToSet(t) \subseteq ToSet(s)
    BY <1>1, <1>9, <1>10, <2>1 DEF ToSet
  <2>3. ASSUME NEW i \in 1..n PROVE s[i] \in ToSet(t)
    <3>1. PICK k \in 1..n : p[k] = i
      BY <1>9
    <3>2. QED BY <1>10, <2>1, <3>1 DEF ToSet
  <2>4. QED BY <1>1, <2>2, <2>3 DEF ToSet
<1>14. IsSort(t, s, W, p)
  BY <1>9, <1>10, <1>11, <1>12, <1>13 DEF IsSort, n
<1>15. QED BY <1>8, <1>14 DEF t, R

\* Elements of which no two are level, and none is there twice.
AllDiffer(s, W) ==
  \A i, j \in 1..Len(s) : i # j => s[i] # s[j] /\ (<<s[i], s[j]>> \in W \/ <<s[j], s[i]>> \in W)

\* As many elements come before the one at a place as there are places before it.
LEMMA PlaceInSort ==
  ASSUME NEW X, NEW s \in Seq(X), NEW W, Weak(W, X), AllDiffer(s, W), NEW t \in Seq(X), NEW p, IsSort(t, s, W, p),
         NEW k \in 1..Len(s)
  PROVE  Cardinality({x \in ToSet(s) : <<x, t[k]>> \in W}) = k - 1
<1> DEFINE n == Len(s)
           m == k - 1
           B == {x \in ToSet(s) : <<x, t[k]>> \in W}
           f == [i \in 1..m |-> t[i]]
<1>1. /\ n \in Nat /\ DOMAIN s = 1..n /\ DOMAIN t = 1..n /\ Len(t) = n
      /\ p \in [1..n -> 1..n] /\ (\A i \in 1..n : t[i] = s[p[i]])
      /\ (\A i, j \in 1..n : p[i] = p[j] => i = j)
      /\ (\A i, j \in 1..n : <<t[i], t[j]>> \in W => i < j)
      /\ ToSet(t) = ToSet(s)
  <2>1. n \in Nat /\ DOMAIN s = 1..n
    OBVIOUS
  <2>2. Len(t) = n /\ p \in [1..n -> 1..n] /\ (\A i \in 1..n : t[i] = s[p[i]])
        /\ (\A i, j \in 1..n : p[i] = p[j] => i = j)
    BY Zenon DEF IsSort
  <2>3. (\A i, j \in 1..n : <<t[i], t[j]>> \in W => i < j) /\ ToSet(t) = ToSet(s)
    BY Zenon DEF IsSort
  <2>4. DOMAIN t = 1..n
    BY <2>2
  <2>5. QED BY <2>1, <2>2, <2>3, <2>4, Zenon
<1>2. m \in Nat /\ k \in 1..n /\ \A i \in 1..m : i \in 1..n /\ i < k
  OBVIOUS
<1> HIDE DEF n, m
<1>3. ASSUME NEW i \in 1..n, NEW j \in 1..n, i # j
      PROVE  t[i] # t[j] /\ (<<t[i], t[j]>> \in W \/ <<t[j], t[i]>> \in W)
  <2>1. p[i] \in 1..n /\ p[j] \in 1..n /\ p[i] # p[j] /\ t[i] = s[p[i]] /\ t[j] = s[p[j]]
    BY <1>1, <1>3
  <2>2. QED BY <2>1 DEF AllDiffer, n
<1>4. \A i \in 1..m : t[i] \in B
  <2>1. ASSUME NEW i \in 1..m PROVE t[i] \in B
    <3>1. i \in 1..n /\ i < k /\ i # k /\ ~(k < i)
      BY <1>2
    <3>2. <<t[i], t[k]>> \in W
      BY <1>1, <1>2, <1>3, <3>1
    <3>3. t[i] \in ToSet(s)
      BY <1>1, <3>1 DEF ToSet
    <3>4. QED BY <3>2, <3>3
  <2>2. QED BY <2>1
<1>5. \A x \in B : \E i \in 1..m : t[i] = x
  <2>1. ASSUME NEW x \in B PROVE \E i \in 1..m : t[i] = x
    <3>1. PICK i \in 1..n : t[i] = x
      <4>1. x \in ToSet(t)
        BY <1>1
      <4>2. QED BY <1>1, <4>1 DEF ToSet
    <3>2. i < k
      BY <1>1, <1>2, <3>1
    <3>3. i \in 1..m
      BY <3>2 DEF m
    <3>4. QED BY <3>1, <3>3
  <2>2. QED BY <2>1
<1> HIDE DEF B
<1>6. f \in [1..m -> B] /\ (\A i, j \in 1..m : f[i] = f[j] => i = j) /\ \A x \in B : \E i \in 1..m : f[i] = x
  BY <1>2, <1>3, <1>4, <1>5
<1> HIDE DEF f
<1>7. f \in Bijection(1..m, B)
  BY <1>6 DEF Bijection, Injection, Surjection, IsInjective, Restrict
<1>8. IsFiniteSet(1..m) /\ Cardinality(1..m) = m
  BY <1>2, PlacesAreFinite
<1> DEFINE I == 1..m
<1>9. IsFiniteSet(I) /\ ExistsBijection(I, B) /\ Cardinality(I) = m
  BY <1>7, <1>8 DEF ExistsBijection
<1> HIDE DEF I
<1>10. Cardinality(B) = m
  BY <1>9, FS_Bijection
<1>11. QED BY <1>10 DEF B, m

\* Two sequences of the same elements, no two of which are level, sort to the same.
LEMMA SortsAlike ==
  ASSUME NEW X, NEW W, Weak(W, X), NEW s \in Seq(X), NEW r \in Seq(X), ToSet(s) = ToSet(r),
         AllDiffer(s, W), AllDiffer(r, W)
  PROVE  Ranked(s, By(s, W)) = Ranked(r, By(r, W))
<1> DEFINE t == Ranked(s, By(s, W))
           u == Ranked(r, By(r, W))
           b(x) == Cardinality({y \in ToSet(s) : <<y, x>> \in W})
<1>1. t \in Seq(X) /\ u \in Seq(X)
  BY SortedIs
<1>2. PICK p : IsSort(t, s, W, p)
  BY SortedIs
<1>3. PICK q : IsSort(u, r, W, q)
  BY SortedIs
<1> HIDE DEF t, u
<1>4. /\ Len(t) = Len(s) /\ Len(u) = Len(r) /\ ToSet(t) = ToSet(u)
      /\ DOMAIN t = 1..Len(s) /\ DOMAIN u = 1..Len(r) /\ Len(s) \in Nat /\ Len(r) \in Nat
  BY <1>1, <1>2, <1>3 DEF IsSort
<1>5. \A k \in 1..Len(s) : b(t[k]) = k - 1
  BY <1>1, <1>2, PlaceInSort
<1>6. \A k \in 1..Len(r) : b(u[k]) = k - 1
  <2>1. \A k \in 1..Len(r) : Cardinality({y \in ToSet(r) : <<y, u[k]>> \in W}) = k - 1
    BY <1>1, <1>3, PlaceInSort
  <2>2. QED BY <2>1
<1> HIDE DEF b
<1>7. ASSUME NEW k \in 1..Len(s) PROVE k \in 1..Len(r) /\ t[k] = u[k]
  <2>1. PICK j \in 1..Len(r) : t[k] = u[j]
    BY <1>4 DEF ToSet
  <2>2. k - 1 = j - 1
    BY <1>5, <1>6, <2>1
  <2>3. k = j
    BY <2>2
  <2>4. QED BY <2>1, <2>3
<1>8. ASSUME NEW k \in 1..Len(r) PROVE k \in 1..Len(s)
  <2>1. PICK j \in 1..Len(s) : u[k] = t[j]
    BY <1>4 DEF ToSet
  <2>2. k - 1 = j - 1
    BY <1>5, <1>6, <2>1
  <2>3. k = j
    BY <2>2
  <2>4. QED BY <2>1, <2>3
<1>9. Len(s) = Len(r)
  <2>1. ~(Len(s) < Len(r))
    <3>1. ASSUME Len(s) < Len(r) PROVE FALSE
      <4>1. Len(r) \in 1..Len(r) /\ Len(r) \notin 1..Len(s)
        BY <1>4, <3>1
      <4>2. QED BY <1>8, <4>1
    <3>2. QED BY <3>1
  <2>2. ~(Len(r) < Len(s))
    <3>1. ASSUME Len(r) < Len(s) PROVE FALSE
      <4>1. Len(s) \in 1..Len(s) /\ Len(s) \notin 1..Len(r)
        BY <1>4, <3>1
      <4>2. QED BY <1>7, <4>1
    <3>2. QED BY <3>1
  <2>3. Len(s) \in Nat /\ Len(r) \in Nat
    BY <1>4
  <2>4. \A i, j \in Nat : ~(i < j) /\ ~(j < i) => i = j
    OBVIOUS
  <2>5. QED BY <2>1, <2>2, <2>3, <2>4, Zenon
<1>10. t = u
  BY <1>1, <1>4, <1>7, <1>9, SeqEqual
<1>11. QED BY <1>10 DEF t, u

\* One more element that is kept.
LEMMA KeepsOne ==
  ASSUME NEW X, NEW S, NEW s \in Seq(X), NEW x \in X, x \in S
  PROVE  Kept(Append(s, x), S) = Append(Kept(s, S), x)
  BY KeptOfAppend

\* One more element that is not.
LEMMA DropsOne ==
  ASSUME NEW X, NEW S, NEW s \in Seq(X), NEW x \in X, x \notin S
  PROVE  Kept(Append(s, x), S) = Kept(s, S)
<1>1. \A t \in Seq(X), y \in X :
        Kept(Append(t, y), S) = IF y \in S THEN Append(Kept(t, S), y) ELSE Kept(t, S)
  BY KeptOfAppend
<1>2. QED BY <1>1, Zenon

\* A sequence that has the elements of one and then of the other is the two joined.
LEMMA JoinedIs ==
  ASSUME NEW X, NEW p \in Seq(X), NEW q \in Seq(X), NEW r \in Seq(X), Len(r) = Len(p) + Len(q),
         \A i \in 1..Len(p) : r[i] = p[i], \A i \in 1..Len(q) : r[Len(p) + i] = q[i]
  PROVE  p \o q = r
<1>1. p \o q \in Seq(X) /\ Len(p \o q) = Len(r)
  OBVIOUS
<1>2. ASSUME NEW i \in 1..Len(r) PROVE (p \o q)[i] = r[i]
  <2>1. CASE i <= Len(p)
    BY <2>1
  <2>2. CASE i > Len(p)
    <3>1. i - Len(p) \in 1..Len(q) /\ Len(p) + (i - Len(p)) = i
      BY <2>2
    <3>2. r[i] = q[i - Len(p)]
      BY <3>1
    <3>3. (p \o q)[i] = q[i - Len(p)]
      BY <2>2
    <3>4. QED BY <3>2, <3>3
  <2>3. QED BY <2>1, <2>2
<1>3. QED BY <1>1, <1>2, SeqEqual

\* A part of a sequence is the sequence of its elements.
LEMMA PartIs ==
  ASSUME NEW X, NEW t \in Seq(X), NEW r \in Seq(X), NEW lo \in 1..Len(t), NEW hi \in lo..Len(t),
         Len(r) = hi - lo + 1, \A i \in 1..Len(r) : r[i] = t[lo + i - 1]
  PROVE  SubSeq(t, lo, hi) = r
<1> DEFINE u == SubSeq(t, lo, hi)
<1>1. u \in Seq(X) /\ Len(u) = Len(r) /\ \A i \in 1..Len(r) : u[i] = t[lo + i - 1]
  OBVIOUS
<1> HIDE DEF u
<1>2. u = r
  BY <1>1, SeqEqual
<1>3. QED BY <1>2 DEF u

\* The least of some places.
LEMMA LeastIs ==
  ASSUME NEW S \in SUBSET Nat, S # {}
  PROVE  Min(S) \in S /\ \A k \in S : Min(S) <= k
<1>1. \E m \in S : \A k \in S : m <= k
  BY LeastNumber
<1>2. QED BY <1>1 DEF Min

\* What two joined sequences hold.
LEMMA JoinHolds ==
  ASSUME NEW X, NEW s \in Seq(X), NEW t \in Seq(X)
  PROVE  /\ s \o t \in Seq(X) /\ Len(s \o t) = Len(s) + Len(t)
         /\ ToSet(s \o t) = ToSet(s) \cup ToSet(t)
         /\ \A i \in 1..Len(s \o t) : (s \o t)[i] = IF i <= Len(s) THEN s[i] ELSE t[i - Len(s)]
<1> DEFINE u == s \o t
<1>1. /\ u \in Seq(X) /\ Len(u) = Len(s) + Len(t)
      /\ DOMAIN u = 1..Len(u) /\ DOMAIN s = 1..Len(s) /\ DOMAIN t = 1..Len(t)
      /\ Len(s) \in Nat /\ Len(t) \in Nat
  OBVIOUS
<1>2. \A i \in 1..Len(u) : u[i] = IF i <= Len(s) THEN s[i] ELSE t[i - Len(s)]
  OBVIOUS
<1> HIDE DEF u
<1>3. ASSUME NEW i \in 1..Len(u) PROVE u[i] \in ToSet(s) \cup ToSet(t)
  <2>1. CASE i <= Len(s)
    <3>1. i \in 1..Len(s) /\ u[i] = s[i]
      BY <1>2, <2>1
    <3>2. QED BY <1>1, <3>1 DEF ToSet
  <2>2. CASE i > Len(s)
    <3>1. i - Len(s) \in 1..Len(t) /\ u[i] = t[i - Len(s)]
      BY <1>1, <1>2, <2>2
    <3>2. QED BY <1>1, <3>1 DEF ToSet
  <2>3. QED BY <1>1, <2>1, <2>2
<1>4. ASSUME NEW i \in 1..Len(s) PROVE s[i] \in ToSet(u)
  <2>1. i \in 1..Len(u) /\ u[i] = s[i]
    BY <1>1, <1>2
  <2>2. QED BY <1>1, <2>1 DEF ToSet
<1>5. ASSUME NEW i \in 1..Len(t) PROVE t[i] \in ToSet(u)
  <2> DEFINE k == Len(s) + i
  <2>1. k \in 1..Len(u) /\ ~(k <= Len(s)) /\ k - Len(s) = i
    BY <1>1
  <2> HIDE DEF k
  <2>2. u[k] = t[i]
    BY <1>2, <2>1
  <2>3. QED BY <1>1, <2>1, <2>2 DEF ToSet
<1>6. ToSet(u) = ToSet(s) \cup ToSet(t)
  <2>1. ToSet(u) \subseteq ToSet(s) \cup ToSet(t)
    BY <1>1, <1>3 DEF ToSet
  <2>2. ToSet(s) \subseteq ToSet(u)
    BY <1>1, <1>4 DEF ToSet
  <2>3. ToSet(t) \subseteq ToSet(u)
    BY <1>1, <1>5 DEF ToSet
  <2>4. QED BY <2>1, <2>2, <2>3
<1>7. QED BY <1>1, <1>2, <1>6 DEF u

\* Of three or four elements with a sign between them, the elements.
LEMMA ThreeOfFive ==
  ASSUME NEW T, NEW z, NEW a, NEW b, NEW c, z \notin T, a \in T, b \in T, c \in T
  PROVE  Kept(<<a, z, b, z, c>>, T) = <<a, b, c>>
<1> DEFINE X == T \cup {z}
           r0 == <<>>
           r1 == <<a>>
           r2 == <<a, z>>
           r3 == <<a, z, b>>
           r4 == <<a, z, b, z>>
           r5 == <<a, z, b, z, c>>
           k0 == <<>>
           k1 == <<a>>
           k2 == <<a, b>>
           k3 == <<a, b, c>>
<1>1. r1 = Append(r0, a) /\ r0 \in Seq(X) /\ a \in X /\ k1 = Append(k0, a)
  OBVIOUS
<1>2. r2 = Append(r1, z) /\ r1 \in Seq(X) /\ z \in X
  OBVIOUS
<1>3. r3 = Append(r2, b) /\ r2 \in Seq(X) /\ b \in X /\ k2 = Append(k1, b)
  OBVIOUS
<1>4. r4 = Append(r3, z) /\ r3 \in Seq(X) /\ z \in X
  OBVIOUS
<1>5. r5 = Append(r4, c) /\ r4 \in Seq(X) /\ c \in X /\ k3 = Append(k2, c)
  OBVIOUS
<1>6. Kept(r0, T) = k0
  BY KeptOfAppend
<1> HIDE DEF X, r0, r1, r2, r3, r4, r5, k0, k1, k2, k3
<1>7. Kept(r1, T) = k1
  BY <1>1, <1>6, KeepsOne
<1>8. Kept(r2, T) = k1
  BY <1>2, <1>7, DropsOne
<1>9. Kept(r3, T) = k2
  BY <1>3, <1>8, KeepsOne
<1>10. Kept(r4, T) = k2
  BY <1>4, <1>9, DropsOne
<1>11. Kept(r5, T) = k3
  BY <1>5, <1>10, KeepsOne
<1>12. QED BY <1>11 DEF r5, k3

\* The same of four.
LEMMA FourOfSeven ==
  ASSUME NEW T, NEW z, NEW a, NEW b, NEW c, NEW d, z \notin T, a \in T, b \in T, c \in T, d \in T
  PROVE  Kept(<<a, z, b, z, c, z, d>>, T) = <<a, b, c, d>>
<1> DEFINE X == T \cup {z}
           r5 == <<a, z, b, z, c>>
           r6 == <<a, z, b, z, c, z>>
           r7 == <<a, z, b, z, c, z, d>>
           k3 == <<a, b, c>>
           k4 == <<a, b, c, d>>
<1>1. Kept(r5, T) = k3
  BY ThreeOfFive
<1>2. r6 = Append(r5, z) /\ r5 \in Seq(X) /\ z \in X
  OBVIOUS
<1>3. r7 = Append(r6, d) /\ r6 \in Seq(X) /\ d \in X /\ k4 = Append(k3, d)
  OBVIOUS
<1> HIDE DEF X, r5, r6, r7, k3, k4
<1>4. Kept(r6, T) = k3
  BY <1>1, <1>2, DropsOne
<1>5. Kept(r7, T) = k4
  BY <1>3, <1>4, KeepsOne
<1>6. QED BY <1>5 DEF r7, k4
-----------------------------------------------------------------------------
\* What follows is about lists of the kinds that DecisionsProofs is about.

\* A context of cards, one of a host's.
AnyCard(Pci, Vendor) == [pci : Pci, vendor : Vendor, mem : Nat]

\* Only a question too large by itself makes a prompt too large, and no two prompts
\* could have been one.
WellPacked(q, u) ==
  /\ \A k \in 1..Len(q) : Total(q[k]) > u => Len(q[k]) = 1
  /\ \A k \in 1..Len(q) - 1 : Total(q[k]) + q[k + 1][1] > u

\* The total of numbers is a number.
LEMMA TotalIsNat ==
  ASSUME NEW s \in Seq(Nat)
  PROVE  Total(s) \in Nat
<1> DEFINE n == Len(s)
<1>1. n \in Nat
  OBVIOUS
<1>2. PICK f : f \in [0..n -> Nat] /\ Total(s) = f[n]
  BY TotalStepwise
<1> HIDE DEF n
<1>3. QED BY <1>1, <1>2

\* The total of one number.
LEMMA TotalOfOne ==
  ASSUME NEW x \in Nat
  PROVE  Total(<<x>>) = x
<1> DEFINE s == <<>>
<1>1. s \in Seq(Nat) /\ <<x>> = Append(s, x)
  OBVIOUS
<1>2. Total(s) = 0
  BY TotalOfNone
<1> HIDE DEF s
<1>3. Total(Append(s, x)) = Total(s) + x
  BY <1>1, TotalOfAppend
<1>4. Total(Append(s, x)) = x
  BY <1>2, <1>3
<1>5. QED BY <1>1, <1>4, Zenon

\* A prompt that is full is closed.
LEMMA PackedCloses ==
  ASSUME NEW q \in Seq(Seq(Nat)), NEW x \in Nat, NEW u \in Nat, WellPacked(q, u),
         Len(q) >= 1, Total(q[Len(q)]) + x > u
  PROVE  WellPacked(Append(q, <<x>>), u)
<1> DEFINE n == Len(q)
           r == Append(q, <<x>>)
           one == <<x>>
<1>0. n \in Nat /\ n >= 1
  OBVIOUS
<1>1. one \in Seq(Nat) /\ Len(one) = 1 /\ one[1] = x
  OBVIOUS
<1>2. r \in Seq(Seq(Nat)) /\ Len(r) = n + 1 /\ r[n+1] = one /\ \A k \in 1..n : r[k] = q[k]
  <2> HIDE DEF one
  <2>1. Append(q, one) \in Seq(Seq(Nat)) /\ Len(Append(q, one)) = n + 1 /\ Append(q, one)[n+1] = one
        /\ \A k \in 1..n : Append(q, one)[k] = q[k]
    BY <1>1
  <2>2. QED BY <2>1 DEF one
<1>3. /\ \A k \in 1..n : Total(q[k]) > u => Len(q[k]) = 1
      /\ \A k \in 1..n-1 : Total(q[k]) + q[k + 1][1] > u
      /\ Total(q[n]) + x > u
  BY DEF WellPacked
<1> HIDE DEF n, r, one
<1>4. \A k \in 1..(n+1) : Total(r[k]) > u => Len(r[k]) = 1
  <2>1. ASSUME NEW k \in 1..(n+1), Total(r[k]) > u PROVE Len(r[k]) = 1
    <3>1. k \in 1..n \/ k = n + 1
      BY <1>0
    <3>2. QED BY <1>1, <1>2, <1>3, <2>1, <3>1
  <2>2. QED BY <2>1
<1>5. \A k \in 1..(n+1)-1 : Total(r[k]) + r[k + 1][1] > u
  <2>1. ASSUME NEW k \in 1..(n+1)-1 PROVE Total(r[k]) + r[k + 1][1] > u
    <3>1. k \in 1..n /\ (k \in 1..n-1 \/ k = n) /\ (k + 1 \in 1..n \/ k = n)
      BY <1>0
    <3>2. QED BY <1>1, <1>2, <1>3, <3>1
  <2>2. QED BY <2>1
<1>6. QED BY <1>2, <1>4, <1>5 DEF WellPacked, r, one

\* A question goes into the prompt that has room for it, or into one that is empty.
LEMMA PackedGrows ==
  ASSUME NEW p \in Seq(Seq(Nat)), NEW w \in Seq(Nat), NEW x \in Nat, NEW u \in Nat,
         WellPacked(Append(p, w), u), IF w = <<>> THEN p = <<>> ELSE Total(w) + x <= u
  PROVE  WellPacked(Append(p, Append(w, x)), u)
<1> DEFINE n == Len(p)
           v == Append(w, x)
           q == Append(p, w)
           r == Append(p, v)
<1>0. n \in Nat /\ (p = <<>> => n = 0)
  OBVIOUS
<1>1. v \in Seq(Nat) /\ Total(v) = Total(w) + x /\ Total(w) \in Nat /\ Len(v) = Len(w) + 1
      /\ (w # <<>> => v[1] = w[1]) /\ (w = <<>> => Len(w) = 0 /\ Total(w) = 0)
  <2>1. Total(v) = Total(w) + x /\ Total(w) \in Nat
    BY TotalOfAppend, TotalIsNat
  <2>2. w # <<>> => Len(w) >= 1
    BY EmptySeq
  <2>3. w # <<>> => v[1] = w[1]
    BY <2>2
  <2>4. w = <<>> => Total(w) = 0
    BY TotalOfNone
  <2>5. QED BY <2>1, <2>3, <2>4
<1>2. Len(q) = n + 1 /\ q[n+1] = w /\ \A k \in 1..n : q[k] = p[k]
  OBVIOUS
<1> HIDE DEF v
<1>3. Len(r) = n + 1 /\ r[n+1] = v /\ \A k \in 1..n : r[k] = p[k]
  BY <1>1
<1>4. /\ \A k \in 1..(n+1) : Total(q[k]) > u => Len(q[k]) = 1
      /\ \A k \in 1..(n+1)-1 : Total(q[k]) + q[k + 1][1] > u
  <2> HIDE DEF q
  <2>1. WellPacked(q, u)
    BY DEF q
  <2>2. QED BY <1>2, <2>1 DEF WellPacked
<1> HIDE DEF n, q, r
<1>5. \A k \in 1..(n+1) : Total(r[k]) > u => Len(r[k]) = 1
  <2>1. ASSUME NEW k \in 1..(n+1), Total(r[k]) > u PROVE Len(r[k]) = 1
    <3>1. CASE k \in 1..n
      <4>1. k \in 1..(n+1) /\ q[k] = r[k]
        BY <1>0, <1>2, <1>3, <3>1
      <4>2. QED BY <1>4, <2>1, <4>1
    <3>2. CASE k = n + 1
      <4>1. r[k] = v
        BY <1>3, <3>2
      <4>2. Total(w) + x > u
        BY <1>1, <2>1, <4>1
      <4>3. w = <<>>
        BY <1>1, <4>2
      <4>4. QED BY <1>1, <4>1, <4>3
    <3>3. k \in 1..n \/ k = n + 1
      BY <1>0
    <3>4. QED BY <3>1, <3>2, <3>3
  <2>2. QED BY <2>1
<1>6. \A k \in 1..(n+1)-1 : Total(r[k]) + r[k + 1][1] > u
  <2>1. ASSUME NEW k \in 1..(n+1)-1 PROVE Total(r[k]) + r[k + 1][1] > u
    <3>1. k \in 1..n /\ (k + 1 \in 1..n \/ k = n) /\ n # 0
      BY <1>0
    <3>2. w # <<>>
      BY <1>0, <3>1
    <3>3. r[k] = q[k] /\ Total(q[k]) + q[k + 1][1] > u
      BY <1>2, <1>3, <1>4, <3>1
    <3>4. r[k + 1][1] = q[k + 1][1]
      BY <1>1, <1>2, <1>3, <3>1, <3>2
    <3>5. QED BY <3>3, <3>4
  <2>2. QED BY <2>1
<1>7. QED BY <1>3, <1>5, <1>6 DEF WellPacked, r, v

LEMMA NatsJoin == \A a, b, c \in Seq(Nat) : a \o (b \o c) = (a \o b) \o c
<1> DEFINE N == Nat
<1> HIDE DEF N
<1>1. \A a, b, c \in Seq(N) : a \o (b \o c) = (a \o b) \o c
  BY JoinsJoin
<1>2. QED BY <1>1 DEF N

\* history: logs of any number of writes, asked for any number of them.
Writes == {"whole", "cut", "no end"}
Written == [n : Nat, cut : BOOLEAN]
LogState == [lines : Seq(Seq(Written)), open : Seq(Written)]
LogStep(w, s, i) ==
  LET line == Append(s.open, [n |-> i, cut |-> w[i] = "cut"])
  IN IF w[i] = "whole" THEN [lines |-> Append(s.lines, line), open |-> <<>>]
     ELSE [s EXCEPT !.open = line]

\* A line begins with the write it says, and the lines are in the order of the writes.
Tells(w, l, i) == Len(l) >= 1 /\ l[1].n \in 1..i /\ (l[1].cut <=> w[l[1].n] = "cut")
Ordered(q) == \A k, m \in 1..Len(q) : k < m => q[k][1].n < q[m][1].n
Alone(w, m) == w[m] = "whole" /\ (m > 1 => w[m - 1] = "whole")
LoggedUpTo(w, s, i) ==
  /\ \A k \in 1..Len(s.lines) : Tells(w, s.lines[k], i)
  /\ Ordered(s.lines)
  /\ s.open # <<>> => Tells(w, s.open, i) /\ \A k \in 1..Len(s.lines) : s.lines[k][1].n < s.open[1].n
  /\ (i >= 1 => w[i] = "whole") => s.open = <<>>
  /\ \A m \in 1..i : Alone(w, m) =>
       \E k \in 1..Len(s.lines) : Len(s.lines[k]) = 1 /\ s.lines[k][1].n = m

\* One more line, of a later write than those before.
LEMMA LinesGrow ==
  ASSUME NEW q \in Seq(Seq(Written)), NEW l \in Seq(Written), Ordered(q),
         \A k \in 1..Len(q) : q[k][1].n < l[1].n
  PROVE  /\ Append(q, l) \in Seq(Seq(Written)) /\ Len(Append(q, l)) = Len(q) + 1
         /\ Append(q, l)[Len(q) + 1] = l /\ \A k \in 1..Len(q) : Append(q, l)[k] = q[k]
         /\ Ordered(Append(q, l))
<1> DEFINE r == Append(q, l)
           n == Len(q)
<1>0. n \in Nat
  OBVIOUS
<1>1. r \in Seq(Seq(Written)) /\ Len(r) = n + 1 /\ r[n + 1] = l /\ \A k \in 1..n : r[k] = q[k]
  OBVIOUS
<1> HIDE DEF r
<1>2. \A k, m \in 1..n : k < m => q[k][1].n < q[m][1].n
  BY DEF Ordered
<1> HIDE DEF n
<1>3. ASSUME NEW k \in 1..(n+1), NEW m \in 1..(n+1), k < m PROVE r[k][1].n < r[m][1].n
  <2>1. k \in 1..n /\ (m \in 1..n \/ m = n + 1)
    BY <1>0, <1>3
  <2>2. r[k] = q[k]
    BY <1>1, <2>1
  <2>3. CASE m \in 1..n
    BY <1>1, <1>2, <1>3, <2>1, <2>2, <2>3
  <2>4. CASE m = n + 1
    BY <1>1, <2>1, <2>2, <2>4 DEF n
  <2>5. QED BY <2>1, <2>3, <2>4
<1>4. Ordered(r)
  BY <1>1, <1>3 DEF Ordered
<1>5. QED BY <1>1, <1>4 DEF n, r

\* One more write.
LEMMA LogStepLogs ==
  ASSUME NEW w \in Seq(Writes), NEW i \in 1..Len(w), NEW s \in LogState, LoggedUpTo(w, s, i - 1)
  PROVE  LoggedUpTo(w, LogStep(w, s, i), i)
<1> DEFINE x == [n |-> i, cut |-> w[i] = "cut"]
           p == s.lines
           q == s.open
           l == Append(q, x)
           t == LogStep(w, s, i)
<1>1. p \in Seq(Seq(Written)) /\ q \in Seq(Written) /\ x \in Written /\ x.n = i /\ (x.cut <=> w[i] = "cut")
  <2>1. p \in Seq(Seq(Written)) /\ q \in Seq(Written) /\ x \in Written /\ x.n = i /\ x.cut = (w[i] = "cut")
    BY DEF LogState, Written
  <2> HIDE DEF p, q, x
  <2>2. x.cut <=> w[i] = "cut"
    BY <2>1, Zenon
  <2>3. QED BY <2>1, <2>2
<1>2. i \in Nat /\ i >= 1 /\ i \in 1..i /\ (\A k \in 1..(i-1) : k \in 1..i /\ k < i)
      /\ \A k \in 1..i : k \in 1..(i-1) \/ k = i
  OBVIOUS
<1>3. /\ \A k \in 1..Len(p) : Tells(w, p[k], i - 1)
      /\ Ordered(p)
      /\ q # <<>> => Tells(w, q, i - 1) /\ \A k \in 1..Len(p) : p[k][1].n < q[1].n
      /\ (i - 1 >= 1 => w[i - 1] = "whole") => q = <<>>
      /\ \A m \in 1..(i-1) : Alone(w, m) => \E k \in 1..Len(p) : Len(p[k]) = 1 /\ p[k][1].n = m
  BY DEF LoggedUpTo
<1> HIDE DEF x, p, q
<1>4. /\ l \in Seq(Written) /\ Len(l) = Len(q) + 1 /\ Len(q) \in Nat
      /\ (q = <<>> => Len(l) = 1 /\ l[1] = x) /\ (q # <<>> => l[1] = q[1])
  <2>1. l \in Seq(Written) /\ Len(l) = Len(q) + 1 /\ Len(q) \in Nat /\ l[Len(q) + 1] = x
        /\ \A k \in 1..Len(q) : l[k] = q[k]
    BY <1>1
  <2>2. (q = <<>> => Len(q) = 0) /\ (q # <<>> => Len(q) >= 1)
    BY <1>1, EmptySeq
  <2> HIDE DEF l
  <2>3. QED BY <2>1, <2>2
<1> HIDE DEF l
<1>5. ASSUME NEW z, Tells(w, z, i - 1) PROVE Tells(w, z, i) /\ z[1].n < i
  BY <1>2, <1>5 DEF Tells
<1>6. Tells(w, l, i)
  <2>1. CASE q = <<>>
    BY <1>1, <1>2, <1>4, <2>1 DEF Tells
  <2>2. CASE q # <<>>
    <3>1. Tells(w, q, i)
      BY <1>3, <1>5, <2>2
    <3>2. QED BY <1>4, <2>2, <3>1 DEF Tells
  <2>3. QED BY <2>1, <2>2
<1>7. \A k \in 1..Len(p) : p[k][1].n < l[1].n
  <2>1. CASE q = <<>>
    BY <1>1, <1>3, <1>4, <1>5, <2>1
  <2>2. CASE q # <<>>
    BY <1>3, <1>4, <2>2
  <2>3. QED BY <2>1, <2>2
<1>8. \A k \in 1..Len(p) : Tells(w, p[k], i)
  BY <1>3, <1>5
<1>9. CASE w[i] = "whole"
  <2> DEFINE r == Append(p, l)
  <2>1. t.lines = r /\ t.open = <<>>
    BY <1>9 DEF LogStep, l, p, q, x
  <2>2. Len(r) = Len(p) + 1 /\ r[Len(p) + 1] = l /\ (\A k \in 1..Len(p) : r[k] = p[k]) /\ Ordered(r)
    BY <1>1, <1>3, <1>4, <1>7, LinesGrow
  <2>3. Len(p) \in Nat
    BY <1>1
  <2> HIDE DEF r, t
  <2>4. \A k \in 1..Len(r) : Tells(w, r[k], i)
    <3>1. ASSUME NEW k \in 1..Len(r) PROVE Tells(w, r[k], i)
      <4>1. k \in 1..Len(p) \/ k = Len(p) + 1
        BY <2>2, <2>3
      <4>2. QED BY <1>6, <1>8, <2>2, <4>1
    <3>2. QED BY <3>1
  <2>5. ASSUME NEW m \in 1..i, Alone(w, m)
        PROVE  \E k \in 1..Len(r) : Len(r[k]) = 1 /\ r[k][1].n = m
    <3>1. CASE m \in 1..(i-1)
      <4>1. PICK k \in 1..Len(p) : Len(p[k]) = 1 /\ p[k][1].n = m
        BY <1>3, <2>5, <3>1
      <4>2. k \in 1..Len(r) /\ r[k] = p[k]
        BY <2>2, <2>3
      <4>3. QED BY <4>1, <4>2
    <3>2. CASE m = i
      <4>1. q = <<>>
        BY <1>2, <1>3, <2>5, <3>2 DEF Alone
      <4>2. Len(p) + 1 \in 1..Len(r)
        BY <2>2, <2>3
      <4>3. Len(l) = 1 /\ l[1].n = i
        BY <1>1, <1>4, <4>1
      <4>4. QED BY <2>2, <3>2, <4>2, <4>3
    <3>3. QED BY <1>2, <3>1, <3>2
  <2>6. LoggedUpTo(w, t, i)
    BY <2>1, <2>2, <2>4, <2>5 DEF LoggedUpTo
  <2>7. QED BY <2>6 DEF t
<1>10. CASE w[i] # "whole"
  <2>1. t.lines = p /\ t.open = l
    <3>1. t = [s EXCEPT !.open = l]
      BY <1>10 DEF LogStep, l, q, x
    <3>2. QED BY <3>1 DEF p, LogState
  <2>2. \A m \in 1..i : Alone(w, m) => m \in 1..(i-1)
    BY <1>2, <1>10 DEF Alone
  <2> HIDE DEF t
  <2>3. LoggedUpTo(w, t, i)
    BY <1>2, <1>3, <1>6, <1>7, <1>8, <1>10, <2>1, <2>2 DEF LoggedUpTo
  <2>4. QED BY <2>3 DEF t
<1>11. QED BY <1>9, <1>10

\* Two sequences keep the same when they differ only in what they do not keep.
LEMMA KeptSame ==
  ASSUME NEW X, NEW c \in Seq(X), NEW d \in Seq(X), NEW S, NEW T, Len(c) = Len(d),
         \A i \in 1..Len(c) : (c[i] \in S <=> d[i] \in T) /\ (c[i] \in S => c[i] = d[i])
  PROVE  Kept(c, S) = Kept(d, T)
<1> DEFINE n == Len(c)
<1>1. n \in Nat /\ Len(d) = n
  OBVIOUS
<1>2. PICK f : IsKeeping(f, c, S) /\ Kept(c, S) = f[n]
  BY KeptStepwise
<1>3. PICK g : IsKeeping(g, d, T) /\ Kept(d, T) = g[n]
  BY KeptStepwise
<1>4. /\ f[0] = <<>> /\ \A i \in 1..n : f[i] = IF c[i] \in S THEN Append(f[i-1], c[i]) ELSE f[i-1]
      /\ g[0] = <<>> /\ \A i \in 1..n : g[i] = IF d[i] \in T THEN Append(g[i-1], d[i]) ELSE g[i-1]
  BY <1>1, <1>2, <1>3 DEF IsKeeping
<1>5. \A i \in 1..n : (c[i] \in S <=> d[i] \in T) /\ (c[i] \in S => c[i] = d[i])
  OBVIOUS
<1> HIDE DEF n
<1> DEFINE D == {i \in 0..n : f[i] = g[i]}
<1>6. 0 \in D
  BY <1>1, <1>4
<1>7. ASSUME NEW i \in 1..n, i - 1 \in D PROVE i \in D
  <2>1. i \in 0..n /\ f[i-1] = g[i-1]
    BY <1>1, <1>7
  <2>2. f[i] = g[i]
    BY <1>4, <1>5, <2>1
  <2>3. QED BY <2>1, <2>2
<1> HIDE DEF D
<1>8. 0..n \subseteq D
  BY <1>1, <1>6, <1>7, Induction
<1>9. f[n] = g[n]
  BY <1>1, <1>8 DEF D
<1>10. QED BY <1>2, <1>3, <1>9

\* What parts joined hold is what each of them does, and as much.
LEMMA FlattenHolds ==
  ASSUME NEW X, NEW s \in Seq(Seq(X))
  PROVE  /\ FlattenSeq(s) \in Seq(X)
         /\ ToSet(FlattenSeq(s)) = UNION {ToSet(s[i]) : i \in 1..Len(s)}
         /\ Len(FlattenSeq(s)) = Total([i \in 1..Len(s) |-> Len(s[i])])
<1> DEFINE n == Len(s)
           q == [i \in 1..n |-> Len(s[i])]
<1>1. n \in Nat
  OBVIOUS
<1>2. \A i \in 1..n : s[i] \in Seq(X)
  OBVIOUS
<1>3. PICK f : f \in [0..n -> Seq(X)] /\ Joins(f, s) /\ FlattenSeq(s) = f[n]
  BY FlattenStepwise
<1>4. f[0] = <<>> /\ \A i \in 1..n : f[i] = f[i-1] \o s[i]
  BY <1>3 DEF Joins
<1> HIDE DEF n
<1>5. q \in Seq(Nat) /\ Len(q) = n /\ \A i \in 1..n : q[i] = Len(s[i])
  BY <1>1, <1>2
<1> HIDE DEF q
<1>6. ASSUME NEW i \in 1..n
      PROVE  Len(f[i]) = Len(f[i-1]) + Len(s[i]) /\ ToSet(f[i]) = ToSet(f[i-1]) \cup ToSet(s[i])
  <2>1. i - 1 \in 0..n
    BY <1>1
  <2>2. f[i-1] \in Seq(X) /\ s[i] \in Seq(X)
    BY <1>2, <1>3, <2>1
  <2> DEFINE x == f[i-1]
             y == s[i]
  <2>3. f[i] = x \o y /\ x \in Seq(X) /\ y \in Seq(X)
    BY <1>4, <2>2
  <2> HIDE DEF x, y
  <2>4. Len(f[i]) = Len(x) + Len(y) /\ ToSet(f[i]) = ToSet(x) \cup ToSet(y)
    BY <2>3, JoinHolds
  <2>5. QED BY <2>4 DEF x, y
<1> DEFINE h == [i \in 0..n |-> Len(f[i])]
           D == {i \in 0..n : ToSet(f[i]) = UNION {ToSet(s[j]) : j \in 1..i}}
<1>7. SumsUp(h, q) /\ h[n] = Len(f[n])
  <2>1. 0 \in 0..n /\ n \in 0..n /\ \A i \in 1..n : i \in 0..n /\ i - 1 \in 0..n
    BY <1>1
  <2>2. Len(f[0]) = 0
    BY <1>4
  <2>3. QED BY <1>5, <1>6, <2>1, <2>2 DEF SumsUp
<1> HIDE DEF h
<1>8. Total(q) = Len(f[n])
  BY <1>5, <1>7, TotalIs
<1>9. 0 \in D
  <2>1. ToSet(f[0]) = {} /\ 1..0 = {} /\ 0 \in 0..n
    BY <1>1, <1>4 DEF ToSet
  <2>2. QED BY <2>1
<1>10. ASSUME NEW i \in 1..n, i - 1 \in D PROVE i \in D
  <2>1. i \in 0..n /\ 1..i = 1..(i-1) \cup {i}
    BY <1>1
  <2>2. ToSet(f[i]) = (UNION {ToSet(s[j]) : j \in 1..(i-1)}) \cup ToSet(s[i])
    BY <1>6, <1>10
  <2>3. UNION {ToSet(s[j]) : j \in 1..i} = (UNION {ToSet(s[j]) : j \in 1..(i-1)}) \cup ToSet(s[i])
    <3> HIDE DEF D
    <3>1. QED BY <2>1
  <2>4. QED BY <2>1, <2>2, <2>3
<1> HIDE DEF D
<1>11. 0..n \subseteq D
  BY <1>1, <1>9, <1>10, Induction
<1>12. ToSet(f[n]) = UNION {ToSet(s[j]) : j \in 1..n}
  <2>1. n \in 0..n
    BY <1>1
  <2>2. QED BY <1>11, <2>1 DEF D
<1>13. f[n] \in Seq(X)
  BY <1>1, <1>3
<1>14. QED BY <1>3, <1>8, <1>12, <1>13 DEF n, q

\* One more place of a range counts if it is in the set.
OneMorePlace(S, p, i) ==
  /\ Cardinality(S \cap (p..i)) \in Nat /\ Cardinality(S \cap (p..(i-1))) \in Nat
  /\ Cardinality(S \cap (p..i)) = Cardinality(S \cap (p..(i-1))) + IF i \in S THEN 1 ELSE 0

\* So it does.
LEMMA CountGrows ==
  ASSUME NEW S, NEW p \in Nat, NEW i \in Nat, p <= i
  PROVE  OneMorePlace(S, p, i)
<1> DEFINE A == S \cap (p..i)
           B == S \cap (p..(i-1))
<1>1. IsFiniteSet(A) /\ IsFiniteSet(B)
  <2>1. IsFiniteSet(p..i) /\ IsFiniteSet(p..(i-1))
    BY FS_Interval
  <2>2. A \in SUBSET (p..i) /\ B \in SUBSET (p..(i-1))
    OBVIOUS
  <2> HIDE DEF A, B
  <2>3. QED BY <2>1, <2>2, FS_Subset
<1>2. i \notin B
  OBVIOUS
<1>3. A = IF i \in S THEN B \cup {i} ELSE B
  <2>1. p..i = p..(i-1) \cup {i}
    OBVIOUS
  <2>2. QED BY <2>1
<1> HIDE DEF A, B
<1>4. Cardinality(A) \in Nat /\ Cardinality(B) \in Nat /\ Cardinality(B \cup {i}) = Cardinality(B) + 1
  BY <1>1, <1>2, FS_CardinalityType, FS_AddElement
<1>5. Cardinality(A) = Cardinality(B) + IF i \in S THEN 1 ELSE 0
  BY <1>3, <1>4
<1>6. QED BY <1>4, <1>5 DEF A, B, OneMorePlace

\* tokens: any number of steps, with any tokens.
AnyTokenStep(K) == [do : {"pick"}, kind : K, there : BOOLEAN] \cup [do : {"wait"}]
                     \cup [do : {"use"}, token : Nat]
Verdicts_ == {"unknown", "expired", "path"}
TokenState == [ages : Seq(Nat), said : Seq(Verdicts_)]
VerdictOn(ages, k) == IF k \notin DOMAIN ages THEN "unknown" ELSE IF ages[k] > 24 THEN "expired" ELSE "path"
Picked(t) == t.do = "pick" /\ t.there /\ t.kind # "other"
TokenStep(s, t) ==
  CASE t.do = "wait" -> [s EXCEPT !.ages = [i \in DOMAIN @ |-> @[i] + 12]]
    [] t.do = "pick" -> IF t.there /\ t.kind # "other" THEN [s EXCEPT !.ages = Append(@, 0)] ELSE s
    [] t.do = "use" ->
         [s EXCEPT !.said = Append(@, IF t.token \notin DOMAIN s.ages THEN "unknown"
                                      ELSE IF s.ages[t.token] > 24 THEN "expired" ELSE "path")]

\* What a step does.
LEMMA TokenStepIs ==
  ASSUME NEW K, NEW s \in TokenState, NEW t \in AnyTokenStep(K)
  PROVE  /\ TokenStep(s, t) \in TokenState
         /\ TokenStep(s, t).ages = IF t.do = "wait" THEN [i \in DOMAIN s.ages |-> s.ages[i] + 12]
                                   ELSE IF Picked(t) THEN Append(s.ages, 0) ELSE s.ages
         /\ TokenStep(s, t).said = IF t.do = "use" THEN Append(s.said, VerdictOn(s.ages, t.token)) ELSE s.said
<1> DEFINE r == TokenStep(s, t)
           a == s.ages
           b == s.said
<1>1. a \in Seq(Nat) /\ b \in Seq(Verdicts_) /\ s = [ages |-> a, said |-> b]
  BY DEF TokenState
<1>2. t.do \in {"pick", "wait", "use"}
  BY DEF AnyTokenStep
<1>3. CASE t.do = "wait"
  <2> DEFINE c == [i \in DOMAIN a |-> a[i] + 12]
  <2>1. r = [s EXCEPT !.ages = c]
    BY <1>3 DEF TokenStep
  <2> HIDE DEF r, a, b
  <2>2. c \in Seq(Nat)
    <3>1. a \in Seq(Nat) /\ DOMAIN a = 1..Len(a) /\ Len(a) \in Nat
      BY <1>1
    <3>2. \A i \in 1..Len(a) : a[i] + 12 \in Nat
      BY <3>1
    <3>3. QED BY <3>1, <3>2
  <2> HIDE DEF c
  <2>3. r \in TokenState /\ r.ages = c /\ r.said = b
    BY <1>1, <2>1, <2>2 DEF TokenState
  <2>4. QED BY <1>3, <2>3 DEF r, a, b, c
<1>4. CASE t.do = "pick"
  <2>1. CASE Picked(t)
    <3> DEFINE c == Append(a, 0)
    <3>1. r = [s EXCEPT !.ages = c]
      BY <1>4, <2>1 DEF TokenStep, Picked
    <3>2. c \in Seq(Nat)
      BY <1>1
    <3> HIDE DEF r, a, b, c
    <3>3. r \in TokenState /\ r.ages = c /\ r.said = b
      BY <1>1, <3>1, <3>2 DEF TokenState
    <3>4. QED BY <1>4, <2>1, <3>3 DEF r, a, b, c
  <2>2. CASE ~Picked(t)
    <3>1. r = s
      BY <1>4, <2>2 DEF TokenStep, Picked
    <3> HIDE DEF r
    <3>2. QED BY <1>4, <2>2, <3>1 DEF r
  <2>3. QED BY <2>1, <2>2
<1>5. CASE t.do = "use"
  <2> DEFINE v == VerdictOn(a, t.token)
             c == Append(b, v)
  <2>1. r = [s EXCEPT !.said = c]
    BY <1>5 DEF TokenStep, VerdictOn
  <2>2. v \in Verdicts_
    BY DEF VerdictOn, Verdicts_
  <2> HIDE DEF v
  <2>3. c \in Seq(Verdicts_)
    BY <1>1, <2>2
  <2> HIDE DEF r, a, b, c
  <2>4. r \in TokenState /\ r.ages = a /\ r.said = c
    BY <1>1, <2>1, <2>3 DEF TokenState
  <2>5. ~Picked(t)
    BY <1>5 DEF Picked
  <2>6. QED BY <1>5, <2>4, <2>5 DEF r, a, b, c, v
<1>6. QED BY <1>2, <1>3, <1>4, <1>5

\* What the tokens are after some of the steps: each is as old as the waits since.
Aged(P, W, ages, i) ==
  /\ Len(ages) = Cardinality(P \cap (1..i))
  /\ \A p \in P \cap (1..i) : /\ Cardinality(P \cap (1..p)) \in 1..Len(ages)
                              /\ ages[Cardinality(P \cap (1..p))] = 12 * Cardinality(W \cap (p..i))
  /\ \A k \in 1..Len(ages) : \E p \in P \cap (1..i) : Cardinality(P \cap (1..p)) = k

\* One step more.
LEMMA AgedStep ==
  ASSUME NEW P, NEW W, NEW i \in Nat, i >= 1, NEW old \in Seq(Nat), Aged(P, W, old, i - 1),
         NEW new \in Seq(Nat), ~(i \in P /\ i \in W),
         new = IF i \in W THEN [k \in DOMAIN old |-> old[k] + 12]
               ELSE IF i \in P THEN Append(old, 0) ELSE old
  PROVE  Aged(P, W, new, i)
<1> DEFINE c(p) == Cardinality(P \cap (1..p))
           w(p, q) == Cardinality(W \cap (p..q))
           l == Len(old)
<1>1. /\ l = c(i - 1) /\ l \in Nat /\ DOMAIN old = 1..l
      /\ \A p \in P \cap (1..(i-1)) : c(p) \in 1..l /\ old[c(p)] = 12 * w(p, i - 1)
      /\ \A k \in 1..l : \E p \in P \cap (1..(i-1)) : c(p) = k
  <2>1. l = c(i - 1) /\ \A p \in P \cap (1..(i-1)) : c(p) \in 1..l /\ old[c(p)] = 12 * w(p, i - 1)
    BY Zenon DEF Aged
  <2>2. \A k \in 1..l : \E p \in P \cap (1..(i-1)) : c(p) = k
    BY Zenon DEF Aged
  <2>3. l \in Nat /\ DOMAIN old = 1..l
    OBVIOUS
  <2>4. QED BY <2>1, <2>2, <2>3, Zenon
<1>2. c(i) = l + IF i \in P THEN 1 ELSE 0
  <2>1. c(i) = c(i - 1) + IF i \in P THEN 1 ELSE 0
    <3> DEFINE one == 1
    <3>1. one \in Nat /\ one <= i
      OBVIOUS
    <3> HIDE DEF one
    <3>2. OneMorePlace(P, one, i)
      BY <3>1, CountGrows
    <3>3. QED BY <3>2 DEF OneMorePlace, one
  <2>2. QED BY <1>1, <2>1
<1>3. ASSUME NEW p \in 1..i
      PROVE w(p, i) \in Nat /\ w(p, i - 1) \in Nat /\ w(p, i) = w(p, i - 1) + IF i \in W THEN 1 ELSE 0
  <2>1. p \in Nat /\ p <= i
    OBVIOUS
  <2>2. OneMorePlace(W, p, i)
    BY <2>1, CountGrows
  <2>3. QED BY <2>2 DEF OneMorePlace
<1>4. i \in P => w(i, i) = 0
  <2>1. ASSUME i \in P PROVE W \cap (i..i) = {}
    BY <2>1
  <2> DEFINE o == {}
  <2>2. Cardinality(o) = 0
    BY FS_EmptySet
  <2> HIDE DEF o
  <2>3. QED BY <2>1, <2>2 DEF o
<1>5. 1..i = 1..(i-1) \cup {i} /\ i \notin 1..(i-1)
  OBVIOUS
<1>6. /\ Len(new) = c(i) /\ Len(new) >= l /\ Len(new) \in Nat
      /\ \A k \in 1..l : new[k] = old[k] + (IF i \in W THEN 12 ELSE 0)
      /\ i \in P => new[c(i)] = 0
  <2>1. CASE i \in W
    <3>1. new = [k \in 1..l |-> old[k] + 12] /\ i \notin P
      BY <1>1, <2>1
    <3> HIDE DEF c, l
    <3>2. QED BY <1>1, <1>2, <2>1, <3>1
  <2>2. CASE i \notin W /\ i \in P
    <3>1. new = Append(old, 0) /\ l = Len(old) /\ \A k \in 1..l : old[k] \in Nat
      BY <2>2
    <3> HIDE DEF c, l
    <3>2. QED BY <1>1, <1>2, <2>2, <3>1
  <2>3. CASE i \notin W /\ i \notin P
    <3>1. new = old /\ l = Len(old) /\ \A k \in 1..l : old[k] \in Nat
      BY <2>3
    <3> HIDE DEF c, l
    <3>2. QED BY <1>1, <1>2, <2>3, <3>1
  <2>4. QED BY <2>1, <2>2, <2>3
<1> HIDE DEF c, w, l
<1>7. ASSUME NEW p \in P \cap (1..i) PROVE c(p) \in 1..Len(new) /\ new[c(p)] = 12 * w(p, i)
  <2>1. CASE p = i
    <3>1. i \in P /\ c(p) = l + 1 /\ Len(new) = l + 1
      BY <1>2, <1>6, <2>1
    <3>2. new[c(p)] = 0 /\ w(p, i) = 0
      BY <1>4, <1>6, <2>1, <3>1
    <3>3. QED BY <1>1, <3>1, <3>2
  <2>2. CASE p # i
    <3>1. p \in P \cap (1..(i-1)) /\ p \in 1..i
      BY <1>5, <2>2
    <3>2. c(p) \in 1..l /\ old[c(p)] = 12 * w(p, i - 1)
      BY <1>1, <3>1
    <3>3. new[c(p)] = old[c(p)] + (IF i \in W THEN 12 ELSE 0) /\ c(p) \in 1..Len(new)
      BY <1>1, <1>6, <3>2
    <3>4. w(p, i) = w(p, i - 1) + (IF i \in W THEN 1 ELSE 0) /\ w(p, i - 1) \in Nat
      BY <1>3, <3>1
    <3>5. QED BY <3>2, <3>3, <3>4
  <2>3. QED BY <2>1, <2>2
<1>8. ASSUME NEW k \in 1..Len(new) PROVE \E p \in P \cap (1..i) : c(p) = k
  <2>1. CASE k \in 1..l
    <3>1. PICK p \in P \cap (1..(i-1)) : c(p) = k
      BY <1>1, <2>1
    <3>2. QED BY <1>5, <3>1
  <2>2. CASE k \notin 1..l
    <3>1. i \in P /\ k = l + 1 /\ c(i) = k
      BY <1>1, <1>2, <1>6, <2>2
    <3>2. QED BY <1>5, <3>1
  <2>3. QED BY <2>1, <2>2
<1>9. QED BY <1>6, <1>7, <1>8 DEF Aged, c, w

\* retention: any results of the workbench, under any limits.
AnyDir == [age : Nat, size : Nat, kept : BOOLEAN]
Weighed(s) == Total([i \in DOMAIN s |-> s[i].size])
SizeState == [left : Seq(AnyDir), total : Int]
SizeStep(cap, s, d) ==
  IF s.total <= cap \/ d.kept THEN [s EXCEPT !.left = Append(@, d)]
  ELSE [left |-> s.left, total |-> s.total - d.size]
Shrunk(cap, t, b) == FoldLeft(LAMBDA s, d : SizeStep(cap, s, d), [left |-> <<>>, total |-> b], t).left

\* What is left and how large it is, result by result.
Shrinking(f, cap, t, b) ==
  /\ f \in [0..Len(t) -> SizeState] /\ f[0] = [left |-> <<>>, total |-> b]
  /\ \A i \in 1..Len(t) : f[i] = SizeStep(cap, f[i-1], t[i])
  /\ Shrunk(cap, t, b) = f[Len(t)].left

\* The results are gone through one after the other.
LEMMA ShrinkingIs ==
  ASSUME NEW cap, NEW t_ \in Seq(AnyDir), NEW b \in Int
  PROVE  \E f : Shrinking(f, cap, t_, b)
<1> DEFINE n == Len(t_)
           T == SizeState
           a == [left |-> <<>>, total |-> b]
           step == [i \in 1..n |-> [t \in T |-> SizeStep(cap, t, t_[i])]]
           body(j) == [u \in SUBSET (1..n) |->
                         IF u = {} THEN a ELSE SizeStep(cap, j[u \ {Max(u)}], t_[Max(u)])]
<1>1. n \in Nat /\ DOMAIN t_ = 1..n
  OBVIOUS
<1>2. a \in T /\ \A i \in 1..n, t \in T : SizeStep(cap, t, t_[i]) \in T
  <2>1. a \in T
    BY DEF SizeState
  <2>2. \A i \in 1..n : t_[i] \in AnyDir
    OBVIOUS
  <2>3. ASSUME NEW x \in AnyDir, NEW t \in T PROVE SizeStep(cap, t, x) \in T
    <3>1. t.left \in Seq(AnyDir) /\ t.total \in Int /\ x.size \in Nat
      BY DEF SizeState, AnyDir
    <3>2. Append(t.left, x) \in Seq(AnyDir) /\ t.total - x.size \in Int
      BY <3>1
    <3>3. QED BY <3>1, <3>2 DEF SizeStep, SizeState
  <2> HIDE DEF T, n, a
  <2>4. QED BY <2>1, <2>2, <2>3
<1>3. Shrunk(cap, t_, b) = (CHOOSE j : j = body(j))[1..n].left
  BY <1>1 DEF Shrunk, SizeStep, FoldLeft, MapThenFoldSet
<1>4. AreSteps(step, n, T) /\ \A i \in 1..n, t \in T : step[i][t] = SizeStep(cap, t, t_[i])
  BY <1>2 DEF AreSteps
<1> HIDE DEF step, n, T, a
<1>5. \E j : j = body(j)
  <2>1. PICK it : it \in [SUBSET (1..n) -> T] /\ IsFold(it, n, T, a, step)
    BY <1>1, <1>2, <1>4, FoldExists, Zenon
  <2>2. \A u \in SUBSET (1..n) : it[u] = body(it)[u]
    BY <1>1, <1>4, <2>1 DEF IsFold
  <2> HIDE DEF body
  <2>3. it = body(it)
    BY <2>1, <2>2, Zenon DEF body
  <2>4. QED BY <2>3, Zenon
<1>6. PICK j : j = body(j) /\ Shrunk(cap, t_, b) = j[1..n].left
  BY <1>3, <1>5
<1>7. \A u \in SUBSET (1..n) : j[u] = IF u = {} THEN a ELSE SizeStep(cap, j[u \ {Max(u)}], t_[Max(u)])
  BY <1>6
<1>8. j[{}] = a /\ \A i \in 1..n : j[1..i] = SizeStep(cap, j[1..(i-1)], t_[i])
  BY <1>1, <1>7, PrefixIs
<1>9. \A i \in 1..n : j[1..(i-1)] \in T => j[1..i] = step[i][j[1..(i-1)]]
  BY <1>4, <1>8
<1>10. PICK f : TakesSteps(f, n, T, a, step) /\ f[n] = j[1..n]
  BY <1>1, <1>2, <1>4, <1>8, <1>9, FoldTakesSteps
<1>11. f \in [0..n -> T] /\ f[0] = a /\ \A i \in 1..n : f[i] = SizeStep(cap, f[i-1], t_[i])
  <2>1. f \in [0..n -> T] /\ f[0] = a /\ \A i \in 1..n : f[i] = step[i][f[i-1]]
    BY <1>10 DEF TakesSteps
  <2>2. \A i \in 1..n : i - 1 \in 0..n
    BY <1>1
  <2>3. \A i \in 1..n : f[i-1] \in T
    BY <2>1, <2>2
  <2>4. QED BY <1>4, <2>1, <2>3
<1>12. Shrinking(f, cap, t_, b)
  BY <1>6, <1>10, <1>11 DEF Shrinking, n, T, a
<1>13. QED BY <1>12

\* What is kept of what was kept of a larger set.
LEMMA KeptOfKept ==
  ASSUME NEW X, NEW c \in Seq(X), NEW S, NEW T, S \cap X \subseteq T
  PROVE  Kept(Kept(c, T), S) = Kept(c, S)
<1> DEFINE n == Len(c)
<1>1. n \in Nat /\ \A i \in 1..n : c[i] \in X
  OBVIOUS
<1>2. PICK f : IsKeeping(f, c, T) /\ Kept(c, T) = f[n]
  BY KeptStepwise
<1>3. PICK g : IsKeeping(g, c, S) /\ Kept(c, S) = g[n]
  BY KeptStepwise
<1>4. f[0] = <<>> /\ \A i \in 1..n : f[i] = IF c[i] \in T THEN Append(f[i-1], c[i]) ELSE f[i-1]
  BY <1>2 DEF IsKeeping
<1>5. g[0] = <<>> /\ \A i \in 1..n : g[i] = IF c[i] \in S THEN Append(g[i-1], c[i]) ELSE g[i-1]
  BY <1>3 DEF IsKeeping
<1> HIDE DEF n
<1> DEFINE D == {i \in 0..n : f[i] \in Seq(X) /\ Kept(f[i], S) = g[i]}
<1>6. 0 \in D
  <2>1. <<>> \in Seq(X) /\ Kept(<<>>, S) = <<>>
    BY KeptOfAppend
  <2>2. f[0] \in Seq(X) /\ Kept(f[0], S) = g[0]
    BY <1>4, <1>5, <2>1
  <2>3. QED BY <1>1, <2>2
<1>7. ASSUME NEW i \in 1..n, i - 1 \in D PROVE i \in D
  <2> DEFINE s == f[i-1]
             x == c[i]
  <2>1. s \in Seq(X) /\ x \in X /\ Kept(s, S) = g[i-1] /\ i \in 0..n
    BY <1>1, <1>7
  <2>2. f[i] = (IF x \in T THEN Append(s, x) ELSE s) /\ g[i] = IF x \in S THEN Append(g[i-1], x) ELSE g[i-1]
    BY <1>4, <1>5
  <2> HIDE DEF s, x
  <2>3. CASE x \in S
    <3>1. Kept(Append(s, x), S) = Append(Kept(s, S), x)
      BY <2>1, <2>3, KeepsOne
    <3>2. x \in T
      BY <2>1, <2>3
    <3>3. f[i] \in Seq(X) /\ Kept(f[i], S) = g[i]
      BY <2>1, <2>2, <2>3, <3>1, <3>2
    <3>4. QED BY <2>1, <3>3
  <2>4. CASE x \notin S
    <3>1. Kept(Append(s, x), S) = Kept(s, S)
      BY <2>1, <2>4, DropsOne
    <3>2. f[i] \in Seq(X) /\ Kept(f[i], S) = g[i]
      BY <2>1, <2>2, <2>4, <3>1
    <3>3. QED BY <2>1, <3>2
  <2>5. QED BY <2>3, <2>4
<1>8. n \in D
  <2> HIDE DEF D
  <2>1. 0..n \subseteq D
    BY <1>1, <1>6, <1>7, Induction
  <2>2. QED BY <1>1, <2>1
<1>9. QED BY <1>2, <1>3, <1>8

\* How often an element is in a sequence.
Times(s, d) == Cardinality({i \in DOMAIN s : s[i] = d})

\* It is as often as it is kept.
LEMMA TimesIs ==
  ASSUME NEW X, NEW s \in Seq(X), NEW d
  PROVE  Times(s, d) = Len(Kept(s, {d})) /\ Times(s, d) \in Nat
<1> DEFINE P == {i \in 1..Len(s) : s[i] \in {d}}
<1>1. IsFiniteSet(P) /\ Len(Kept(s, {d})) = Cardinality(P)
  BY KeptCounts
<1>2. P = {i \in DOMAIN s : s[i] = d}
  OBVIOUS
<1>3. Cardinality(P) \in Nat
  BY <1>1, FS_CardinalityType
<1> HIDE DEF P
<1>4. QED BY <1>1, <1>2, <1>3 DEF Times

\* A sort leaves every element as often as it was.
LEMMA SortKeepsTimes ==
  ASSUME NEW X, NEW s \in Seq(X), NEW t \in Seq(X), NEW W, NEW p, IsSort(t, s, W, p), NEW d
  PROVE  Times(t, d) = Times(s, d)
<1> DEFINE n == Len(s)
           P == {i \in 1..n : t[i] = d}
           Q == {i \in 1..n : s[i] = d}
           f == [i \in P |-> p[i]]
<1>1. Len(t) = n /\ p \in [1..n -> 1..n] /\ \A k \in 1..n : t[k] = s[p[k]]
  BY Zenon DEF IsSort
<1>2. (\A i, j \in 1..n : p[i] = p[j] => i = j) /\ \A i \in 1..n : \E k \in 1..n : p[k] = i
  BY Zenon DEF IsSort
<1>3. n \in Nat /\ DOMAIN s = 1..n /\ DOMAIN t = 1..n
  BY <1>1
<1>4. Times(t, d) = Cardinality(P) /\ Times(s, d) = Cardinality(Q)
  BY <1>3 DEF Times
<1> HIDE DEF n
<1>5. f \in Bijection(P, Q)
  <2>1. f \in [P -> Q]
    BY <1>1
  <2>2. \A i, j \in P : f[i] = f[j] => i = j
    BY <1>2
  <2>3. ASSUME NEW q \in Q PROVE \E i \in P : f[i] = q
    <3>1. PICK k \in 1..n : p[k] = q
      BY <1>2
    <3>2. k \in P
      BY <1>1, <3>1
    <3>3. QED BY <3>1, <3>2
  <2> HIDE DEF f, P, Q
  <2>4. QED BY <2>1, <2>2, <2>3, Fun_IsBij
<1>6. IsFiniteSet(P)
  BY <1>3, PlacesAreFinite
<1>7. ExistsBijection(P, Q)
  BY <1>5 DEF ExistsBijection
<1> HIDE DEF P, Q
<1>8. Cardinality(P) = Cardinality(Q)
  BY <1>6, <1>7, FS_Bijection
<1>9. QED BY <1>4, <1>8

\* The numbers at some of the places, and nothing at the others.
Masked(s, P) == [i \in 1..Len(s) |-> IF i \in P THEN s[i] ELSE 0]

\* One more place adds its number.
LEMMA MaskedGrows ==
  ASSUME NEW s \in Seq(Nat), NEW P, NEW j \in 1..Len(s), j \notin P
  PROVE  /\ Masked(s, P) \in Seq(Nat) /\ Masked(s, P \cup {j}) \in Seq(Nat)
         /\ Total(Masked(s, P \cup {j})) = Total(Masked(s, P)) + s[j]
<1> DEFINE n == Len(s)
           u == Masked(s, P)
           v == Masked(s, P \cup {j})
           x == s[j]
<1>1. n \in Nat /\ x \in Nat /\ j \in 1..n /\ \A i \in 1..n : s[i] \in Nat
  OBVIOUS
<1>2. /\ u \in Seq(Nat) /\ Len(u) = n /\ \A i \in 1..n : u[i] = IF i \in P THEN s[i] ELSE 0
      /\ v \in Seq(Nat) /\ Len(v) = n /\ \A i \in 1..n : v[i] = IF i = j \/ i \in P THEN s[i] ELSE 0
  BY <1>1 DEF Masked
<1> HIDE DEF n, u, v
<1>3. PICK f : f \in [0..Len(u) -> Nat] /\ SumsUp(f, u) /\ Total(u) = f[Len(u)]
  BY <1>2, TotalStepwise
<1>4. f \in [0..n -> Nat] /\ f[0] = 0 /\ \A i \in 1..n : f[i] = f[i-1] + u[i]
  BY <1>2, <1>3 DEF SumsUp
<1> DEFINE h == [i \in 0..n |-> IF i < j THEN f[i] ELSE f[i] + x]
<1>5. h[0] = 0
  BY <1>1, <1>4
<1>6. ASSUME NEW i \in 1..n PROVE h[i] = h[i-1] + v[i]
  <2>1. i \in 0..n /\ i - 1 \in 0..n /\ f[i] \in Nat /\ f[i-1] \in Nat /\ f[i] = f[i-1] + u[i]
    BY <1>1, <1>4
  <2>2. CASE i < j
    <3>1. h[i] = f[i] /\ h[i-1] = f[i-1]
      BY <1>1, <2>1, <2>2
    <3>2. i # j
      BY <1>1, <2>2
    <3>3. v[i] = u[i]
      BY <1>2, <3>2
    <3> HIDE DEF h
    <3>4. QED BY <2>1, <3>1, <3>3
  <2>3. CASE i = j
    <3>1. h[i] = f[i] + x /\ h[i-1] = f[i-1] /\ v[i] = x /\ u[i] = 0
      BY <1>1, <1>2, <2>1, <2>3
    <3> HIDE DEF h
    <3>2. QED BY <1>1, <2>1, <3>1
  <2>4. CASE i > j
    <3>1. h[i] = f[i] + x /\ h[i-1] = f[i-1] + x
      BY <1>1, <2>1, <2>4
    <3>2. i # j
      BY <1>1, <2>4
    <3>3. v[i] = u[i]
      BY <1>2, <3>2
    <3>4. u[i] \in Nat
      BY <1>2
    <3> HIDE DEF h
    <3>5. QED BY <1>1, <2>1, <3>1, <3>3, <3>4
  <2>5. QED BY <1>1, <2>2, <2>3, <2>4
<1>7. h[n] = f[n] + x
  BY <1>1
<1> HIDE DEF h
<1>8. SumsUp(h, v)
  BY <1>2, <1>5, <1>6 DEF SumsUp
<1>9. Total(v) = h[n]
  BY <1>2, <1>8, TotalIs
<1>10. Total(v) = Total(u) + x
  BY <1>2, <1>3, <1>7, <1>9
<1>11. QED BY <1>2, <1>10 DEF u, v, x

\* A way to move the places, and the places that the first few are moved to.
IsMove(p, n) ==
  /\ p \in [1..n -> 1..n]
  /\ \A i, j \in 1..n : p[i] = p[j] => i = j
  /\ \A i \in 1..n : \E k \in 1..n : p[k] = i
MovedTo(p, k) == {p[i] : i \in 1..k}
MovedBy(t, s, p, n) == \A k \in 1..n : t[k] = s[p[k]]

\* They are one more for every place, and all in the end.
LEMMA MovesOne ==
  ASSUME NEW n \in Nat, NEW p, IsMove(p, n)
  PROVE  /\ MovedTo(p, 0) = {} /\ MovedTo(p, n) = 1..n
         /\ \A k \in 1..n : /\ p[k] \in 1..n /\ p[k] \notin MovedTo(p, k - 1)
                            /\ MovedTo(p, k) = MovedTo(p, k - 1) \cup {p[k]}
<1>1. /\ p \in [1..n -> 1..n] /\ \A i, j \in 1..n : p[i] = p[j] => i = j
      /\ \A i \in 1..n : \E k \in 1..n : p[k] = i
  BY DEF IsMove
<1>2. MovedTo(p, 0) = {}
  BY DEF MovedTo
<1>3. MovedTo(p, n) = 1..n
  BY <1>1 DEF MovedTo
<1>4. ASSUME NEW k \in 1..n
      PROVE  /\ p[k] \in 1..n /\ p[k] \notin MovedTo(p, k - 1)
             /\ MovedTo(p, k) = MovedTo(p, k - 1) \cup {p[k]}
  <2>1. p[k] \in 1..n
    BY <1>1
  <2>2. \A i \in 1..(k-1) : i \in 1..n /\ i # k
    OBVIOUS
  <2>3. p[k] \notin MovedTo(p, k - 1)
    BY <1>1, <2>2 DEF MovedTo
  <2>4. 1..k = (1..(k-1)) \cup {k}
    OBVIOUS
  <2>5. MovedTo(p, k) = MovedTo(p, k - 1) \cup {p[k]}
    BY <2>4 DEF MovedTo
  <2>6. QED BY <2>1, <2>3, <2>5
<1>5. QED BY <1>2, <1>3, <1>4

\* A sequence is the sequence of its elements.
LEMMA IsItsElements ==
  ASSUME NEW X, NEW s \in Seq(X)
  PROVE  s = [i \in 1..Len(s) |-> s[i]]
  OBVIOUS

\* The total of numbers does not depend on their order.
LEMMA TotalOfMoved ==
  ASSUME NEW s \in Seq(Nat), NEW t \in Seq(Nat), NEW n, n = Len(s), n = Len(t), NEW p, IsMove(p, n),
         MovedBy(t, s, p, n)
  PROVE  Total(t) = Total(s)
<1> DEFINE Q(k) == MovedTo(p, k)
           b(k) == Total(Masked(s, Q(k)))
<1>1. n \in Nat /\ Len(s) = n /\ Len(t) = n /\ \A k \in 1..n : t[k] = s[p[k]]
  BY DEF MovedBy
<1>2. /\ Q(0) = {} /\ Q(n) = 1..n
      /\ \A k \in 1..n : p[k] \in 1..n /\ p[k] \notin Q(k - 1) /\ Q(k) = Q(k - 1) \cup {p[k]}
  BY <1>1, MovesOne
<1> HIDE DEF Q
<1>3. PICK f : f \in [0..Len(t) -> Nat] /\ SumsUp(f, t) /\ Total(t) = f[Len(t)]
  BY TotalStepwise
<1>4. f \in [0..n -> Nat] /\ f[0] = 0 /\ \A i \in 1..n : f[i] = f[i-1] + t[i]
  BY <1>1, <1>3 DEF SumsUp
<1>5. b(0) = 0
  <2> DEFINE u == Masked(s, {})
             z == [i \in 0..n |-> 0]
  <2>1. u \in Seq(Nat) /\ Len(u) = n /\ \A i \in 1..n : u[i] = 0
    <3>1. u = [i \in 1..n |-> 0]
      BY <1>1 DEF Masked
    <3> HIDE DEF u
    <3>2. QED BY <1>1, <3>1
  <2> HIDE DEF u
  <2>2. SumsUp(z, u) /\ z[n] = 0
    BY <1>1, <2>1 DEF SumsUp
  <2> HIDE DEF z
  <2>3. Total(u) = z[Len(u)]
    BY <2>1, <2>2, TotalIs
  <2>4. Total(u) = 0
    BY <2>1, <2>2, <2>3
  <2>5. QED BY <1>2, <2>4 DEF u
<1>6. b(n) = Total(s)
  <2>1. Masked(s, Q(n)) = [i \in 1..n |-> s[i]]
    BY <1>1, <1>2 DEF Masked
  <2>2. s = [i \in 1..Len(s) |-> s[i]]
    BY IsItsElements
  <2>3. s = [i \in 1..n |-> s[i]]
    BY <1>1, <2>2
  <2>4. QED BY <2>1, <2>3
<1>7. ASSUME NEW k \in 1..n PROVE b(k) = b(k-1) + t[k]
  <2> DEFINE j == p[k]
             P == Q(k-1)
  <2>1. j \in 1..Len(s) /\ j \notin P /\ Q(k) = P \cup {j} /\ t[k] = s[j]
    BY <1>1, <1>2
  <2> HIDE DEF j, P
  <2>2. Total(Masked(s, P \cup {j})) = Total(Masked(s, P)) + s[j]
    BY <2>1, MaskedGrows
  <2>3. QED BY <2>1, <2>2 DEF P
<1> HIDE DEF b
<1> DEFINE D == {k \in 0..n : b(k) = f[k]}
<1>8. 0 \in D
  BY <1>1, <1>4, <1>5
<1>9. ASSUME NEW k \in 1..n, k - 1 \in D PROVE k \in D
  <2>1. b(k-1) = f[k-1] /\ k \in 0..n
    BY <1>1, <1>9
  <2>2. b(k) = f[k]
    BY <1>4, <1>7, <2>1
  <2>3. QED BY <2>1, <2>2
<1> HIDE DEF D
<1>10. 0..n \subseteq D
  BY <1>1, <1>8, <1>9, Induction
<1>11. b(n) = f[n]
  BY <1>1, <1>10 DEF D
<1>12. QED BY <1>1, <1>3, <1>6, <1>11

\* The bytes of results.
LEMMA BytesAre ==
  ASSUME NEW s \in Seq(AnyDir)
  PROVE  /\ [i \in DOMAIN s |-> s[i].size] \in Seq(Nat) /\ Weighed(s) \in Nat
         /\ Weighed(<<>>) = 0
         /\ \A x \in AnyDir : Weighed(Append(s, x)) = Weighed(s) + x.size /\ x.size \in Nat
<1> DEFINE z(q) == [i \in DOMAIN q |-> q[i].size]
<1>1. \A x \in AnyDir : x.size \in Nat
  BY DEF AnyDir
<1>2. z(s) \in Seq(Nat)
  <2>1. DOMAIN s = 1..Len(s) /\ Len(s) \in Nat /\ \A i \in 1..Len(s) : s[i] \in AnyDir
    OBVIOUS
  <2>2. QED BY <1>1, <2>1
<1>3. Weighed(s) = Total(z(s)) /\ Weighed(<<>>) = Total(z(<<>>))
  BY DEF Weighed
<1>4. z(<<>>) = <<>>
  OBVIOUS
<1>5. ASSUME NEW x \in AnyDir PROVE Weighed(Append(s, x)) = Weighed(s) + x.size
  <2> DEFINE t == Append(s, x)
             y == x.size
             w == z(s)
  <2>1. y \in Nat
    BY <1>1
  <2>2. z(t) = Append(w, y)
    OBVIOUS
  <2>3. Weighed(t) = Total(z(t))
    BY DEF Weighed
  <2> HIDE DEF z, t, y
  <2>4. w \in Seq(Nat)
    BY <1>2
  <2> HIDE DEF w
  <2>5. Total(Append(w, y)) = Total(w) + y
    BY <2>1, <2>4, TotalOfAppend
  <2>6. QED BY <1>3, <2>2, <2>3, <2>5 DEF t, y, w
<1>6. Total(z(s)) \in Nat
  <2> HIDE DEF z
  <2>1. QED BY <1>2, TotalStepwise, TotalIs
<1>7. Weighed(<<>>) = 0
  BY <1>3, <1>4, TotalOfNone
<1>8. QED BY <1>1, <1>2, <1>3, <1>5, <1>6, <1>7

\* They are the same in every order.
LEMMA BytesOfSorted ==
  ASSUME NEW s \in Seq(AnyDir), NEW t \in Seq(AnyDir), NEW W, NEW p, IsSort(t, s, W, p)
  PROVE  Weighed(t) = Weighed(s)
<1> DEFINE n == Len(s)
           y == [i \in DOMAIN s |-> s[i].size]
           z == [i \in DOMAIN t |-> t[i].size]
<1>1. Len(t) = n /\ p \in [1..n -> 1..n] /\ \A k \in 1..n : t[k] = s[p[k]]
  BY Zenon DEF IsSort
<1>2. (\A i, j \in 1..n : p[i] = p[j] => i = j) /\ \A i \in 1..n : \E k \in 1..n : p[k] = i
  BY Zenon DEF IsSort
<1>3. IsMove(p, n)
  BY <1>1, <1>2 DEF IsMove
<1>4. y \in Seq(Nat) /\ z \in Seq(Nat)
  BY BytesAre
<1>5. DOMAIN s = 1..n /\ DOMAIN t = 1..n
  BY <1>1
<1>6. n = Len(y) /\ n = Len(z)
  BY <1>1, <1>4, <1>5
<1>7. MovedBy(z, y, p, n)
  BY <1>1, <1>5 DEF MovedBy
<1>8. Weighed(s) = Total(y) /\ Weighed(t) = Total(z)
  BY DEF Weighed
<1> HIDE DEF n, y, z
<1>9. Total(z) = Total(y)
  BY <1>3, <1>4, <1>6, <1>7, TotalOfMoved
<1>10. QED BY <1>8, <1>9

ShrinksWell(l, t, cap) ==
  /\ l \in Seq(AnyDir)
  /\ \A i \in 1..Len(l) : \E k \in 1..Len(t) : t[k] = l[i]
  /\ Weighed(l) > cap => \A i \in 1..Len(l) : l[i].kept
  /\ \A d \in AnyDir : Kept(l, {d}) = Kept(t, {d}) \/
       \E j \in 1..Len(t) :
         /\ t[j] = d /\ ~t[j].kept
         /\ \A i \in 1..Len(l) : l[i].kept \/ \E k \in 1..Len(t) : j < k /\ t[k] = l[i]

\* One step of it.
LEMMA ShrinkSteps ==
  ASSUME NEW cap \in Nat, NEW s \in SizeState, NEW d \in AnyDir
  PROVE  LET r == SizeStep(cap, s, d)
         IN /\ r \in SizeState /\ r.total <= s.total
            /\ \/ r.left = Append(s.left, d) /\ r.total = s.total /\ (s.total <= cap \/ d.kept)
               \/ r.left = s.left /\ r.total = s.total - d.size /\ s.total > cap /\ ~d.kept
<1>1. s.left \in Seq(AnyDir) /\ s.total \in Int /\ d.size \in Nat /\ d.kept \in BOOLEAN
  BY DEF SizeState, AnyDir
<1>2. CASE s.total <= cap \/ d.kept
  <2>1. SizeStep(cap, s, d) = [left |-> Append(s.left, d), total |-> s.total]
    BY <1>2 DEF SizeStep, SizeState
  <2>2. Append(s.left, d) \in Seq(AnyDir)
    BY <1>1
  <2>3. QED BY <1>1, <1>2, <2>1, <2>2 DEF SizeState
<1>3. CASE s.total > cap /\ ~d.kept
  <2>1. SizeStep(cap, s, d) = [left |-> s.left, total |-> s.total - d.size]
    BY <1>1, <1>3 DEF SizeStep
  <2>2. s.total - d.size \in Int /\ s.total - d.size <= s.total
    BY <1>1
  <2>3. QED BY <1>1, <1>3, <2>1, <2>2 DEF SizeState
<1>4. QED BY <1>1, <1>2, <1>3

\* It is kept.
LEMMA ShrunkIs ==
  ASSUME NEW cap \in Nat, NEW t \in Seq(AnyDir)
  PROVE  ShrinksWell(Shrunk(cap, t, Weighed(t)), t, cap)
<1> DEFINE n == Len(t)
           B == Weighed(t)
           z == [i \in DOMAIN t |-> t[i].size]
<1>1. n \in Nat /\ \A i \in 1..n : t[i] \in AnyDir
  OBVIOUS
<1>2. z \in Seq(Nat) /\ B \in Nat /\ B = Total(z) /\ Len(z) = n /\ \A i \in 1..n : z[i] = t[i].size
  <2>1. z \in Seq(Nat) /\ B \in Nat
    BY BytesAre
  <2>2. B = Total(z)
    BY DEF Weighed
  <2>3. DOMAIN z = 1..n
    OBVIOUS
  <2>4. Len(z) = n
    BY <1>1, <2>1, <2>3
  <2>5. QED BY <2>1, <2>2, <2>3, <2>4
<1> HIDE DEF z
<1>3. PICK q : q \in [0..Len(z) -> Nat] /\ SumsUp(q, z) /\ Total(z) = q[Len(z)]
  BY <1>2, TotalStepwise
<1>4. q \in [0..n -> Nat] /\ q[0] = 0 /\ q[n] = B /\ \A i \in 1..n : q[i] = q[i-1] + t[i].size
  BY <1>2, <1>3 DEF SumsUp
<1> HIDE DEF B
<1>5. PICK f : /\ f \in [0..n -> SizeState] /\ f[0] = [left |-> <<>>, total |-> B]
               /\ \A i \in 1..n : f[i] = SizeStep(cap, f[i-1], t[i])
               /\ Shrunk(cap, t, B) = f[n].left
  <2>1. B \in Int
    BY <1>2
  <2>2. \E f : Shrinking(f, cap, t, B)
    BY <2>1, ShrinkingIs
  <2>3. QED BY <2>2 DEF Shrinking
<1> DEFINE l(i) == f[i].left
           o(i) == f[i].total
<1>6. \A i \in 0..n : l(i) \in Seq(AnyDir) /\ o(i) \in Int
  BY <1>5 DEF SizeState
<1>7. ASSUME NEW i \in 1..n
      PROVE  /\ o(i) <= o(i-1)
             /\ \/ l(i) = Append(l(i-1), t[i]) /\ o(i) = o(i-1) /\ (o(i-1) <= cap \/ t[i].kept)
                \/ l(i) = l(i-1) /\ o(i) = o(i-1) - t[i].size /\ o(i-1) > cap /\ ~t[i].kept
  <2> DEFINE s == f[i-1]
             d == t[i]
             r == SizeStep(cap, s, d)
  <2>1. s \in SizeState /\ d \in AnyDir /\ f[i] = r
    BY <1>1, <1>5
  <2> HIDE DEF s, d
  <2>2. /\ r \in SizeState /\ r.total <= s.total
        /\ \/ r.left = Append(s.left, d) /\ r.total = s.total /\ (s.total <= cap \/ d.kept)
           \/ r.left = s.left /\ r.total = s.total - d.size /\ s.total > cap /\ ~d.kept
    BY <2>1, ShrinkSteps
  <2> HIDE DEF r
  <2>3. QED BY <2>1, <2>2 DEF s, d
<1>8. l(0) = <<>> /\ o(0) = B
  BY <1>5
<1> HIDE DEF l, o, n
<1>9. Weighed(l(n)) = o(n)
  <2> DEFINE D == {i \in 0..n : o(i) = Weighed(l(i)) + (B - q[i])}
  <2>1. 0 \in D
    <3>1. Weighed(l(0)) = 0
      BY <1>8, BytesAre
    <3>2. o(0) = Weighed(l(0)) + (B - q[0])
      BY <1>2, <1>4, <1>8, <3>1
    <3>3. QED BY <1>1, <3>2
  <2>2. ASSUME NEW i \in 1..n, i - 1 \in D PROVE i \in D
    <3> DEFINE s == l(i-1)
               d == t[i]
               w == d.size
    <3>1. /\ i \in 0..n /\ i - 1 \in 0..n /\ s \in Seq(AnyDir) /\ d \in AnyDir
          /\ o(i-1) = Weighed(s) + (B - q[i-1])
      BY <1>1, <1>6, <2>2
    <3>2. q[i] = q[i-1] + w /\ q[i] \in Nat /\ q[i-1] \in Nat
      BY <1>1, <1>4, <3>1
    <3>3. \/ l(i) = Append(s, d) /\ o(i) = o(i-1)
          \/ l(i) = s /\ o(i) = o(i-1) - w
      BY <1>7
    <3> HIDE DEF s, d
    <3>4. Weighed(Append(s, d)) = Weighed(s) + w /\ w \in Nat /\ Weighed(s) \in Nat
      BY <3>1, BytesAre
    <3> HIDE DEF w
    <3> DEFINE c == Weighed(s)
    <3>5. c \in Nat /\ w \in Nat /\ B \in Nat /\ o(i-1) = c + (B - q[i-1])
      BY <1>2, <3>1, <3>4
    <3>6. \/ Weighed(l(i)) = c + w /\ o(i) = o(i-1)
          \/ Weighed(l(i)) = c /\ o(i) = o(i-1) - w
      BY <3>3, <3>4
    <3> HIDE DEF c
    <3> DEFINE O == o(i)
               N == o(i-1)
               L == Weighed(l(i))
               u == q[i-1]
               v == q[i]
    <3>7. O = L + (B - v)
      <4>1. /\ c \in Nat /\ w \in Nat /\ B \in Nat /\ u \in Nat /\ v = u + w
            /\ N = c + (B - u)
        BY <3>2, <3>5
      <4>2. \/ L = c + w /\ O = N
            \/ L = c /\ O = N - w
        BY <3>6
      <4> HIDE DEF O, N, L, u, v
      <4>3. QED BY <4>1, <4>2
    <3>8. QED BY <3>1, <3>7
  <2> HIDE DEF D
  <2>3. 0..n \subseteq D
    BY <1>1, <2>1, <2>2, Induction
  <2>4. o(n) = Weighed(l(n)) + (B - q[n]) /\ l(n) \in Seq(AnyDir)
    BY <1>1, <1>6, <2>3 DEF D
  <2>5. Weighed(l(n)) \in Nat
    BY <2>4, BytesAre
  <2>6. QED BY <1>2, <1>4, <2>4, <2>5
<1>10. \A i, j \in 0..n : i <= j => o(j) <= o(i)
  <2>1. ASSUME NEW i \in 0..n PROVE \A j \in 0..n : i <= j => o(j) <= o(i)
    <3> DEFINE D == {j \in 0..n : i <= j => o(j) <= o(i)}
    <3>1. 0 \in D
      BY <1>1, <1>6
    <3>2. ASSUME NEW j \in 1..n, j - 1 \in D PROVE j \in D
      <4>1. j \in 0..n /\ j - 1 \in 0..n /\ o(j) <= o(j-1)
        BY <1>1, <1>7
      <4>2. o(j) \in Int /\ o(j-1) \in Int /\ o(i) \in Int
        BY <1>6, <4>1
      <4>3. CASE i <= j - 1
        <5>1. o(j-1) <= o(i)
          BY <3>2, <4>3
        <5>2. o(j) <= o(i)
          BY <4>1, <4>2, <5>1
        <5>3. QED BY <4>1, <5>2
      <4>4. CASE i > j - 1
        <5>1. i <= j => i = j
          BY <1>1, <4>4
        <5>2. i <= j => o(j) <= o(i)
          BY <4>2, <5>1
        <5>3. QED BY <4>1, <5>2
      <4>5. QED BY <1>1, <4>3, <4>4
    <3> HIDE DEF D
    <3>3. 0..n \subseteq D
      BY <1>1, <3>1, <3>2, Induction
    <3>4. QED BY <3>3 DEF D
  <2>2. QED BY <2>1
\* What is left was there, and it is kept or comes when no more is removed.
<1>11. \A i \in 1..Len(l(n)) : \E k \in 1..n : t[k] = l(n)[i] /\ (t[k].kept \/ o(k-1) <= cap)
  <2> DEFINE ToldOf(i, m) == \E k \in 1..n : t[k] = l(i)[m] /\ k <= i /\ (t[k].kept \/ o(k-1) <= cap)
             D == {i \in 0..n : \A m \in 1..Len(l(i)) : ToldOf(i, m)}
  <2>1. 0 \in D
    BY <1>1, <1>8
  <2>2. ASSUME NEW i \in 1..n, i - 1 \in D PROVE i \in D
    <3>1. i \in 0..n /\ i - 1 \in 0..n /\ l(i-1) \in Seq(AnyDir) /\ t[i] \in AnyDir
      BY <1>1, <1>6
    <3>2. \A m \in 1..Len(l(i-1)) : \E k \in 1..n : t[k] = l(i-1)[m] /\ k <= i - 1 /\ (t[k].kept \/ o(k-1) <= cap)
      BY <2>2
    <3>3. \A k \in 1..n : k <= i - 1 => k <= i
      BY <1>1
    <3> HIDE DEF D
    <3>4. CASE l(i) = l(i-1)
      <4>1. \A m \in 1..Len(l(i)) : ToldOf(i, m)
        BY <3>2, <3>3, <3>4
      <4>2. QED BY <3>1, <4>1 DEF D
    <3>5. CASE l(i) = Append(l(i-1), t[i]) /\ (o(i-1) <= cap \/ t[i].kept)
      <4> DEFINE s == l(i-1)
      <4>1. /\ Len(l(i)) = Len(s) + 1 /\ Len(s) \in Nat /\ l(i)[Len(s) + 1] = t[i]
            /\ \A m \in 1..Len(s) : l(i)[m] = s[m]
        BY <3>1, <3>5
      <4>2. ASSUME NEW m \in 1..Len(l(i)) PROVE ToldOf(i, m)
        <5>1. CASE m \in 1..Len(s)
          BY <3>2, <3>3, <4>1, <5>1
        <5>2. CASE m = Len(s) + 1
          <6>1. t[i] = l(i)[m] /\ i <= i
            BY <1>1, <4>1, <5>2
          <6>2. QED BY <3>5, <6>1
        <5>3. QED BY <4>1, <4>2, <5>1, <5>2
      <4> HIDE DEF ToldOf
      <4>3. QED BY <3>1, <4>2 DEF D
    <3>6. QED BY <1>7, <3>4, <3>5
  <2> HIDE DEF D
  <2>3. 0..n \subseteq D
    BY <1>1, <2>1, <2>2, Induction
  <2>4. \A m \in 1..Len(l(n)) : ToldOf(n, m)
    BY <1>1, <2>3 DEF D
  <2>5. QED BY <2>4
<1>12. ASSUME NEW d \in AnyDir
       PROVE  \/ Kept(l(n), {d}) = Kept(t, {d})
              \/ \E j \in 1..n : t[j] = d /\ ~t[j].kept /\ o(j-1) > cap
  <2>1. PICK g : IsKeeping(g, t, {d}) /\ Kept(t, {d}) = g[n]
    BY KeptStepwise DEF n
  <2>2. g[0] = <<>> /\ \A i \in 1..n : g[i] = IF t[i] \in {d} THEN Append(g[i-1], t[i]) ELSE g[i-1]
    BY <2>1 DEF IsKeeping, n
  <2> DEFINE Gone(i) == \E j \in 1..n : t[j] = d /\ ~t[j].kept /\ o(j-1) > cap /\ j <= i
             D == {i \in 0..n : Kept(l(i), {d}) = g[i] \/ Gone(i)}
  <2>3. 0 \in D
    <3>1. Kept(<<>>, {d}) = <<>>
      BY KeptOfAppend
    <3>2. Kept(l(0), {d}) = g[0]
      BY <1>8, <2>2, <3>1
    <3>3. QED BY <1>1, <3>2
  <2>4. ASSUME NEW i \in 1..n, i - 1 \in D PROVE i \in D
    <3> DEFINE s == l(i-1)
               x == t[i]
    <3>1. i \in 0..n /\ i - 1 \in 0..n /\ s \in Seq(AnyDir) /\ x \in AnyDir
      BY <1>1, <1>6
    <3>2. Kept(s, {d}) = g[i-1] \/ Gone(i-1)
      BY <2>4
    <3> HIDE DEF D
    <3>3. Gone(i-1) => Gone(i)
      BY <1>1
    <3>4. g[i] = IF x \in {d} THEN Append(g[i-1], x) ELSE g[i-1]
      BY <2>2
    <3>5. Kept(s, {d}) = g[i-1] => Kept(l(i), {d}) = g[i] \/ Gone(i)
      <4> SUFFICES ASSUME Kept(s, {d}) = g[i-1], ~Gone(i) PROVE Kept(l(i), {d}) = g[i]
        OBVIOUS
      <4>1. CASE l(i) = Append(s, x)
        <5> HIDE DEF Gone
        <5> HIDE DEF s, x
        <5>1. CASE x \in {d}
          <6>1. Kept(Append(s, x), {d}) = Append(Kept(s, {d}), x)
            BY <3>1, <5>1, KeepsOne
          <6>2. QED BY <3>4, <4>1, <5>1, <6>1
        <5>2. CASE x \notin {d}
          <6>1. Kept(Append(s, x), {d}) = Kept(s, {d})
            BY <3>1, <5>2, DropsOne
          <6>2. QED BY <3>4, <4>1, <5>2, <6>1
        <5>3. QED BY <5>1, <5>2
      <4>2. CASE l(i) = s /\ o(i-1) > cap /\ ~t[i].kept
        <5>1. t[i] # d
          BY <1>1, <4>2
        <5>2. QED BY <3>4, <4>2, <5>1
      <4>3. QED BY <1>7, <4>1, <4>2
    <3>6. Kept(l(i), {d}) = g[i] \/ Gone(i)
      BY <3>2, <3>3, <3>5
    <3>7. QED BY <3>1, <3>6 DEF D
  <2> HIDE DEF D
  <2>5. 0..n \subseteq D
    BY <1>1, <2>3, <2>4, Induction
  <2>6. Kept(l(n), {d}) = g[n] \/ Gone(n)
    <3> HIDE DEF Gone
    <3>1. n \in 0..n
      BY <1>1
    <3>2. QED BY <2>5, <3>1 DEF D
  <2>7. QED BY <2>1, <2>6
<1>13. ASSUME NEW d \in AnyDir
       PROVE  Kept(l(n), {d}) = Kept(t, {d}) \/
                \E j \in 1..n :
                  /\ t[j] = d /\ ~t[j].kept
                  /\ \A i \in 1..Len(l(n)) : l(n)[i].kept \/ \E k \in 1..n : j < k /\ t[k] = l(n)[i]
  <2> SUFFICES ASSUME Kept(l(n), {d}) # Kept(t, {d})
               PROVE  \E j \in 1..n :
                        /\ t[j] = d /\ ~t[j].kept
                        /\ \A i \in 1..Len(l(n)) : l(n)[i].kept \/ \E k \in 1..n : j < k /\ t[k] = l(n)[i]
    OBVIOUS
  <2>1. PICK j \in 1..n : t[j] = d /\ ~t[j].kept /\ o(j-1) > cap
    BY <1>12
  <2>2. ASSUME NEW i \in 1..Len(l(n)) PROVE l(n)[i].kept \/ \E k \in 1..n : j < k /\ t[k] = l(n)[i]
    <3>1. PICK k \in 1..n : t[k] = l(n)[i] /\ (t[k].kept \/ o(k-1) <= cap)
      BY <1>11
    <3>2. ASSUME ~t[k].kept PROVE j < k
      <4>1. o(k-1) <= cap
        BY <3>1, <3>2
      <4>2. j - 1 \in 0..n /\ k - 1 \in 0..n /\ o(j-1) \in Int /\ o(k-1) \in Int
        BY <1>1, <1>6
      <4>3. k - 1 <= j - 1 => o(j-1) <= o(k-1)
        BY <1>10, <4>2
      <4>4. ~(k - 1 <= j - 1)
        BY <2>1, <4>1, <4>2, <4>3
      <4>5. QED BY <1>1, <4>4
    <3>3. QED BY <3>1, <3>2
  <2>3. QED BY <2>1, <2>2
<1>14. Weighed(l(n)) > cap => \A i \in 1..Len(l(n)) : l(n)[i].kept
  <2> SUFFICES ASSUME Weighed(l(n)) > cap, NEW i \in 1..Len(l(n)) PROVE l(n)[i].kept
    OBVIOUS
  <2>1. PICK k \in 1..n : t[k] = l(n)[i] /\ (t[k].kept \/ o(k-1) <= cap)
    BY <1>11
  <2>2. k - 1 \in 0..n /\ n \in 0..n /\ k - 1 <= n
    BY <1>1
  <2>3. o(n) <= o(k-1) /\ o(n) \in Int /\ o(k-1) \in Int
    BY <1>6, <1>10, <2>2
  <2>4. ~(o(k-1) <= cap)
    BY <1>9, <2>3
  <2>5. QED BY <2>1, <2>4
<1>15. l(n) \in Seq(AnyDir) /\ Shrunk(cap, t, B) = l(n)
  BY <1>1, <1>5, <1>6 DEF l
<1>16. ShrinksWell(l(n), t, cap)
  BY <1>11, <1>13, <1>14, <1>15 DEF ShrinksWell, n
<1>17. QED BY <1>15, <1>16 DEF B

\* recommend: any models of the catalogue, for any machine no larger than the largest.
AnyModel(C, P, M) ==
  [id : Nat, cat : C, purpose : P, mat : M, lang : Nat, minV : Int, recV : Int,
   minR : Int, recR : Int, size : Nat, verified : BOOLEAN, domain : Nat, meant : BOOLEAN]

\* The first place where two lists of four numbers differ tells which comes first.
Lists == Int \X Int \X Int \X Int
FirstOther(u, v) == CHOOSE k \in 1..4 : u[k] # v[k] /\ \A n \in 1..k-1 : u[n] = v[n]
LexLess(u, v) ==
  \/ u[1] < v[1]
  \/ u[1] = v[1] /\ u[2] < v[2]
  \/ u[1] = v[1] /\ u[2] = v[2] /\ u[3] < v[3]
  \/ u[1] = v[1] /\ u[2] = v[2] /\ u[3] = v[3] /\ u[4] < v[4]

\* It is the one with the smaller number there.
LEMMA FirstOtherIs ==
  ASSUME NEW u \in Lists, NEW v \in Lists, u[4] # v[4]
  PROVE  u[FirstOther(u, v)] < v[FirstOther(u, v)] <=> LexLess(u, v)
<1> DEFINE i == FirstOther(u, v)
           First(k) == k \in 1..4 /\ u[k] # v[k] /\ \A n \in 1..k-1 : u[n] = v[n]
<1>1. \A k \in 1..4 : u[k] \in Int /\ v[k] \in Int
  BY DEF Lists
<1>2. \E k \in 1..4 : First(k)
  <2>1. CASE u[1] # v[1]
    <3>1. First(1)
      BY <2>1
    <3>2. QED BY <3>1
  <2>2. CASE u[1] = v[1] /\ u[2] # v[2]
    <3>1. First(2)
      BY <2>2
    <3>2. QED BY <3>1
  <2>3. CASE u[1] = v[1] /\ u[2] = v[2] /\ u[3] # v[3]
    <3>1. First(3)
      BY <2>3
    <3>2. QED BY <3>1
  <2>4. CASE u[1] = v[1] /\ u[2] = v[2] /\ u[3] = v[3]
    <3>1. First(4)
      BY <2>4
    <3>2. QED BY <3>1
  <2>5. QED BY <2>1, <2>2, <2>3, <2>4
<1>3. First(i)
  BY <1>2 DEF FirstOther
<1> HIDE DEF i
<1>4. (i = 1 \/ i = 2 \/ i = 3 \/ i = 4) /\ u[i] # v[i] /\ \A n \in 1..i-1 : u[n] = v[n]
  BY <1>3
<1>5. ASSUME i = 1 PROVE u[i] < v[i] <=> LexLess(u, v)
  <2>1. u[i] = u[1] /\ v[i] = v[1] /\ u[1] # v[1]
    BY <1>4, <1>5
  <2>3. u[1] # v[1]
    BY <2>1
  <2>4. LexLess(u, v) <=> u[1] < v[1]
    BY <1>1, <2>1, <2>3 DEF LexLess
  <2>5. QED BY <2>1, <2>4
<1>6. ASSUME i = 2 PROVE u[i] < v[i] <=> LexLess(u, v)
  <2>1. u[i] = u[2] /\ v[i] = v[2] /\ u[2] # v[2]
    BY <1>4, <1>6
  <2>2. 1 \in 1..i-1
    BY <1>6
  <2>3. u[1] = v[1]
    BY <1>4, <2>2
  <2>4. LexLess(u, v) <=> u[2] < v[2]
    BY <1>1, <2>1, <2>3 DEF LexLess
  <2>5. QED BY <2>1, <2>4
<1>7. ASSUME i = 3 PROVE u[i] < v[i] <=> LexLess(u, v)
  <2>1. u[i] = u[3] /\ v[i] = v[3] /\ u[3] # v[3]
    BY <1>4, <1>7
  <2>2. 1 \in 1..i-1 /\ 2 \in 1..i-1
    BY <1>7
  <2>3. u[1] = v[1] /\ u[2] = v[2]
    BY <1>4, <2>2
  <2>4. LexLess(u, v) <=> u[3] < v[3]
    BY <1>1, <2>1, <2>3 DEF LexLess
  <2>5. QED BY <2>1, <2>4
<1>8. ASSUME i = 4 PROVE u[i] < v[i] <=> LexLess(u, v)
  <2>1. u[i] = u[4] /\ v[i] = v[4] /\ u[4] # v[4]
    BY <1>4, <1>8
  <2>2. 1 \in 1..i-1 /\ 2 \in 1..i-1 /\ 3 \in 1..i-1
    BY <1>8
  <2>3. u[1] = v[1] /\ u[2] = v[2] /\ u[3] = v[3]
    BY <1>4, <2>2
  <2>4. LexLess(u, v) <=> u[4] < v[4]
    BY <1>1, <2>1, <2>3 DEF LexLess
  <2>5. QED BY <2>1, <2>4
<1>9. u[i] < v[i] <=> LexLess(u, v)
  BY <1>4, <1>5, <1>6, <1>7, <1>8
<1>10. QED BY <1>9 DEF i

\* Every list that ends differently is before another, or the other is.
LEMMA LexIsOrder ==
  /\ \A u, v \in Lists : ~(LexLess(u, v) /\ LexLess(v, u))
  /\ \A u, v \in Lists : u[4] # v[4] => LexLess(u, v) \/ LexLess(v, u)
  /\ \A u, v, w \in Lists : LexLess(u, w) => LexLess(u, v) \/ LexLess(v, w) \/ u[4] = v[4] \/ v[4] = w[4]
<1>1. \A u \in Lists : u[1] \in Int /\ u[2] \in Int /\ u[3] \in Int /\ u[4] \in Int
  BY DEF Lists
<1> HIDE DEF Lists
<1>2. ASSUME NEW u \in Lists, NEW v \in Lists PROVE ~(LexLess(u, v) /\ LexLess(v, u))
  BY <1>1 DEF LexLess
<1>3. ASSUME NEW u \in Lists, NEW v \in Lists, u[4] # v[4] PROVE LexLess(u, v) \/ LexLess(v, u)
  BY <1>1, <1>3 DEF LexLess
<1>4. ASSUME NEW u \in Lists, NEW v \in Lists, NEW w \in Lists, LexLess(u, w)
      PROVE  LexLess(u, v) \/ LexLess(v, w) \/ u[4] = v[4] \/ v[4] = w[4]
  BY <1>1, <1>4 DEF LexLess
<1>5. QED BY <1>2, <1>3, <1>4

BestPart(r, n) == Sorted(SubSeq(r, 1, (3 * n + 9) \div 10), LAMBDA a, b : a.size < b.size)

\* The best part of those that are ranked, by size.
Smaller(X) == {w \in X \X X : w[1].size < w[2].size}

\* The best part holds models that were ranked, and is empty only if none was.
LEMMA BestPartIs ==
  ASSUME NEW C, NEW P, NEW M, NEW X, X \subseteq AnyModel(C, P, M), NEW r \in Seq(X)
  PROVE  LET top == BestPart(r, Len(r))
         IN /\ top \in Seq(X) /\ ToSet(top) \subseteq ToSet(r)
            /\ top = <<>> <=> r = <<>>
<1> DEFINE n == Len(r)
           k == (3 * n + 9) \div 10
           u == SubSeq(r, 1, k)
           top == BestPart(r, n)
           W == Smaller(X)
<1>1. n \in Nat
  OBVIOUS
<1>2. k \in Nat /\ k <= n /\ (k = 0 <=> n = 0)
  <2> HIDE DEF n
  <2>1. QED BY <1>1
<1> HIDE DEF k
<1>3. u \in Seq(X) /\ Len(u) = k /\ \A i \in 1..k : u[i] = r[i]
  <2>1. CASE k = 0
    <3>1. u = <<>>
      BY <2>1
    <3>2. QED BY <2>1, <3>1
  <2>2. CASE k # 0
    <3>1. 1 \in 1..n /\ k \in 1..n /\ 1 \in Nat
      BY <1>1, <1>2, <2>2
    <3>2. QED BY <1>1, <1>2, <2>2
  <2>3. QED BY <2>1, <2>2
<1> HIDE DEF u
<1>4. Weak(W, X)
  <2>1. \A x \in X : x.size \in Nat
    BY DEF AnyModel
  <2>2. \A x, z \in X : <<x, z>> \in W <=> x.size < z.size
    BY DEF Smaller
  <2>3. QED BY <2>1, <2>2 DEF Weak
<1>5. top = Ranked(u, By(u, W))
  <2>1. \A i \in DOMAIN u : u[i] \in X
    BY <1>3
  <2>2. \A p \in (DOMAIN u) \X (DOMAIN u) :
           /\ <<u[p[1]], u[p[2]]>> \in W <=> u[p[1]].size < u[p[2]].size
           /\ <<u[p[2]], u[p[1]]>> \in W <=> u[p[2]].size < u[p[1]].size
    BY <2>1 DEF Smaller
  <2>3. By(u, W) = {p \in (DOMAIN u) \X (DOMAIN u) :
                      \/ u[p[1]].size < u[p[2]].size
                      \/ p[1] < p[2] /\ ~(u[p[2]].size < u[p[1]].size)}
    BY <2>2 DEF By
  <2>4. top = Ranked(u, {p \in (DOMAIN u) \X (DOMAIN u) :
                           \/ u[p[1]].size < u[p[2]].size
                           \/ p[1] < p[2] /\ ~(u[p[2]].size < u[p[1]].size)})
    BY DEF BestPart, Sorted, u, k
  <2>5. QED BY <2>3, <2>4
<1> HIDE DEF top, W
<1>6. top \in Seq(X) /\ \E p : IsSort(top, u, W, p)
  BY <1>3, <1>4, <1>5, SortedIs
<1>7. Len(top) = k /\ ToSet(top) = ToSet(u)
  BY <1>3, <1>6 DEF IsSort
<1>8. ToSet(u) \subseteq ToSet(r)
  <2>1. \A i \in 1..k : i \in 1..n
    BY <1>1, <1>2
  <2>2. QED BY <1>3, <2>1 DEF ToSet, n
<1>9. top = <<>> <=> k = 0
  BY <1>2, <1>6, <1>7
<1>10. r = <<>> <=> n = 0
  OBVIOUS
<1>11. QED BY <1>2, <1>6, <1>7, <1>8, <1>9, <1>10 DEF top, n

ListedCard(B, V) == [pci : B \cup {"none", "s"}, vendor : V \cup {"microsoft"}, mem : Int]

\* The place of the first NVIDIA card that is nowhere on the bus yet.
OpenPlaces(l) == {i \in DOMAIN l : l[i].vendor = "nvidia" /\ l[i].pci = "none"}

\* How many cards of a vendor a list has, and how many places that are open.
CardsOf(l, v) == {i \in DOMAIN l : l[i].vendor = v}
Num(l, v) == Cardinality(CardsOf(l, v))
NumOpen(l) == Cardinality(OpenPlaces(l))
Mems(l) == {l[i].mem : i \in 1..Len(l)}
One(b) == IF b THEN 1 ELSE 0

\* The greatest of finitely many numbers, and of nothing.
LEMMA GreatestOf ==
  ASSUME NEW n \in Nat, NEW f \in [1..n -> Int]
  PROVE  LET S == {f[j] : j \in 1..n} \cup {0} IN Max(S) \in S /\ \A x \in S : x <= Max(S) /\ x \in Int
<1> DEFINE S(k) == {f[j] : j \in 1..k} \cup {0}
           D == {k \in 0..n : \E m \in S(k) : \A x \in S(k) : x <= m}
<1>1. \A k \in 0..n : S(k) \subseteq Int
  OBVIOUS
<1>2. 0 \in D
  <2>1. S(0) = {0}
    OBVIOUS
  <2> HIDE DEF S
  <2>2. \E m \in S(0) : \A x \in S(0) : x <= m
    BY <2>1
  <2>3. QED BY <2>2
<1>3. ASSUME NEW k \in 1..n, k - 1 \in D PROVE k \in D
  <2>1. PICK m \in S(k-1) : \A x \in S(k-1) : x <= m
    BY <1>3
  <2>2. S(k) = S(k-1) \cup {f[k]}
    OBVIOUS
  <2>3. f[k] \in Int /\ S(k-1) \subseteq Int /\ k \in 0..n
    BY <1>1
  <2> HIDE DEF S
  <2>4. CASE f[k] <= m
    <3>1. m \in S(k) /\ \A x \in S(k) : x <= m
      BY <2>1, <2>2, <2>4
    <3>2. QED BY <2>3, <3>1
  <2>5. CASE ~(f[k] <= m)
    <3>1. m \in Int /\ \A x \in S(k-1) : x <= f[k]
      BY <2>1, <2>3, <2>5
    <3>2. f[k] \in S(k) /\ \A x \in S(k) : x <= f[k]
      BY <2>2, <2>3, <3>1
    <3>3. QED BY <2>3, <3>2
  <2>6. QED BY <2>4, <2>5
<1> HIDE DEF D
<1>4. 0..n \subseteq D
  BY <1>2, <1>3, Induction
<1>6. S(n) \subseteq Int
  BY <1>1
<1> HIDE DEF S
<1>5. \E m \in S(n) : \A x \in S(n) : x <= m
  <2>1. n \in 0..n
    OBVIOUS
  <2>2. n \in D
    BY <1>4, <2>1
  <2>3. QED BY <2>2 DEF D
<1>7. Max(S(n)) \in S(n) /\ \A x \in S(n) : x <= Max(S(n))
  <2>1. \E m \in S(n) : \A x \in S(n) : m >= x
    BY <1>5, <1>6
  <2>2. Max(S(n)) = CHOOSE m \in S(n) : \A x \in S(n) : m >= x
    BY DEF Max
  <2>3. Max(S(n)) \in S(n) /\ \A x \in S(n) : Max(S(n)) >= x
    BY <2>1, <2>2
  <2>4. QED BY <1>6, <2>3
<1>8. QED BY <1>6, <1>7 DEF S

\* How many of the first cards are of a vendor.
Upto(d, v, i) == {m \in 1..i : d[m].vendor = v}
Count(d, v, i) == Cardinality(Upto(d, v, i))

\* It grows card by card, up to as many as there are.
LEMMA CountIs ==
  ASSUME NEW L, NEW d \in Seq(L), NEW v
  PROVE  /\ Count(d, v, 0) = 0 /\ Count(d, v, Len(d)) = Num(d, v)
         /\ \A i \in 0..Len(d) : Count(d, v, i) \in Nat /\ Count(d, v, i) <= Num(d, v)
         /\ \A i \in 1..Len(d) : Count(d, v, i) = Count(d, v, i - 1) + One(d[i].vendor = v)
<1> DEFINE n == Len(d)
<1>1. n \in Nat /\ DOMAIN d = 1..n
  OBVIOUS
<1>2. Count(d, v, 0) = 0
  <2>1. Upto(d, v, 0) = {}
    BY DEF Upto
  <2>2. QED BY <2>1, FS_EmptySet DEF Count
<1>3. Count(d, v, n) = Num(d, v)
  BY <1>1 DEF Count, Num, Upto, CardsOf
<1>4. ASSUME NEW i \in 0..n PROVE Count(d, v, i) \in Nat /\ Count(d, v, i) <= Num(d, v)
  <2>1. Upto(d, v, i) \subseteq CardsOf(d, v) /\ CardsOf(d, v) \in SUBSET (1..n)
    BY <1>1 DEF Upto, CardsOf
  <2>2. IsFiniteSet(CardsOf(d, v))
    BY <1>1, <2>1, PlacesAreFinite
  <2>3. QED BY <2>1, <2>2, FS_Subset, FS_CardinalityType DEF Count, Num
<1>5. ASSUME NEW i \in 1..n PROVE Count(d, v, i) = Count(d, v, i - 1) + One(d[i].vendor = v)
  <2> DEFINE A == Upto(d, v, i - 1)
  <2>1. A \in SUBSET (1..n) /\ i \notin A
    BY <1>1 DEF Upto
  <2>2. IsFiniteSet(A) /\ Cardinality(A) \in Nat
    BY <1>1, <2>1, PlacesAreFinite
  <2>3. Cardinality(A \cup {i}) = Cardinality(A) + 1
    BY <2>1, <2>2, FS_AddElement
  <2>4. Upto(d, v, i) = IF d[i].vendor = v THEN A \cup {i} ELSE A
    BY <1>1 DEF Upto
  <2> HIDE DEF A
  <2>5. QED BY <2>2, <2>3, <2>4 DEF Count, One, A
<1> HIDE DEF n
<1>6. QED BY <1>2, <1>3, <1>4, <1>5 DEF n

\* One card more of it, of both vendors.
LEMMA CountsOf ==
  ASSUME NEW L, NEW d \in Seq(L), NEW i \in 1..Len(d)
  PROVE  /\ Count(d, "amd", i) = Count(d, "amd", i - 1) + One(d[i].vendor = "amd")
         /\ Count(d, "nvidia", i) = Count(d, "nvidia", i - 1) + One(d[i].vendor = "nvidia")
         /\ \A k \in 0..Len(d) : /\ Count(d, "amd", k) \in Nat /\ Count(d, "nvidia", k) \in Nat
                                 /\ Count(d, "nvidia", k) <= Num(d, "nvidia")
<1> DEFINE n == Len(d)
<1>1. \A v : /\ \A k \in 0..n : Count(d, v, k) \in Nat /\ Count(d, v, k) <= Num(d, v)
             /\ \A k \in 1..n : Count(d, v, k) = Count(d, v, k - 1) + One(d[k].vendor = v)
  BY CountIs
<1> HIDE DEF n
<1>2. i \in 1..n
  BY DEF n
<1>3. QED BY <1>1, <1>2, Zenon DEF n

\* What the NVIDIA library tells, and the cards that Windows lists then.
Unlisted(b, d, B, V) ==
  /\ b \in Seq(ListedCard(B, V)) /\ d \in Seq(ListedCard(B, V))
  /\ \A i \in 1..Len(b) : b[i].vendor = "nvidia" /\ b[i].pci = "none"
  /\ \A i \in 1..Len(d) : d[i].pci # "none" /\ d[i].mem # Nil
  /\ \A i, j \in 1..Len(d) : /\ d[i].vendor = "nvidia" /\ d[j].vendor = "nvidia"
                             /\ d[i].pci = d[j].pci
                             => d[i] = d[j]
  /\ Len(b) = 0 \/ Num(d, "nvidia") <= Len(b)
  /\ \/ \A i \in 1..Len(b) : b[i].mem = Nil
     \/ \A m \in 1..Len(d) : d[m].vendor = "nvidia" => d[m].mem \in Mems(b)

\* What holds of the list after each of them.
ToldOf(l, b, d, i) ==
  /\ Mems(l) \subseteq Mems(b) \cup Mems(d)
  /\ Num(l, "amd") <= Count(d, "amd", i)
  /\ \A m \in 1..i : d[m].mem \in Mems(l)
Unnamed(l, d, i) ==
  /\ OpenPlaces(l) = {}
  /\ Num(l, "nvidia") <= Count(d, "nvidia", i)
  /\ \A k \in 1..Len(l) : l[k].vendor = "nvidia" => \E m \in 1..i : l[k] = d[m]
Named(l, b, d, i) ==
  /\ Num(l, "nvidia") = Len(b)
  /\ NumOpen(l) = Len(b) - Count(d, "nvidia", i)
  /\ \/ \A o \in OpenPlaces(l) : l[o].mem = Nil
     \/ \A m \in 1..Len(d) : d[m].vendor = "nvidia" => d[m].mem \in Mems(l)
ListInv(l, b, d, i) ==
  ToldOf(l, b, d, i) /\ IF Len(b) = 0 THEN Unnamed(l, d, i) ELSE Named(l, b, d, i)

\* Before the first card all places are open.
LEMMA NoneListed ==
  ASSUME NEW B, NEW V, NEW b, NEW d, Unlisted(b, d, B, V)
  PROVE  b \in Seq(ListedCard(B, V)) /\ ListInv(b, b, d, 0)
<1> DEFINE n == Len(b)
<1>1. /\ b \in Seq(ListedCard(B, V)) /\ d \in Seq(ListedCard(B, V)) /\ n \in Nat /\ DOMAIN b = 1..n
      /\ \A i \in 1..n : b[i].vendor = "nvidia" /\ b[i].pci = "none"
  BY DEF Unlisted
<1>2. CardsOf(b, "amd") = {} /\ CardsOf(b, "nvidia") = 1..n /\ OpenPlaces(b) = 1..n
  BY <1>1 DEF CardsOf, OpenPlaces
<1>3. Count(d, "amd", 0) = 0 /\ Count(d, "nvidia", 0) = 0
  BY <1>1, CountIs
<1>4. Num(b, "amd") = 0 /\ Num(b, "nvidia") = n /\ NumOpen(b) = n
  BY <1>1, <1>2, FS_EmptySet, PlacesAreFinite DEF Num, NumOpen
<1>5. ToldOf(b, b, d, 0)
  BY <1>3, <1>4 DEF ToldOf
<1>6. ASSUME n = 0 PROVE Unnamed(b, d, 0)
  <2>1. OpenPlaces(b) = {}
    BY <1>2, <1>6
  <2>2. Num(b, "nvidia") <= Count(d, "nvidia", 0)
    BY <1>3, <1>4, <1>6
  <2>3. \A k \in 1..Len(b) : FALSE
    BY <1>6
  <2>4. QED BY <2>1, <2>2, <2>3 DEF Unnamed
<1>7. Named(b, b, d, 0)
  <2>1. \/ \A i \in OpenPlaces(b) : b[i].mem = Nil
        \/ \A m \in 1..Len(d) : d[m].vendor = "nvidia" => d[m].mem \in Mems(b)
    BY <1>2 DEF Unlisted
  <2>2. NumOpen(b) = n - Count(d, "nvidia", 0)
    BY <1>1, <1>3, <1>4
  <2>3. QED BY <1>4, <2>1, <2>2 DEF Named
<1>8. QED BY <1>1, <1>5, <1>6, <1>7 DEF ListInv

\* The cards of the machine may be listed, and they all have memory.
LEMMA CardsMayBeListed ==
  ASSUME NEW B, NEW V, "none" \notin B, NEW s \in Seq(AnyCard(B, V))
  PROVE  /\ s \in Seq(ListedCard(B, V))
         /\ \A i \in 1..Len(s) : s[i].pci # "none" /\ s[i].mem # Nil /\ s[i].mem \in Nat
<1>1. \A x \in AnyCard(B, V) : x \in ListedCard(B, V) /\ x.pci # "none" /\ x.mem # Nil /\ x.mem \in Nat
  BY DEF AnyCard, ListedCard, Nil
<1>2. \A i \in 1..Len(s) : s[i] \in AnyCard(B, V)
  OBVIOUS
<1>3. s \in Seq(ListedCard(B, V))
  <2> DEFINE A == AnyCard(B, V)
             L == ListedCard(B, V)
  <2>1. A \subseteq L /\ s \in Seq(A)
    BY <1>1
  <2> HIDE DEF A, L
  <2>2. s \in Seq(L)
    BY <2>1
  <2>3. QED BY <2>2 DEF L
<1>4. QED BY <1>1, <1>2, <1>3

\* frames: any stream that ends its lines one way, cut anywhere.
OneWay(s) ==
  \/ \A i \in 1..Len(s) : s[i] # "r"
  \/ \A i \in 1..Len(s) : /\ s[i] = "n" => i > 1 /\ s[i-1] = "r"
                          /\ s[i] = "r" => i < Len(s) /\ s[i+1] = "n"

\* Where a buffer is split, and how wide what separates two events is there.
NN(s) == {i \in 1..Len(s) - 1 : s[i] = "n" /\ s[i+1] = "n"}
RNRN(s) == {i \in 1..Len(s) - 3 : s[i] = "r" /\ s[i+1] = "n" /\ s[i+2] = "r" /\ s[i+3] = "n"}
NoSep(b) == NN(b) = {} /\ RNRN(b) = {}
Sep(b) == IF NN(b) # {} THEN Min(NN(b)) ELSE Min(RNRN(b))
Wide(b) == IF NN(b) # {} THEN 2 ELSE 4
FrameOf(b) == SubSeq(b, 1, Sep(b) - 1)
RestOf(b) == SubSeq(b, Sep(b) + Wide(b), Len(b))

\* A buffer with an empty line is split at the first.
IsSplit(b, p, w, frame, rest, X) ==
  /\ p \in 1..Len(b) /\ w \in {2, 4} /\ p + w - 1 <= Len(b)
  /\ frame \in Seq(X) /\ Len(frame) = p - 1 /\ \A i \in 1..p - 1 : frame[i] = b[i]
  /\ rest \in Seq(X) /\ Len(rest) = Len(b) - (p + w - 1)
  /\ \A i \in 1..Len(rest) : rest[i] = b[(p + w - 1) + i]
  /\ \A i \in NN(b) : i >= p
  /\ w = 2 => b[p] = "n" /\ b[p+1] = "n" /\ p \in NN(b)
  /\ w = 4 => /\ b[p] = "r" /\ b[p+1] = "n" /\ b[p+2] = "r" /\ b[p+3] = "n"
              /\ p \in RNRN(b) /\ NN(b) = {} /\ \A i \in RNRN(b) : i >= p

\* A buffer with an empty line in it is split at the first.
LEMMA SplitIs ==
  ASSUME NEW X, NEW b \in Seq(X), ~NoSep(b)
  PROVE  IsSplit(b, Sep(b), Wide(b), FrameOf(b), RestOf(b), X)
<1> DEFINE n == Len(b)
           p == Sep(b)
           w == Wide(b)
           A == NN(b)
           Z == RNRN(b)
<1>1. n \in Nat /\ A \in SUBSET Nat /\ Z \in SUBSET Nat
  BY DEF NN, RNRN
<1>2. /\ \A i \in A : i \in 1..n /\ i + 1 <= n /\ b[i] = "n" /\ b[i+1] = "n"
      /\ \A i \in Z : i \in 1..n /\ i + 3 <= n /\ b[i] = "r" /\ b[i+1] = "n" /\ b[i+2] = "r" /\ b[i+3] = "n"
  BY <1>1 DEF NN, RNRN
<1>3. /\ p = IF A # {} THEN Min(A) ELSE Min(Z)
      /\ w = IF A # {} THEN 2 ELSE 4
      /\ A # {} \/ Z # {}
  BY DEF Sep, Wide, NoSep
<1> HIDE DEF p, w, A, Z
<1>4. A # {} => Min(A) \in A /\ \A i \in A : Min(A) <= i
  BY <1>1, LeastIs
<1>5. Z # {} => Min(Z) \in Z /\ \A i \in Z : Min(Z) <= i
  BY <1>1, LeastIs
<1>6. /\ p \in 1..n /\ w \in {2, 4} /\ p + w - 1 <= n
      /\ \A i \in A : i >= p
      /\ w = 2 => b[p] = "n" /\ b[p+1] = "n" /\ p \in A
      /\ w = 4 => /\ b[p] = "r" /\ b[p+1] = "n" /\ b[p+2] = "r" /\ b[p+3] = "n"
                  /\ p \in Z /\ A = {} /\ \A i \in Z : i >= p
  <2>1. CASE A # {}
    <3>1. p = Min(A) /\ w = 2 /\ p \in A /\ \A i \in A : p <= i
      BY <1>3, <1>4, <2>1
    <3>2. p \in 1..n /\ p + 1 <= n /\ b[p] = "n" /\ b[p+1] = "n"
      BY <1>2, <3>1
    <3>3. \A i \in A : i >= p
      BY <1>2, <3>1, <3>2
    <3>4. QED BY <3>1, <3>2, <3>3
  <2>2. CASE A = {}
    <3>1. p = Min(Z) /\ w = 4 /\ p \in Z /\ \A i \in Z : p <= i
      BY <1>3, <1>5, <2>2
    <3>2. p \in 1..n /\ p + 3 <= n /\ b[p] = "r" /\ b[p+1] = "n" /\ b[p+2] = "r" /\ b[p+3] = "n"
      BY <1>2, <3>1
    <3>3. \A i \in Z : i >= p
      BY <1>2, <3>1, <3>2
    <3>4. QED BY <2>2, <3>1, <3>2, <3>3
  <2>3. QED BY <2>1, <2>2
<1> DEFINE f == FrameOf(b)
           r == RestOf(b)
<1>7. f \in Seq(X) /\ Len(f) = p - 1 /\ \A i \in 1..p - 1 : f[i] = b[i]
  <2>1. f = SubSeq(b, 1, p - 1)
    BY DEF FrameOf, p
  <2> HIDE DEF f
  <2>2. p - 1 \in 0..n
    BY <1>1, <1>6
  <2>3. QED BY <1>6, <2>1, <2>2
<1>8. /\ r \in Seq(X) /\ Len(r) = n - (p + w - 1)
      /\ \A i \in 1..Len(r) : r[i] = b[(p + w - 1) + i]
  <2> DEFINE q == p + w
  <2>1. r = SubSeq(b, q, n)
    BY DEF RestOf, p, w
  <2>2. q \in Int /\ 1 <= q /\ q <= n + 1 /\ p + w - 1 = q - 1 /\ n - (p + w - 1) = n - q + 1
    BY <1>1, <1>6
  <2> HIDE DEF q, r
  <2>3. r \in Seq(X) /\ Len(r) = n - q + 1 /\ \A i \in 1..Len(r) : r[i] = b[q + i - 1]
    BY <1>1, <2>1, <2>2, SubSeqProperties
  <2>4. \A i \in 1..Len(r) : q + i - 1 = (p + w - 1) + i
    BY <1>1, <2>2, <2>3
  <2>5. QED BY <2>2, <2>3, <2>4
<1> HIDE DEF f, r, n
<1>9. IsSplit(b, p, w, f, r, X)
  BY <1>6, <1>7, <1>8 DEF IsSplit, n, A, Z
<1>10. QED BY <1>9 DEF p, w, f, r

\* What comes later does not change where a buffer with an empty line is split.
LEMMA SplitStays ==
  ASSUME NEW X, NEW b \in Seq(X), NEW r \in Seq(X), OneWay(b \o r), ~NoSep(b)
  PROVE  /\ ~NoSep(b \o r) /\ FrameOf(b \o r) = FrameOf(b)
         /\ RestOf(b) \o r = RestOf(b \o r)
<1> DEFINE c == b \o r
           n == Len(b)
           p == Sep(b)
           w == Wide(b)
           q == Sep(c)
           v == Wide(c)
<1>1. /\ c \in Seq(X) /\ Len(c) = n + Len(r) /\ n \in Nat /\ Len(r) \in Nat
      /\ \A i \in 1..n : c[i] = b[i]
      /\ \A i \in 1..Len(r) : c[n + i] = r[i]
  OBVIOUS
<1> HIDE DEF c, p, w, q, v
<1>2. IsSplit(b, p, w, FrameOf(b), RestOf(b), X)
  BY SplitIs DEF p, w
<1>3. NN(b) \subseteq NN(c) /\ RNRN(b) \subseteq RNRN(c)
  <2>1. ASSUME NEW i \in NN(b) PROVE i \in NN(c)
    <3>1. i \in 1..n - 1 /\ b[i] = "n" /\ b[i+1] = "n"
      BY DEF NN
    <3>2. i \in 1..n /\ i + 1 \in 1..n /\ i \in 1..Len(c) - 1
      BY <1>1, <3>1
    <3>3. QED BY <1>1, <3>1, <3>2 DEF NN
  <2>2. ASSUME NEW i \in RNRN(b) PROVE i \in RNRN(c)
    <3>1. i \in 1..n - 3 /\ b[i] = "r" /\ b[i+1] = "n" /\ b[i+2] = "r" /\ b[i+3] = "n"
      BY DEF RNRN
    <3>2. i \in 1..n /\ i + 1 \in 1..n /\ i + 2 \in 1..n /\ i + 3 \in 1..n /\ i \in 1..Len(c) - 3
      BY <1>1, <3>1
    <3>3. QED BY <1>1, <3>1, <3>2 DEF RNRN
  <2>3. QED BY <2>1, <2>2
<1>4. ~NoSep(c)
  BY <1>3 DEF NoSep
<1>5. IsSplit(c, q, v, FrameOf(c), RestOf(c), X)
  BY <1>1, <1>4, SplitIs DEF q, v
<1>6. /\ p \in 1..n /\ w \in {2, 4} /\ p + w - 1 <= n
      /\ q \in 1..Len(c) /\ v \in {2, 4} /\ q + v - 1 <= Len(c)
  BY <1>2, <1>5 DEF IsSplit
<1>7. p = q /\ w = v
  <2>1. CASE w = 2
    <3>1. p \in NN(c)
      BY <1>2, <1>3, <2>1 DEF IsSplit
    <3>2. q <= p /\ v = 2
      BY <1>5, <1>6, <3>1 DEF IsSplit
    <3>3. q \in NN(c) /\ q + 1 <= n
      BY <1>1, <1>5, <1>6, <2>1, <3>2 DEF IsSplit
    <3>4. q \in NN(b)
      BY <1>1, <1>6, <3>3 DEF NN
    <3>5. p <= q
      BY <1>2, <1>6, <3>4 DEF IsSplit
    <3>6. QED BY <1>6, <2>1, <3>2, <3>5
  <2>2. CASE w = 4
    <3>1. p \in RNRN(c) /\ c[p] = "r" /\ p \in 1..Len(c)
      BY <1>1, <1>2, <1>3, <1>6, <2>2 DEF IsSplit
    <3>2. \A i \in 1..Len(c) : c[i] = "n" => i > 1 /\ c[i-1] = "r"
      BY <3>1 DEF OneWay, c
    <3>3. NN(c) = {}
      <4> SUFFICES ASSUME NEW i \in NN(c) PROVE FALSE
        OBVIOUS
      <4>1. i \in 1..Len(c) - 1 /\ c[i] = "n" /\ c[i+1] = "n"
        BY DEF NN
      <4>2. i + 1 \in 1..Len(c) /\ (i + 1) - 1 = i
        BY <1>1, <4>1
      <4>3. c[i] = "r"
        BY <3>2, <4>1, <4>2
      <4>4. QED BY <4>1, <4>3
    <3>4. v = 4 /\ q <= p /\ q \in RNRN(c)
      BY <1>5, <1>6, <3>1, <3>3 DEF IsSplit
    <3>5. q \in RNRN(b)
      <4>1. c[q] = "r" /\ c[q+1] = "n" /\ c[q+2] = "r" /\ c[q+3] = "n"
        BY <3>4 DEF RNRN
      <4>2. q \in 1..n - 3 /\ q \in 1..n /\ q + 1 \in 1..n /\ q + 2 \in 1..n /\ q + 3 \in 1..n
        BY <1>1, <1>6, <2>2, <3>4
      <4>3. b[q] = "r" /\ b[q+1] = "n" /\ b[q+2] = "r" /\ b[q+3] = "n"
        BY <1>1, <4>1, <4>2
      <4>4. QED BY <4>2, <4>3 DEF RNRN
    <3>6. p <= q
      BY <1>2, <1>6, <2>2, <3>5 DEF IsSplit
    <3>7. QED BY <1>6, <2>2, <3>4, <3>6
  <2>3. QED BY <1>6, <2>1, <2>2
<1> DEFINE f == FrameOf(b)
           h == FrameOf(c)
           t == RestOf(b)
           u == RestOf(c)
<1> HIDE DEF f, h, t, u
<1>8. /\ f \in Seq(X) /\ h \in Seq(X) /\ Len(f) = p - 1 /\ Len(h) = p - 1
      /\ \A i \in 1..p - 1 : f[i] = b[i] /\ h[i] = c[i]
  BY <1>2, <1>5, <1>7 DEF IsSplit, f, h
<1>9. f = h
  <2>1. \A i \in 1..p - 1 : i \in 1..n
    BY <1>1, <1>6
  <2>2. \A i \in 1..Len(f) : f[i] = h[i]
    BY <1>1, <1>8, <2>1
  <2>3. QED BY <1>8, <2>2, SeqEqual
<1>10. t \o r = u
  <2> DEFINE k == p + w - 1
  <2>1. k \in 1..n
    BY <1>1, <1>6
  <2>2. /\ t \in Seq(X) /\ u \in Seq(X) /\ Len(t) = n - k /\ Len(u) = Len(c) - k
        /\ \A i \in 1..Len(t) : t[i] = b[k + i]
        /\ \A i \in 1..Len(u) : u[i] = c[k + i]
    BY <1>2, <1>5, <1>7 DEF IsSplit, t, u
  <2> HIDE DEF k
  <2>3. Len(u) = Len(t) + Len(r)
    BY <1>1, <2>1, <2>2
  <2>4. ASSUME NEW i \in 1..Len(t) PROVE u[i] = t[i]
    <3>1. k + i \in 1..n /\ i \in 1..Len(u)
      BY <1>1, <2>1, <2>2
    <3>2. QED BY <1>1, <2>2, <3>1
  <2>5. ASSUME NEW i \in 1..Len(r) PROVE u[Len(t) + i] = r[i]
    <3>1. k + (Len(t) + i) = n + i /\ Len(t) + i \in 1..Len(u)
      BY <1>1, <2>1, <2>2
    <3>2. QED BY <1>1, <2>2, <3>1
  <2>6. QED BY <2>2, <2>3, <2>4, <2>5, JoinedIs
<1>11. QED BY <1>4, <1>9, <1>10 DEF c, f, h, t, u

\* What is left of a stream that ends its lines one way ends them that way.
LEMMA RestEndsOneWay ==
  ASSUME NEW X, NEW b \in Seq(X), OneWay(b), ~NoSep(b)
  PROVE  OneWay(RestOf(b))
<1> DEFINE n == Len(b)
           t == RestOf(b)
           k == Sep(b) + Wide(b) - 1
<1>1. n \in Nat
  OBVIOUS
<1>2. IsSplit(b, Sep(b), Wide(b), FrameOf(b), t, X)
  BY SplitIs
<1>3. /\ k \in 1..n /\ Len(t) = n - k /\ b[k] = "n"
      /\ \A i \in 1..Len(t) : t[i] = b[k + i]
  <2> DEFINE p == Sep(b)
             w == Wide(b)
  <2>1. /\ p \in 1..n /\ w \in {2, 4} /\ p + w - 1 <= n
        /\ Len(t) = n - (p + w - 1) /\ \A i \in 1..Len(t) : t[i] = b[(p + w - 1) + i]
        /\ w = 2 => b[p+1] = "n"
        /\ w = 4 => b[p+3] = "n"
    BY <1>2 DEF IsSplit
  <2> HIDE DEF p, w, t
  <2>2. b[p + w - 1] = "n" /\ p + w - 1 \in 1..n
    <3>1. CASE w = 2
      <4>1. p + w - 1 = p + 1
        BY <2>1, <3>1
      <4>2. QED BY <1>1, <2>1, <3>1, <4>1
    <3>2. CASE w = 4
      <4>1. p + w - 1 = p + 3
        BY <2>1, <3>2
      <4>2. QED BY <1>1, <2>1, <3>2, <4>1
    <3>3. QED BY <2>1, <3>1, <3>2
  <2>3. QED BY <2>1, <2>2 DEF p, w
<1> HIDE DEF t, k
<1>4. \A i \in 1..Len(t) : k + i \in 1..n
  BY <1>1, <1>3
<1>5. CASE \A i \in 1..n : b[i] # "r"
  BY <1>3, <1>4, <1>5 DEF OneWay, t
<1>6. CASE \A i \in 1..n : /\ b[i] = "n" => i > 1 /\ b[i-1] = "r"
                           /\ b[i] = "r" => i < n /\ b[i+1] = "n"
  <2>1. ASSUME NEW i \in 1..Len(t), t[i] = "n" PROVE i > 1 /\ t[i-1] = "r"
    <3>1. b[(k + i) - 1] = "r"
      BY <1>3, <1>4, <1>6, <2>1
    <3>2. CASE i = 1
      <4>1. (k + i) - 1 = k
        BY <1>3, <3>2
      <4>2. QED BY <1>3, <3>1, <4>1
    <3>3. CASE i # 1
      <4>1. i > 1 /\ i - 1 \in 1..Len(t) /\ k + (i - 1) = (k + i) - 1
        BY <1>1, <1>3, <3>3
      <4>2. QED BY <1>3, <3>1, <4>1
    <3>4. QED BY <3>2, <3>3
  <2>2. ASSUME NEW i \in 1..Len(t), t[i] = "r" PROVE i < Len(t) /\ t[i+1] = "n"
    <3>1. k + i < n /\ b[(k + i) + 1] = "n"
      BY <1>3, <1>4, <1>6, <2>2
    <3>2. i < Len(t) /\ i + 1 \in 1..Len(t) /\ k + (i + 1) = (k + i) + 1
      BY <1>1, <1>3, <3>1
    <3>3. QED BY <1>3, <3>1, <3>2
  <2>3. OneWay(t)
    BY <2>1, <2>2 DEF OneWay
  <2>4. QED BY <2>3 DEF t
<1>7. QED BY <1>5, <1>6 DEF OneWay

\* The places of a set of numbers are counted up from its least.
NotAbove(A, c) == {b \in A : b <= c}
Nth(A, c) == Cardinality(NotAbove(A, c))

\* Every rank up to the number of a set is that of one of its numbers.
LEMMA RanksAre ==
  ASSUME NEW n \in Nat, NEW A \in SUBSET (0..n)
  PROVE  /\ IsFiniteSet(A) /\ Cardinality(A) \in Nat
         /\ \A i \in 1..Cardinality(A) : \E c \in A : Nth(A, c) = i
         /\ \A c \in A : IsFiniteSet(NotAbove(A, c)) /\ Nth(A, c) \in Nat
<1> DEFINE K == Cardinality(A)
           D == {i \in 0..K : i = 0 \/ \E c \in A : Nth(A, c) = i}
<1>1. IsFiniteSet(A) /\ K \in Nat
  <2>1. IsFiniteSet(0..n)
    BY FS_Interval
  <2>2. QED BY <2>1, FS_Subset, FS_CardinalityType
<1>2. \A c \in A : IsFiniteSet(NotAbove(A, c)) /\ Nth(A, c) \in Nat
  <2>1. \A c \in A : NotAbove(A, c) \in SUBSET A
    BY DEF NotAbove
  <2>2. QED BY <1>1, <2>1, FS_Subset, FS_CardinalityType DEF Nth
<1>3. A \in SUBSET Nat /\ \A x \in A : x \in Nat
  OBVIOUS
<1> HIDE DEF K
<1>4. 0 \in D
  BY <1>1
<1>5. ASSUME NEW i \in 1..K, i - 1 \in D PROVE i \in D
  <2>1. CASE i = 1
    <3>1. A # {}
      BY <1>1, FS_EmptySet DEF K
    <3>2. Min(A) \in A /\ \A k \in A : Min(A) <= k
      BY <1>3, <3>1, LeastIs
    <3>3. NotAbove(A, Min(A)) = {Min(A)}
      <4> DEFINE m == Min(A)
      <4>1. m \in A /\ m \in Nat /\ \A k \in A : m <= k /\ k \in Nat
        BY <1>3, <3>2
      <4> HIDE DEF m
      <4>2. \A k \in A : k <= m <=> k = m
        BY <4>1
      <4>3. NotAbove(A, m) = {m}
        BY <4>1, <4>2, Zenon DEF NotAbove
      <4>4. QED BY <4>3 DEF m
    <3>4. Nth(A, Min(A)) = 1
      BY <3>3, FS_Singleton DEF Nth
    <3>5. i \in 0..K
      BY <1>1
    <3>6. QED BY <2>1, <3>2, <3>4, <3>5
  <2>2. CASE i # 1
    <3>1. PICK c \in A : Nth(A, c) = i - 1
      BY <1>5, <2>2
    <3> DEFINE B == {b \in A : b > c}
               m == Min(B)
    <3>2. B # {}
      <4> SUFFICES ASSUME B = {} PROVE FALSE
        OBVIOUS
      <4>1. NotAbove(A, c) = A
        <5>1. \A k \in A : ~(k > c)
          OBVIOUS
        <5>2. c \in Nat
          BY <1>3
        <5>3. \A k \in A : k <= c
          BY <1>3, <5>1, <5>2
        <5>4. QED BY <5>3, Zenon DEF NotAbove
      <4>2. K = i - 1
        BY <3>1, <4>1 DEF Nth, K
      <4>3. QED BY <1>1, <4>2
    <3>3. B \in SUBSET Nat
      BY <1>3
    <3>4. m \in B /\ \A k \in B : m <= k
      BY <3>2, <3>3, LeastIs
    <3> HIDE DEF m
    <3>5. m \in A /\ m > c /\ m \in Nat /\ c \in Nat
      BY <1>3, <3>4
    <3>6. NotAbove(A, m) = NotAbove(A, c) \cup {m} /\ m \notin NotAbove(A, c)
      <4>1. \A k \in A : k <= m <=> k <= c \/ k = m
        BY <1>3, <3>4, <3>5
      <4>2. ~(m <= c)
        BY <3>5
      <4>3. QED BY <3>5, <4>1, <4>2, Zenon DEF NotAbove
    <3>7. Nth(A, m) = Nth(A, c) + 1
      BY <1>2, <3>6, FS_AddElement DEF Nth
    <3>8. Nth(A, m) = i /\ i \in 0..K
      BY <1>1, <3>1, <3>7
    <3>9. QED BY <3>5, <3>8
  <2>3. QED BY <2>1, <2>2
<1> HIDE DEF D
<1>6. 0..K \subseteq D
  BY <1>1, <1>4, <1>5, Induction
<1>7. ASSUME NEW i \in 1..K PROVE \E c \in A : Nth(A, c) = i
  <2>1. i \in 0..K /\ i # 0
    BY <1>1
  <2>2. QED BY <1>6, <2>1 DEF D
<1>8. QED BY <1>1, <1>2, <1>7 DEF K

\* Two sequences joined.
LEMMA ConcatIs ==
  ASSUME NEW X, NEW b \in Seq(X), NEW r \in Seq(X)
  PROVE  /\ b \o r \in Seq(X) /\ Len(b \o r) = Len(b) + Len(r)
         /\ \A k \in 1..Len(b) : (b \o r)[k] = b[k]
         /\ \A k \in 1..Len(r) : (b \o r)[Len(b) + k] = r[k]
  OBVIOUS

\* The rest of a stream is the next piece and the rest of that.
Parted(s, b, i, j, X) ==
  /\ SubSeq(s, i + 1, j) \in Seq(X) /\ SubSeq(s, j + 1, Len(s)) \in Seq(X)
  /\ b \o SubSeq(s, i + 1, Len(s)) = (b \o SubSeq(s, i + 1, j)) \o SubSeq(s, j + 1, Len(s))

\* Whatever comes before it.
LEMMA RestIs ==
  ASSUME NEW X, NEW s \in Seq(X), NEW b \in Seq(X), NEW i \in 0..Len(s), NEW j \in i..Len(s)
  PROVE  Parted(s, b, i, j, X)
<1> DEFINE n == Len(s)
           p == SubSeq(s, i + 1, j)
           q == SubSeq(s, j + 1, n)
           r == SubSeq(s, i + 1, n)
<1>1. n \in Nat /\ i \in Nat /\ j \in Nat /\ i <= j /\ j <= n
  OBVIOUS
<1>2. /\ p \in Seq(X) /\ Len(p) = j - i /\ \A k \in 1..Len(p) : p[k] = s[i + k]
      /\ q \in Seq(X) /\ Len(q) = n - j /\ \A k \in 1..Len(q) : q[k] = s[j + k]
      /\ r \in Seq(X) /\ Len(r) = n - i /\ \A k \in 1..Len(r) : r[k] = s[i + k]
  <2> DEFINE a == i + 1
             c == j + 1
  <2>1. a \in Int /\ c \in Int /\ 1 <= a /\ a <= j + 1 /\ 1 <= c /\ c <= n + 1 /\ a <= n + 1
    BY <1>1
  <2> HIDE DEF a, c, n
  <2>2. /\ SubSeq(s, a, j) \in Seq(X) /\ Len(SubSeq(s, a, j)) = j - a + 1
        /\ \A k \in 1..j - a + 1 : SubSeq(s, a, j)[k] = s[a + k - 1]
    BY <1>1, <2>1, SubSeqProperties DEF n
  <2>3. /\ SubSeq(s, c, n) \in Seq(X) /\ Len(SubSeq(s, c, n)) = n - c + 1
        /\ \A k \in 1..n - c + 1 : SubSeq(s, c, n)[k] = s[c + k - 1]
    BY <1>1, <2>1, SubSeqProperties DEF n
  <2>4. /\ SubSeq(s, a, n) \in Seq(X) /\ Len(SubSeq(s, a, n)) = n - a + 1
        /\ \A k \in 1..n - a + 1 : SubSeq(s, a, n)[k] = s[a + k - 1]
    BY <1>1, <2>1, SubSeqProperties DEF n
  <2>5. /\ j - a + 1 = j - i /\ n - c + 1 = n - j /\ n - a + 1 = n - i
        /\ \A k \in Int : a + k - 1 = i + k /\ c + k - 1 = j + k
    BY <1>1 DEF a, c
  <2>6. /\ p \in Seq(X) /\ Len(p) = j - i /\ \A k \in 1..Len(p) : p[k] = s[i + k]
    BY <2>2, <2>5 DEF a
  <2>7. /\ q \in Seq(X) /\ Len(q) = n - j /\ \A k \in 1..Len(q) : q[k] = s[j + k]
    BY <2>3, <2>5 DEF c
  <2>8. /\ r \in Seq(X) /\ Len(r) = n - i /\ \A k \in 1..Len(r) : r[k] = s[i + k]
    BY <2>4, <2>5 DEF a
  <2>9. QED BY <2>6, <2>7, <2>8
<1> HIDE DEF p, q, r, n
<1>3. p \o q = r
  <2>1. Len(r) = Len(p) + Len(q)
    BY <1>1, <1>2
  <2>2. ASSUME NEW k \in 1..Len(p) PROVE r[k] = p[k]
    <3>1. k \in 1..Len(r)
      BY <1>1, <1>2
    <3>2. QED BY <1>2, <3>1
  <2>3. ASSUME NEW k \in 1..Len(q) PROVE r[Len(p) + k] = q[k]
    <3>1. Len(p) + k \in 1..Len(r) /\ i + (Len(p) + k) = j + k
      BY <1>1, <1>2
    <3>2. QED BY <1>2, <3>1
  <2>4. QED BY <1>2, <2>1, <2>2, <2>3, JoinedIs
<1>4. b \o r = (b \o p) \o q
  <2> DEFINE u == b \o r
             v == b \o p
  <2>1. /\ u \in Seq(X) /\ v \in Seq(X) /\ Len(v) = Len(b) + Len(p) /\ Len(u) = Len(b) + Len(r)
        /\ \A k \in 1..Len(b) : u[k] = b[k] /\ v[k] = b[k]
        /\ \A k \in 1..Len(r) : u[Len(b) + k] = r[k]
        /\ \A k \in 1..Len(p) : v[Len(b) + k] = p[k]
    <3>0. r \in Seq(X) /\ p \in Seq(X)
      BY <1>2
    <3>1. /\ u \in Seq(X) /\ Len(u) = Len(b) + Len(r) /\ \A k \in 1..Len(b) : u[k] = b[k]
          /\ \A k \in 1..Len(r) : u[Len(b) + k] = r[k]
      BY <3>0, ConcatIs
    <3>2. /\ v \in Seq(X) /\ Len(v) = Len(b) + Len(p) /\ \A k \in 1..Len(b) : v[k] = b[k]
          /\ \A k \in 1..Len(p) : v[Len(b) + k] = p[k]
      BY <3>0, ConcatIs
    <3> HIDE DEF u, v
    <3>3. QED BY <3>1, <3>2
  <2>2. Len(r) = Len(p) + Len(q) /\ Len(b) \in Nat /\ Len(p) \in Nat /\ Len(q) \in Nat
    BY <1>1, <1>2
  <2>3. \A k \in 1..Len(p) : r[k] = p[k]
    <3>1. \A k \in 1..Len(p) : k \in 1..Len(r)
      BY <2>2
    <3>2. QED BY <1>2, <3>1
  <2>4. \A k \in 1..Len(q) : r[Len(p) + k] = q[k]
    <3>1. \A k \in 1..Len(q) : Len(p) + k \in 1..Len(r) /\ i + (Len(p) + k) = j + k
      BY <1>1, <1>2, <2>2
    <3>2. QED BY <1>2, <3>1
  <2> HIDE DEF u, v
  <2>5. ASSUME NEW k \in 1..Len(v) PROVE u[k] = v[k]
    <3>1. CASE k <= Len(b)
      BY <2>1, <2>2, <3>1
    <3>2. CASE k > Len(b)
      <4> DEFINE h == k - Len(b)
      <4>1. h \in 1..Len(p) /\ h \in 1..Len(r) /\ k = Len(b) + h
        BY <2>1, <2>2, <3>2
      <4> HIDE DEF h
      <4>2. QED BY <2>1, <2>3, <4>1
    <3>3. QED BY <2>1, <2>2, <3>1, <3>2
  <2>6. ASSUME NEW k \in 1..Len(q) PROVE u[Len(v) + k] = q[k]
    <3>1. Len(v) + k = Len(b) + (Len(p) + k) /\ Len(p) + k \in 1..Len(r)
      BY <2>1, <2>2
    <3>2. QED BY <2>1, <2>4, <3>1
  <2>7. Len(u) = Len(v) + Len(q)
    BY <2>1, <2>2
  <2>8. v \o q = u
    BY <1>2, <2>1, <2>5, <2>6, <2>7, JoinedIs
  <2>9. QED BY <2>8 DEF u, v
<1>5. QED BY <1>2, <1>4 DEF Parted, p, q, r, n

\* What is kept of two sequences joined.
LEMMA KeptOfJoined ==
  ASSUME NEW X, NEW a \in Seq(X), NEW b \in Seq(X), NEW S
  PROVE  Kept(a \o b, S) = Kept(a, S) \o Kept(b, S)
<1> DEFINE n == Len(b)
           part(i) == SubSeq(b, 1, i)
           D == {i \in 0..n : Kept(a \o part(i), S) = Kept(a, S) \o Kept(part(i), S)}
<1>1. n \in Nat /\ \A i \in 1..n : b[i] \in X
  OBVIOUS
<1>2. \A i \in 0..n : part(i) \in Seq(X) /\ Len(part(i)) = i /\ \A j \in 1..i : part(i)[j] = b[j]
  BY <1>1
<1>3. part(0) = <<>> /\ part(n) = b
  OBVIOUS
<1>4. \A i \in 1..n : part(i) = Append(part(i-1), b[i])
  <2> SUFFICES ASSUME NEW i \in 1..n PROVE part(i) = Append(part(i-1), b[i])
    OBVIOUS
  <2> DEFINE u == part(i)
             v == part(i-1)
  <2>1. i \in 0..n /\ i - 1 \in 0..n
    BY <1>1
  <2>2. /\ u \in Seq(X) /\ Len(u) = i /\ \A j \in 1..i : u[j] = b[j]
        /\ v \in Seq(X) /\ Len(v) = i - 1 /\ \A j \in 1..i-1 : v[j] = b[j]
    BY <1>2, <2>1
  <2> HIDE DEF u, v
  <2> DEFINE w == Append(v, b[i])
  <2>3. w \in Seq(X) /\ Len(w) = i /\ \A j \in 1..i : w[j] = b[j]
    BY <1>1, <2>2
  <2> HIDE DEF w
  <2>4. u = w
    BY <2>2, <2>3, SeqEqual
  <2>5. QED BY <2>4 DEF u, v, w
<1> HIDE DEF part
<1>5. Kept(<<>>, S) = <<>> /\ \A s \in Seq(X), x \in X :
        Kept(Append(s, x), S) = IF x \in S THEN Append(Kept(s, S), x) ELSE Kept(s, S)
  BY KeptOfAppend
<1>6. \A s \in Seq(X) : Kept(s, S) \in Seq(X)
  BY KeptIs
<1>7. 0 \in D
  <2>1. Kept(a, S) \o <<>> = Kept(a, S) /\ a \o <<>> = a
    BY <1>6
  <2>2. Kept(part(0), S) = <<>>
    BY <1>3, <1>5
  <2>3. Kept(a \o part(0), S) = Kept(a, S) \o Kept(part(0), S)
    BY <1>3, <2>1, <2>2
  <2>4. 0 \in 0..n
    BY <1>1
  <2> HIDE DEF n
  <2>5. QED BY <2>3, <2>4
<1>8. ASSUME NEW i \in 1..n, i - 1 \in D PROVE i \in D
  <2> DEFINE v == part(i-1)
             x == b[i]
             k == Kept(a, S)
             l == Kept(v, S)
  <2>a. i - 1 \in 0..n /\ i \in 0..n
    BY <1>1
  <2>b. v \in Seq(X)
    BY <1>2, <2>a
  <2>c. x \in X
    BY <1>1
  <2>d. part(i) = Append(v, x)
    BY <1>4
  <2> HIDE DEF v, x
  <2>1. i - 1 \in 0..n /\ v \in Seq(X) /\ x \in X /\ part(i) = Append(v, x) /\ i \in 0..n
    BY <2>a, <2>b, <2>c, <2>d
  <2> USE DEF v, x
  <2>2. Kept(a \o v, S) = k \o l /\ k \in Seq(X) /\ l \in Seq(X) /\ a \o v \in Seq(X)
    BY <1>6, <1>8, <2>1
  <2> HIDE DEF v, x
  <2>3. a \o Append(v, x) = Append(a \o v, x)
    BY <2>1
  <2>4. Kept(Append(v, x), S) = IF x \in S THEN Append(l, x) ELSE l
    BY <1>5, <2>1
  <2>5. Kept(Append(a \o v, x), S) = IF x \in S THEN Append(k \o l, x) ELSE k \o l
    BY <1>5, <2>1, <2>2
  <2> HIDE DEF k, l
  <2>6. k \o Append(l, x) = Append(k \o l, x)
    BY <2>1, <2>2
  <2>7. Kept(a \o part(i), S) = k \o Kept(part(i), S)
    BY <2>1, <2>3, <2>4, <2>5, <2>6
  <2>8. QED BY <2>1, <2>7 DEF k
<1> HIDE DEF D
<1>9. 0..n \subseteq D
  BY <1>1, <1>7, <1>8, Induction
<1>10. n \in D
  BY <1>1, <1>9
<1>11. QED BY <1>3, <1>10 DEF D

\* A frame without an empty line gives an event without one.
Clean(s) ==
  /\ NN(s) = {} /\ RNRN(s) = {}
  /\ \/ \A i \in 1..Len(s) : s[i] # "r"
     \/ \A i \in 1..Len(s) : /\ s[i] = "n" => i > 1 /\ s[i-1] = "r"
                             /\ s[i] = "r" => i = Len(s) \/ s[i+1] = "n"

\* The first frame of a buffer, and all of one that is not split, are such frames.
LEMMA FramesAreClean ==
  ASSUME NEW X, NEW b \in Seq(X), OneWay(b)
  PROVE  IF NoSep(b) THEN Clean(b) ELSE Clean(FrameOf(b))
<1> DEFINE n == Len(b)
<1>1. n \in Nat
  OBVIOUS
<1>2. CASE NoSep(b)
  <2>1. NN(b) = {} /\ RNRN(b) = {}
    BY <1>2 DEF NoSep
  <2>2. \/ \A i \in 1..n : b[i] # "r"
        \/ \A i \in 1..n : /\ b[i] = "n" => i > 1 /\ b[i-1] = "r"
                           /\ b[i] = "r" => i = n \/ b[i+1] = "n"
    BY DEF OneWay
  <2>3. Clean(b)
    BY <2>1, <2>2 DEF Clean
  <2>4. QED BY <1>2, <2>3
<1>3. CASE ~NoSep(b)
  <2> DEFINE f == FrameOf(b)
             p == Sep(b)
             w == Wide(b)
  <2>1. IsSplit(b, p, w, f, RestOf(b), X)
    BY <1>3, SplitIs
  <2> HIDE DEF f, p, w
  <2>2. /\ p \in 1..n /\ w \in {2, 4} /\ p + w - 1 <= n
        /\ f \in Seq(X) /\ Len(f) = p - 1 /\ \A i \in 1..p - 1 : f[i] = b[i] /\ i \in 1..n
    BY <1>1, <2>1 DEF IsSplit
  <2>3. ASSUME NEW i \in NN(f) PROVE FALSE
    <3>1. i \in 1..p - 2 /\ f[i] = "n" /\ f[i+1] = "n"
      BY <2>2 DEF NN
    <3>2. i \in 1..p - 1 /\ i + 1 \in 1..p - 1 /\ i \in 1..n - 1 /\ i < p
      BY <1>1, <2>2, <3>1
    <3>3. i \in NN(b)
      BY <2>2, <3>1, <3>2 DEF NN
    <3>4. i >= p
      BY <2>1, <3>3 DEF IsSplit
    <3>5. QED BY <2>2, <3>2, <3>4
  <2>4. ASSUME NEW i \in RNRN(f) PROVE FALSE
    <3>1. i \in 1..p - 4 /\ f[i] = "r" /\ f[i+1] = "n" /\ f[i+2] = "r" /\ f[i+3] = "n"
      BY <2>2 DEF RNRN
    <3>2. /\ i \in 1..p - 1 /\ i + 1 \in 1..p - 1 /\ i + 2 \in 1..p - 1 /\ i + 3 \in 1..p - 1
          /\ i \in 1..n - 3 /\ i < p
      BY <1>1, <2>2, <3>1
    <3>3. i \in RNRN(b) /\ b[i] = "r" /\ i \in 1..n
      BY <2>2, <3>1, <3>2 DEF RNRN
    <3>4. CASE w = 4
      <4>1. i >= p
        BY <2>1, <3>3, <3>4 DEF IsSplit
      <4>2. QED BY <2>2, <3>2, <4>1
    <3>5. CASE w = 2
      <4>1. b[p] = "n" /\ b[p+1] = "n" /\ p + 1 \in 1..n
        BY <2>1, <2>2, <3>5 DEF IsSplit
      <4>2. \A k \in 1..n : b[k] = "n" => k > 1 /\ b[k-1] = "r"
        BY <3>3 DEF OneWay
      <4>3. b[(p + 1) - 1] = "r" /\ (p + 1) - 1 = p
        BY <2>2, <4>1, <4>2
      <4>4. QED BY <4>1, <4>3
    <3>6. QED BY <2>2, <3>4, <3>5
  <2>5. \/ \A i \in 1..Len(f) : f[i] # "r"
        \/ \A i \in 1..Len(f) : /\ f[i] = "n" => i > 1 /\ f[i-1] = "r"
                                /\ f[i] = "r" => i = Len(f) \/ f[i+1] = "n"
    <3>1. CASE \A i \in 1..n : b[i] # "r"
      BY <2>2, <3>1
    <3>2. CASE \A i \in 1..n : /\ b[i] = "n" => i > 1 /\ b[i-1] = "r"
                               /\ b[i] = "r" => i < n /\ b[i+1] = "n"
      <4>1. ASSUME NEW i \in 1..Len(f), f[i] = "n" PROVE i > 1 /\ f[i-1] = "r"
        <5>1. i \in 1..n /\ b[i] = "n" /\ i \in 1..p - 1
          BY <2>2, <4>1
        <5>2. i > 1 /\ b[i-1] = "r"
          BY <3>2, <5>1
        <5>3. i - 1 \in 1..p - 1
          BY <2>2, <5>1, <5>2
        <5>4. QED BY <2>2, <5>2, <5>3
      <4>2. ASSUME NEW i \in 1..Len(f), f[i] = "r", i # Len(f) PROVE f[i+1] = "n"
        <5>1. i \in 1..n /\ b[i] = "r" /\ i + 1 \in 1..p - 1
          BY <2>2, <4>2
        <5>2. b[i+1] = "n"
          BY <3>2, <5>1
        <5>3. QED BY <2>2, <5>1, <5>2
      <4>3. QED BY <4>1, <4>2
    <3>3. QED BY <3>1, <3>2 DEF OneWay
  <2>6. Clean(f)
    BY <2>3, <2>4, <2>5 DEF Clean
  <2>7. QED BY <1>3, <2>6 DEF f
<1>4. QED BY <1>2, <1>3

\* The windows of a text of more characters than the target begin a stride apart.
IsStarts(st, N, L, t, q) ==
  /\ N \in Nat \ {0} /\ st \in [1..N -> Nat] /\ st[1] = 0
  /\ \A w \in 1..N : st[w] = (w - 1) * q /\ st[w] <= L - t + q - 1 /\ st[w] < L
  /\ \A v, w \in 1..N : v <= w => st[v] <= st[w]
  /\ st[N] + t >= L
  /\ \A u \in 0..L-1 : \E w \in 1..N : st[w] <= u /\ u < st[w] + t

\* The windows begin where they should.
LEMMA WindowStarts ==
  ASSUME NEW L \in Nat, NEW t \in Nat, NEW q \in 1..t, L > t
  PROVE  IsStarts([w \in 1..((L - t + q - 1) \div q + 1) |-> (w - 1) * q],
                  (L - t + q - 1) \div q + 1, L, t, q)
<1> DEFINE m == L - t + q - 1
           d == m \div q
           N == d + 1
           st == [w \in 1..N |-> (w - 1) * q]
<1>1. m \in Nat /\ m >= q /\ q \in Nat \ {0} /\ q <= t
  OBVIOUS
<1>2. d \in Nat /\ d * q <= m /\ m < d * q + q
  <2> HIDE DEF m
  <2>1. d \in Nat
    BY <1>1
  <2>2. q * d <= m /\ m < q * d + q
    BY <1>1
  <2>3. QED BY <1>1, <2>1, <2>2
<1> HIDE DEF d
<1>3. \A v, w \in Nat : v <= w => v * q <= w * q
  BY <1>1
<1>4. ASSUME NEW w \in 1..N
      PROVE  st[w] = (w - 1) * q /\ st[w] \in Nat /\ st[w] <= m /\ st[w] < L
  <2>1. st[w] = (w - 1) * q /\ w - 1 \in Nat /\ w - 1 <= d
    BY <1>2
  <2>2. (w - 1) * q \in Nat /\ (w - 1) * q <= d * q
    BY <1>1, <1>2, <1>3, <2>1
  <2> DEFINE x == (w - 1) * q
             y == d * q
  <2>3. y \in Nat
    BY <1>1, <1>2
  <2> HIDE DEF x, y
  <2>4. x <= m /\ x < L
    BY <1>1, <1>2, <2>2, <2>3 DEF x, y
  <2>5. QED BY <2>1, <2>2, <2>4 DEF x
<1>5. N \in Nat \ {0} /\ st \in [1..N -> Nat] /\ st[1] = 0
  <2>1. st \in [1..N -> Nat]
    BY <1>4
  <2>2. 1 \in 1..N /\ N \in Nat \ {0}
    BY <1>2
  <2>3. 0 * q = 0
    BY <1>1
  <2>4. QED BY <2>1, <2>2, <2>3
<1>6. ASSUME NEW v \in 1..N, NEW w \in 1..N, v <= w PROVE st[v] <= st[w]
  <2>1. v - 1 \in Nat /\ w - 1 \in Nat /\ v - 1 <= w - 1
    BY <1>2, <1>6
  <2>2. QED BY <1>3, <1>4, <2>1
<1>7. st[N] + t >= L
  <2>1. N \in 1..N /\ N - 1 = d
    BY <1>2
  <2>2. st[N] = d * q
    BY <1>4, <2>1
  <2> DEFINE y == d * q
  <2>3. y \in Nat /\ m < y + q
    BY <1>1, <1>2
  <2> HIDE DEF y
  <2>4. QED BY <1>1, <2>2, <2>3 DEF y
<1>8. ASSUME NEW u \in 0..L-1 PROVE \E w \in 1..N : st[w] <= u /\ u < st[w] + t
  <2> DEFINE D == {v \in 0..N : (\E w \in 1..v : w \in 1..N /\ st[w] <= u /\ u < st[w] + t)
                                \/ (v < N => u >= st[v+1])}
  <2>1. 0 \in D
    BY <1>2, <1>5
  <2>2. ASSUME NEW v \in 1..N, v - 1 \in D PROVE v \in D
    <3>1. CASE \E w \in 1..v-1 : w \in 1..N /\ st[w] <= u /\ u < st[w] + t
      <4>1. v \in 0..N /\ \A w \in 1..v-1 : w \in 1..v
        BY <1>5
      <4> HIDE DEF st, N
      <4>2. \E w \in 1..v : w \in 1..N /\ st[w] <= u /\ u < st[w] + t
        BY <3>1, <4>1
      <4>3. QED BY <4>1, <4>2
    <3>2. CASE u >= st[v]
      <4>1. CASE u < st[v] + t
        BY <1>2, <3>2, <4>1
      <4>2. CASE ~(u < st[v] + t) /\ v < N
        <5>1. v + 1 \in 1..N /\ (v + 1) - 1 = v /\ v - 1 \in Nat
          BY <1>2, <4>2
        <5>2. st[v+1] = v * q /\ st[v] = (v - 1) * q
          BY <1>4, <5>1
        <5>3. v * q = (v - 1) * q + q
          BY <1>1, <5>1
        <5>4. st[v+1] <= u
          BY <1>1, <1>4, <4>2, <5>1, <5>2, <5>3
        <5>5. QED BY <1>2, <5>4
      <4>3. CASE ~(v < N)
        BY <1>2, <4>3
      <4>4. QED BY <4>1, <4>2, <4>3
    <3>3. v - 1 < N /\ (v - 1) + 1 = v
      BY <1>2
    <3>4. (\E w \in 1..v-1 : w \in 1..N /\ st[w] <= u /\ u < st[w] + t)
          \/ (v - 1 < N => u >= st[(v - 1) + 1])
      BY <2>2
    <3>5. (\E w \in 1..v-1 : w \in 1..N /\ st[w] <= u /\ u < st[w] + t) \/ u >= st[v]
      BY <3>3, <3>4
    <3>6. QED BY <3>1, <3>2, <3>5
  <2> HIDE DEF D
  <2>3. 0..N \subseteq D
    BY <1>5, <2>1, <2>2, Induction
  <2>4. N - 1 \in D /\ N \in 1..N /\ N - 1 < N /\ (N - 1) + 1 = N
    BY <1>2, <2>3
  <2>5. CASE u >= st[N]
    BY <1>4, <1>7, <2>4, <2>5
  <2>6. CASE \E w \in 1..N-1 : w \in 1..N /\ st[w] <= u /\ u < st[w] + t
    BY <2>6
  <2>7. QED BY <2>4, <2>5, <2>6 DEF D
<1> HIDE DEF st, N
<1>9. IsStarts(st, N, L, t, q)
  BY <1>4, <1>5, <1>6, <1>7, <1>8 DEF IsStarts, m
<1>10. QED BY <1>9 DEF st, N, d, m

\* Of a paragraph: one sentence or more, none of them empty.
AnyChunkable ==
  {g \in [lengths : Seq(Nat \ {0}), target : Nat \ {0}, overlap : Nat] : g.lengths # <<>>}
Char == Nat \X Nat
Gap == <<0, 0>>

\* Where each sentence ends, and what is there up to the end of one of them.
EndsAt(c, n, g) ==
  /\ n = Len(g.lengths) /\ n \in Nat \ {0} /\ c \in [0..n -> Nat] /\ c[0] = 0
  /\ \A i \in 1..n : c[i] = c[i-1] + (IF i = 1 THEN 0 ELSE 1) + g.lengths[i]
  /\ \A i \in 1..n : g.lengths[i] \in Nat /\ g.lengths[i] >= 1
  /\ \A i, j \in 0..n : i <= j => c[i] <= c[j]
TextIs(t, c, i, g) ==
  /\ t \in Seq(Char) /\ Len(t) = c[i]
  /\ \A j \in 1..i : \A k \in 1..g.lengths[j] : t[c[j] - g.lengths[j] + k] = <<j, k>>
  /\ \A j \in 2..i : t[c[j-1] + 1] = Gap
IsText(t, c, n, g) == EndsAt(c, n, g) /\ TextIs(t, c, n, g)

\* A place of the text lies in one of its sentences.
InBlock(W, c, p, j) == c[j-1] < p /\ p <= c[j] /\ (W[p] = Gap \/ W[p][1] = j)

\* Every place of the text is in the block of one sentence.
LEMMA BlockIs ==
  ASSUME NEW g \in AnyChunkable, NEW W, NEW c, NEW n, IsText(W, c, n, g), NEW p \in 1..Len(W)
  PROVE  \E j \in 1..n : InBlock(W, c, p, j)
<1> DEFINE D == {i \in 0..n : \A r \in 1..c[i] : \E j \in 1..i : InBlock(W, c, r, j)}
<1>1. n \in Nat \ {0} /\ c \in [0..n -> Nat] /\ c[0] = 0
  BY DEF IsText, EndsAt
<1>2. 0 \in D
  BY <1>1
<1>3. ASSUME NEW i \in 1..n, i - 1 \in D PROVE i \in D
  <2>1. i \in 0..n /\ i - 1 \in 0..n /\ c[i] \in Nat /\ c[i-1] \in Nat
    BY <1>1
  <2>2. c[i] = c[i-1] + (IF i = 1 THEN 0 ELSE 1) + g.lengths[i] /\ g.lengths[i] \in Nat
    BY DEF IsText, EndsAt
  <2>3. ASSUME NEW r \in 1..c[i] PROVE \E j \in 1..i : InBlock(W, c, r, j)
    <3>1. CASE r <= c[i-1]
      <4>1. r \in 1..c[i-1]
        BY <2>1, <3>1
      <4>2. PICK j \in 1..i-1 : InBlock(W, c, r, j)
        BY <1>3, <4>1
      <4>3. j \in 1..i
        OBVIOUS
      <4>4. QED BY <4>2, <4>3
    <3>2. CASE r > c[i-1]
      <4>1. W[r] = Gap \/ W[r][1] = i
        <5>1. CASE r = c[i-1] + 1 /\ i # 1
          <6>1. i \in 2..n
            BY <1>1, <5>1
          <6>2. W[c[i-1] + 1] = Gap
            BY <6>1 DEF IsText, TextIs
          <6>3. QED BY <5>1, <6>2
        <5>2. CASE ~(r = c[i-1] + 1 /\ i # 1)
          <6> DEFINE l == g.lengths[i]
                     k == r - (c[i] - l)
          <6>1. k \in 1..l /\ c[i] - l + k = r
            <7> DEFINE x == c[i-1]
                       y == c[i]
            <7>1. y = x + (IF i = 1 THEN 0 ELSE 1) + l /\ l \in Nat /\ x \in Nat /\ y \in Nat
              BY <2>1, <2>2
            <7>2. r \in 1..y /\ r > x /\ ~(r = x + 1 /\ i # 1)
              BY <3>2, <5>2
            <7>3. k = r - (y - l)
              OBVIOUS
            <7> HIDE DEF k, l, x, y
            <7>4. k \in 1..l /\ y - l + k = r
              <8>1. CASE i = 1
                BY <7>1, <7>2, <7>3, <8>1
              <8>2. CASE i # 1
                BY <7>1, <7>2, <7>3, <8>2
              <8>3. QED BY <8>1, <8>2
            <7>5. QED BY <7>4 DEF y
          <6>2. \A m \in 1..l : W[c[i] - l + m] = <<i, m>>
            BY DEF IsText, TextIs
          <6> HIDE DEF k, l
          <6>3. W[r] = <<i, k>>
            BY <6>1, <6>2
          <6>4. QED BY <6>3
        <5>3. QED BY <5>1, <5>2
      <4>2. InBlock(W, c, r, i)
        BY <2>1, <3>2, <4>1 DEF InBlock
      <4>3. QED BY <1>1, <4>2
    <3>3. QED BY <2>1, <3>1, <3>2
  <2>4. QED BY <2>1, <2>3
<1> HIDE DEF D
<1>4. 0..n \subseteq D
  <2>1. n \in Nat
    BY <1>1
  <2>2. QED BY <1>2, <1>3, <2>1, Induction
<1>5. n \in D /\ Len(W) = c[n]
  BY <1>1, <1>4 DEF IsText, TextIs
<1>6. QED BY <1>5 DEF D

\* A sentence that comes first stands before.
LEMMA TextInTurn ==
  ASSUME NEW g \in AnyChunkable, NEW W, NEW c, NEW n, IsText(W, c, n, g),
         NEW p \in 1..Len(W), NEW q \in 1..Len(W), NEW i \in 1..n, NEW k \in 1..n,
         W[p][1] = i, W[q][1] = k, W[p] # Gap, W[q] # Gap, i < k
  PROVE  p < q
<1>1. PICK a \in 1..n : InBlock(W, c, p, a)
  BY BlockIs
<1>2. PICK b \in 1..n : InBlock(W, c, q, b)
  BY BlockIs
<1>3. a = i /\ b = k
  BY <1>1, <1>2 DEF InBlock
<1>4. n \in Nat /\ c \in [0..n -> Nat] /\ \A x, y \in 0..n : x <= y => c[x] <= c[y]
  BY DEF IsText, EndsAt
<1>5. i \in 0..n /\ k - 1 \in 0..n /\ i <= k - 1
  BY <1>4
<1>6. c[i] <= c[k-1] /\ c[i] \in Nat /\ c[k-1] \in Nat
  BY <1>4, <1>5
<1>7. p <= c[i] /\ c[k-1] < q
  BY <1>1, <1>2, <1>3 DEF InBlock
<1>8. p \in Int /\ q \in Int
  OBVIOUS
<1>9. QED BY <1>6, <1>7, <1>8

\* What is in a part is what is between two places of the text, but for spaces.
Spans(x, W, l, h) ==
  /\ l \in Nat /\ h \in Nat /\ 1 <= l /\ h <= Len(W)
  /\ \A a : a # Gap => (a \in Elements(x) <=> \E p \in l..h : W[p] = a)

\* A cut of the text.
LEMMA CutIs ==
  ASSUME NEW X, NEW W \in Seq(X), NEW lo \in Nat, NEW hi \in Nat, 1 <= lo, lo <= hi, hi <= Len(W)
  PROVE  /\ SubSeq(W, lo, hi) \in Seq(X) /\ Len(SubSeq(W, lo, hi)) = hi - lo + 1
         /\ \A k \in 1..hi - lo + 1 : SubSeq(W, lo, hi)[k] = W[lo + k - 1]
         /\ Spans(SubSeq(W, lo, hi), W, lo, hi)
<1> DEFINE x == SubSeq(W, lo, hi)
           L == hi - lo + 1
<1>1. x \in Seq(X) /\ Len(x) = L /\ \A k \in 1..L : x[k] = W[lo + k - 1]
  BY SubSeqProperties
<1> HIDE DEF x
<1>2. DOMAIN x = 1..L
  BY <1>1
<1>3. ASSUME NEW a PROVE a \in Elements(x) <=> \E p \in lo..hi : W[p] = a
  <2>1. ASSUME a \in Elements(x) PROVE \E p \in lo..hi : W[p] = a
    <3>1. PICK k \in 1..L : a = x[k]
      BY <1>2, <2>1 DEF Elements
    <3>2. lo + k - 1 \in lo..hi
      OBVIOUS
    <3>3. QED BY <1>1, <3>1, <3>2
  <2>2. ASSUME NEW p \in lo..hi, W[p] = a PROVE a \in Elements(x)
    <3> DEFINE k == p - lo + 1
    <3>1. k \in 1..L /\ lo + k - 1 = p
      OBVIOUS
    <3> HIDE DEF k, L
    <3>2. x[k] = a
      BY <1>1, <2>2, <3>1
    <3>3. QED BY <1>2, <3>1, <3>2 DEF Elements
  <2>3. QED BY <2>1, <2>2
<1>4. QED BY <1>1, <1>3 DEF Spans, x

\* A cut of a cut of the text.
LEMMA CutOfCut ==
  ASSUME NEW X, NEW W \in Seq(X), NEW lo \in Nat, NEW hi \in Nat, 1 <= lo, lo <= hi, hi <= Len(W),
         NEW b \in Nat, NEW e \in Nat, 1 <= b, b <= e, e <= hi - lo + 1
  PROVE  LET r == SubSeq(SubSeq(W, lo, hi), b, e)
         IN /\ r \in Seq(X) /\ Len(r) = e - b + 1 /\ Spans(r, W, lo + b - 1, lo + e - 1)
            /\ r = SubSeq(W, lo + b - 1, lo + e - 1)
<1> DEFINE s == SubSeq(W, lo, hi)
           r == SubSeq(s, b, e)
           l == lo + b - 1
           h == lo + e - 1
           u == SubSeq(W, l, h)
<1>1. s \in Seq(X) /\ Len(s) = hi - lo + 1 /\ \A k \in 1..hi - lo + 1 : s[k] = W[lo + k - 1]
  BY CutIs
<1> HIDE DEF s
<1>2. /\ r \in Seq(X) /\ Len(r) = e - b + 1
      /\ \A k \in 1..e - b + 1 : r[k] = s[b + k - 1]
  <2>1. e <= Len(s)
    BY <1>1
  <2>2. s \in Seq(X)
    BY <1>1
  <2>3. QED BY <2>1, <2>2, CutIs
<1>3. l \in Nat /\ h \in Nat /\ 1 <= l /\ l <= h /\ h <= Len(W) /\ h - l + 1 = e - b + 1
  OBVIOUS
<1> HIDE DEF l, h, r
<1>4. /\ u \in Seq(X) /\ Len(u) = h - l + 1 /\ Spans(u, W, l, h)
      /\ \A k \in 1..h - l + 1 : u[k] = W[l + k - 1]
  BY <1>3, CutIs
<1> HIDE DEF u
<1>5. \A k \in 1..e - b + 1 : r[k] = u[k]
  <2> SUFFICES ASSUME NEW k \in 1..e - b + 1 PROVE r[k] = u[k]
    OBVIOUS
  <2>1. b + k - 1 \in 1..hi - lo + 1 /\ lo + (b + k - 1) - 1 = l + k - 1
    BY DEF l
  <2>2. k \in 1..h - l + 1
    BY <1>3
  <2>3. QED BY <1>1, <1>2, <1>4, <2>1, <2>2
<1>6. r = u
  <2>1. Len(r) = Len(u) /\ \A k \in 1..Len(r) : r[k] = u[k]
    BY <1>2, <1>3, <1>4, <1>5
  <2>2. r \in Seq(X) /\ u \in Seq(X)
    BY <1>2, <1>4
  <2>3. QED BY <2>1, <2>2, SeqEqual
<1>7. QED BY <1>2, <1>4, <1>6 DEF r, s, l, h, u

\* Parts in the order of the text.
InFront(x, y, W) ==
  \E l, h, m, k : Spans(x, W, l, h) /\ Spans(y, W, m, k) /\ l <= m /\ h <= k
PartsInTurn(a, W) == \A i, j \in 1..Len(a) : i < j => InFront(a[i], a[j], W)

\* A part of what is between two places begins soon enough, for what is after it to
\* begin later, and does not end too soon.
Within(x, W, lo, hi, g) ==
  \E l, h : /\ Spans(x, W, l, h) /\ lo <= l /\ h <= hi
            /\ l <= lo \/ l <= hi - g.overlap + 1
            /\ h >= hi \/ h >= lo + g.target - 1
Bound(g) == g.target + Max({g.overlap, 1})
PartsOf(a, W, lo, hi, g) ==
  /\ a \in Seq(Seq(Char))
  /\ \A i \in 1..Len(a) : Len(a[i]) <= Bound(g)
  /\ \A p \in lo..hi : W[p] = Gap \/ \E i \in 1..Len(a) : W[p] \in Elements(a[i])
  /\ g.overlap <= g.target => PartsInTurn(a, W) /\ \A i \in 1..Len(a) : Within(a[i], W, lo, hi, g)

\* The windows of a text, those of spaces only included.
Stride(g) == Max({g.target - g.overlap, 1})

\* Bounds of a paragraph.
LEMMA BoundsAre ==
  ASSUME NEW g \in AnyChunkable
  PROVE  /\ g.target \in Nat \ {0} /\ g.overlap \in Nat
         /\ Bound(g) \in Nat /\ Bound(g) > g.target /\ Bound(g) >= g.target + g.overlap
         /\ Stride(g) \in 1..g.target
         /\ g.overlap < g.target => Stride(g) = g.target - g.overlap
         /\ g.overlap = g.target => Stride(g) = 1
<1>1. g.target \in Nat \ {0} /\ g.overlap \in Nat
  BY DEF AnyChunkable
<1> DEFINE t == g.target
           o == g.overlap
           m == Max({o, 1})
           q == Max({t - o, 1})
<1>2. m = IF o >= 1 THEN o ELSE 1
  <2> DEFINE u == 1
             v == o
  <2>1. u \in Int /\ v \in Int
    BY <1>1
  <2> HIDE DEF u, v
  <2>2. Max({v, u}) = IF v >= u THEN v ELSE u
    BY <2>1, OfTwo
  <2>3. QED BY <2>2 DEF u, v
<1>3. q = IF t - o >= 1 THEN t - o ELSE 1
  <2> DEFINE u == 1
             v == t - o
  <2>1. u \in Int /\ v \in Int
    BY <1>1
  <2> HIDE DEF u, v
  <2>2. Max({v, u}) = IF v >= u THEN v ELSE u
    BY <2>1, OfTwo
  <2>3. QED BY <2>2 DEF u, v
<1>4. Bound(g) = t + m /\ Stride(g) = q
  BY DEF Bound, Stride
<1> HIDE DEF m, q
<1>5. QED BY <1>1, <1>2, <1>3, <1>4

\* What begins and ends later is ahead.
LEMMA InFrontIs ==
  ASSUME NEW x, NEW y, NEW W, NEW l, NEW h, NEW m, NEW k, Spans(x, W, l, h), Spans(y, W, m, k),
         l <= m, h <= k
  PROVE  InFront(x, y, W)
  BY DEF InFront

\* Parts of the text up to a place, none of which begins after it or ends after another.
UpToThere(x, W, lo, h) == \E l, k : Spans(x, W, l, k) /\ l <= lo /\ k <= h
GoodParts(a, W, lo, h, g) ==
  /\ a \in Seq(Seq(Char))
  /\ \A i \in 1..Len(a) : Len(a[i]) <= Bound(g)
  /\ \A p \in 1..lo - 1 : W[p] = Gap \/ \E i \in 1..Len(a) : W[p] \in Elements(a[i])
  /\ g.overlap <= g.target =>
       PartsInTurn(a, W) /\ h <= lo + g.target - 1 /\ \A i \in 1..Len(a) : UpToThere(a[i], W, lo, h)

\* The next group of the text begins after the tail of the one before.
NextPlace(W, lo, hi, lo2, g) ==
  /\ lo2 \in Nat /\ lo <= lo2 /\ lo2 <= hi + 2 /\ hi - g.overlap + 1 <= lo2
  /\ lo2 = hi + 2 => W[hi + 1] = Gap
  /\ g.overlap <= g.target => hi <= lo2 + g.target - 1

\* The parts of what comes next are added to the good ones.
LEMMA PartsAreAdded ==
  ASSUME NEW g \in AnyChunkable, NEW W, NEW lo \in Nat, NEW h \in Nat, NEW hi \in Nat, NEW lo2,
         NEW a, NEW b, GoodParts(a, W, lo, h, g), PartsOf(b, W, lo, hi, g), h <= hi, 1 <= lo,
         NextPlace(W, lo, hi, lo2, g)
  PROVE  GoodParts(a \o b, W, lo2, hi, g)
<1> DEFINE c == a \o b
           t == g.target
           o == g.overlap
<1>1. a \in Seq(Seq(Char)) /\ b \in Seq(Seq(Char))
  BY DEF GoodParts, PartsOf
<1>2. /\ c \in Seq(Seq(Char)) /\ Len(c) = Len(a) + Len(b)
      /\ \A i \in 1..Len(c) : c[i] = IF i <= Len(a) THEN a[i] ELSE b[i - Len(a)]
  BY <1>1, JoinHolds
<1>3. Len(a) \in Nat /\ Len(b) \in Nat
  BY <1>1
<1> HIDE DEF c
<1>4. ASSUME NEW i \in 1..Len(c)
      PROVE  (i \in 1..Len(a) /\ c[i] = a[i]) \/ (i - Len(a) \in 1..Len(b) /\ c[i] = b[i - Len(a)])
  BY <1>2, <1>3
<1>5. (\A i \in 1..Len(a) : i \in 1..Len(c) /\ c[i] = a[i])
      /\ \A i \in 1..Len(b) : Len(a) + i \in 1..Len(c) /\ c[Len(a) + i] = b[i]
  <2>1. \A i \in 1..Len(a) : i \in 1..Len(c) /\ c[i] = a[i]
    BY <1>2, <1>3
  <2>2. ASSUME NEW i \in 1..Len(b) PROVE Len(a) + i \in 1..Len(c) /\ c[Len(a) + i] = b[i]
    <3> DEFINE j == Len(a) + i
    <3>1. j \in 1..Len(c) /\ ~(j <= Len(a)) /\ j - Len(a) = i
      BY <1>2, <1>3
    <3> HIDE DEF j
    <3>2. c[j] = b[i]
      BY <1>2, <3>1
    <3>3. QED BY <3>1, <3>2 DEF j
  <2>3. QED BY <2>1, <2>2
<1>6. \A i \in 1..Len(c) : Len(c[i]) <= Bound(g)
  BY <1>4 DEF GoodParts, PartsOf
<1>7. ASSUME NEW p \in 1..lo2 - 1 PROVE W[p] = Gap \/ \E i \in 1..Len(c) : W[p] \in Elements(c[i])
  <2>1. p \in 1..lo - 1 \/ p \in lo..hi \/ (p = hi + 1 /\ lo2 = hi + 2)
    BY DEF NextPlace
  <2>2. CASE p \in 1..lo - 1
    BY <1>5, <2>2 DEF GoodParts
  <2>3. CASE p \in lo..hi
    BY <1>5, <2>3 DEF PartsOf
  <2>4. CASE p = hi + 1 /\ lo2 = hi + 2
    BY <2>4 DEF NextPlace
  <2>5. QED BY <2>1, <2>2, <2>3, <2>4
<1>8. ASSUME o <= t PROVE PartsInTurn(c, W) /\ \A i \in 1..Len(c) : UpToThere(c[i], W, lo2, hi)
  <2>1. /\ PartsInTurn(a, W) /\ h <= lo + t - 1 /\ \A i \in 1..Len(a) : UpToThere(a[i], W, lo, h)
        /\ PartsInTurn(b, W) /\ \A i \in 1..Len(b) : Within(b[i], W, lo, hi, g)
    BY <1>8 DEF GoodParts, PartsOf
  <2>2. t \in Nat /\ o \in Nat
    BY BoundsAre
  <2>3. lo2 \in Nat /\ lo <= lo2 /\ hi - o + 1 <= lo2
    BY DEF NextPlace
  <2> HIDE DEF t, o
  <2>4. ASSUME NEW i \in 1..Len(a) PROVE UpToThere(a[i], W, lo2, hi)
    <3>1. PICK l, k : Spans(a[i], W, l, k) /\ l <= lo /\ k <= h
      BY <2>1 DEF UpToThere
    <3>2. l \in Nat /\ k \in Nat
      BY <3>1 DEF Spans
    <3>3. l <= lo2 /\ k <= hi
      BY <2>3, <3>1, <3>2
    <3>4. QED BY <3>1, <3>3 DEF UpToThere
  <2>5. ASSUME NEW i \in 1..Len(b) PROVE UpToThere(b[i], W, lo2, hi)
    <3>1. PICK l, k : /\ Spans(b[i], W, l, k) /\ lo <= l /\ k <= hi
                      /\ l <= lo \/ l <= hi - o + 1
      BY <2>1 DEF Within, o
    <3>2. l \in Nat /\ k \in Nat
      BY <3>1 DEF Spans
    <3>3. l <= lo2 /\ k <= hi
      BY <2>2, <2>3, <3>1, <3>2
    <3>4. QED BY <3>1, <3>3 DEF UpToThere
  <2>6. ASSUME NEW i \in 1..Len(a), NEW j \in 1..Len(b) PROVE InFront(a[i], b[j], W)
    <3>1. PICK l, k : Spans(a[i], W, l, k) /\ l <= lo /\ k <= h
      BY <2>1 DEF UpToThere
    <3>2. PICK m, r : /\ Spans(b[j], W, m, r) /\ lo <= m
                      /\ r >= hi \/ r >= lo + t - 1
      BY <2>1 DEF Within, t
    <3>3. l \in Nat /\ k \in Nat /\ m \in Nat /\ r \in Nat
      BY <3>1, <3>2 DEF Spans
    <3>4. l <= m /\ k <= r
      BY <2>1, <2>2, <3>1, <3>2, <3>3
    <3>5. QED BY <3>1, <3>2, <3>4, InFrontIs
  <2>7. ASSUME NEW i \in 1..Len(c), NEW j \in 1..Len(c), i < j PROVE InFront(c[i], c[j], W)
    <3>1. CASE i \in 1..Len(a) /\ j \in 1..Len(a)
      BY <1>5, <2>1, <2>7, <3>1 DEF PartsInTurn
    <3>2. CASE i \in 1..Len(a) /\ j \notin 1..Len(a)
      BY <1>4, <1>5, <2>6, <3>2
    <3>3. CASE i \notin 1..Len(a)
      <4>1. j \notin 1..Len(a) /\ i - Len(a) < j - Len(a)
        BY <1>3, <2>7, <3>3
      <4>2. /\ i - Len(a) \in 1..Len(b) /\ c[i] = b[i - Len(a)]
            /\ j - Len(a) \in 1..Len(b) /\ c[j] = b[j - Len(a)]
        BY <1>4, <3>3, <4>1
      <4>3. InFront(b[i - Len(a)], b[j - Len(a)], W)
        BY <2>1, <4>1, <4>2 DEF PartsInTurn
      <4>4. QED BY <4>2, <4>3
    <3>4. QED BY <3>1, <3>2, <3>3
  <2>8. \A i \in 1..Len(c) : UpToThere(c[i], W, lo2, hi)
    BY <1>4, <2>4, <2>5
  <2>9. QED BY <2>7, <2>8 DEF PartsInTurn
<1>9. GoodParts(c, W, lo2, hi, g)
  <2>1. o <= t => hi <= lo2 + t - 1
    BY DEF NextPlace
  <2>2. QED BY <1>2, <1>6, <1>7, <1>8, <2>1, Zenon DEF GoodParts, o, t
<1>10. QED BY <1>9 DEF c

\* The end of a sentence.
LEMMA EndIs ==
  ASSUME NEW g \in AnyChunkable, NEW W, NEW c, NEW n, IsText(W, c, n, g), NEW i \in 1..n
  PROVE  /\ n = Len(g.lengths) /\ n \in Nat \ {0} /\ i - 1 \in 0..n /\ i \in 0..n
         /\ c[i] \in Nat /\ c[i-1] \in Nat /\ g.lengths[i] \in Nat /\ g.lengths[i] >= 1
         /\ i # 1 => c[i] = c[i-1] + 1 + g.lengths[i]
         /\ i = 1 => c[i] = g.lengths[i] /\ c[i-1] = 0
         /\ c[i] <= Len(W) /\ Len(W) = c[n] /\ W \in Seq(Char)
<1>1. EndsAt(c, n, g) /\ TextIs(W, c, n, g)
  BY DEF IsText
<1>2. n = Len(g.lengths) /\ n \in Nat \ {0} /\ c \in [0..n -> Nat] /\ c[0] = 0
  BY <1>1 DEF EndsAt
<1>3. i - 1 \in 0..n /\ i \in 0..n /\ n \in 0..n /\ i <= n
  BY <1>2
<1>4. c[i] \in Nat /\ c[i-1] \in Nat
  BY <1>2, <1>3
<1>5. g.lengths[i] \in Nat /\ g.lengths[i] >= 1
  BY <1>1 DEF EndsAt
<1>6. c[i] = c[i-1] + (IF i = 1 THEN 0 ELSE 1) + g.lengths[i]
  BY <1>1, Zenon DEF EndsAt
<1>7. c[i] <= c[n]
  BY <1>1, <1>3, Zenon DEF EndsAt
<1>8. Len(W) = c[n] /\ W \in Seq(Char)
  BY <1>1, Zenon DEF TextIs
<1>9. i # 1 => c[i] = c[i-1] + 1 + g.lengths[i]
  BY <1>6
<1>10. i = 1 => c[i] = g.lengths[i] /\ c[i-1] = 0
  <2> SUFFICES ASSUME i = 1 PROVE c[i] = g.lengths[i] /\ c[i-1] = 0
    OBVIOUS
  <2>1. i - 1 = 0
    OBVIOUS
  <2>2. c[i-1] = 0
    BY <1>2, <2>1
  <2>3. c[i] = 0 + 0 + g.lengths[i]
    BY <1>6, <2>2
  <2>4. QED BY <1>5, <2>2, <2>3
<1>11. QED BY <1>2, <1>3, <1>4, <1>5, <1>7, <1>8, <1>9, <1>10
=============================================================================
