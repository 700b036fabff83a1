---------------------------- MODULE NaturalLemmas ----------------------------
(***************************************************************************)
(* Induction over indexes, as the least or the greatest member of a set of *)
(* naturals, and running sums.                                             *)
(***************************************************************************)
EXTENDS Integers, WellFoundedInduction, TLAPS

Less == {ss \in Nat \X Nat : ss[1] < ss[2]}

\* A set of naturals that is not empty has a least member.
LEMMA LeastMember ==
  ASSUME NEW T \in SUBSET Nat, T # {}
  PROVE  \E m \in T : \A k \in T : ~(k < m)
<1>1. IsWellFoundedOn(Less, Nat)
  BY NatLessThanWellFounded DEF OpToRel, Less
<1>2. \E m \in T : \A k \in T : ~(<< k, m >> \in Less)
  BY <1>1, WFMin
<1>3. QED
  BY <1>2 DEF Less

\* A set of naturals that is not empty and bounded has a greatest member.
LEMMA GreatestMember ==
  ASSUME NEW n \in Nat, NEW T \in SUBSET (0 .. n), T # {}
  PROVE  \E m \in T : \A k \in T : k <= m
<1> DEFINE U == {n - k : k \in T}
<1>1. U \in SUBSET Nat /\ U # {}
  <2>1. \A k \in T : n - k \in Nat
    OBVIOUS
  <2>2. U \in SUBSET Nat
    BY <2>1
  <2>3. PICK k \in T : TRUE
    OBVIOUS
  <2>4. n - k \in U
    BY <2>3
  <2> QED
    BY <2>2, <2>4
<1>2. PICK u \in U : \A k \in U : ~(k < u)
  BY <1>1, LeastMember
<1>3. PICK m \in T : u = n - m
  BY <1>2
<1>4. \A k \in T : k <= m
  <2> TAKE k \in T
  <2>1. ~(n - k < n - m)
    BY <1>2, <1>3
  <2> QED
    BY <2>1
<1> QED
  BY <1>3, <1>4

-----------------------------------------------------------------------------
(* Running sums *)

\* s is the running sum of d, over the indexes 1 .. n.
Sums(s, n, d) ==
  /\ \A i \in 1 .. n : d[i] \in Int
  /\ s \in [0 .. n -> Int]
  /\ s[0] = 0
  /\ \A i \in 1 .. n : s[i] = s[i - 1] + d[i]

\* Every list of numbers has its running sum.
LEMMA SumExists ==
  ASSUME NEW n \in Nat, NEW d \in [1 .. n -> Int]
  PROVE  \E s : Sums(s, n, d)
<1> DEFINE Sol(f, m) == /\ f \in [0 .. m -> Int] /\ f[0] = 0
                        /\ \A i \in 1 .. m : f[i] = f[i - 1] + d[i]
           Without   == {m \in 0 .. n : ~\E f : Sol(f, m)}
<1>1. Without = {}
  <2> SUFFICES ASSUME Without # {} PROVE FALSE
    OBVIOUS
  <2>1. Without \in SUBSET Nat
    OBVIOUS
  <2>2. PICK m \in Without : \A k \in Without : ~(k < m)
    BY <2>1, LeastMember
  <2>3. CASE m = 0
    <3>1. Sol([i \in 0 .. 0 |-> 0], 0)
      OBVIOUS
    <3> QED
      BY <3>1, <2>2, <2>3
  <2>4. CASE m # 0
    <3>1. m - 1 \in 0 .. n /\ m \in 1 .. n /\ m - 1 < m
      BY <2>2, <2>4
    <3>2. PICK f : Sol(f, m - 1)
      BY <3>1, <2>2
    <3> DEFINE g == [i \in 0 .. m |-> IF i = m THEN f[m - 1] + d[m] ELSE f[i]]
    <3>3. g \in [0 .. m -> Int]
      <4>1. f[m - 1] + d[m] \in Int
        BY <3>1, <3>2
      <4>2. \A i \in 0 .. m : i # m => f[i] \in Int
        BY <3>1, <3>2
      <4> QED
        BY <4>1, <4>2
    <3>4. g[0] = 0
      BY <3>1, <3>2
    <3>5. \A i \in 1 .. m : g[i] = g[i - 1] + d[i]
      <4> TAKE i \in 1 .. m
      <4>1. g[i - 1] = f[i - 1]
        BY <3>1
      <4>2. CASE i = m
        BY <4>1, <4>2, <3>1
      <4>3. CASE i # m
        <5>1. i \in 1 .. m - 1 /\ g[i] = f[i]
          BY <4>3, <3>1
        <5> QED
          BY <5>1, <4>1, <3>2
      <4> QED
        BY <4>2, <4>3
    <3> HIDE DEF g
    <3> QED
      BY <3>3, <3>4, <3>5, <2>2
  <2> QED
    BY <2>3, <2>4
<1>2. n \in 0 .. n /\ n \notin Without
  <2> HIDE DEF Without
  <2> QED
    BY <1>1
<1> QED
  BY <1>2 DEF Sums

\* d holds after a the m numbers that e holds after b.
SameRun(d, a, e, b, m) == \A i \in 1 .. m : d[a + i] = e[b + i]

\* Between two indexes from which the same numbers are added, running sums
\* grow by the same.
LEMMA SumsAgree ==
  ASSUME NEW m \in Nat, NEW s, NEW n \in Nat, NEW d, Sums(s, n, d),
         NEW t, NEW l \in Nat, NEW e, Sums(t, l, e),
         NEW a \in Nat, NEW b \in Nat, a + m <= n, b + m <= l,
         SameRun(d, a, e, b, m)
  PROVE  s[a + m] - s[a] = t[b + m] - t[b]
<1> DEFINE Bad == {i \in 0 .. m : s[a + i] - s[a] # t[b + i] - t[b]}
<1>1. /\ \A i \in 0 .. n : s[i] \in Int
      /\ \A i \in 0 .. l : t[i] \in Int
      /\ \A i \in 1 .. n : s[i] = s[i - 1] + d[i]
      /\ \A i \in 1 .. l : t[i] = t[i - 1] + e[i]
  BY DEF Sums
<1>2. Bad = {}
  <2> SUFFICES ASSUME Bad # {} PROVE FALSE
    OBVIOUS
  <2>1. Bad \in SUBSET Nat
    OBVIOUS
  <2>2. PICK i \in Bad : \A k \in Bad : ~(k < i)
    BY <2>1, LeastMember
  <2>3. i # 0
    <3>1. s[a] \in Int /\ t[b] \in Int
      BY <1>1
    <3> QED
      BY <2>2, <3>1
  <2>4. /\ i \in 1 .. m /\ i - 1 \in 0 .. m /\ i - 1 < i
        /\ a + i \in 1 .. n /\ b + i \in 1 .. l
        /\ (a + i) - 1 = a + (i - 1) /\ (b + i) - 1 = b + (i - 1)
        /\ a + (i - 1) \in 0 .. n /\ b + (i - 1) \in 0 .. l
        /\ a \in 0 .. n /\ b \in 0 .. l
    BY <2>2, <2>3
  <2>5. s[a + (i - 1)] - s[a] = t[b + (i - 1)] - t[b]
    BY <2>2, <2>4
  <2>6. s[a + i] = s[a + (i - 1)] + d[a + i] /\ t[b + i] = t[b + (i - 1)] + e[b + i]
    BY <2>4, <1>1
  <2>7. d[a + i] = e[b + i]
    BY <2>4 DEF SameRun
  <2>8. /\ s[a + (i - 1)] \in Int /\ s[a] \in Int /\ t[b + (i - 1)] \in Int
        /\ t[b] \in Int /\ d[a + i] \in Int
    BY <2>4, <1>1 DEF Sums
  <2>9. s[a + i] - s[a] = t[b + i] - t[b]
    <3> DEFINE x  == d[a + i]
               s0 == s[a]
               t0 == t[b]
               s1 == s[a + (i - 1)]
               t1 == t[b + (i - 1)]
    <3>1. s[a + i] = s1 + x /\ t[b + i] = t1 + x
      BY <2>6, <2>7
    <3>2. s1 - s0 = t1 - t0 /\ x \in Int /\ s0 \in Int /\ t0 \in Int /\ s1 \in Int /\ t1 \in Int
      BY <2>5, <2>8
    <3> HIDE DEF x, s0, t0, s1, t1
    <3>3. (s1 + x) - s0 = (t1 + x) - t0
      BY <3>2
    <3> QED
      BY <3>1, <3>3 DEF s0, t0
  <2> QED
    BY <2>2, <2>9
<1>3. m \in 0 .. m /\ m \notin Bad
  <2> HIDE DEF Bad
  <2> QED
    BY <1>2
<1> QED
  BY <1>3

\* Two running sums of the same numbers are the same, as far as both go.
LEMMA SumUnique ==
  ASSUME NEW n \in Nat, NEW d, NEW s, Sums(s, n, d),
         NEW m \in 0 .. n, NEW e, NEW t, Sums(t, m, e),
         \A i \in 1 .. m : d[i] = e[i],
         NEW k \in 0 .. m
  PROVE  s[k] = t[k]
<1> DEFINE Bad == {i \in 0 .. m : s[i] # t[i]}
<1>1. Bad = {}
  <2> SUFFICES ASSUME Bad # {} PROVE FALSE
    OBVIOUS
  <2>1. Bad \in SUBSET Nat
    OBVIOUS
  <2>2. PICK i \in Bad : \A j \in Bad : ~(j < i)
    BY <2>1, LeastMember
  <2>3. i # 0
    BY <2>2 DEF Sums
  <2>4. i \in 1 .. m /\ i \in 1 .. n /\ i - 1 \in 0 .. m /\ i - 1 < i
    BY <2>2, <2>3
  <2>5. s[i - 1] = t[i - 1]
    BY <2>2, <2>4
  <2>6. s[i] = s[i - 1] + d[i] /\ t[i] = t[i - 1] + e[i] /\ d[i] = e[i]
    BY <2>4 DEF Sums
  <2> QED
    BY <2>2, <2>5, <2>6
<1> QED
  BY <1>1

\* A running sum is what its recursive definition says, and only it is.
LEMMA SumIsSolution ==
  ASSUME NEW n \in Nat, NEW d, NEW s, Sums(s, n, d)
  PROVE  s = [i \in 0 .. n |-> IF i = 0 THEN 0 ELSE s[i - 1] + d[i]]
<1>1. \A i \in 0 .. n : s[i] = IF i = 0 THEN 0 ELSE s[i - 1] + d[i]
  <2> TAKE i \in 0 .. n
  <2>1. i # 0 => i \in 1 .. n
    OBVIOUS
  <2> QED
    BY <2>1 DEF Sums
<1>2. s = [i \in 0 .. n |-> s[i]]
  BY DEF Sums
<1> QED
  BY <1>1, <1>2

LEMMA SolutionIsSum ==
  ASSUME NEW n \in Nat, NEW d \in [1 .. n -> Int], NEW s,
         s = [i \in 0 .. n |-> IF i = 0 THEN 0 ELSE s[i - 1] + d[i]]
  PROVE  Sums(s, n, d)
<1> DEFINE f == [i \in 0 .. n |-> IF i = 0 THEN 0 ELSE s[i - 1] + d[i]]
<1>1. \A i \in 0 .. n : f[i] = IF i = 0 THEN 0 ELSE s[i - 1] + d[i]
  OBVIOUS
<1>2. s = f /\ DOMAIN s = 0 .. n /\ s = [i \in 0 .. n |-> s[i]]
  OBVIOUS
<1> HIDE DEF f
<1>3. s[0] = 0 /\ \A i \in 1 .. n : s[i] = s[i - 1] + d[i]
  <2>1. 0 \in 0 .. n /\ \A i \in 1 .. n : i \in 0 .. n /\ i # 0
    OBVIOUS
  <2> QED
    BY <2>1, <1>1, <1>2
<1> DEFINE Bad == {i \in 0 .. n : s[i] \notin Int}
<1>4. Bad = {}
  <2> SUFFICES ASSUME Bad # {} PROVE FALSE
    OBVIOUS
  <2>1. Bad \in SUBSET Nat
    OBVIOUS
  <2>2. PICK i \in Bad : \A j \in Bad : ~(j < i)
    BY <2>1, LeastMember
  <2>3. i # 0
    BY <2>2, <1>3
  <2>4. i \in 1 .. n /\ i - 1 \in 0 .. n /\ i - 1 < i /\ s[i] \notin Int
    BY <2>2, <2>3
  <2>5. s[i - 1] \in Int
    BY <2>2, <2>4
  <2> QED
    BY <2>4, <2>5, <1>3
<1>5. s \in [0 .. n -> Int]
  BY <1>2, <1>4
<1> QED
  BY <1>3, <1>5 DEF Sums

\* Of numbers that are not negative the running sum never falls.
LEMMA SumGrows ==
  ASSUME NEW n \in Nat, NEW d, NEW s, Sums(s, n, d),
         \A i \in 1 .. n : d[i] \in Nat,
         NEW k \in 0 .. n, NEW j \in 0 .. k
  PROVE  s[j] <= s[k]
<1> DEFINE Bad == {i \in j .. n : ~(s[j] <= s[i])}
<1>1. Bad = {}
  <2> SUFFICES ASSUME Bad # {} PROVE FALSE
    OBVIOUS
  <2>1. Bad \in SUBSET Nat
    OBVIOUS
  <2>2. PICK i \in Bad : \A l \in Bad : ~(l < i)
    BY <2>1, LeastMember
  <2>3. i \in 0 .. n /\ s[j] \in Int /\ s[i] \in Int /\ j \in 0 .. n
    BY <2>2 DEF Sums
  <2>4. i # j
    BY <2>2, <2>3
  <2>5. i - 1 \in j .. n /\ i \in 1 .. n /\ i - 1 < i /\ i - 1 \in 0 .. n
    BY <2>2, <2>3, <2>4
  <2>6. s[j] <= s[i - 1]
    BY <2>2, <2>5
  <2>7. s[i] = s[i - 1] + d[i] /\ d[i] \in Nat /\ s[i - 1] \in Int
    BY <2>5 DEF Sums
  <2> QED
    BY <2>2, <2>3, <2>6, <2>7
<1> QED
  BY <1>1

-----------------------------------------------------------------------------
(* Iteration *)

\* There is a list of n members of S that begins with x, each next one the g of
\* the one before.
Iterates(n, S, x, g) ==
  \E f \in [1 .. n -> S] :
    \A j \in 1 .. n : f[j] = IF j = 1 THEN x ELSE g[f[j - 1]]

\* A function on S can be iterated from x as often as wanted.
LEMMA IterationExists ==
  ASSUME NEW n \in Nat, NEW S, NEW x \in S, NEW g \in [S -> S]
  PROVE  Iterates(n, S, x, g)
<1> DEFINE Sol(f, m) == /\ f \in [1 .. m -> S]
                        /\ \A j \in 1 .. m : f[j] = IF j = 1 THEN x ELSE g[f[j - 1]]
           Without   == {m \in 0 .. n : ~\E f : Sol(f, m)}
<1>1. Without = {}
  <2> SUFFICES ASSUME Without # {} PROVE FALSE
    OBVIOUS
  <2>1. Without \in SUBSET Nat
    OBVIOUS
  <2>2. PICK m \in Without : \A k \in Without : ~(k < m)
    BY <2>1, LeastMember
  <2>3. CASE m = 0
    <3>1. Sol([j \in 1 .. 0 |-> x], 0)
      OBVIOUS
    <3> QED
      BY <3>1, <2>2, <2>3
  <2>4. CASE m # 0
    <3>1. m \in 1 .. n /\ m - 1 \in 0 .. n /\ m - 1 < m
      BY <2>2, <2>4
    <3>2. PICK f : Sol(f, m - 1)
      BY <3>1, <2>2
    <3> DEFINE h == [j \in 1 .. m |-> IF j < m THEN f[j]
                                      ELSE IF m = 1 THEN x ELSE g[f[m - 1]]]
    <3>3. /\ \A j \in 1 .. m : j < m => j \in 1 .. m - 1
          /\ m # 1 => m - 1 \in 1 .. m - 1
      BY <3>1
    <3>4. h \in [1 .. m -> S]
      <4>1. m # 1 => g[f[m - 1]] \in S
        BY <3>2, <3>3
      <4>2. \A j \in 1 .. m : j < m => f[j] \in S
        BY <3>2, <3>3
      <4> QED
        BY <4>1, <4>2
    <3>5. ASSUME NEW j \in 1 .. m
          PROVE  h[j] = IF j = 1 THEN x ELSE g[h[j - 1]]
      <4>1. j # 1 => j - 1 \in 1 .. m /\ j - 1 < m
        BY <3>1
      <4>2. j # 1 => h[j - 1] = f[j - 1]
        BY <4>1
      <4>3. CASE j < m
        BY <4>2, <4>3, <3>2, <3>3
      <4>4. CASE ~(j < m)
        <5>1. j = m
          BY <4>4, <3>1
        <5> QED
          BY <5>1, <4>2
      <4> QED
        BY <4>3, <4>4
    <3> HIDE DEF h
    <3>6. Sol(h, m)
      BY <3>4, <3>5
    <3> QED
      BY <3>6, <2>2
  <2> QED
    BY <2>3, <2>4
<1>2. n \in 0 .. n /\ n \notin Without
  <2> HIDE DEF Without
  <2> QED
    BY <1>1
<1> QED
  BY <1>2 DEF Iterates

\* There is a function that begins with x and each later value of which is what g
\* makes of the index and the value before.
Recurs(n, S, x, g) ==
  \E f \in [0 .. n -> S] :
    f[0] = x /\ \A i \in 1 .. n : f[i] = g[<< i, f[i - 1] >>]

\* Recursion over indexes defines a function.
LEMMA RecursionExists ==
  ASSUME NEW n \in Nat, NEW S, NEW x \in S, NEW g \in [(1 .. n) \X S -> S]
  PROVE  Recurs(n, S, x, g)
<1> DEFINE Sol(f, m) == /\ f \in [0 .. m -> S] /\ f[0] = x
                        /\ \A i \in 1 .. m : f[i] = g[<< i, f[i - 1] >>]
           Without   == {m \in 0 .. n : ~\E f : Sol(f, m)}
<1>1. Without = {}
  <2> SUFFICES ASSUME Without # {} PROVE FALSE
    OBVIOUS
  <2>1. Without \in SUBSET Nat
    OBVIOUS
  <2>2. PICK m \in Without : \A k \in Without : ~(k < m)
    BY <2>1, LeastMember
  <2>3. CASE m = 0
    <3>1. Sol([i \in 0 .. 0 |-> x], 0)
      OBVIOUS
    <3> QED
      BY <3>1, <2>2, <2>3
  <2>4. CASE m # 0
    <3>1. m - 1 \in 0 .. n /\ m \in 1 .. n /\ m - 1 < m
      BY <2>2, <2>4
    <3>2. PICK f : Sol(f, m - 1)
      BY <3>1, <2>2
    <3> DEFINE v == g[<< m, f[m - 1] >>]
               h == [i \in 0 .. m |-> IF i = m THEN v ELSE f[i]]
    <3>3. v \in S
      <4>1. f[m - 1] \in S
        BY <3>1, <3>2
      <4> QED
        BY <3>1, <4>1
    <3>4. h \in [0 .. m -> S] /\ h[0] = x
      <4>1. \A i \in 0 .. m : i # m => f[i] \in S
        BY <3>1, <3>2
      <4> QED
        BY <3>1, <3>2, <3>3, <4>1
    <3>5. ASSUME NEW i \in 1 .. m
          PROVE  h[i] = g[<< i, h[i - 1] >>]
      <4>1. h[i - 1] = f[i - 1]
        BY <3>1
      <4>2. CASE i = m
        BY <4>1, <4>2
      <4>3. CASE i # m
        <5>1. i \in 1 .. m - 1 /\ h[i] = f[i]
          BY <3>1, <4>3
        <5> QED
          BY <3>2, <4>1, <5>1
      <4> QED
        BY <4>2, <4>3
    <3> HIDE DEF h
    <3> QED
      BY <3>4, <3>5, <2>2
  <2> QED
    BY <2>3, <2>4
<1>2. n \in 0 .. n /\ n \notin Without
  <2> HIDE DEF Without
  <2> QED
    BY <1>1
<1> QED
  BY <1>2 DEF Recurs

=============================================================================
