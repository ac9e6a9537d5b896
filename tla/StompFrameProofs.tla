-------------------------- MODULE StompFrameProofs --------------------------
(***************************************************************************)
(* What is computed of a text, for every text: recursion over the natural  *)
(* numbers and over what gets smaller defines a function, a text is split  *)
(* at its separators, and a frame that is written as a text is read back   *)
(* as it was. Induction is over sets of numbers: a set that has 0 and,     *)
(* with a number, the next one, has them all.                              *)
(***************************************************************************)
EXTENDS StompFrame, WellFoundedInduction, FiniteSetTheorems, SequenceTheorems, TLAPS

-----------------------------------------------------------------------------
(* Induction and recursion *)

(* Every set of numbers that is not empty has a least one. *)
LEMMA Least ==
  ASSUME NEW S \in SUBSET Nat, S # {}
  PROVE  \E x \in S : \A y \in S : x <= y
<1> DEFINE R == {ss \in Nat \X Nat : ss[1] < ss[2]}
<1>1. IsWellFoundedOn(R, Nat)
  BY NatLessThanWellFounded DEF OpToRel
<1>2. \A x, y \in Nat : ~ (<<y, x>> \in R) => x <= y
  OBVIOUS
<1> HIDE DEF R
<1>3. PICK x \in S : \A y \in S : ~ (<<y, x>> \in R)
  BY <1>1, WFMin
<1>4. \A y \in S : x <= y
  BY <1>2, <1>3
<1> QED
  BY <1>4

LEMMA Induction ==
  ASSUME NEW S \in SUBSET Nat, 0 \in S, \A n \in S : n + 1 \in S
  PROVE  S = Nat
<1> SUFFICES ASSUME S # Nat PROVE FALSE
  OBVIOUS
<1>1. PICK x \in Nat \ S : \A y \in Nat \ S : x <= y
  BY Least
<1>2. x # 0 /\ x - 1 \in Nat
  BY <1>1
<1>3. x - 1 \in S
  BY <1>1, <1>2
<1> QED
  BY <1>1, <1>3

(* A set that has whatever it has all smaller things of has everything. *)
IsInductive(P, D, size) ==
  \A x \in D : (\A y \in D : size[y] < size[x] => y \in P) => x \in P

LEMMA SizeInduction ==
  ASSUME NEW D, NEW size \in [D -> Nat], NEW P \in SUBSET D, IsInductive(P, D, size)
  PROVE  P = D
<1> DEFINE T == {k \in Nat : \A x \in D : size[x] < k => x \in P}
<1>1. 0 \in T
  OBVIOUS
<1>2. ASSUME NEW k \in T PROVE k + 1 \in T
  <2> SUFFICES ASSUME NEW x \in D, size[x] < k + 1 PROVE x \in P
    BY <1>2
  <2>1. \A y \in D : size[y] < size[x] => size[y] < k
    BY <1>2
  <2> QED
    BY <1>2, <2>1 DEF IsInductive
<1>3. T = Nat
  <2> HIDE DEF T
  <2>1. T \in SUBSET Nat
    BY DEF T
  <2> QED
    BY <1>1, <1>2, <2>1, Induction
<1>4. ASSUME NEW x \in D PROVE x \in P
  <2>1. size[x] + 1 \in Nat /\ size[x] < size[x] + 1
    OBVIOUS
  <2> QED
    BY <1>3, <2>1
<1> QED
  BY <1>4

(* a value for every number, from the value for the number before it *)
IsIteration(f, base, step) ==
  f[0] = base /\ \A n \in Nat : f[n + 1] = step[n][f[n]]

LEMMA Iterate ==
  ASSUME NEW V, NEW base \in V, NEW step \in [Nat -> [V -> V]]
  PROVE  \E f \in [Nat -> V] : IsIteration(f, base, step)
<1> DEFINE Up(n, f) == f[0] = base /\ \A i \in 0..n - 1 : f[i + 1] = step[i][f[i]]
           S == {n \in Nat : \E f \in [0..n -> V] : Up(n, f)}
<1>1. 0 \in S
  <2> DEFINE f == [i \in 0..0 |-> base]
  <2>1. f \in [0..0 -> V] /\ Up(0, f)
    OBVIOUS
  <2> QED
    BY <2>1
<1>2. ASSUME NEW n \in S PROVE n + 1 \in S
  <2>1. PICK f \in [0..n -> V] : Up(n, f)
    BY <1>2
  <2> DEFINE g == [i \in 0..n + 1 |-> IF i <= n THEN f[i] ELSE step[n][f[n]]]
  <2>2. g \in [0..n + 1 -> V]
    <3>1. n \in Nat /\ f[n] \in V
      BY <1>2
    <3> QED
      BY <3>1
  <2>3. Up(n + 1, g)
    <3>1. n \in Nat
      BY <1>2
    <3>2. g[0] = base
      BY <2>1, <3>1
    <3>3. ASSUME NEW i \in 0..(n + 1) - 1 PROVE g[i + 1] = step[i][g[i]]
      <4>1. CASE i = n
        BY <3>1, <4>1
      <4>2. CASE i # n
        BY <3>1, <4>2, <2>1
      <4> QED
        BY <4>1, <4>2
    <3> QED
      BY <3>2, <3>3
  <2>4. n + 1 \in Nat
    BY <1>2
  <2> HIDE DEF g, Up
  <2> QED
    BY <2>2, <2>3, <2>4
<1>3. S = Nat
  <2> HIDE DEF S
  <2>1. S \in SUBSET Nat
    BY DEF S
  <2> QED
    BY <1>1, <1>2, <2>1, Induction
<1> DEFINE g == [n \in Nat |-> CHOOSE f \in [0..n -> V] : Up(n, f)]
<1>4. \A n \in Nat : g[n] \in [0..n -> V] /\ Up(n, g[n])
  BY <1>3
<1> HIDE DEF g
<1>5. ASSUME NEW m \in Nat, NEW n \in Nat, m <= n PROVE g[m][m] = g[n][m]
  <2> DEFINE T == {i \in Nat : i <= m => g[m][i] = g[n][i]}
  <2>1. 0 \in T
    BY <1>4
  <2>2. ASSUME NEW i \in T PROVE i + 1 \in T
    <3>1. CASE i + 1 <= m
      <4>1. i \in 0..m - 1 /\ i \in 0..n - 1 /\ i <= m
        BY <3>1, <1>5
      <4>2. g[m][i + 1] = step[i][g[m][i]] /\ g[n][i + 1] = step[i][g[n][i]]
        BY <4>1, <1>4
      <4> QED
        BY <4>1, <4>2
    <3>2. CASE ~ (i + 1 <= m)
      BY <3>2
    <3> QED
      BY <3>1, <3>2
  <2>3. T = Nat
    <3> HIDE DEF T
    <3>1. T \in SUBSET Nat
      BY DEF T
    <3> QED
      BY <2>1, <2>2, <3>1, Induction
  <2> QED
    BY <2>3
<1> DEFINE h == [n \in Nat |-> g[n][n]]
<1>6. h \in [Nat -> V]
  BY <1>4
<1>7. h[0] = base
  BY <1>4
<1>8. ASSUME NEW n \in Nat PROVE h[n + 1] = step[n][h[n]]
  <2>1. g[n + 1][n + 1] = step[n][g[n + 1][n]]
    BY <1>4
  <2>2. g[n + 1][n] = g[n][n]
    BY <1>5
  <2> QED
    BY <2>1, <2>2
<1> HIDE DEF h
<1> QED
  BY <1>6, <1>7, <1>8 DEF IsIteration

(* a recursion in which what is left is smaller, by its size, in every call *)
IsRecursion(f, D, ends, base, left, step) ==
  \A x \in D : f[x] = IF ends[x] THEN base[x] ELSE step[x][f[left[x]]]

LEMMA Recursion ==
  ASSUME NEW D, NEW V, NEW size \in [D -> Nat], NEW ends \in [D -> BOOLEAN],
         NEW base \in [D -> V], NEW left \in [D -> D], NEW step \in [D -> [V -> V]],
         \A x \in D : ~ends[x] => size[left[x]] < size[x]
  PROVE  \E f \in [D -> V] : IsRecursion(f, D, ends, base, left, step)
<1> DEFINE W == [D -> V]
           turn == [n \in Nat |-> [w \in W |->
                     [x \in D |-> IF ends[x] THEN base[x] ELSE step[x][w[left[x]]]]]]
<1>1. turn \in [Nat -> [W -> W]]
  OBVIOUS
<1> HIDE DEF turn
<1>2. PICK g \in [Nat -> W] : g[0] = base /\ \A n \in Nat : g[n + 1] = turn[n][g[n]]
  <2>1. base \in W
    OBVIOUS
  <2> HIDE DEF W
  <2>2. \E g \in [Nat -> W] : IsIteration(g, base, turn)
    BY <1>1, <2>1, Iterate
  <2> QED
    BY <2>2 DEF IsIteration
<1> USE DEF turn
<1>3. \A n \in Nat : \A x \in D :
        g[n + 1][x] = IF ends[x] THEN base[x] ELSE step[x][g[n][left[x]]]
  <2> SUFFICES ASSUME NEW n \in Nat
               PROVE  \A x \in D : g[n + 1][x]
                        = IF ends[x] THEN base[x] ELSE step[x][g[n][left[x]]]
    OBVIOUS
  <2>1. g[n] \in W /\ g[n + 1] = turn[n][g[n]]
    BY <1>2
  <2> QED
    BY <2>1
<1>4. \A n \in Nat : g[n] \in [D -> V]
  BY <1>2
<1> HIDE DEF W, turn
<1> DEFINE T == {k \in Nat : \A x \in D : size[x] <= k =>
                   \A n \in Nat : k <= n => g[n][x] = g[k][x]}
<1>5. 0 \in T
  <2> SUFFICES ASSUME NEW x \in D, size[x] <= 0, NEW n \in Nat PROVE g[n][x] = g[0][x]
    OBVIOUS
  <2>1. ends[x]
    OBVIOUS
  <2>2. CASE n # 0
    <3>1. n - 1 \in Nat /\ (n - 1) + 1 = n
      BY <2>2
    <3> QED
      BY <1>2, <1>3, <2>1, <3>1
  <2> QED
    BY <2>2
<1>6. ASSUME NEW k \in T PROVE k + 1 \in T
  <2> SUFFICES ASSUME NEW x \in D, size[x] <= k + 1, NEW n \in Nat, k + 1 <= n
               PROVE  g[n][x] = g[k + 1][x]
    BY <1>6
  <2>1. k \in Nat /\ k + 1 \in Nat /\ n - 1 \in Nat /\ (n - 1) + 1 = n /\ k <= n - 1
    BY <1>6
  <2>2. CASE ends[x]
    <3>1. g[(n - 1) + 1][x] = base[x] /\ g[k + 1][x] = base[x]
      BY <1>3, <2>1, <2>2
    <3> QED
      BY <2>1, <3>1
  <2>3. CASE ~ends[x]
    <3>1. size[left[x]] <= k
      BY <2>1, <2>3
    <3>2. g[n - 1][left[x]] = g[k][left[x]]
      BY <1>6, <2>1, <3>1
    <3>3. g[(n - 1) + 1][x] = step[x][g[n - 1][left[x]]]
      BY <1>3, <2>1, <2>3
    <3>4. g[k + 1][x] = step[x][g[k][left[x]]]
      BY <1>3, <2>1, <2>3
    <3> QED
      BY <2>1, <3>2, <3>3, <3>4
  <2> QED
    BY <2>2, <2>3
<1>7. T = Nat
  <2> HIDE DEF T
  <2>1. T \in SUBSET Nat
    BY DEF T
  <2> QED
    BY <1>5, <1>6, <2>1, Induction
<1> DEFINE f == [x \in D |-> g[size[x]][x]]
<1>8. f \in [D -> V]
  BY <1>4
<1>9. ASSUME NEW x \in D
      PROVE  f[x] = IF ends[x] THEN base[x] ELSE step[x][f[left[x]]]
  <2>1. CASE size[x] = 0
    <3>1. ends[x]
      BY <2>1
    <3> QED
      BY <1>2, <2>1, <3>1
  <2>2. CASE size[x] # 0
    <3> DEFINE k == size[x] - 1
    <3>1. k \in Nat /\ k + 1 = size[x]
      BY <2>2
    <3>2. g[k + 1][x] = IF ends[x] THEN base[x] ELSE step[x][g[k][left[x]]]
      BY <1>3, <3>1
    <3>3. CASE ~ends[x]
      <4>1. size[left[x]] <= k /\ size[left[x]] \in Nat
        BY <3>1, <3>3
      <4>2. g[k][left[x]] = g[size[left[x]]][left[x]]
        BY <1>7, <3>1, <4>1
      <4> QED
        BY <3>1, <3>2, <3>3, <4>2
    <3> QED
      BY <3>1, <3>2, <3>3
  <2> QED
    BY <2>1, <2>2
<1> HIDE DEF f
<1> QED
  BY <1>8, <1>9 DEF IsRecursion

-----------------------------------------------------------------------------
(* Least and greatest, first occurrences *)

LEMMA MinOf ==
  ASSUME NEW S \in SUBSET Nat, S # {}
  PROVE  Min(S) \in S /\ \A y \in S : Min(S) <= y
<1>1. \E x \in S : \A y \in S : x <= y
  BY Least
<1> QED
  BY <1>1 DEF Min

LEMMA MaxOf ==
  ASSUME NEW n \in Nat, NEW S \in SUBSET (0..n), S # {}
  PROVE  Max(S) \in S /\ \A y \in S : y <= Max(S)
<1> DEFINE T == {n - x : x \in S}
<1>1. T \in SUBSET Nat /\ T # {}
  <2>1. ASSUME NEW z \in T PROVE z \in Nat
    <3>1. PICK x \in S : z = n - x
      OBVIOUS
    <3>2. x \in 0..n
      OBVIOUS
    <3> QED
      BY <3>1, <3>2
  <2>2. PICK x \in S : TRUE
    OBVIOUS
  <2>3. n - x \in T
    OBVIOUS
  <2> HIDE DEF T
  <2> QED
    BY <2>1, <2>3
<1>2. PICK z \in T : \A y \in T : z <= y
  BY <1>1, Least
<1>3. PICK x \in S : z = n - x
  BY <1>2
<1>4. \A y \in S : y <= x
  <2> SUFFICES ASSUME NEW y \in S PROVE y <= x
    OBVIOUS
  <2>1. n - x <= n - y
    BY <1>2, <1>3
  <2> QED
    BY <2>1
<1>5. \A y \in S : x >= y
  BY <1>4
<1>6. Max(S) \in S /\ \A y \in S : Max(S) >= y
  BY <1>5 DEF Max
<1> QED
  BY <1>6

(* What the library says of sequences, said of texts *)
LEMMA TextFacts ==
  ASSUME NEW t \in Text
  PROVE  /\ Len(t) \in Nat /\ DOMAIN t = 1..Len(t)
         /\ t \in [1..Len(t) -> Symbol]
BY LenProperties DEF Text

LEMMA CatText ==
  ASSUME NEW s \in Text, NEW t \in Text
  PROVE  /\ s \o t \in Text
         /\ Len(s \o t) = Len(s) + Len(t)
         /\ \A i \in 1..Len(s) + Len(t) :
              (s \o t)[i] = IF i <= Len(s) THEN s[i] ELSE t[i - Len(s)]
<1>1. s \in Seq(Symbol) /\ t \in Seq(Symbol)
  BY DEF Text
<1> QED
  BY <1>1, ConcatProperties, Zenon DEF Text

LEMMA OneElement ==
  ASSUME NEW S, NEW s \in S
  PROVE  <<s>> \in Seq(S) /\ Len(<<s>>) = 1 /\ <<s>>[1] = s
OBVIOUS

LEMMA OneText ==
  ASSUME NEW s \in Symbol
  PROVE  <<s>> \in Text /\ Len(<<s>>) = 1 /\ <<s>>[1] = s
BY OneElement DEF Text

LEMMA SameText ==
  ASSUME NEW s \in Text, NEW t \in Text, Len(s) = Len(t),
         \A i \in 1..Len(s) : s[i] = t[i]
  PROVE  s = t
BY SeqEqual DEF Text

LEMMA SubText ==
  ASSUME NEW t \in Text, NEW m \in Nat \ {0}, NEW n \in 0..Len(t)
  PROVE  /\ SubSeq(t, m, n) \in Text
         /\ Len(SubSeq(t, m, n)) = IF m <= n THEN n - m + 1 ELSE 0
         /\ \A i \in 1..n - m + 1 : SubSeq(t, m, n)[i] = t[m + i - 1]
<1>1. \A i \in m..n : t[i] \in Symbol
  BY TextFacts
<1>2. n \in Int /\ m \in Int
  BY TextFacts
<1> QED
  BY <1>1, <1>2, SubSeqProperties DEF Text

LEMMA PrefixText ==
  ASSUME NEW t \in Text, NEW n \in 0..Len(t)
  PROVE  /\ SubSeq(t, 1, n) \in Text /\ Len(SubSeq(t, 1, n)) = n
         /\ \A i \in 1..n : SubSeq(t, 1, n)[i] = t[i]
<1>1. n \in Nat /\ 1 \in Nat \ {0}
  BY TextFacts
<1>2. /\ SubSeq(t, 1, n) \in Text
      /\ Len(SubSeq(t, 1, n)) = IF 1 <= n THEN n - 1 + 1 ELSE 0
  BY <1>1, SubText, Zenon
<1>3. \A i \in 1..n - 1 + 1 : SubSeq(t, 1, n)[i] = t[1 + i - 1]
  BY <1>1, SubText, Zenon
<1>4. \A m \in Nat : /\ m - 1 + 1 = m /\ (IF 1 <= m THEN m - 1 + 1 ELSE 0) = m
                     /\ \A i \in 1..m : 1 + i - 1 = i
  OBVIOUS
<1> QED
  BY <1>1, <1>2, <1>3, <1>4

LEMMA SuffixText ==
  ASSUME NEW t \in Text, NEW n \in 0..Len(t)
  PROVE  /\ SubSeq(t, n + 1, Len(t)) \in Text
         /\ Len(SubSeq(t, n + 1, Len(t))) = Len(t) - n
         /\ \A i \in 1..Len(t) - n : SubSeq(t, n + 1, Len(t))[i] = t[n + i]
<1>1. Len(t) \in Nat
  BY TextFacts
<1>2. n + 1 \in Nat \ {0} /\ Len(t) \in 0..Len(t) /\ n \in Nat
  BY <1>1
<1>3. /\ SubSeq(t, n + 1, Len(t)) \in Text
      /\ Len(SubSeq(t, n + 1, Len(t)))
           = IF n + 1 <= Len(t) THEN Len(t) - (n + 1) + 1 ELSE 0
  BY <1>2, SubText, Zenon
<1>4. \A i \in 1..Len(t) - (n + 1) + 1 : SubSeq(t, n + 1, Len(t))[i] = t[(n + 1) + i - 1]
  BY <1>2, SubText, Zenon
<1>5. \A l \in Nat : \A m \in 0..l :
        /\ l - (m + 1) + 1 = l - m
        /\ (IF m + 1 <= l THEN l - (m + 1) + 1 ELSE 0) = l - m
        /\ \A i \in 1..l - m : (m + 1) + i - 1 = m + i
  OBVIOUS
<1> QED
  BY <1>1, <1>2, <1>3, <1>4, <1>5

LEMMA FirstOf ==
  ASSUME NEW t \in Text, NEW s, Has(t, s)
  PROVE  /\ First(t, s) \in 1..Len(t) /\ t[First(t, s)] = s
         /\ \A i \in 1..First(t, s) - 1 : t[i] # s
<1> DEFINE I == {i \in DOMAIN t : t[i] = s}
<1>1. DOMAIN t = 1..Len(t) /\ Len(t) \in Nat
  BY TextFacts
<1>2. I \in SUBSET Nat /\ I # {}
  BY <1>1 DEF Has
<1>3. Min(I) \in I /\ \A y \in I : Min(I) <= y
  BY <1>2, MinOf
<1>4. First(t, s) = Min(I)
  BY DEF First
<1>5. First(t, s) \in 1..Len(t) /\ t[First(t, s)] = s
  BY <1>1, <1>3, <1>4
<1>6. ASSUME NEW i \in 1..First(t, s) - 1, t[i] = s PROVE FALSE
  <2>1. i \in I /\ i \in Nat
    BY <1>1, <1>5, <1>6
  <2>2. First(t, s) <= i
    BY <1>3, <1>4, <2>1
  <2> QED
    BY <1>1, <1>5, <2>2
<1> QED
  BY <1>5, <1>6

LEMMA FirstAt ==
  ASSUME NEW t \in Text, NEW s, NEW n \in 1..Len(t), t[n] = s,
         \A i \in 1..n - 1 : t[i] # s
  PROVE  Has(t, s) /\ First(t, s) = n
<1>1. DOMAIN t = 1..Len(t) /\ Len(t) \in Nat
  BY TextFacts
<1>2. Has(t, s)
  BY <1>1 DEF Has
<1>3. /\ First(t, s) \in 1..Len(t) /\ t[First(t, s)] = s
      /\ \A i \in 1..First(t, s) - 1 : t[i] # s
  BY <1>2, FirstOf
<1> QED
  BY <1>1, <1>2, <1>3

-----------------------------------------------------------------------------
(* Splitting *)

LEMMA CutText ==
  ASSUME NEW t \in Text, NEW s, Has(t, s)
  PROVE  /\ Before(t, First(t, s)) \in Text /\ ~Has(Before(t, First(t, s)), s)
         /\ After(t, First(t, s)) \in Text
         /\ Len(Before(t, First(t, s))) = First(t, s) - 1
         /\ Len(After(t, First(t, s))) = Len(t) - First(t, s)
         /\ t = Before(t, First(t, s)) \o <<s>> \o After(t, First(t, s))
<1> DEFINE n == First(t, s)  b == Before(t, n)  a == After(t, n)
<1>1. Len(t) \in Nat /\ t \in [1..Len(t) -> Symbol]
  BY TextFacts
<1>2. n \in 1..Len(t) /\ t[n] = s /\ \A i \in 1..n - 1 : t[i] # s
  BY FirstOf
<1> HIDE DEF n
<1>3. n - 1 \in 0..Len(t) /\ n \in 0..Len(t)
  BY <1>1, <1>2
<1>4. b \in Text /\ Len(b) = n - 1 /\ \A i \in 1..n - 1 : b[i] = t[i]
  BY <1>3, PrefixText, Zenon DEF Before
<1>5. a \in Text /\ Len(a) = Len(t) - n /\ \A i \in 1..Len(t) - n : a[i] = t[n + i]
  BY <1>3, SuffixText, Zenon DEF After
<1> HIDE DEF b, a
<1>6. ~Has(b, s)
  BY <1>2, <1>4, TextFacts DEF Has
<1>7. s \in Symbol /\ <<s>> \in Text
  BY <1>1, <1>2 DEF Text
<1>8. t = b \o <<s>> \o a
  <2> DEFINE u == b \o <<s>>  v == u \o a
  <2>1. /\ u \in Text /\ Len(u) = n
        /\ \A i \in 1..n : u[i] = IF i <= n - 1 THEN b[i] ELSE s
    <3>1. /\ u \in Text /\ Len(u) = Len(b) + 1
          /\ \A i \in 1..Len(b) + 1 : u[i] = IF i <= Len(b) THEN b[i] ELSE <<s>>[i - Len(b)]
      BY <1>4, <1>7, CatText, OneText
    <3>2. Len(b) + 1 = n /\ <<s>>[1] = s
      BY <1>1, <1>2, <1>4, <1>7, OneText
    <3>3. \A i \in 1..n : ~(i <= n - 1) => i - Len(b) = 1
      BY <1>1, <1>2, <1>4
    <3> QED
      BY <1>4, <3>1, <3>2, <3>3
  <2> HIDE DEF u
  <2>2. /\ v \in Text /\ Len(v) = n + Len(a)
        /\ \A i \in 1..n + Len(a) : v[i] = IF i <= n THEN u[i] ELSE a[i - n]
    BY <1>5, <2>1, CatText
  <2> HIDE DEF v
  <2>3. Len(v) = Len(t)
    BY <1>1, <1>2, <1>5, <2>2
  <2>4. ASSUME NEW i \in 1..Len(t) PROVE v[i] = t[i]
    <3>1. CASE i <= n - 1
      BY <1>1, <1>2, <1>4, <2>1, <2>2, <2>3, <3>1
    <3>2. CASE i = n
      BY <1>1, <1>2, <2>1, <2>2, <2>3, <3>2
    <3>3. CASE i > n
      <4>1. i - n \in 1..Len(t) - n /\ n + (i - n) = i /\ ~(i <= n)
        BY <1>1, <1>2, <3>3
      <4>2. a[i - n] = t[n + (i - n)]
        BY <1>5, <4>1
      <4>3. v[i] = a[i - n]
        BY <2>2, <2>3, <4>1
      <4> QED
        BY <4>1, <4>2, <4>3
    <3> QED
      BY <1>1, <1>2, <3>1, <3>2, <3>3
  <2>5. v = t
    BY <2>2, <2>3, <2>4, SameText
  <2> QED
    BY <2>5 DEF u, v
<1> QED
  BY <1>4, <1>5, <1>6, <1>8 DEF n, b, a

LEMMA NotIn ==
  ASSUME NEW t \in Text, NEW s, ~Has(t, s), NEW i \in 1..Len(t)
  PROVE  t[i] # s
BY TextFacts DEF Has

LEMMA CatAssociative ==
  ASSUME NEW s \in Text, NEW t \in Text, NEW u \in Text
  PROVE  (s \o t) \o u = s \o (t \o u)
BY ConcatAssociative DEF Text

Associates(s, t, u) == (s \o t) \o u = s \o (t \o u)

LEMMA Associative ==
  ASSUME NEW s \in Text, NEW t \in Text, NEW u \in Text
  PROVE  Associates(s, t, u)
BY CatAssociative DEF Associates

LEMMA CatOneMore ==
  ASSUME NEW s \in Symbol, NEW b \in Text, NEW a \in Text
  PROVE  (b \o <<s>> \o a) \o <<s>> = b \o <<s>> \o (a \o <<s>>)
<1> DEFINE end == <<s>>  first == b \o end
<1>1. end \in Text /\ first \in Text
  BY OneText, CatText
<1> HIDE DEF end, first
<1>2. Associates(first, a, end)
  BY <1>1, Associative
<1> QED
  BY <1>2 DEF Associates, end, first

LEMMA PiecesAssociative ==
  ASSUME NEW p \in Seq(Text), NEW q \in Seq(Text), NEW r \in Seq(Text)
  PROVE  (p \o q) \o r = p \o (q \o r)
BY ConcatAssociative, SMTT(20)

(* t is made of e, the separator s and r: where its symbols are from *)
MadeOf(t, e, s, r) ==
  /\ t \in Text /\ Len(t) = Len(e) + 1 + Len(r)
  /\ \A i \in 1..Len(e) : t[i] = e[i]
  /\ t[Len(e) + 1] = s
  /\ \A i \in 1..Len(r) : t[Len(e) + 1 + i] = r[i]

LEMMA AroundSeparator ==
  ASSUME NEW e \in Text, NEW s \in Symbol, NEW r \in Text
  PROVE  MadeOf(e \o <<s>> \o r, e, s, r)
<1> DEFINE u == e \o <<s>>  v == u \o r
<1>1. Len(e) \in Nat /\ Len(r) \in Nat /\ <<s>> \in Text /\ Len(<<s>>) = 1 /\ <<s>>[1] = s
  BY TextFacts, OneText
<1>2. /\ u \in Text /\ Len(u) = Len(e) + 1
      /\ \A i \in 1..Len(e) + 1 : u[i] = IF i <= Len(e) THEN e[i] ELSE <<s>>[i - Len(e)]
  BY <1>1, CatText
<1> HIDE DEF u
<1>3. /\ v \in Text /\ Len(v) = Len(e) + 1 + Len(r)
      /\ \A i \in 1..Len(e) + 1 + Len(r) :
           v[i] = IF i <= Len(e) + 1 THEN u[i] ELSE r[i - (Len(e) + 1)]
  <2>1. v \in Text /\ Len(v) = Len(u) + Len(r)
    BY <1>2, CatText, Zenon
  <2>2. \A i \in 1..Len(u) + Len(r) : v[i] = IF i <= Len(u) THEN u[i] ELSE r[i - Len(u)]
    BY <1>2, CatText, Zenon
  <2> QED
    BY <1>2, <2>1, <2>2
<1> HIDE DEF v
<1>4. \A l, m \in Nat :
        /\ \A i \in 1..l : i \in 1..l + 1 /\ i \in 1..l + 1 + m /\ i <= l + 1 /\ i <= l
        /\ l + 1 \in 1..l + 1 + m /\ l + 1 \in 1..l + 1 /\ ~(l + 1 <= l) /\ (l + 1) - l = 1
        /\ \A i \in 1..m : /\ l + 1 + i \in 1..l + 1 + m /\ ~(l + 1 + i <= l + 1)
                           /\ (l + 1 + i) - (l + 1) = i
  OBVIOUS
<1>5. ASSUME NEW i \in 1..Len(e) PROVE v[i] = e[i]
  BY <1>1, <1>2, <1>3, <1>4
<1>6. v[Len(e) + 1] = s
  BY <1>1, <1>2, <1>3, <1>4
<1>7. ASSUME NEW i \in 1..Len(r) PROVE v[Len(e) + 1 + i] = r[i]
  BY <1>1, <1>3, <1>4
<1>8. MadeOf(v, e, s, r)
  BY <1>3, <1>5, <1>6, <1>7 DEF MadeOf
<1> QED
  BY <1>8 DEF u, v

(* What stands before the separator first has none of it: there it is cut. *)
LEMMA CutThere ==
  ASSUME NEW e \in Text, NEW s \in Symbol, NEW r \in Text, ~Has(e, s),
         NEW t, t = e \o <<s>> \o r
  PROVE  /\ t \in Text /\ Has(t, s) /\ First(t, s) = Len(e) + 1
         /\ Before(t, Len(e) + 1) = e /\ After(t, Len(e) + 1) = r
<1>1. Len(e) \in Nat /\ Len(r) \in Nat
  BY TextFacts
<1>2. /\ t \in Text /\ Len(t) = Len(e) + 1 + Len(r)
      /\ \A i \in 1..Len(e) : t[i] = e[i]
      /\ t[Len(e) + 1] = s
      /\ \A i \in 1..Len(r) : t[Len(e) + 1 + i] = r[i]
  <2>1. MadeOf(t, e, s, r)
    BY AroundSeparator
  <2> QED
    BY <2>1 DEF MadeOf
<1>3. \A i \in 1..Len(e) : t[i] # s
  BY <1>2, NotIn
<1>4. \A l, m \in Nat : /\ l + 1 \in 1..l + 1 + m /\ (l + 1) - 1 = l
                        /\ l \in 0..l + 1 + m /\ l + 1 \in 0..l + 1 + m
                        /\ (l + 1 + m) - (l + 1) = m
  OBVIOUS
<1>5. Has(t, s) /\ First(t, s) = Len(e) + 1
  <2>1. Len(e) + 1 \in 1..Len(t)
    BY <1>1, <1>2, <1>4
  <2>2. \A i \in 1..(Len(e) + 1) - 1 : t[i] # s
    BY <1>1, <1>3, <1>4
  <2> QED
    BY <1>2, <2>1, <2>2, FirstAt
<1>6. Before(t, Len(e) + 1) = e
  <2> DEFINE b == SubSeq(t, 1, Len(e))
  <2>1. Len(e) \in 0..Len(t)
    BY <1>1, <1>2, <1>4
  <2>2. b \in Text /\ Len(b) = Len(e) /\ \A i \in 1..Len(e) : b[i] = t[i]
    BY <1>2, <2>1, PrefixText, Zenon
  <2>3. Before(t, Len(e) + 1) = b
    BY <1>1, <1>4 DEF Before
  <2> HIDE DEF b
  <2>4. \A i \in 1..Len(b) : b[i] = e[i]
    BY <1>2, <2>2
  <2> QED
    BY <2>2, <2>3, <2>4, SameText
<1>7. After(t, Len(e) + 1) = r
  <2> DEFINE n == Len(e) + 1  a == SubSeq(t, n + 1, Len(t))
  <2>1. n \in 0..Len(t) /\ Len(t) - n = Len(r)
    BY <1>1, <1>2, <1>4
  <2>2. /\ a \in Text /\ Len(a) = Len(t) - n
        /\ \A i \in 1..Len(t) - n : a[i] = t[n + i]
    BY <1>2, <2>1, SuffixText, Zenon
  <2>3. After(t, n) = a
    BY DEF After
  <2> HIDE DEF a
  <2>4. Len(a) = Len(r) /\ \A i \in 1..Len(a) : a[i] = r[i]
    BY <1>2, <2>1, <2>2
  <2> QED
    BY <2>2, <2>3, <2>4, SameText
<1> QED
  BY <1>2, <1>5, <1>6, <1>7

LEMMA SplitRecursion ==
  ASSUME NEW s
  PROVE  /\ Split(s) \in [Text -> Seq(Text)]
         /\ \A t \in Text : Split(s)[t] =
              IF ~Has(t, s) THEN <<t>>
              ELSE <<Before(t, First(t, s))>> \o Split(s)[After(t, First(t, s))]
<1> DEFINE V == Seq(Text)
           size == [t \in Text |-> Len(t)]
           ends == [t \in Text |-> ~Has(t, s)]
           base == [t \in Text |-> <<t>>]
           left == [t \in Text |-> IF Has(t, s) THEN After(t, First(t, s)) ELSE t]
           step == [t \in Text |-> [v \in V |->
                     IF Has(t, s) THEN <<Before(t, First(t, s))>> \o v ELSE v]]
           body(f, t) == IF ~Has(t, s) THEN <<t>>
                         ELSE <<Before(t, First(t, s))>> \o f[After(t, First(t, s))]
<1>1. size \in [Text -> Nat] /\ ends \in [Text -> BOOLEAN]
  BY TextFacts DEF Has
<1>2. base \in [Text -> V]
  BY OneElement
<1>3. left \in [Text -> Text]
  BY CutText
<1>4. step \in [Text -> [V -> V]]
  <2> SUFFICES ASSUME NEW t \in Text, NEW v \in V, Has(t, s)
               PROVE  <<Before(t, First(t, s))>> \o v \in V
    OBVIOUS
  <2>1. Before(t, First(t, s)) \in Text
    BY CutText
  <2>2. <<Before(t, First(t, s))>> \in V
    BY <2>1, OneElement
  <2> QED
    BY <2>2, ConcatProperties
<1>5. ASSUME NEW t \in Text, ~ends[t] PROVE size[left[t]] < size[t]
  <2>1. Has(t, s)
    BY <1>5
  <2>2. /\ After(t, First(t, s)) \in Text
        /\ Len(After(t, First(t, s))) = Len(t) - First(t, s)
    BY <2>1, CutText
  <2>3. First(t, s) \in 1..Len(t) /\ Len(t) \in Nat
    BY <2>1, FirstOf, TextFacts
  <2>4. size[left[t]] = Len(t) - First(t, s) /\ size[t] = Len(t)
    BY <2>1, <2>2
  <2> QED
    BY <2>3, <2>4
<1>6. PICK f \in [Text -> V] : IsRecursion(f, Text, ends, base, left, step)
  <2> HIDE DEF V, size, ends, base, left, step
  <2> QED
    BY <1>1, <1>2, <1>3, <1>4, <1>5, Recursion
<1>7. ASSUME NEW t \in Text PROVE f[t] = body(f, t)
  <2>1. f[t] = IF ends[t] THEN base[t] ELSE step[t][f[left[t]]]
    BY <1>6 DEF IsRecursion
  <2>2. f[left[t]] \in V
    BY <1>3, <1>6
  <2> QED
    BY <2>1, <2>2
<1>8. f = [t \in Text |-> body(f, t)]
  BY <1>6, <1>7
<1>9. Split(s) = CHOOSE g : g = [t \in Text |-> body(g, t)]
  BY DEF Split
<1>10. Split(s) = [t \in Text |-> body(Split(s), t)]
  BY <1>8, <1>9
<1>11. \A t \in Text : Split(s)[t] = body(Split(s), t)
  BY <1>10
<1> DEFINE P == {t \in Text : Split(s)[t] \in V}
<1>12. ASSUME NEW t \in Text, \A u \in Text : size[u] < size[t] => u \in P
       PROVE  t \in P
  <2>1. CASE ~Has(t, s)
    BY <1>2, <1>11, <2>1
  <2>2. CASE Has(t, s)
    <3>1. ~ends[t] /\ left[t] = After(t, First(t, s))
      BY <2>2
    <3>2. left[t] \in Text /\ size[left[t]] < size[t]
      BY <1>3, <1>5, <3>1
    <3>3. Split(s)[left[t]] \in V
      BY <1>12, <3>2
    <3>4. step[t][Split(s)[left[t]]] \in V
      BY <1>4, <3>3
    <3>5. step[t][Split(s)[left[t]]] = Split(s)[t]
      BY <1>11, <2>2, <3>1, <3>3
    <3> QED
      BY <3>4, <3>5
  <2> QED
    BY <2>1, <2>2
<1>13. P = Text
  <2> HIDE DEF P, size
  <2>1. P \in SUBSET Text
    BY DEF P
  <2>2. IsInductive(P, Text, size)
    BY <1>12 DEF IsInductive
  <2> QED
    BY <1>1, <2>1, <2>2, SizeInduction
<1>14. Split(s) \in [Text -> V]
  <2> DEFINE g == Split(s)
  <2>1. g = [t \in Text |-> body(g, t)] /\ \A t \in Text : g[t] \in V
    BY <1>10, <1>13
  <2> HIDE DEF g, V, body
  <2>2. g \in [Text -> V]
    BY <2>1
  <2> QED
    BY <2>2 DEF g
<1> QED
  BY <1>11, <1>14

LEMMA SplitOne ==
  ASSUME NEW s, NEW t \in Text, ~Has(t, s)
  PROVE  Split(s)[t] = <<t>>
BY SplitRecursion

LEMMA SplitCat ==
  ASSUME NEW e \in Text, NEW s \in Symbol, NEW r \in Text, ~Has(e, s)
  PROVE  Split(s)[e \o <<s>> \o r] = <<e>> \o Split(s)[r]
<1> DEFINE t == e \o <<s>> \o r
<1>1. /\ t \in Text /\ Has(t, s) /\ First(t, s) = Len(e) + 1
      /\ Before(t, Len(e) + 1) = e /\ After(t, Len(e) + 1) = r
  BY CutThere
<1> HIDE DEF t
<1>2. Split(s)[t] = <<Before(t, First(t, s))>> \o Split(s)[After(t, First(t, s))]
  BY <1>1, SplitRecursion
<1> QED
  BY <1>1, <1>2 DEF t

(* a separator at the end adds a piece, and it is empty *)
LEMMA SplitEnd ==
  ASSUME NEW s \in Symbol, NEW t \in Text
  PROVE  Split(s)[t \o <<s>>] = Split(s)[t] \o << <<>> >>
<1> DEFINE size == [u \in Text |-> Len(u)]
           P == {u \in Text : Split(s)[u \o <<s>>] = Split(s)[u] \o << <<>> >>}
<1>1. size \in [Text -> Nat] /\ P \in SUBSET Text
  BY TextFacts
<1>2. <<>> \in Text /\ ~Has(<<>>, s)
  BY DEF Text, Has
<1>3. ASSUME NEW u \in Text, \A v \in Text : size[v] < size[u] => v \in P
      PROVE  u \in P
  <2>1. CASE ~Has(u, s)
    <3>1. u \o <<s>> \o <<>> = u \o <<s>>
      <4>1. u \o <<s>> \in Text
        BY OneText, CatText
      <4> QED
        BY <4>1, ConcatEmptySeq DEF Text
    <3>2. Split(s)[u \o <<s>> \o <<>>] = <<u>> \o Split(s)[<<>>]
      BY <1>2, <2>1, SplitCat
    <3>3. Split(s)[u] = <<u>> /\ Split(s)[<<>>] = << <<>> >>
      BY <1>2, <2>1, SplitOne
    <3> QED
      BY <3>1, <3>2, <3>3
  <2>2. CASE Has(u, s)
    <3> DEFINE n == First(u, s)  b == Before(u, n)  a == After(u, n)
    <3>1. /\ b \in Text /\ ~Has(b, s) /\ a \in Text /\ Len(a) = Len(u) - n
          /\ u = b \o <<s>> \o a
      BY <2>2, CutText
    <3>2. n \in 1..Len(u) /\ Len(u) \in Nat
      BY <2>2, FirstOf, TextFacts
    <3> HIDE DEF n, b, a
    <3>3. a \in P
      <4>1. size[a] < size[u]
        BY <3>1, <3>2
      <4> QED
        BY <1>3, <3>1, <4>1
    <3>4. Split(s)[u] = <<b>> \o Split(s)[a]
      BY <3>1, SplitCat
    <3>5. u \o <<s>> = b \o <<s>> \o (a \o <<s>>)
      <4>1. b \in Text /\ a \in Text /\ u = b \o <<s>> \o a
        BY <3>1
      <4>2. (b \o <<s>> \o a) \o <<s>> = b \o <<s>> \o (a \o <<s>>)
        BY <4>1, CatOneMore
      <4> QED
        BY <4>1, <4>2
    <3>6. Split(s)[b \o <<s>> \o (a \o <<s>>)] = <<b>> \o Split(s)[a \o <<s>>]
      <4>1. a \o <<s>> \in Text
        BY <3>1, OneText, CatText
      <4> QED
        BY <3>1, <4>1, SplitCat
    <3>7. Split(s)[a] \in Seq(Text) /\ <<b>> \in Seq(Text) /\ << <<>> >> \in Seq(Text)
      BY <1>2, <3>1, SplitRecursion, OneElement
    <3>8. (<<b>> \o Split(s)[a]) \o << <<>> >> = <<b>> \o (Split(s)[a] \o << <<>> >>)
      BY <3>7, PiecesAssociative
    <3> QED
      BY <3>3, <3>4, <3>5, <3>6, <3>8
  <2> QED
    BY <2>1, <2>2
<1>4. P = Text
  <2> HIDE DEF P, size
  <2>1. IsInductive(P, Text, size)
    BY <1>3 DEF IsInductive
  <2> QED
    BY <1>1, <2>1, SizeInduction
<1> QED
  BY <1>4

-----------------------------------------------------------------------------
(* The lines of a map *)

IsMap(map) ==
  /\ IsFiniteSet(DOMAIN map)
  /\ \A k \in DOMAIN map : k \in Text /\ map[k] \in Text

LEMMA SymbolFacts ==
  /\ NL \in Symbol /\ Colon \in Symbol /\ NUL \in Symbol
  /\ NL # Colon /\ NL # NUL /\ Colon # NUL
<1>1. NL \in Symbol /\ Colon \in Symbol /\ NUL \in Symbol
  BY DEF Symbol
<1>2. NL # Colon /\ NL # NUL /\ Colon # NUL
  BY DEF NL, Colon, NUL
<1> QED
  BY <1>1, <1>2

LEMMA LineText ==
  ASSUME NEW k \in Text, NEW v \in Text
  PROVE  Line(k, v) \in Text
<1>1. <<Colon>> \in Text /\ <<NL>> \in Text
  BY SymbolFacts, OneText
<1>2. k \o <<Colon>> \in Text
  BY <1>1, CatText
<1>3. k \o <<Colon>> \o v \in Text
  BY <1>2, CatText
<1> QED
  BY <1>1, <1>3, CatText DEF Line

(* The fold, one key after the other *)
LEMMA LinesFold ==
  ASSUME NEW indent \in Text, NEW map, IsMap(map)
  PROVE  \E it \in [SUBSET (DOMAIN map) -> Text] :
           /\ it[{}] = <<>> /\ it[DOMAIN map] = Lines(indent, map)
           /\ \A S \in SUBSET (DOMAIN map) : S # {} =>
                \E k \in S : it[S] = it[S \ {k}] \o (indent \o Line(k, map[k]))
<1> DEFINE K == DOMAIN map
           D == SUBSET K
           one(S) == CHOOSE x \in S : TRUE
           pick == [S \in D |-> one(S)]
           size == [S \in D |-> Cardinality(S)]
           ends == [S \in D |-> S = {}]
           base == [S \in D |-> <<>>]
           left == [S \in D |-> S \ {pick[S]}]
           line == [k \in K |-> indent \o Line(k, map[k])]
           step == [S \in D |-> [lines \in Text |->
                     IF S = {} THEN lines ELSE lines \o line[pick[S]]]]
           body(f, S) == IF S = {} THEN <<>>
                         ELSE f[S \ {one(S)}] \o (indent \o Line(one(S), map[one(S)]))
<1>1. \A S \in D : S # {} => pick[S] \in S
  OBVIOUS
<1>2. \A S \in D : IsFiniteSet(S) /\ Cardinality(S) \in Nat
  BY FS_Subset, FS_CardinalityType DEF IsMap
<1>3. size \in [D -> Nat] /\ ends \in [D -> BOOLEAN]
  BY <1>2
<1>4. <<>> \in Text
  BY DEF Text
<1>5. base \in [D -> Text]
  BY <1>4
<1>6. left \in [D -> D]
  OBVIOUS
<1>7. line \in [K -> Text]
  BY LineText, CatText DEF IsMap
<1>8. step \in [D -> [Text -> Text]]
  <2> HIDE DEF line, pick
  <2> SUFFICES ASSUME NEW S \in D, NEW lines \in Text, S # {}
               PROVE  lines \o line[pick[S]] \in Text
    OBVIOUS
  <2>1. line[pick[S]] \in Text
    BY <1>1, <1>7
  <2> QED
    BY <2>1, CatText
<1>9. ASSUME NEW S \in D, ~ends[S] PROVE size[left[S]] < size[S]
  <2>1. S # {} /\ pick[S] \in S /\ left[S] = S \ {pick[S]}
    BY <1>1, <1>9
  <2>2. Cardinality(S \ {pick[S]}) = Cardinality(S) - 1 /\ Cardinality(S) \in Nat
    BY <1>2, <2>1, FS_RemoveElement
  <2>3. size[left[S]] = Cardinality(S \ {pick[S]}) /\ size[S] = Cardinality(S)
    BY <1>6, <2>1
  <2> QED
    BY <2>2, <2>3
<1> DEFINE it == CHOOSE g : g = [S \in D |-> body(g, S)]
<1>14. Lines(indent, map) = it[K]
  BY DEF Lines, FoldSet, MapThenFoldSet
<1>21. \A S \in D : S # {} => /\ left[S] = S \ {one(S)}
                             /\ line[pick[S]] = indent \o Line(one(S), map[one(S)])
  BY <1>1
<1> HIDE DEF pick, size, ends, base, left, line, step, D
<1>10. PICK f \in [D -> Text] : IsRecursion(f, D, ends, base, left, step)
  BY <1>3, <1>5, <1>6, <1>8, <1>9, Recursion
<1>11. ASSUME NEW S \in D PROVE f[S] = body(f, S)
  <2>1. f[S] = IF ends[S] THEN base[S] ELSE step[S][f[left[S]]]
    BY <1>10 DEF IsRecursion
  <2>2. f[left[S]] \in Text
    BY <1>6, <1>10
  <2> QED
    BY <1>21, <2>1, <2>2 DEF ends, base, step
<1>12. f = [S \in D |-> body(f, S)]
  BY <1>10, <1>11
<1>13. it = [S \in D |-> body(it, S)]
  BY <1>12
<1> HIDE DEF it
<1>15. \A S \in D : it[S] = body(it, S)
  BY <1>13
<1> HIDE DEF one
<1>22. \A S \in D : S # {} => it[S] = it[left[S]] \o line[pick[S]]
  BY <1>15, <1>21
<1> DEFINE P == {S \in D : it[S] \in Text}
<1>16. ASSUME NEW S \in D, \A U \in D : size[U] < size[S] => U \in P PROVE S \in P
  <2>1. CASE S = {}
    BY <1>4, <1>15, <2>1
  <2>2. CASE S # {}
    <3>1. left[S] \in D /\ size[left[S]] < size[S]
      BY <1>6, <1>9, <2>2 DEF ends
    <3>2. it[left[S]] \in Text
      BY <1>16, <3>1
    <3>3. line[pick[S]] \in Text
      BY <1>1, <1>7, <2>2 DEF D
    <3>4. it[left[S]] \o line[pick[S]] \in Text
      BY <3>2, <3>3, CatText
    <3> QED
      BY <1>22, <2>2, <3>4
  <2> QED
    BY <2>1, <2>2
<1>17. P = D
  <2> HIDE DEF P
  <2>1. P \in SUBSET D /\ IsInductive(P, D, size)
    BY <1>16 DEF IsInductive, P
  <2> QED
    BY <1>3, <2>1, SizeInduction
<1>18. it \in [D -> Text]
  <2>1. \A S \in D : it[S] \in Text
    BY <1>17
  <2> HIDE DEF body
  <2> QED
    BY <1>13, <2>1
<1> USE DEF one
<1>19. it[{}] = <<>>
  BY <1>15 DEF D
<1>20. ASSUME NEW S \in D, S # {}
       PROVE  \E k \in S : it[S] = it[S \ {k}] \o (indent \o Line(k, map[k]))
  <2>1. pick[S] \in S /\ pick[S] \in K
    BY <1>1, <1>20 DEF D
  <2>2. left[S] = S \ {pick[S]} /\ line[pick[S]] = indent \o Line(pick[S], map[pick[S]])
    BY <2>1 DEF left, line
  <2>3. it[S] = it[left[S]] \o line[pick[S]]
    BY <1>20, <1>22
  <2> QED
    BY <2>1, <2>2, <2>3
<1> QED
  BY <1>14, <1>18, <1>19, <1>20 DEF D

-----------------------------------------------------------------------------
(* Whole lines *)

LEMMA HasCat ==
  ASSUME NEW x \in Text, NEW y \in Text, NEW s
  PROVE  Has(x \o y, s) <=> Has(x, s) \/ Has(y, s)
<1>1. /\ x \o y \in Text /\ Len(x \o y) = Len(x) + Len(y)
      /\ \A i \in 1..Len(x) + Len(y) :
           (x \o y)[i] = IF i <= Len(x) THEN x[i] ELSE y[i - Len(x)]
  BY CatText
<1> DEFINE z == x \o y
<1> HIDE DEF z
<1>2. /\ Len(x) \in Nat /\ Len(y) \in Nat
      /\ DOMAIN x = 1..Len(x) /\ DOMAIN y = 1..Len(y)
  BY TextFacts
<1>3. /\ DOMAIN z = 1..Len(x) + Len(y)
      /\ \A i \in 1..Len(x) + Len(y) : z[i] = IF i <= Len(x) THEN x[i] ELSE y[i - Len(x)]
  BY <1>1, TextFacts DEF z
<1>4. ASSUME Has(z, s) PROVE Has(x, s) \/ Has(y, s)
  <2>1. PICK i \in 1..Len(x) + Len(y) : z[i] = s
    BY <1>3, <1>4 DEF Has
  <2>2. CASE i <= Len(x)
    <3>1. i \in 1..Len(x) /\ x[i] = s
      BY <1>2, <1>3, <2>1, <2>2
    <3> QED
      BY <1>2, <3>1 DEF Has
  <2>3. CASE ~(i <= Len(x))
    <3>1. i - Len(x) \in 1..Len(y) /\ y[i - Len(x)] = s
      BY <1>2, <1>3, <2>1, <2>3
    <3> QED
      BY <1>2, <3>1 DEF Has
  <2> QED
    BY <2>2, <2>3
<1>5. ASSUME Has(x, s) PROVE Has(z, s)
  <2>1. PICK i \in 1..Len(x) : x[i] = s
    BY <1>2, <1>5 DEF Has
  <2>2. i \in 1..Len(x) + Len(y) /\ i <= Len(x)
    BY <1>2
  <2> QED
    BY <1>3, <2>1, <2>2 DEF Has
<1>6. ASSUME Has(y, s) PROVE Has(z, s)
  <2>1. PICK i \in 1..Len(y) : y[i] = s
    BY <1>2, <1>6 DEF Has
  <2>2. Len(x) + i \in 1..Len(x) + Len(y) /\ ~(Len(x) + i <= Len(x))
        /\ (Len(x) + i) - Len(x) = i
    BY <1>2
  <2>3. z[Len(x) + i] = s
    BY <1>3, <2>1, <2>2
  <2> QED
    BY <1>3, <2>2, <2>3 DEF Has
<1>7. Has(z, s) <=> Has(x, s) \/ Has(y, s)
  BY <1>4, <1>5, <1>6
<1> QED
  BY <1>7 DEF z

LEMMA HasOne ==
  ASSUME NEW a \in Symbol, NEW s
  PROVE  Has(<<a>>, s) <=> a = s
<1>1. <<a>> \in Text /\ Len(<<a>>) = 1 /\ <<a>>[1] = a
  BY OneText
<1>2. DOMAIN <<a>> = {1}
  OBVIOUS
<1> QED
  BY <1>1, <1>2 DEF Has

(* x is made of whole lines, none of them empty, which are those of ls *)
WholeLines(x, ls) ==
  /\ x \in Text /\ ls \in Seq(Text) /\ ~Has(x, NUL)
  /\ \A t \in Text : Split(NL)[x \o t] = ls \o Split(NL)[t]
  /\ x # <<>> => x[1] # NL /\ x[Len(x)] = NL
  /\ \A i \in 1..Len(x) - 1 : x[i] = NL => x[i + 1] # NL

LEMMA NoLines == WholeLines(<<>>, <<>>)
<1>1. <<>> \in Text /\ <<>> \in Seq(Text) /\ ~Has(<<>>, NUL)
  BY DEF Text, Has
<1>2. ASSUME NEW t \in Text PROVE Split(NL)[<<>> \o t] = <<>> \o Split(NL)[t]
  <2>1. <<>> \o t = t
    BY ConcatEmptySeq DEF Text
  <2>2. <<>> \o Split(NL)[t] = Split(NL)[t]
    BY SplitRecursion, ConcatEmptySeq
  <2> QED
    BY <2>1, <2>2
<1>3. \A i \in 1..Len(<<>>) - 1 : FALSE
  OBVIOUS
<1> QED
  BY <1>1, <1>2, <1>3 DEF WholeLines

(* a text that may be a line *)
IsLine(e) == e \in Text /\ e # <<>> /\ ~Has(e, NL) /\ ~Has(e, NUL)

LEMMA OneLine ==
  ASSUME NEW e, IsLine(e)
  PROVE  WholeLines(e \o <<NL>>, <<e>>)
<1>1. e \in Text /\ e # <<>> /\ ~Has(e, NL) /\ ~Has(e, NUL)
  BY DEF IsLine
<1>2. Len(e) \in Nat \ {0}
  BY <1>1, EmptySeq DEF Text
<1>3. <<NL>> \in Text /\ Len(<<NL>>) = 1 /\ <<NL>>[1] = NL
  BY SymbolFacts, OneText
<1> DEFINE x == e \o <<NL>>
<1>4. /\ x \in Text /\ Len(x) = Len(e) + 1
      /\ \A i \in 1..Len(e) + 1 : x[i] = IF i <= Len(e) THEN e[i] ELSE <<NL>>[i - Len(e)]
  BY <1>1, <1>3, CatText
<1>5. ~Has(x, NUL)
  BY <1>1, <1>3, HasCat, HasOne, SymbolFacts
<1>6. ASSUME NEW t \in Text PROVE Split(NL)[x \o t] = <<e>> \o Split(NL)[t]
  BY <1>1, SymbolFacts, SplitCat
<1> HIDE DEF x
<1>7. \A i \in 1..Len(e) : x[i] = e[i] /\ x[i] # NL
  BY <1>1, <1>2, <1>4, NotIn
<1>8. x[Len(x)] = NL
  <2>1. Len(e) + 1 \in 1..Len(e) + 1 /\ ~(Len(e) + 1 <= Len(e)) /\ (Len(e) + 1) - Len(e) = 1
    BY <1>2
  <2> QED
    BY <1>3, <1>4, <2>1
<1>9. x[1] # NL
  BY <1>2, <1>7
<1>10. \A i \in 1..Len(x) - 1 : x[i] # NL
  BY <1>2, <1>4, <1>7
<1>11. <<e>> \in Seq(Text)
  BY <1>1, OneElement
<1>12. WholeLines(x, <<e>>)
  BY <1>4, <1>5, <1>6, <1>8, <1>9, <1>10, <1>11 DEF WholeLines
<1> QED
  BY <1>12 DEF x

LEMMA MoreLines ==
  ASSUME NEW x, NEW y, NEW ls, NEW ms, WholeLines(x, ls), WholeLines(y, ms)
  PROVE  WholeLines(x \o y, ls \o ms)
<1>1. /\ x \in Text /\ y \in Text /\ ls \in Seq(Text) /\ ms \in Seq(Text)
      /\ ~Has(x, NUL) /\ ~Has(y, NUL)
  BY DEF WholeLines
<1>2. Len(x) \in Nat /\ Len(y) \in Nat /\ (x = <<>> <=> Len(x) = 0) /\ (y = <<>> <=> Len(y) = 0)
  BY <1>1, TextFacts, EmptySeq DEF Text
<1> DEFINE z == x \o y
<1>3. /\ z \in Text /\ Len(z) = Len(x) + Len(y)
      /\ \A i \in 1..Len(x) + Len(y) : z[i] = IF i <= Len(x) THEN x[i] ELSE y[i - Len(x)]
  BY <1>1, CatText
<1>4. ~Has(z, NUL)
  BY <1>1, HasCat
<1>5. ls \o ms \in Seq(Text)
  BY <1>1, ConcatProperties
<1>6. ASSUME NEW t \in Text PROVE Split(NL)[z \o t] = (ls \o ms) \o Split(NL)[t]
  <2>1. z \o t = x \o (y \o t)
    BY <1>1, CatAssociative
  <2>2. y \o t \in Text
    BY <1>1, CatText
  <2>3. Split(NL)[x \o (y \o t)] = ls \o Split(NL)[y \o t]
    BY <2>2 DEF WholeLines
  <2>4. Split(NL)[y \o t] = ms \o Split(NL)[t]
    BY DEF WholeLines
  <2>5. Split(NL)[t] \in Seq(Text)
    BY SplitRecursion
  <2>6. (ls \o ms) \o Split(NL)[t] = ls \o (ms \o Split(NL)[t])
    BY <1>1, <2>5, PiecesAssociative
  <2> QED
    BY <2>1, <2>3, <2>4, <2>6
<1> HIDE DEF z
<1>7. \A i \in 1..Len(x) : z[i] = x[i]
  BY <1>2, <1>3
<1>8. \A i \in 1..Len(y) : z[Len(x) + i] = y[i]
  <2>1. \A l, m \in Nat : \A i \in 1..m :
          l + i \in 1..l + m /\ ~(l + i <= l) /\ (l + i) - l = i
    OBVIOUS
  <2> QED
    BY <1>2, <1>3, <2>1
<1>9. ASSUME z # <<>> PROVE z[1] # NL /\ z[Len(z)] = NL
  <2>1. Len(x) # 0 \/ Len(y) # 0
    BY <1>2, <1>3, <1>9, EmptySeq DEF Text
  <2>2. z[1] # NL
    <3>1. CASE Len(x) # 0
      <4>1. 1 \in 1..Len(x) /\ x[1] # NL
        BY <1>2, <3>1 DEF WholeLines
      <4> QED
        BY <1>7, <4>1
    <3>2. CASE Len(x) = 0
      <4>1. 1 \in 1..Len(y) /\ y[1] # NL /\ Len(x) + 1 = 1
        BY <1>2, <2>1, <3>2 DEF WholeLines
      <4> QED
        BY <1>8, <4>1
    <3> QED
      BY <3>1, <3>2
  <2>3. z[Len(z)] = NL
    <3>1. CASE Len(y) # 0
      <4>1. Len(y) \in 1..Len(y) /\ y[Len(y)] = NL
        BY <1>2, <3>1 DEF WholeLines
      <4> QED
        BY <1>3, <1>8, <4>1
    <3>2. CASE Len(y) = 0
      <4>1. Len(x) \in 1..Len(x) /\ x[Len(x)] = NL /\ Len(x) + Len(y) = Len(x)
        BY <1>2, <2>1, <3>2 DEF WholeLines
      <4> QED
        BY <1>3, <1>7, <4>1
    <3> QED
      BY <3>1, <3>2
  <2> QED
    BY <2>2, <2>3
<1>10. ASSUME NEW i \in 1..Len(z) - 1, z[i] = NL PROVE z[i + 1] # NL
  <2>1. CASE i + 1 <= Len(x)
    <3>1. i \in 1..Len(x) - 1 /\ i \in 1..Len(x) /\ i + 1 \in 1..Len(x)
      BY <1>2, <1>3, <2>1
    <3>2. x[i] = NL
      BY <1>7, <1>10, <3>1
    <3>3. x[i + 1] # NL
      BY <3>1, <3>2 DEF WholeLines
    <3> QED
      BY <1>7, <3>1, <3>3
  <2>2. CASE i = Len(x)
    <3>1. 1 \in 1..Len(y) /\ y # <<>>
      BY <1>2, <1>3, <2>2
    <3>2. y[1] # NL
      BY <3>1 DEF WholeLines
    <3> QED
      BY <1>8, <2>2, <3>1, <3>2
  <2>3. CASE i > Len(x)
    <3> DEFINE j == i - Len(x)
    <3>1. /\ j \in 1..Len(y) - 1 /\ j \in 1..Len(y) /\ j + 1 \in 1..Len(y)
          /\ i = Len(x) + j /\ i + 1 = Len(x) + (j + 1)
      BY <1>2, <1>3, <2>3
    <3> HIDE DEF j
    <3>2. y[j] = NL
      BY <1>8, <1>10, <3>1
    <3>3. y[j + 1] # NL
      BY <3>1, <3>2 DEF WholeLines
    <3> QED
      BY <1>8, <3>1, <3>3
  <2> QED
    BY <1>2, <1>3, <2>1, <2>2, <2>3
<1>11. WholeLines(z, ls \o ms)
  BY <1>3, <1>4, <1>5, <1>6, <1>9, <1>10 DEF WholeLines
<1> QED
  BY <1>11 DEF z

(* the line of a key, without its end *)
Entry(indent, k, v) == indent \o k \o <<Colon>> \o v

LEMMA EntryLine ==
  ASSUME NEW indent \in Text, NEW k \in Text, NEW v \in Text
  PROVE  /\ Entry(indent, k, v) \in Text
         /\ indent \o Line(k, v) = Entry(indent, k, v) \o <<NL>>
<1> DEFINE c == <<Colon>>  n == <<NL>>  kc == k \o c  kcv == kc \o v
<1>1. c \in Text /\ n \in Text
  BY SymbolFacts, OneText
<1> HIDE DEF c, n
<1>2. kc \in Text /\ indent \o k \in Text
  BY <1>1, CatText
<1>3. kcv \in Text /\ indent \o k \o c \in Text
  BY <1>1, <1>2, CatText
<1>4. Entry(indent, k, v) \in Text
  BY <1>3, CatText DEF Entry, c
<1>5. Associates(indent, k, c)
  BY <1>1, Associative
<1> HIDE DEF kc
<1>6. Associates(indent, kc, v)
  BY <1>2, Associative
<1> HIDE DEF kcv
<1>7. Associates(indent, kcv, n)
  BY <1>1, <1>3, Associative
<1>8. indent \o (kcv \o n) = indent \o k \o c \o v \o n
  <2>1. indent \o kc = indent \o k \o c
    BY <1>5 DEF Associates, kc
  <2>2. indent \o kcv = indent \o kc \o v
    BY <1>6 DEF Associates, kcv
  <2> QED
    BY <1>7, <2>1, <2>2 DEF Associates
<1> QED
  BY <1>4, <1>8 DEF Entry, Line, c, n, kc, kcv

(* keys and values of which every line can be read again *)
IsPlain(t) == t \in Text /\ ~Has(t, NL) /\ ~Has(t, NUL)

LEMMA EntryIsLine ==
  ASSUME NEW indent, NEW k, NEW v, IsPlain(indent), IsPlain(k), IsPlain(v)
  PROVE  IsLine(Entry(indent, k, v))
<1>1. indent \in Text /\ k \in Text /\ v \in Text /\ <<Colon>> \in Text
  BY SymbolFacts, OneText DEF IsPlain
<1>2. indent \o k \in Text /\ indent \o k \o <<Colon>> \in Text
  BY <1>1, CatText
<1>3. ASSUME NEW s
      PROVE  Has(Entry(indent, k, v), s) <=> Has(indent, s) \/ Has(k, s) \/ Colon = s \/ Has(v, s)
  BY <1>1, <1>2, HasCat, HasOne, SymbolFacts DEF Entry
<1>4. ~Has(Entry(indent, k, v), NL) /\ ~Has(Entry(indent, k, v), NUL)
  BY <1>3, SymbolFacts DEF IsPlain
<1>5. Entry(indent, k, v) # <<>>
  <2>1. Has(Entry(indent, k, v), Colon)
    BY <1>3
  <2> QED
    BY <2>1 DEF Has
<1> QED
  BY <1>1, <1>4, <1>5, EntryLine DEF IsLine

PlainMap(map) ==
  IsFiniteSet(DOMAIN map) /\ \A k \in DOMAIN map : IsPlain(k) /\ IsPlain(map[k])

(* ls has the entries of the keys in S, and no other line *)
EntriesOf(ls, indent, map, S) ==
  /\ \A i \in 1..Len(ls) : \E k \in S : ls[i] = Entry(indent, k, map[k])
  /\ \A k \in S : \E i \in 1..Len(ls) : ls[i] = Entry(indent, k, map[k])

LEMMA LinesWhole ==
  ASSUME NEW indent, NEW map, IsPlain(indent), PlainMap(map)
  PROVE  \E ls : /\ WholeLines(Lines(indent, map), ls)
                 /\ EntriesOf(ls, indent, map, DOMAIN map)
<1>1. IsMap(map) /\ indent \in Text
  BY DEF PlainMap, IsMap, IsPlain
<1> DEFINE D == SUBSET (DOMAIN map)
<1>2. PICK it \in [D -> Text] :
        /\ it[{}] = <<>> /\ it[DOMAIN map] = Lines(indent, map)
        /\ \A S \in D : S # {} =>
             \E k \in S : it[S] = it[S \ {k}] \o (indent \o Line(k, map[k]))
  BY <1>1, LinesFold
<1> DEFINE Good(S) == \E ls : WholeLines(it[S], ls) /\ EntriesOf(ls, indent, map, S)
           size == [S \in D |-> Cardinality(S)]
           P == {S \in D : Good(S)}
<1>3. \A S \in D : IsFiniteSet(S) /\ Cardinality(S) \in Nat
  BY <1>1, FS_Subset, FS_CardinalityType DEF IsMap
<1>4. ASSUME NEW S \in D, \A U \in D : size[U] < size[S] => U \in P PROVE S \in P
  <2>1. CASE S = {}
    <3>1. EntriesOf(<<>>, indent, map, {})
      BY DEF EntriesOf
    <3>2. Good(S)
      BY <1>2, <2>1, <3>1, NoLines
    <3> QED
      BY <3>2
  <2>2. CASE S # {}
    <3>1. PICK k \in S : it[S] = it[S \ {k}] \o (indent \o Line(k, map[k]))
      BY <1>2, <2>2
    <3> DEFINE U == S \ {k}
    <3>2. U \in D /\ k \in DOMAIN map
      OBVIOUS
    <3>3. size[U] < size[S]
      <4>1. Cardinality(U) = Cardinality(S) - 1
        BY <1>3, FS_RemoveElement
      <4>2. Cardinality(S) \in Nat
        BY <1>3
      <4> HIDE DEF U
      <4>3. size[U] = Cardinality(U) /\ size[S] = Cardinality(S)
        BY <3>2
      <4> QED
        BY <4>1, <4>2, <4>3
    <3>4. Good(U)
      BY <1>4, <3>2, <3>3
    <3>5. PICK ls : WholeLines(it[U], ls) /\ EntriesOf(ls, indent, map, U)
      BY <3>4
    <3> DEFINE e == Entry(indent, k, map[k])
    <3>6. IsPlain(k) /\ IsPlain(map[k])
      BY <3>2 DEF PlainMap
    <3>7. WholeLines(e \o <<NL>>, <<e>>) /\ e \in Text
      BY <3>6, EntryIsLine, OneLine DEF IsLine
    <3>8. it[S] = it[U] \o (e \o <<NL>>)
      <4>1. indent \o Line(k, map[k]) = e \o <<NL>>
        BY <1>1, <3>6, EntryLine DEF IsPlain
      <4> QED
        BY <3>1, <4>1
    <3>9. WholeLines(it[S], ls \o <<e>>)
      BY <3>5, <3>7, <3>8, MoreLines
    <3>10. EntriesOf(ls \o <<e>>, indent, map, S)
      <4>1. ls \in Seq(Text) /\ <<e>> \in Seq(Text) /\ Len(<<e>>) = 1 /\ <<e>>[1] = e
        BY <3>5, <3>7, OneElement DEF WholeLines
      <4>2. /\ Len(ls \o <<e>>) = Len(ls) + 1
            /\ \A i \in 1..Len(ls) + 1 :
                 (ls \o <<e>>)[i] = IF i <= Len(ls) THEN ls[i] ELSE <<e>>[i - Len(ls)]
        BY <4>1, ConcatProperties
      <4>3. Len(ls) \in Nat
        BY <4>1, LenProperties
      <4> DEFINE ms == ls \o <<e>>
      <4> HIDE DEF e, ms, U
      <4>4. /\ Len(ms) = Len(ls) + 1 /\ ms[Len(ls) + 1] = e
            /\ \A i \in 1..Len(ls) : ms[i] = ls[i]
        <5>1. /\ Len(ls) + 1 \in 1..Len(ls) + 1 /\ ~(Len(ls) + 1 <= Len(ls))
              /\ (Len(ls) + 1) - Len(ls) = 1
              /\ \A i \in 1..Len(ls) : i \in 1..Len(ls) + 1 /\ i <= Len(ls)
          BY <4>3
        <5> QED
          BY <4>1, <4>2, <5>1 DEF ms
      <4>5. /\ \A i \in 1..Len(ls) : \E h \in U : ls[i] = Entry(indent, h, map[h])
            /\ \A h \in U : \E i \in 1..Len(ls) : ls[i] = Entry(indent, h, map[h])
        BY <3>5 DEF EntriesOf
      <4>6. ASSUME NEW i \in 1..Len(ms) PROVE \E h \in S : ms[i] = Entry(indent, h, map[h])
        <5>1. i \in 1..Len(ls) \/ i = Len(ls) + 1
          BY <4>3, <4>4
        <5>2. ms[Len(ls) + 1] = Entry(indent, k, map[k])
          BY <4>4 DEF e
        <5> QED
          BY <4>4, <4>5, <5>1, <5>2 DEF U
      <4>7. ASSUME NEW h \in S PROVE \E i \in 1..Len(ms) : ms[i] = Entry(indent, h, map[h])
        <5>1. CASE h = k
          <6>1. Len(ls) + 1 \in 1..Len(ms)
            BY <4>3, <4>4
          <6> QED
            BY <4>4, <5>1, <6>1 DEF e
        <5>2. CASE h # k
          <6>1. PICK i \in 1..Len(ls) : ls[i] = Entry(indent, h, map[h])
            BY <4>5, <5>2 DEF U
          <6>2. i \in 1..Len(ms) /\ ms[i] = ls[i]
            BY <4>3, <4>4
          <6> QED
            BY <6>1, <6>2
        <5> QED
          BY <5>1, <5>2
      <4>8. EntriesOf(ms, indent, map, S)
        BY <4>6, <4>7 DEF EntriesOf
      <4> QED
        BY <4>8 DEF ms
    <3>11. Good(S)
      BY <3>9, <3>10
    <3> QED
      BY <3>11
  <2> QED
    BY <2>1, <2>2
<1>5. P = D
  <2>1. size \in [D -> Nat]
    BY <1>3
  <2> HIDE DEF P, size
  <2>2. P \in SUBSET D
    BY DEF P
  <2>3. IsInductive(P, D, size)
    BY <1>4 DEF IsInductive
  <2> HIDE DEF D
  <2> QED
    BY <2>1, <2>2, <2>3, SizeInduction
<1>6. Good(DOMAIN map)
  BY <1>5
<1> QED
  BY <1>2, <1>6

(* headers that can be read again: the first colon of a line ends the key *)
IsHeaders(map) ==
  /\ map = [k \in DOMAIN map |-> map[k]]
  /\ PlainMap(map)
  /\ \A k \in DOMAIN map : ~Has(k, Colon)

LEMMA HeaderLine ==
  ASSUME NEW k \in Text, NEW v \in Text, ~Has(k, Colon), NEW e, e = Entry(<<>>, k, v)
  PROVE  /\ Has(e, Colon) /\ First(e, Colon) = Len(k) + 1
         /\ Before(e, Len(k) + 1) = k /\ After(e, Len(k) + 1) = v
<1>1. <<>> \o k = k
  BY ConcatEmptySeq DEF Text
<1>2. e = k \o <<Colon>> \o v
  BY <1>1 DEF Entry
<1>3. Colon \in Symbol
  BY SymbolFacts
<1> QED
  BY <1>2, <1>3, CutThere

LEMMA HeadersRead ==
  ASSUME NEW map, IsHeaders(map), NEW ls \in Seq(Text),
         EntriesOf(ls, <<>>, map, DOMAIN map)
  PROVE  Headers[ls] = map
<1> DEFINE headers == {i \in DOMAIN ls : Has(ls[i], Colon)}
           colon(i) == First(ls[i], Colon)
           key(i) == Before(ls[i], colon(i))
           lines(k) == {i \in headers : key(i) = k}
<1>1. Headers[ls] = [k \in {key(i) : i \in headers} |->
                       After(ls[Max(lines(k))], colon(Max(lines(k))))]
  BY DEF Headers
<1>2. Len(ls) \in Nat /\ DOMAIN ls = 1..Len(ls)
  BY LenProperties
<1>3. \A k \in DOMAIN map : k \in Text /\ map[k] \in Text /\ ~Has(k, Colon)
  BY DEF IsHeaders, PlainMap, IsPlain
<1>4. ASSUME NEW i \in 1..Len(ls), NEW k \in DOMAIN map, ls[i] = Entry(<<>>, k, map[k])
      PROVE  Has(ls[i], Colon) /\ key(i) = k /\ After(ls[i], colon(i)) = map[k]
  BY <1>3, <1>4, HeaderLine
<1>5. \A i \in 1..Len(ls) : \E k \in DOMAIN map : ls[i] = Entry(<<>>, k, map[k])
  BY DEF EntriesOf
<1>6. \A k \in DOMAIN map : \E i \in 1..Len(ls) : ls[i] = Entry(<<>>, k, map[k])
  BY DEF EntriesOf
<1>7. ASSUME NEW i \in 1..Len(ls)
      PROVE  /\ Has(ls[i], Colon) /\ key(i) \in DOMAIN map
             /\ After(ls[i], colon(i)) = map[key(i)]
  <2>1. PICK k \in DOMAIN map : ls[i] = Entry(<<>>, k, map[k])
    BY <1>5
  <2>2. Has(ls[i], Colon) /\ key(i) = k /\ After(ls[i], colon(i)) = map[k]
    BY <1>4, <2>1
  <2> HIDE DEF key, colon
  <2> QED
    BY <2>2
<1>8. headers = 1..Len(ls)
  BY <1>2, <1>7
<1>9. ASSUME NEW k \in DOMAIN map PROVE \E i \in 1..Len(ls) : key(i) = k
  <2>1. PICK i \in 1..Len(ls) : ls[i] = Entry(<<>>, k, map[k])
    BY <1>6
  <2> QED
    BY <1>4, <2>1
<1> HIDE DEF headers, colon, key
<1>10. {key(i) : i \in headers} = DOMAIN map
  BY <1>7, <1>8, <1>9
<1>11. ASSUME NEW k \in DOMAIN map
       PROVE  After(ls[Max(lines(k))], colon(Max(lines(k)))) = map[k]
  <2>1. lines(k) \in SUBSET (0..Len(ls)) /\ lines(k) # {}
    BY <1>2, <1>8, <1>9
  <2>2. Max(lines(k)) \in lines(k)
    BY <1>2, <2>1, MaxOf
  <2> DEFINE i == Max(lines(k))
  <2>3. i \in 1..Len(ls) /\ key(i) = k
    BY <1>8, <2>2
  <2> HIDE DEF i
  <2>4. After(ls[i], colon(i)) = map[key(i)]
    BY <1>7, <2>3
  <2> QED
    BY <2>3, <2>4 DEF i
<1> HIDE DEF lines
<1>12. Headers[ls] = [k \in DOMAIN map |-> map[k]]
  BY <1>1, <1>10, <1>11
<1> QED
  BY <1>12 DEF IsHeaders

-----------------------------------------------------------------------------
(* Parsing what was written *)

LEMMA HeadOfLines ==
  ASSUME NEW c \in Text, NEW ls \in Seq(Text)
  PROVE  Head(<<c>> \o ls) = c /\ Tail(<<c>> \o ls) = ls
<1> DEFINE p == <<c>> \o ls
<1>1. <<c>> \in Seq(Text) /\ Len(<<c>>) = 1 /\ <<c>>[1] = c
  BY OneElement
<1>2. /\ p \in Seq(Text) /\ Len(p) = 1 + Len(ls)
      /\ \A i \in 1..1 + Len(ls) : p[i] = IF i <= 1 THEN <<c>>[i] ELSE ls[i - 1]
  BY <1>1, ConcatProperties
<1>3. Len(ls) \in Nat
  BY LenProperties
<1> HIDE DEF p
<1>4. p # <<>> /\ p[1] = c
  BY <1>1, <1>2, <1>3
<1>5. Head(p) = c
  BY <1>4
<1>6. /\ Tail(p) \in Seq(Text) /\ Len(Tail(p)) = Len(p) - 1
      /\ \A i \in 1..Len(Tail(p)) : Tail(p)[i] = p[i + 1]
  BY <1>2, <1>4, HeadTailProperties
<1>7. \A l \in Nat : /\ 1 + l - 1 = l
                     /\ \A i \in 1..l : i + 1 \in 1..1 + l /\ ~(i + 1 <= 1) /\ (i + 1) - 1 = i
  OBVIOUS
<1>8. Len(Tail(p)) = Len(ls) /\ \A i \in 1..Len(ls) : Tail(p)[i] = ls[i]
  BY <1>2, <1>3, <1>6, <1>7
<1>9. Tail(p) = ls
  BY <1>6, <1>8, SeqEqual
<1> QED
  BY <1>5, <1>9 DEF p

LEMMA CancelLast ==
  ASSUME NEW x \in Seq(Text), NEW y \in Seq(Text), NEW e \in Text, x \o <<e>> = y \o <<e>>
  PROVE  x = y
<1>1. /\ Append(x, e) = x \o <<e>> /\ Append(y, e) = y \o <<e>>
  BY AppendIsConcat
<1>2. Append(x, e) = Append(y, e)
  BY <1>1
<1>3. /\ Len(Append(x, e)) = Len(x) + 1 /\ \A i \in 1..Len(x) : Append(x, e)[i] = x[i]
      /\ Len(Append(y, e)) = Len(y) + 1 /\ \A i \in 1..Len(y) : Append(y, e)[i] = y[i]
  BY AppendProperties
<1>4. Len(x) = Len(y)
  <2>1. Len(x) \in Nat /\ Len(y) \in Nat
    BY LenProperties
  <2> QED
    BY <1>2, <1>3, <2>1
<1> QED
  BY <1>2, <1>3, <1>4, SeqEqual

(* The header part ends where the lines do, and the rest is the body. *)
LEMMA HeaderPart ==
  ASSUME NEW H, NEW ls, WholeLines(H, ls), H # <<>>, NEW b \in Text,
         NEW text, text = H \o <<NL>> \o b
  PROVE  /\ text \in Text /\ HeaderEnd(text) = Len(H) /\ After(text, Len(H) + 1) = b
         /\ Split(NL)[Before(text, Len(H))] = ls
<1>1. /\ H \in Text /\ ls \in Seq(Text) /\ H[1] # NL /\ H[Len(H)] = NL
      /\ \A i \in 1..Len(H) - 1 : H[i] = NL => H[i + 1] # NL
  BY DEF WholeLines
<1>2. MadeOf(text, H, NL, b)
  BY <1>1, AroundSeparator, SymbolFacts
<1>3. /\ text \in Text /\ Len(text) = Len(H) + 1 + Len(b)
      /\ \A i \in 1..Len(H) : text[i] = H[i]
      /\ text[Len(H) + 1] = NL
      /\ \A i \in 1..Len(b) : text[Len(H) + 1 + i] = b[i]
  BY <1>2 DEF MadeOf
<1>4. Len(H) \in Nat \ {0} /\ Len(b) \in Nat
  BY <1>1, TextFacts, EmptySeq DEF Text
<1>5. HeaderEnd(text) = Len(H)
  <2> DEFINE I == {i \in 1..Len(text) - 1 : text[i] = NL /\ text[i + 1] = NL} \cup {Len(text) + 1}
  <2>1. Len(H) \in I
    <3>1. Len(H) \in 1..Len(text) - 1 /\ Len(H) \in 1..Len(H)
      BY <1>3, <1>4
    <3> QED
      BY <1>1, <1>3, <3>1
  <2>2. I \in SUBSET Nat
    BY <1>3, <1>4
  <2>3. Min(I) \in I /\ Min(I) <= Len(H)
    BY <2>1, <2>2, MinOf
  <2> DEFINE m == Min(I)
  <2>7. /\ m <= Len(H)
        /\ \/ m \in 1..Len(text) - 1 /\ text[m] = NL /\ text[m + 1] = NL
           \/ m = Len(text) + 1
    BY <2>3
  <2> HIDE DEF m, I
  <2>8. m # Len(text) + 1
    BY <1>3, <1>4, <2>7
  <2>9. m \in 1..Len(H)
    BY <1>3, <1>4, <2>7, <2>8
  <2>4. m \in 1..Len(H) /\ text[m] = NL /\ text[m + 1] = NL
    BY <2>7, <2>8, <2>9
  <2>5. ASSUME m # Len(H) PROVE FALSE
    <3>1. m \in 1..Len(H) - 1 /\ m + 1 \in 1..Len(H)
      BY <1>4, <2>4, <2>5
    <3>2. H[m] = NL /\ H[m + 1] = NL
      BY <1>3, <2>4, <3>1
    <3> QED
      BY <1>1, <3>1, <3>2
  <2>6. HeaderEnd(text) = Min(I)
    BY DEF HeaderEnd, I
  <2> QED
    BY <2>5, <2>6 DEF m
<1>6. After(text, Len(H) + 1) = b
  <2> DEFINE n == Len(H) + 1  a == SubSeq(text, n + 1, Len(text))
  <2>1. n \in 0..Len(text) /\ Len(text) - n = Len(b)
    BY <1>3, <1>4
  <2>2. /\ a \in Text /\ Len(a) = Len(text) - n
        /\ \A i \in 1..Len(text) - n : a[i] = text[n + i]
    BY <1>3, <2>1, SuffixText, Zenon
  <2>3. After(text, n) = a
    BY DEF After
  <2> HIDE DEF a
  <2>4. Len(a) = Len(b) /\ \A i \in 1..Len(a) : a[i] = b[i]
    BY <1>3, <2>1, <2>2
  <2> QED
    BY <2>2, <2>3, <2>4, SameText
<1> DEFINE X == Before(text, Len(H))
<1>7. /\ X \in Text /\ Len(X) = Len(H) - 1 /\ \A i \in 1..Len(H) - 1 : X[i] = text[i]
  <2>1. Len(H) - 1 \in 0..Len(text)
    BY <1>3, <1>4
  <2> QED
    BY <1>3, <2>1, PrefixText, Zenon DEF Before
<1> HIDE DEF X
<1>8. X \o <<NL>> = H
  <2>1. <<NL>> \in Text /\ Len(<<NL>>) = 1 /\ <<NL>>[1] = NL
    BY SymbolFacts, OneText
  <2> DEFINE Y == X \o <<NL>>
  <2>2. /\ Y \in Text /\ Len(Y) = Len(X) + 1
        /\ \A i \in 1..Len(X) + 1 : Y[i] = IF i <= Len(X) THEN X[i] ELSE <<NL>>[i - Len(X)]
    BY <1>7, <2>1, CatText
  <2> HIDE DEF Y
  <2>3. ASSUME NEW i \in 1..Len(H) PROVE Y[i] = H[i]
    <3>1. CASE i = Len(H)
      <4>1. ~(i <= Len(X)) /\ i - Len(X) = 1 /\ i \in 1..Len(X) + 1
        BY <1>4, <1>7, <3>1
      <4> QED
        BY <1>1, <2>1, <2>2, <3>1, <4>1
    <3>2. CASE i # Len(H)
      <4>1. i <= Len(X) /\ i \in 1..Len(X) + 1 /\ i \in 1..Len(H) - 1
        BY <1>4, <1>7, <3>2
      <4> QED
        BY <1>3, <1>7, <2>2, <4>1
    <3> QED
      BY <3>1, <3>2
  <2>4. Len(Y) = Len(H)
    BY <1>4, <1>7, <2>2
  <2>5. Y = H
    BY <1>1, <2>2, <2>3, <2>4, SameText
  <2> QED
    BY <2>5 DEF Y
<1>9. Split(NL)[X] = ls
  <2>1. Split(NL)[H] = Split(NL)[X] \o << <<>> >>
    BY <1>7, <1>8, SplitEnd, SymbolFacts
  <2>2. <<>> \in Text /\ ~Has(<<>>, NL)
    BY DEF Text, Has
  <2>3. Split(NL)[H \o <<>>] = ls \o Split(NL)[<<>>]
    BY <2>2 DEF WholeLines
  <2>4. Split(NL)[<<>>] = << <<>> >>
    BY <2>2, SplitOne
  <2>5. H \o <<>> = H
    BY <1>1, ConcatEmptySeq DEF Text
  <2>6. Split(NL)[X] \o << <<>> >> = ls \o << <<>> >>
    BY <2>1, <2>3, <2>4, <2>5
  <2>7. Split(NL)[X] \in Seq(Text) /\ << <<>> >> \in Seq(Text)
    BY <1>7, <2>2, SplitRecursion, OneElement
  <2> QED
    BY <1>1, <2>2, <2>6, <2>7, CancelLast
<1> QED
  BY <1>3, <1>5, <1>6, <1>9 DEF X

(* a frame that can be written so that it is read again *)
IsWritable(f) ==
  /\ f = [command |-> f.command, headers |-> f.headers, body |-> f.body]
  /\ IsLine(f.command) /\ IsHeaders(f.headers) /\ f.body \in Text

(* the command and the headers, without the empty line *)
HeadOf(f) == f.command \o <<NL>> \o Lines(<<>>, f.headers)

LEMMA HeadLines ==
  ASSUME NEW f, IsWritable(f)
  PROVE  \E ls \in Seq(Text) :
           /\ WholeLines(HeadOf(f), <<f.command>> \o ls) /\ Headers[ls] = f.headers
           /\ HeadOf(f) # <<>> /\ FrameLines(f) = HeadOf(f) \o <<NL>>
<1> DEFINE c == f.command  m == f.headers  L == Lines(<<>>, m)
<1>1. IsLine(c) /\ IsHeaders(m) /\ PlainMap(m)
  BY DEF IsWritable, IsHeaders
<1>2. IsPlain(<<>>)
  BY DEF IsPlain, Has, Text
<1>3. PICK ls : WholeLines(L, ls) /\ EntriesOf(ls, <<>>, m, DOMAIN m)
  BY <1>1, <1>2, LinesWhole
<1>4. WholeLines(c \o <<NL>>, <<c>>)
  BY <1>1, OneLine
<1> HIDE DEF c, m, L
<1>5. WholeLines((c \o <<NL>>) \o L, <<c>> \o ls)
  BY <1>3, <1>4, MoreLines
<1>6. ls \in Seq(Text) /\ L \in Text /\ c \in Text /\ c # <<>>
  BY <1>1, <1>3 DEF WholeLines, IsLine
<1>7. Headers[ls] = m
  BY <1>1, <1>3, <1>6, HeadersRead
<1>8. HeadOf(f) = (c \o <<NL>>) \o L
  BY DEF HeadOf, c, m, L
<1>9. (c \o <<NL>>) \o L # <<>>
  <2>1. MadeOf(c \o <<NL>> \o L, c, NL, L)
    BY <1>6, AroundSeparator, SymbolFacts
  <2>2. Len((c \o <<NL>>) \o L) = Len(c) + 1 + Len(L) /\ Len(c) \in Nat /\ Len(L) \in Nat
    BY <1>6, <2>1, TextFacts DEF MadeOf
  <2>3. Len((c \o <<NL>>) \o L) # 0
    BY <2>2
  <2>4. Len(<<>>) = 0
    OBVIOUS
  <2> QED
    BY <2>3, <2>4
<1>10. FrameLines(f) = HeadOf(f) \o <<NL>>
  BY DEF HeadOf, FrameLines
<1> QED
  BY <1>5, <1>6, <1>7, <1>8, <1>9, <1>10 DEF c, m

(* A frame that is written is read as it was, with what follows it as body. *)
LEMMA ParsedFrame ==
  ASSUME NEW f, IsWritable(f), NEW b \in Text
  PROVE  FrameLines(f) \o b \in Text /\ Parsed[FrameLines(f) \o b] = [f EXCEPT !.body = b]
<1> DEFINE H == HeadOf(f)  text == FrameLines(f) \o b
<1>1. PICK ls \in Seq(Text) :
        /\ WholeLines(H, <<f.command>> \o ls) /\ Headers[ls] = f.headers
        /\ H # <<>> /\ FrameLines(f) = H \o <<NL>>
  BY HeadLines
<1> DEFINE heads == <<f.command>> \o ls
<1>7. WholeLines(H, heads) /\ H # <<>>
  BY <1>1
<1> HIDE DEF H, text, heads
<1>2. text = H \o <<NL>> \o b
  BY <1>1 DEF text
<1>3. /\ text \in Text /\ HeaderEnd(text) = Len(H) /\ After(text, Len(H) + 1) = b
      /\ Split(NL)[Before(text, Len(H))] = heads
  BY <1>2, <1>7, HeaderPart
<1>4. /\ Head(<<f.command>> \o ls) = f.command /\ Tail(<<f.command>> \o ls) = ls
  BY HeadOfLines DEF IsWritable, IsLine
<1>5. Parsed[text] = [command |-> f.command, headers |-> f.headers, body |-> b]
  BY <1>1, <1>3, <1>4 DEF Parsed, heads
<1>6. [f EXCEPT !.body = b] = [command |-> f.command, headers |-> f.headers, body |-> b]
  BY DEF IsWritable
<1> QED
  BY <1>3, <1>5, <1>6 DEF text

-----------------------------------------------------------------------------
(* Streams *)

(* Where a text that goes on is cut: what goes on is left over. *)
LEMMA CutOfMore ==
  ASSUME NEW x \in Text, NEW y \in Text, NEW s \in Symbol, Has(x, s)
  PROVE  /\ Has(x \o y, s) /\ Before(x, First(x, s)) = Before(x \o y, First(x \o y, s))
         /\ After(x \o y, First(x \o y, s)) = After(x, First(x, s)) \o y
<1> DEFINE b == Before(x, First(x, s))  a == After(x, First(x, s))  t == x \o y
<1>1. b \in Text /\ a \in Text /\ ~Has(b, s) /\ x = b \o <<s>> \o a
  BY CutText
<1>2. <<s>> \in Text
  BY OneText
<1> HIDE DEF b, a, t
<1>3. b \o <<s>> \in Text /\ a \o y \in Text
  BY <1>1, <1>2, CatText
<1>4. ((b \o <<s>>) \o a) \o y = (b \o <<s>>) \o (a \o y)
  <2> DEFINE p == b \o <<s>>
  <2>1. p \in Text
    BY <1>3
  <2> HIDE DEF p
  <2>2. Associates(p, a, y)
    BY <1>1, <2>1, Associative
  <2> QED
    BY <2>2 DEF Associates, p
<1>5. t = b \o <<s>> \o (a \o y)
  BY <1>1, <1>4 DEF t
<1>6. /\ Has(t, s) /\ First(t, s) = Len(b) + 1
      /\ Before(t, Len(b) + 1) = b /\ After(t, Len(b) + 1) = a \o y
  BY <1>1, <1>3, <1>5, CutThere
<1> QED
  BY <1>6 DEF b, a, t

LEMMA EmptyText ==
  /\ <<>> \in Text /\ Len(<<>>) = 0 /\ \A s : ~Has(<<>>, s)
  /\ \A t \in Text : t \o <<>> = t /\ <<>> \o t = t /\ (t = <<>> <=> Len(t) = 0)
<1>1. <<>> \in Text /\ Len(<<>>) = 0 /\ \A s : ~Has(<<>>, s)
  BY DEF Has, Text
<1>2. ASSUME NEW t \in Text PROVE t \o <<>> = t /\ <<>> \o t = t /\ (t = <<>> <=> Len(t) = 0)
  BY ConcatEmptySeq, EmptySeq DEF Text
<1> QED
  BY <1>1, <1>2

(***************************************************************************)
(* A stream that carries the codes of things, one after the other: rest[i] *)
(* is what is left of it when i of them have been taken.                   *)
(***************************************************************************)
IsCut(rest, t, fs, code) ==
  /\ rest \in [0..Len(fs) -> Text]
  /\ rest[0] = t /\ rest[Len(fs)] = <<>>
  /\ \A i \in 1..Len(fs) : rest[i - 1] = code[fs[i]] \o rest[i]

Carries(t, fs, code, D) ==
  /\ t \in Text /\ fs \in Seq(D) /\ \A f \in D : code[f] \in Text
  /\ \E rest : IsCut(rest, t, fs, code)

LEMMA CarriesNothing ==
  ASSUME NEW D, NEW code, \A f \in D : code[f] \in Text
  PROVE  Carries(<<>>, <<>>, code, D)
<1> DEFINE rest == [i \in 0..0 |-> <<>>]
<1>1. <<>> \in Seq(D) /\ Len(<<>>) = 0 /\ <<>> \in Text
  BY EmptyText
<1>2. IsCut(rest, <<>>, <<>>, code)
  BY <1>1 DEF IsCut
<1> QED
  BY <1>1, <1>2 DEF Carries

LEMMA CarriesMore ==
  ASSUME NEW t, NEW fs, NEW code, NEW D, Carries(t, fs, code, D), NEW f \in D
  PROVE  Carries(t \o code[f], Append(fs, f), code, D)
<1> DEFINE x == code[f]  gs == Append(fs, f)  n == Len(fs)
<1>1. t \in Text /\ fs \in Seq(D) /\ (\A g \in D : code[g] \in Text) /\ x \in Text
  BY DEF Carries
<1>2. PICK rest : IsCut(rest, t, fs, code)
  BY DEF Carries
<1>3. /\ gs \in Seq(D) /\ Len(gs) = n + 1 /\ gs[n + 1] = f
      /\ \A i \in 1..n : gs[i] = fs[i] /\ fs[i] \in D
  BY <1>1, AppendProperties, ElementOfSeq
<1>4. n \in Nat
  BY <1>1, LenProperties
<1> DEFINE more == [i \in 0..n + 1 |-> IF i <= n THEN rest[i] \o x ELSE <<>>]
<1>5. /\ rest \in [0..n -> Text] /\ rest[0] = t /\ rest[n] = <<>>
      /\ \A i \in 1..n : rest[i - 1] = code[fs[i]] \o rest[i]
  BY <1>2 DEF IsCut
<1> HIDE DEF x, gs, n
<1>6. more \in [0..n + 1 -> Text]
  <2> SUFFICES ASSUME NEW i \in 0..n + 1, i <= n PROVE rest[i] \o x \in Text
    BY EmptyText
  <2>1. i \in 0..n
    BY <1>4
  <2> QED
    BY <1>1, <1>5, <2>1, CatText
<1>7. more[0] = t \o x /\ more[n + 1] = <<>>
  <2>1. 0 <= n /\ ~(n + 1 <= n) /\ 0 \in 0..n + 1 /\ n + 1 \in 0..n + 1
    BY <1>4
  <2> QED
    BY <1>5, <2>1
<1>8. ASSUME NEW i \in 1..n + 1 PROVE more[i - 1] = code[gs[i]] \o more[i]
  <2>1. i - 1 \in 0..n + 1 /\ i \in 0..n + 1 /\ i - 1 <= n /\ i - 1 \in 0..n
    BY <1>4
  <2>2. more[i - 1] = rest[i - 1] \o x
    BY <2>1
  <2>3. CASE i = n + 1
    <3>1. ~(i <= n) /\ i - 1 = n
      BY <1>4, <2>3
    <3>2. more[i] = <<>>
      BY <2>1, <3>1
    <3>3. <<>> \o x = x \o <<>>
      BY <1>1, EmptyText
    <3>4. code[gs[i]] = x
      BY <1>3, <2>3 DEF x
    <3> QED
      BY <1>5, <2>2, <3>1, <3>2, <3>3, <3>4
  <2>4. CASE i # n + 1
    <3>1. i <= n /\ i \in 1..n /\ i \in 0..n
      BY <1>4, <2>4
    <3>2. more[i] = rest[i] \o x
      BY <2>1, <3>1
    <3>3. code[gs[i]] = code[fs[i]] /\ code[fs[i]] \in Text
      BY <1>1, <1>3, <3>1
    <3>4. (code[fs[i]] \o rest[i]) \o x = code[fs[i]] \o (rest[i] \o x)
      <4>1. rest[i] \in Text
        BY <1>5, <3>1
      <4> QED
        BY <1>1, <3>3, <4>1, CatAssociative, Zenon
    <3>5. rest[i - 1] = code[fs[i]] \o rest[i]
      BY <1>5, <3>1
    <3> QED
      BY <2>2, <3>2, <3>3, <3>4, <3>5
  <2> QED
    BY <2>3, <2>4
<1> HIDE DEF more
<1>9. IsCut(more, t \o x, gs, code)
  BY <1>3, <1>6, <1>7, <1>8 DEF IsCut
<1>10. t \o x \in Text
  BY <1>1, CatText
<1> QED
  BY <1>1, <1>3, <1>9, <1>10 DEF Carries, x, gs

LEMMA CarriesHead ==
  ASSUME NEW t, NEW fs, NEW code, NEW D, Carries(t, fs, code, D)
  PROVE  /\ fs = <<>> => t = <<>>
         /\ fs # <<>> => /\ Head(fs) \in D /\ code[Head(fs)] \in Text
                         /\ \E r \in Text : /\ t = code[Head(fs)] \o r
                                            /\ Carries(r, Tail(fs), code, D)
<1>1. t \in Text /\ fs \in Seq(D) /\ (\A g \in D : code[g] \in Text)
  BY DEF Carries
<1>2. PICK rest : IsCut(rest, t, fs, code)
  BY DEF Carries
<1>3. /\ rest \in [0..Len(fs) -> Text] /\ rest[0] = t /\ rest[Len(fs)] = <<>>
      /\ \A i \in 1..Len(fs) : rest[i - 1] = code[fs[i]] \o rest[i]
  BY <1>2 DEF IsCut
<1>4. ASSUME fs = <<>> PROVE t = <<>>
  BY <1>3, <1>4
<1>5. ASSUME fs # <<>>
      PROVE  /\ Head(fs) \in D /\ code[Head(fs)] \in Text
             /\ \E r \in Text : t = code[Head(fs)] \o r /\ Carries(r, Tail(fs), code, D)
  <2> DEFINE n == Len(fs)  gs == Tail(fs)  left == [i \in 0..n - 1 |-> rest[i + 1]]
  <2>1. n \in Nat \ {0}
    BY <1>1, <1>5, EmptySeq, LenProperties
  <2>2. /\ gs \in Seq(D) /\ Len(gs) = n - 1 /\ Head(fs) = fs[1] /\ Head(fs) \in D
        /\ \A i \in 1..Len(gs) : gs[i] = fs[i + 1]
    BY <1>1, <1>5, HeadTailProperties
  <2>3. 1 \in 1..n /\ 1 \in 0..n /\ 1 - 1 = 0
    BY <2>1
  <2>4. t = code[fs[1]] \o rest[1] /\ rest[1] \in Text
    BY <1>3, <2>3
  <2> HIDE DEF n, gs
  <2>5. \A i \in 0..n - 1 : i + 1 \in 0..n
    BY <2>1
  <2>6. left \in [0..n - 1 -> Text]
    BY <1>3, <2>5 DEF n
  <2>7. left[0] = rest[1] /\ left[n - 1] = <<>>
    <3>1. 0 \in 0..n - 1 /\ n - 1 \in 0..n - 1 /\ (n - 1) + 1 = n
      BY <2>1
    <3> QED
      BY <1>3, <3>1 DEF n
  <2>8. ASSUME NEW i \in 1..n - 1 PROVE left[i - 1] = code[gs[i]] \o left[i]
    <3>1. i - 1 \in 0..n - 1 /\ i \in 0..n - 1 /\ (i - 1) + 1 = i /\ i + 1 \in 1..n /\ (i + 1) - 1 = i
      BY <2>1
    <3>2. left[i - 1] = rest[i] /\ left[i] = rest[i + 1]
      BY <3>1
    <3>3. rest[i] = code[fs[i + 1]] \o rest[i + 1]
      BY <1>3, <3>1 DEF n
    <3> QED
      BY <2>2, <3>2, <3>3
  <2> HIDE DEF left
  <2>9. IsCut(left, rest[1], gs, code)
    BY <2>2, <2>6, <2>7, <2>8 DEF IsCut
  <2>10. Carries(rest[1], gs, code, D)
    BY <1>1, <2>2, <2>4, <2>9 DEF Carries
  <2> QED
    BY <1>1, <2>2, <2>4, <2>10 DEF gs
<1> QED
  BY <1>4, <1>5

-----------------------------------------------------------------------------
(* The decoder *)

Decoders == [bytes : Text, len : Nat]

LEMMA ArrayIsText ==
  ASSUME NEW n \in Nat, NEW a \in [1..n -> Symbol]
  PROVE  a \in Text /\ Len(a) = n
BY IsASeq, LenProperties DEF Text

(* A byte that is pushed is put behind those that are in use, which stay. *)
LEMMA PushByte ==
  ASSUME NEW d \in Decoders, NEW x \in Symbol
  PROVE  /\ pushByte(d, x) \in Decoders /\ pushByte(d, x).len = d.len + 1
         /\ Len(d.bytes) # 0 /\ d.len <= Len(d.bytes) =>
              /\ d.len + 1 <= Len(pushByte(d, x).bytes)
              /\ pushByte(d, x).bytes[d.len + 1] = x
              /\ \A j \in 1..d.len : pushByte(d, x).bytes[j] = d.bytes[j]
<1> DEFINE n == Len(d.bytes)  full == d.len >= n
           size == IF full THEN d.len * 2 ELSE n
           a == IF full THEN copyOf(d.bytes, d.len * 2) ELSE d.bytes
           b == [a EXCEPT ![d.len + 1] = x]
<1>1. d.bytes \in Text /\ d.len \in Nat /\ n \in Nat /\ d.bytes \in [1..n -> Symbol]
  BY TextFacts DEF Decoders
<1>2. size \in Nat
  BY <1>1
<1>3. a \in [1..size -> Symbol] /\ \A j \in 1..n : j <= size => a[j] = d.bytes[j]
  <2>1. CASE full
    <3>1. size = d.len * 2 /\ a = [i \in 1..size |-> IF i <= n THEN d.bytes[i] ELSE NUL]
      BY <2>1 DEF copyOf
    <3> HIDE DEF size, a
    <3>2. \A i \in 1..size : i <= n => d.bytes[i] \in Symbol
      BY <1>1, <1>2
    <3>3. \A j \in 1..n : j <= size => j \in 1..size /\ j <= n
      BY <1>1, <1>2
    <3> QED
      BY <3>1, <3>2, <3>3, SymbolFacts
  <2>2. CASE ~full
    BY <1>1, <2>2
  <2> QED
    BY <2>1, <2>2
<1>4. pushByte(d, x) = [bytes |-> b, len |-> d.len + 1]
  BY DEF pushByte
<1>5. n # 0 /\ d.len <= n => d.len + 1 <= size
  BY <1>1
<1> HIDE DEF a, size, n
<1>6. b \in [1..size -> Symbol]
  BY <1>3
<1>7. b \in Text /\ Len(b) = size
  BY <1>2, <1>6, ArrayIsText
<1>8. pushByte(d, x) \in Decoders
  BY <1>1, <1>4, <1>7 DEF Decoders
<1>9. ASSUME n # 0, d.len <= n
      PROVE  /\ d.len + 1 <= Len(b) /\ b[d.len + 1] = x
             /\ \A j \in 1..d.len : b[j] = d.bytes[j]
  <2>1. d.len + 1 <= size /\ d.len + 1 \in 1..size
    BY <1>1, <1>2, <1>5, <1>9
  <2>2. b[d.len + 1] = x
    BY <1>3, <2>1
  <2>3. ASSUME NEW j \in 1..d.len PROVE b[j] = d.bytes[j]
    <3>1. j \in 1..n /\ j <= size /\ j \in 1..size /\ j # d.len + 1
      BY <1>1, <1>2, <1>9, <2>1
    <3> QED
      BY <1>3, <3>1
  <2> QED
    BY <1>7, <2>1, <2>2, <2>3
<1> HIDE DEF b
<1> QED
  BY <1>4, <1>8, <1>9 DEF n

(* what push of decodeMessage satisfies *)
IsPush(push, d, m) ==
  /\ push \in [0..Len(m) -> Decoders] /\ push[0] = d
  /\ \A i \in 1..Len(m) : push[i] = pushByte(push[i - 1], m[i])

LEMMA PushExists ==
  ASSUME NEW d \in Decoders, NEW m \in Text
  PROVE  \E push : /\ IsPush(push, d, m)
                   /\ push = [i \in 0..Len(m) |->
                        IF i = 0 THEN d ELSE pushByte(push[i - 1], m[i])]
<1> DEFINE n == Len(m)
           Step(i) == [e \in Decoders |-> IF i < n THEN pushByte(e, m[i + 1]) ELSE e]
           step == [i \in Nat |-> Step(i)]
<1>1. n \in Nat /\ m \in [1..n -> Symbol]
  BY TextFacts
<1>2. step \in [Nat -> [Decoders -> Decoders]]
  <2> SUFFICES ASSUME NEW i \in Nat, NEW e \in Decoders, i < n
               PROVE  pushByte(e, m[i + 1]) \in Decoders
    OBVIOUS
  <2>1. i + 1 \in 1..n
    BY <1>1
  <2>2. m[i + 1] \in Symbol
    BY <1>1, <2>1
  <2> QED
    BY <2>2, PushByte
<1> HIDE DEF n
<1>3. \A i \in Nat : \A e \in Decoders :
        step[i][e] = IF i < n THEN pushByte(e, m[i + 1]) ELSE e
  OBVIOUS
<1> HIDE DEF step
<1>4. PICK f \in [Nat -> Decoders] : IsIteration(f, d, step)
  BY <1>2, Iterate
<1>5. f[0] = d /\ \A i \in Nat : f[i + 1] = step[i][f[i]]
  BY <1>4 DEF IsIteration
<1> DEFINE push == [i \in 0..n |-> f[i]]
<1>6. push \in [0..n -> Decoders] /\ push[0] = d
  BY <1>1, <1>5
<1>7. ASSUME NEW i \in 1..n PROVE push[i] = pushByte(push[i - 1], m[i])
  <2>1. i - 1 \in Nat /\ (i - 1) + 1 = i /\ i - 1 < n /\ i - 1 \in 0..n /\ i \in 0..n
    BY <1>1
  <2>2. f[(i - 1) + 1] = step[i - 1][f[i - 1]]
    BY <1>5, <2>1
  <2>3. f[i - 1] \in Decoders
    BY <2>1
  <2>4. step[i - 1][f[i - 1]] = pushByte(f[i - 1], m[(i - 1) + 1])
    BY <1>3, <2>1, <2>3
  <2> QED
    BY <2>1, <2>2, <2>4
<1>8. push = [i \in 0..n |-> push[i]]
  OBVIOUS
<1> HIDE DEF push
<1>9. \A i \in 0..n : push[i] = IF i = 0 THEN d ELSE pushByte(push[i - 1], m[i])
  <2>1. \A i \in 0..n : i # 0 => i \in 1..n
    BY <1>1
  <2> QED
    BY <1>6, <1>7, <2>1
<1>10. push = [i \in 0..n |-> IF i = 0 THEN d ELSE pushByte(push[i - 1], m[i])]
  BY <1>8, <1>9
<1>11. IsPush(push, d, m)
  BY <1>6, <1>7 DEF IsPush, n
<1> QED
  BY <1>10, <1>11 DEF n

(* a decoder that is ready for a message *)
IsReady(d) == d \in Decoders /\ d.len = 0 /\ Len(d.bytes) # 0

(* push holds the states of the decoder d while it takes the bytes of m. *)
Pushes(d, m, push) ==
  push = [i \in 0..Len(m) |-> IF i = 0 THEN d ELSE pushByte(push[i - 1], m[i])]

HoldsBytes(e, m) ==
  /\ e \in Decoders /\ e.len = Len(m) /\ Len(e.bytes) # 0
  /\ SubSeq(e.bytes, 1, e.len) = m

LEMMA Pushed ==
  ASSUME NEW d, IsReady(d), NEW m \in Text, NEW push, Pushes(d, m, push)
  PROVE  HoldsBytes(push[Len(m)], m)
<1> DEFINE n == Len(m)
           Holds(i) == /\ push[i] \in Decoders /\ push[i].len = i
                       /\ Len(push[i].bytes) # 0 /\ i <= Len(push[i].bytes)
                       /\ \A j \in 1..i : push[i].bytes[j] = m[j]
           S == {i \in Nat : i <= n => Holds(i)}
<1>0. push = [i \in 0..n |-> IF i = 0 THEN d ELSE pushByte(push[i - 1], m[i])]
  BY DEF Pushes
<1>1. n \in Nat /\ m \in [1..n -> Symbol]
  BY TextFacts
<1>2. 0 \in S
  <2>1. push[0] = d
    BY <1>0, <1>1
  <2>2. Len(d.bytes) \in Nat
    BY TextFacts DEF IsReady, Decoders
  <2> QED
    BY <2>1, <2>2 DEF IsReady
<1>3. ASSUME NEW i \in S PROVE i + 1 \in S
  <2> HIDE DEF Holds, n
  <2> SUFFICES ASSUME i + 1 <= n PROVE Holds(i + 1)
    BY <1>3
  <2> USE DEF Holds, n
  <2>1. i \in Nat /\ i <= n /\ i + 1 \in 0..n /\ i + 1 # 0 /\ (i + 1) - 1 = i /\ i + 1 \in 1..n
    BY <1>1, <1>3
  <2>2. Holds(i)
    BY <1>3, <2>1
  <2>3. push[i + 1] = pushByte(push[i], m[i + 1])
    BY <1>0, <2>1
  <2>4. m[i + 1] \in Symbol
    BY <1>1, <2>1
  <2> DEFINE e == push[i]  x == m[i + 1]  g == pushByte(e, x)
  <2>5. /\ e \in Decoders /\ e.len = i /\ Len(e.bytes) # 0 /\ i <= Len(e.bytes)
        /\ \A j \in 1..i : e.bytes[j] = m[j]
    BY <2>2
  <2>6. /\ g \in Decoders /\ g.len = i + 1 /\ i + 1 <= Len(g.bytes)
        /\ g.bytes[i + 1] = x /\ \A j \in 1..i : g.bytes[j] = e.bytes[j]
    <3> HIDE DEF e, x
    <3> QED
      BY <2>4, <2>5, PushByte DEF x
  <2>7. push[i + 1] = g /\ x = m[i + 1]
    BY <2>3
  <2> HIDE DEF e, g, x, n
  <2>8. Len(g.bytes) \in Nat
    BY <2>6, TextFacts DEF Decoders
  <2>9. Len(g.bytes) # 0
    BY <2>1, <2>6, <2>8
  <2>10. \A j \in 1..i + 1 : j = i + 1 \/ j \in 1..i
    BY <2>1
  <2>11. \A j \in 1..i + 1 : g.bytes[j] = m[j]
    BY <2>5, <2>6, <2>7, <2>10
  <2> QED
    BY <2>6, <2>7, <2>9, <2>11
<1>4. S = Nat
  <2> HIDE DEF Holds, n
  <2> QED
    BY <1>2, <1>3, Induction
<1>5. Holds(n)
  <2> HIDE DEF Holds, n
  <2>1. n <= n
    BY <1>1
  <2>2. n \in {i \in Nat : i <= n => Holds(i)}
    BY <1>1, <1>4
  <2> QED
    BY <2>1, <2>2
<1> DEFINE e == push[n]  b == SubSeq(e.bytes, 1, n)
<1>6. e \in Decoders /\ e.len = n /\ Len(e.bytes) # 0 /\ n <= Len(e.bytes)
      /\ \A j \in 1..n : e.bytes[j] = m[j]
  BY <1>5
<1> HIDE DEF e, n
<1>7. e.bytes \in Text /\ Len(e.bytes) \in Nat /\ n \in 0..Len(e.bytes)
  BY <1>1, <1>6, TextFacts DEF Decoders
<1>8. b \in Text /\ Len(b) = n /\ \A i \in 1..n : b[i] = e.bytes[i]
  BY <1>7, PrefixText
<1> HIDE DEF b
<1>9. b = m
  BY <1>6, <1>8, SameText DEF n
<1> QED
  BY <1>6, <1>9 DEF HoldsBytes, b, e, n

(* What a ready decoder is given it returns, parsed, and is ready again. *)
LEMMA Decoded ==
  ASSUME NEW d, IsReady(d), NEW m \in Text
  PROVE  /\ decodeMessage(d, m).frame = fromString[m]
         /\ IsReady(decodeMessage(d, m).decoder)
<1> DEFINE body(p, i) == IF i = 0 THEN d ELSE pushByte(p[i - 1], m[i])
           push == CHOOSE p : p = [i \in 0..Len(m) |-> body(p, i)]
<1>1. \E p : p = [i \in 0..Len(m) |-> body(p, i)]
  BY PushExists DEF IsReady
<1>2. push = [i \in 0..Len(m) |-> body(push, i)]
  BY <1>1
<1>3. decodeMessage(d, m) = popFrame(push[Len(m)])
  BY DEF decodeMessage
<1> HIDE DEF push
<1>4. Pushes(d, m, push)
  BY <1>2 DEF Pushes
<1> DEFINE e == push[Len(m)]
<1>5. HoldsBytes(e, m)
  BY <1>4, Pushed
<1> HIDE DEF e
<1>6. popFrame(e) = [decoder |-> [e EXCEPT !.len = 0], frame |-> fromString[m]]
  BY <1>5 DEF popFrame, HoldsBytes
<1>7. IsReady([e EXCEPT !.len = 0])
  BY <1>5 DEF IsReady, Decoders, HoldsBytes
<1> QED
  BY <1>3, <1>6, <1>7 DEF e

-----------------------------------------------------------------------------
(* Frames in a stream *)

LEMMA LinesHaveNoNUL ==
  ASSUME NEW f, IsWritable(f)
  PROVE  FrameLines(f) \in Text /\ ~Has(FrameLines(f), NUL)
<1>1. PICK ls \in Seq(Text) :
        WholeLines(HeadOf(f), <<f.command>> \o ls) /\ FrameLines(f) = HeadOf(f) \o <<NL>>
  BY HeadLines
<1> DEFINE H == HeadOf(f)
<1>2. H \in Text /\ ~Has(H, NUL)
  BY <1>1 DEF WholeLines
<1>3. <<NL>> \in Text /\ ~Has(<<NL>>, NUL)
  BY OneText, HasOne, SymbolFacts
<1> HIDE DEF H
<1>4. H \o <<NL>> \in Text /\ ~Has(H \o <<NL>>, NUL)
  BY <1>2, <1>3, CatText, HasCat
<1> QED
  BY <1>1, <1>4 DEF H

(* r is what follows in t a frame that is read as f with the body b *)
ReadsAs(t, f, b, r) ==
  /\ t \in Text /\ Has(t, NUL) /\ getFrameAscii(t) \in Text /\ AfterFrame(t) = r
  /\ Parsed[getFrameAscii(t)] = [f EXCEPT !.body = b]
  /\ fromString[getFrameAscii(t)] = [f EXCEPT !.body = b]

(* A frame in a stream, up to its terminator, is read as it was written. *)
LEMMA FrameInStream ==
  ASSUME NEW f, IsWritable(f), NEW b \in Text, ~Has(b, NUL), NEW r \in Text
  PROVE  ReadsAs(FrameLines(f) \o b \o <<NUL>> \o r, f, b, r)
<1> DEFINE t == FrameLines(f) \o b \o <<NUL>> \o r
<1> DEFINE m == FrameLines(f) \o b
<1>1. FrameLines(f) \in Text /\ ~Has(FrameLines(f), NUL)
  BY LinesHaveNoNUL
<1>2. m \in Text /\ ~Has(m, NUL)
  BY <1>1, CatText, HasCat
<1>3. Parsed[m] = [f EXCEPT !.body = b]
  BY ParsedFrame
<1>4. t = m \o <<NUL>> \o r
  OBVIOUS
<1> HIDE DEF m, t
<1>5. /\ t \in Text /\ Has(t, NUL) /\ First(t, NUL) = Len(m) + 1
      /\ Before(t, Len(m) + 1) = m /\ After(t, Len(m) + 1) = r
  BY <1>2, <1>4, CutThere, SymbolFacts
<1>6. getFrameAscii(t) = m /\ AfterFrame(t) = r
  BY <1>5 DEF getFrameAscii, AfterFrame
<1>7. ASSUME m # <<>> PROVE Last(m) # NUL
  <2>1. Len(m) \in Nat /\ Len(m) # 0
    BY <1>2, <1>7, TextFacts, EmptyText
  <2>2. Len(m) \in 1..Len(m)
    BY <2>1
  <2>3. m[Len(m)] # NUL
    BY <1>2, <2>2, NotIn
  <2> QED
    BY <2>3 DEF Last
<1>8. fromString[m] = Parsed[m]
  BY <1>2, <1>7 DEF fromString
<1> QED
  BY <1>2, <1>3, <1>5, <1>6, <1>8 DEF ReadsAs, t

(* a frame as the clients send them: the terminator ends it *)
IsSendable(f) == IsWritable(f) /\ ~Has(f.body, NUL)

LEMMA SameBody ==
  ASSUME NEW f, IsWritable(f)
  PROVE  [f EXCEPT !.body = f.body] = f
BY DEF IsWritable

(***************************************************************************)
(* What a client serializes, the decoder of the server makes of the stream *)
(* again, whatever was in its buffer, and is ready for the next frame.     *)
(***************************************************************************)
THEOREM DecodedSerialized ==
  ASSUME NEW f, IsSendable(f), NEW r \in Text, NEW d, IsReady(d)
  PROVE  LET t == serialize(f) \o r
             result == decodeMessage(d, getFrameAscii(t))
         IN  /\ t \in Text /\ FrameReady(t) /\ AfterFrame(t) = r
             /\ result.frame = f /\ IsReady(result.decoder)
<1> DEFINE t == serialize(f) \o r
<1>1. f.body \in Text /\ ~Has(f.body, NUL) /\ IsWritable(f)
  BY DEF IsSendable, IsWritable
<1>2. t = FrameLines(f) \o f.body \o <<NUL>> \o r
  BY DEF serialize
<1> HIDE DEF t
<1> DEFINE b == f.body
<1>6. b \in Text /\ ~Has(b, NUL) /\ t = FrameLines(f) \o b \o <<NUL>> \o r
  BY <1>1, <1>2
<1> HIDE DEF b
<1>7. ReadsAs(t, f, b, r)
  BY <1>1, <1>6, FrameInStream
<1>3. /\ t \in Text /\ Has(t, NUL) /\ getFrameAscii(t) \in Text /\ AfterFrame(t) = r
      /\ fromString[getFrameAscii(t)] = [f EXCEPT !.body = f.body]
  BY <1>7 DEF ReadsAs, b
<1>4. fromString[getFrameAscii(t)] = f
  BY <1>1, <1>3, SameBody
<1>5. /\ decodeMessage(d, getFrameAscii(t)).frame = fromString[getFrameAscii(t)]
      /\ IsReady(decodeMessage(d, getFrameAscii(t)).decoder)
  BY <1>3, Decoded
<1> QED
  BY <1>3, <1>4, <1>5 DEF FrameReady, t

(* what toString adds to the lines of a frame, without the terminator *)
BodyLine(f) == IF f.body = <<>> THEN <<>> ELSE f.body \o <<NL>>

LEMMA BodyLineText ==
  ASSUME NEW f, f.body \in Text
  PROVE  BodyLine(f) \in Text /\ (Has(BodyLine(f), NUL) <=> Has(f.body, NUL))
<1>1. <<NL>> \in Text /\ ~Has(<<NL>>, NUL)
  BY OneText, HasOne, SymbolFacts
<1>2. f.body \o <<NL>> \in Text /\ (Has(f.body \o <<NL>>, NUL) <=> Has(f.body, NUL))
  <2> DEFINE b == f.body
  <2>1. b \in Text
    OBVIOUS
  <2> HIDE DEF b
  <2>2. b \o <<NL>> \in Text /\ (Has(b \o <<NL>>, NUL) <=> Has(b, NUL))
    BY <1>1, <2>1, CatText, HasCat
  <2> QED
    BY <2>2 DEF b
<1> QED
  BY <1>2, EmptyText DEF BodyLine

(* the body that is read where toString has written a frame *)
BodyRead(f) ==
  IF Has(BodyLine(f), NUL) THEN getFrameAscii(BodyLine(f)) ELSE BodyLine(f)

Shifts(h, b, s, a, r) ==
  (h \o ((b \o s) \o a)) \o s \o r = (h \o b) \o s \o ((a \o s) \o r)

LEMMA CatShift ==
  ASSUME NEW h \in Text, NEW b \in Text, NEW s \in Text, NEW a \in Text, NEW r \in Text
  PROVE  Shifts(h, b, s, a, r)
<1>1. PICK bs \in Text : bs = b \o s
  BY CatText
<1>2. PICK g \in Text : g = h \o bs
  BY <1>1, CatText
<1>3. PICK as \in Text : as = a \o s
  BY CatText
<1>4. Associates(h, bs, a) /\ Associates(g, a, s) /\ Associates(g, as, r) /\ Associates(h, b, s)
  BY <1>1, <1>2, <1>3, Associative
<1> QED
  BY <1>1, <1>2, <1>3, <1>4 DEF Associates, Shifts

(***************************************************************************)
(* What the server writes with toString, the client parses again, up to    *)
(* the first terminator; a body with a terminator is cut there, and what   *)
(* is left of the stream is right only when there was none.                *)
(***************************************************************************)
THEOREM ParsedToString ==
  ASSUME NEW f, IsWritable(f), NEW r \in Text
  PROVE  LET t == toString(f) \o r
         IN  /\ t \in Text /\ Has(t, NUL) /\ AfterFrame(t) \in Text
             /\ parseFrame[getFrameAscii(t)] = [f EXCEPT !.body = BodyRead(f)]
             /\ ~Has(f.body, NUL) => AfterFrame(t) = r
<1> DEFINE t == toString(f) \o r  L == FrameLines(f)  l == BodyLine(f)
           b == getFrameAscii(l)  a == AfterFrame(l)
<1>1. L \in Text /\ l \in Text /\ (Has(l, NUL) <=> Has(f.body, NUL))
  BY LinesHaveNoNUL, BodyLineText DEF IsWritable
<1>2. t = L \o l \o <<NUL>> \o r
  BY DEF toString, BodyLine
<1>3. CASE ~Has(l, NUL)
  <2>1. BodyRead(f) = l
    BY <1>3 DEF BodyRead
  <2> HIDE DEF t, l
  <2>2. ReadsAs(t, f, l, r)
    BY <1>1, <1>2, <1>3, FrameInStream
  <2> QED
    BY <2>1, <2>2 DEF parseFrame, t, ReadsAs
<1>4. CASE Has(l, NUL)
  <2>1. BodyRead(f) = b
    BY <1>4 DEF BodyRead
  <2>2. b \in Text /\ a \in Text /\ ~Has(b, NUL) /\ l = b \o <<NUL>> \o a
    BY <1>1, <1>4, CutText DEF getFrameAscii, AfterFrame
  <2>3. <<NUL>> \in Text
    BY OneText, SymbolFacts
  <2> HIDE DEF t, l, a, b, L
  <2> DEFINE q == (a \o <<NUL>>) \o r
  <2>4. q \in Text
    <3>1. a \o <<NUL>> \in Text
      BY <2>2, <2>3, CatText
    <3> DEFINE as == a \o <<NUL>>
    <3>2. as \in Text
      BY <3>1
    <3> HIDE DEF as
    <3>3. as \o r \in Text
      BY <3>2, CatText
    <3> QED
      BY <3>3 DEF as
  <2>5. t = L \o b \o <<NUL>> \o q
    <3> DEFINE s == <<NUL>>
    <3>1. s \in Text
      BY <2>3
    <3> HIDE DEF s
    <3>2. Shifts(L, b, s, a, r)
      BY <1>1, <2>2, <3>1, CatShift
    <3> QED
      BY <1>2, <2>2, <3>2 DEF s, q, Shifts
  <2> HIDE DEF q
  <2>6. ReadsAs(t, f, b, q)
    BY <2>2, <2>4, <2>5, FrameInStream DEF L
  <2> QED
    BY <1>1, <1>4, <2>1, <2>4, <2>6 DEF parseFrame, t, ReadsAs
<1> QED
  BY <1>3, <1>4
=============================================================================
