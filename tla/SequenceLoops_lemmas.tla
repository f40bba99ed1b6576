------------------------- MODULE SequenceLoops_lemmas -------------------------
(***************************************************************************)
(* What the operators on sequences return, for sequences of any length.     *)
(*                                                                          *)
(* Induction is by the least element of a set of numbers: a set is a value, *)
(* where the induction theorems of the library take an operator.            *)
(***************************************************************************)
EXTENDS SequenceLoops, SequencesExt, SequenceTheorems, FiniteSetTheorems, WellFoundedInduction, TLAPS

------------------------------------------------------------------------------
(* Induction. *)

\* A set of numbers that has any has a least one.
LEMMA Least ==
    ASSUME NEW T, T \subseteq Nat, T # {}
    PROVE  \E x \in T : \A y \in T : x <= y
<1>1. IsWellFoundedOn(OpToRel(<, Nat), Nat)
  BY NatLessThanWellFounded
<1>2. PICK x \in T : \A y \in T : ~ (<<y, x>> \in OpToRel(<, Nat))
  BY <1>1, WFMin
<1>3. \A y \in T : ~ (y < x)
  BY <1>2 DEF OpToRel
<1>4. QED
  BY <1>3

\* A set of numbers that has 0, and with every number below n its successor, has all up to n.
LEMMA InductTo ==
    ASSUME NEW n \in Nat, NEW S, 0 \in S,
           \A i \in 0 .. n - 1 : i \in S => i + 1 \in S
    PROVE  \A i \in 0 .. n : i \in S
<1> SUFFICES ASSUME NEW j \in 0 .. n, j \notin S PROVE FALSE
  OBVIOUS
<1> DEFINE T == (0 .. n) \ S
<1>1. PICK x \in T : \A y \in T : x <= y
  <2>1. T \subseteq Nat /\ T # {}
    OBVIOUS
  <2>2. QED
    BY <2>1, Least
<1>2. x # 0 /\ x - 1 \in 0 .. n - 1 /\ x - 1 \notin T
  BY <1>1
<1>3. x - 1 \in S /\ (x - 1) + 1 = x
  BY <1>1, <1>2
<1>4. QED
  BY <1>1, <1>2, <1>3

\* Maxima and minima, of numbers between two bounds and of two numbers.
LEMMA MaxOf ==
    ASSUME NEW lo \in Int, NEW hi \in Int, NEW S, S \subseteq lo .. hi, S # {}
    PROVE  Max(S) \in S /\ \A y \in S : y <= Max(S)
<1> DEFINE T == {hi - x : x \in S}
<1>1. T \subseteq Nat /\ T # {}
  OBVIOUS
<1>2. PICK d \in T : \A e \in T : d <= e
  BY <1>1, Least
<1>3. PICK x \in S : d = hi - x
  BY <1>2
<1>4. ASSUME NEW y \in S PROVE x >= y
  <2>1. hi - x <= hi - y
    BY <1>2, <1>3
  <2>2. QED
    BY <2>1
<1>5. QED
  BY <1>3, <1>4 DEF Max

\* The least of a set of numbers is in it.
LEMMA MinOf ==
    ASSUME NEW S, S \subseteq Nat, S # {}
    PROVE  Min(S) \in S /\ \A y \in S : Min(S) <= y
<1>1. PICK x \in S : \A y \in S : x <= y
  BY Least
<1>2. QED
  BY <1>1 DEF Min

LEMMA MaxOfTwo ==
    ASSUME NEW a \in Int, NEW b \in Int
    PROVE  Max({a, b}) = IF a <= b THEN b ELSE a
BY DEF Max

LEMMA MinOfTwo ==
    ASSUME NEW a \in Int, NEW b \in Int
    PROVE  Min({a, b}) = IF a <= b THEN a ELSE b
BY DEF Min

\* n steps F[i] from value to value, and what comes of starting them at a.
Steps(n, V) == [1 .. n -> [V -> V]]
Runs(f, n, V, a, F) ==
    /\ f \in [0 .. n -> V] /\ f[0] = a
    /\ \A i \in 1 .. n : f[i] = F[i][f[i - 1]]

\* A function on 0 .. n can be defined by its value at 0 and a step from i - 1 to i.
LEMMA Recursion ==
    ASSUME NEW n \in Nat, NEW V, NEW a \in V, NEW F \in Steps(n, V)
    PROVE  \E f : Runs(f, n, V, a, F)
<1> USE DEF Steps
<1> DEFINE Defines(f, m) == f[0] = a /\ \A i \in 1 .. m : f[i] = F[i][f[i - 1]]
           S == {m \in 0 .. n : \E f \in [0 .. m -> V] : Defines(f, m)}
<1>1. 0 \in S
  <2> DEFINE f == [i \in 0 .. 0 |-> a]
  <2>1. f \in [0 .. 0 -> V] /\ Defines(f, 0)
    OBVIOUS
  <2>2. 0 \in 0 .. n
    OBVIOUS
  <2> HIDE DEF f, Defines
  <2>3. QED
    BY <2>1, <2>2
<1>2. ASSUME NEW m \in 0 .. n - 1, m \in S PROVE m + 1 \in S
  <2>1. PICK f \in [0 .. m -> V] : Defines(f, m)
    BY <1>2
  <2> DEFINE g == [i \in 0 .. m + 1 |-> IF i = m + 1 THEN F[m + 1][f[m]] ELSE f[i]]
  <2>2. m + 1 \in 1 .. n /\ m \in 0 .. m /\ m + 1 \in 0 .. n
    OBVIOUS
  <2>3. F[m + 1][f[m]] \in V
    BY <2>1, <2>2
  <2>4. g \in [0 .. m + 1 -> V]
    BY <2>1, <2>3
  <2>5. ASSUME NEW i \in 1 .. m + 1
        PROVE  g[i] = F[i][g[i - 1]]
    <3>1. CASE i = m + 1
      BY <2>2, <3>1
    <3>2. CASE i \in 1 .. m
      <4>1. i - 1 \in 0 .. m /\ i - 1 \in 0 .. m + 1 /\ i - 1 # m + 1 /\ i # m + 1 /\ i \in 0 .. m /\ i # 0
        BY <3>2
      <4>2. g[i - 1] = f[i - 1] /\ g[i] = f[i]
        BY <4>1
      <4>3. f[i] = F[i][f[i - 1]]
        BY <2>1, <3>2
      <4>4. QED
        BY <4>1, <4>2, <4>3
    <3>3. QED
      BY <3>1, <3>2
  <2>6. Defines(g, m + 1)
    BY <2>1, <2>5
  <2>7. QED
    BY <2>2, <2>4, <2>6
<1>3. \A m \in 0 .. n : m \in S
  <2> HIDE DEF S
  <2>1. QED
    BY <1>1, <1>2, InductTo
<1>4. n \in S
  BY <1>3
<1>5. QED
  BY <1>4 DEF Runs

\* The nodes 1 .. n of a tree, each under a node before it or under the root 0, and
\* a function that follows the nodes up to the root.
Upward(n) == {up \in [1 .. n -> Nat] : \A j \in 1 .. n : up[j] < j}
Climbs(f, n, V, a, up, F) ==
    f \in [0 .. n -> V] /\ f[0] = a /\ \A j \in 1 .. n : f[j] = F[j][f[up[j]]]

\* On a tree whose nodes are numbered from the root 0 down, a function can be defined by
\* its value at the root and a step from the node above.
LEMMA TreeRecursion ==
    ASSUME NEW n \in Nat, NEW V, NEW a \in V, NEW up \in Upward(n), NEW F \in Steps(n, V)
    PROVE  \E f : Climbs(f, n, V, a, up, F)
<1> DEFINE W == [0 .. n -> V]
           start == [j \in 0 .. n |-> a]
           G == [j \in 1 .. n |-> [t \in W |-> [t EXCEPT ![j] = F[j][t[up[j]]]]]]
<1>1. \A j \in 1 .. n : up[j] \in 0 .. n /\ up[j] < j /\ \A v \in V : F[j][v] \in V
  BY DEF Steps, Upward
<1>2. start \in W /\ G \in Steps(n, W)
  BY <1>1 DEF Steps
<1>3. PICK t : Runs(t, n, W, start, G)
  <2> HIDE DEF W, start, G
  <2>1. QED
    BY <1>2, Recursion
<1>4. t \in [0 .. n -> W] /\ t[0] = start /\ \A m \in 1 .. n : t[m] = G[m][t[m - 1]]
  <2> HIDE DEF W, start, G
  <2>1. QED
    BY <1>3 DEF Runs
<1> DEFINE S == {m \in 0 .. n : t[m][0] = a /\ \A j \in 1 .. m : t[m][j] = F[j][t[m][up[j]]]}
<1>5. 0 \in S
  BY <1>4
<1>6. ASSUME NEW m \in 0 .. n - 1, m \in S PROVE m + 1 \in S
  <2>1. m + 1 \in 1 .. n /\ (m + 1) - 1 = m /\ m \in 0 .. n /\ m + 1 \in 0 .. n
    OBVIOUS
  <2>2. t[m] \in W
    BY <1>4, <2>1
  <2>3. t[m + 1] = [t[m] EXCEPT ![m + 1] = F[m + 1][t[m][up[m + 1]]]]
    BY <1>4, <2>1, <2>2
  <2>4. \A j \in 0 .. n : t[m + 1][j] = IF j = m + 1 THEN F[m + 1][t[m][up[m + 1]]] ELSE t[m][j]
    BY <2>2, <2>3
  <2>5. t[m + 1][0] = a
    BY <1>6, <2>1, <2>4
  <2>6. ASSUME NEW j \in 1 .. m + 1 PROVE t[m + 1][j] = F[j][t[m + 1][up[j]]]
    <3>1. j \in 1 .. n /\ j \in 0 .. n /\ up[j] \in 0 .. n /\ up[j] < j
      BY <1>1, <2>1
    <3>2. t[m + 1][up[j]] = t[m][up[j]]
      BY <2>4, <3>1
    <3>3. CASE j = m + 1
      BY <2>4, <3>1, <3>2, <3>3
    <3>4. CASE j \in 1 .. m
      BY <1>6, <2>4, <3>1, <3>2, <3>4
    <3>5. QED
      BY <2>1, <3>3, <3>4
  <2>7. QED
    BY <2>1, <2>5, <2>6
<1>7. \A m \in 0 .. n : m \in S
  <2> HIDE DEF S
  <2>1. QED
    BY <1>5, <1>6, InductTo
<1>8. n \in S /\ t[n] \in W
  BY <1>4, <1>7
<1>9. QED
  BY <1>8 DEF Climbs

------------------------------------------------------------------------------
(* Running sums. *)

\* The definition of Sums has a solution: each sum is the one before it and an element.
LEMMA SumsDef ==
    ASSUME NEW s \in Seq(Int)
    PROVE  /\ Sums(s) \in [0 .. Len(s) -> Int]
           /\ Sums(s)[0] = 0
           /\ \A i \in 1 .. Len(s) : Sums(s)[i] = Sums(s)[i - 1] + s[i]
<1> DEFINE n == Len(s)
           F == [i \in 1 .. n |-> [v \in Int |-> v + s[i]]]
           Defines(f) == f = [i \in 0 .. n |-> IF i = 0 THEN 0 ELSE f[i - 1] + s[i]]
<1>1. n \in Nat /\ \A i \in 1 .. n : s[i] \in Int
  OBVIOUS
<1>2. \E f : Defines(f)
  <2> DEFINE V == Int
             zero == 0
  <2>1. n \in Nat /\ zero \in V /\ F \in Steps(n, V)
    BY <1>1 DEF Steps
  <2>2. PICK f : Runs(f, n, V, zero, F)
    <3> HIDE DEF F, n, V, zero
    <3>1. QED
      BY <2>1, Recursion
  <2>r. f \in [0 .. n -> Int] /\ f[0] = 0 /\ \A i \in 1 .. n : f[i] = F[i][f[i - 1]]
    <3> HIDE DEF F, n
    <3>1. QED
      BY <2>2 DEF Runs
  <2>3. ASSUME NEW i \in 0 .. n
        PROVE  f[i] = IF i = 0 THEN 0 ELSE f[i - 1] + s[i]
    <3>1. CASE i = 0
      BY <2>r, <3>1
    <3>2. CASE i # 0
      <4>1. i \in 1 .. n /\ i - 1 \in 0 .. n
        BY <1>1, <3>2
      <4>2. f[i - 1] \in Int
        BY <2>r, <4>1
      <4>3. F[i][f[i - 1]] = f[i - 1] + s[i]
        BY <4>1, <4>2
      <4>4. f[i] = F[i][f[i - 1]]
        BY <2>r, <4>1
      <4>5. QED
        BY <3>2, <4>3, <4>4
    <3>3. QED
      BY <3>1, <3>2
  <2>4. Defines(f)
    <3> HIDE DEF F, n
    <3>1. QED
      BY <2>r, <2>3
  <2>5. QED
    BY <2>4
<1>3. Defines(Sums(s))
  <2>1. Sums(s) = CHOOSE f : Defines(f)
    BY DEF Sums
  <2> HIDE DEF Defines
  <2>2. QED
    BY <1>2, <2>1
<1>4. DOMAIN Sums(s) = 0 .. n
  BY <1>3
<1>5. Sums(s)[0] = 0 /\ \A i \in 1 .. n : Sums(s)[i] = Sums(s)[i - 1] + s[i]
  <2>1. \A i \in 0 .. n : Sums(s)[i] = IF i = 0 THEN 0 ELSE Sums(s)[i - 1] + s[i]
    <3> HIDE DEF n
    <3>1. QED
      BY <1>3
  <2>2. 0 \in 0 .. n /\ \A i \in 1 .. n : i \in 0 .. n /\ i # 0
    BY <1>1
  <2>3. QED
    BY <2>1, <2>2
<1>6. \A i \in 0 .. n : Sums(s)[i] \in Int
  <2> DEFINE S == {i \in 0 .. n : Sums(s)[i] \in Int}
  <2>1. 0 \in S
    BY <1>1, <1>5
  <2>2. ASSUME NEW i \in 0 .. n - 1, i \in S PROVE i + 1 \in S
    <3>1. i + 1 \in 1 .. n /\ (i + 1) - 1 = i /\ i + 1 \in 0 .. n
      BY <1>1
    <3>2. Sums(s)[i + 1] = Sums(s)[i] + s[i + 1]
      BY <1>5, <3>1
    <3>3. QED
      BY <1>1, <2>2, <3>1, <3>2
  <2>3. \A i \in 0 .. n : i \in S
    <3> HIDE DEF S, n
    <3>1. QED
      BY <1>1, <2>1, <2>2, InductTo
  <2>4. QED
    BY <2>3
<1>7. QED
  <2> HIDE DEF n
  <2>1. Sums(s) \in [0 .. n -> Int]
    BY <1>3, <1>4, <1>6
  <2>2. QED
    BY <1>5, <2>1 DEF n

\* The sums of the first n elements depend on those alone.
LEMMA SumsAgree ==
    ASSUME NEW s \in Seq(Int), NEW t \in Seq(Int), NEW n \in Nat,
           n <= Len(s), n <= Len(t), \A i \in 1 .. n : s[i] = t[i]
    PROVE  \A i \in 0 .. n : Sums(s)[i] = Sums(t)[i]
<1> DEFINE S == {i \in 0 .. n : Sums(s)[i] = Sums(t)[i]}
<1>1. 0 \in S
  BY SumsDef
<1>2. ASSUME NEW i \in 0 .. n - 1, i \in S PROVE i + 1 \in S
  <2>1. i + 1 \in 1 .. n /\ i + 1 \in 1 .. Len(s) /\ i + 1 \in 1 .. Len(t) /\ (i + 1) - 1 = i
    OBVIOUS
  <2>2. Sums(s)[i + 1] = Sums(s)[i] + s[i + 1] /\ Sums(t)[i + 1] = Sums(t)[i] + t[i + 1]
    BY <2>1, SumsDef
  <2>3. QED
    BY <1>2, <2>1, <2>2
<1>3. \A i \in 0 .. n : i \in S
  <2> HIDE DEF S
  <2>1. QED
    BY <1>1, <1>2, InductTo
<1>4. QED
  BY <1>3

\* One more element adds itself.
LEMMA SumsAppend ==
    ASSUME NEW s \in Seq(Int), NEW x \in Int
    PROVE  /\ \A i \in 0 .. Len(s) : Sums(Append(s, x))[i] = Sums(s)[i]
           /\ Sums(Append(s, x))[Len(s) + 1] = Sums(s)[Len(s)] + x
<1> DEFINE t == Append(s, x)
<1>1. /\ t \in Seq(Int) /\ Len(t) = Len(s) + 1 /\ Len(s) \in Nat
      /\ t[Len(s) + 1] = x /\ \A i \in 1 .. Len(s) : s[i] = t[i]
  OBVIOUS
<1> HIDE DEF t
<1>2. \A i \in 0 .. Len(s) : Sums(t)[i] = Sums(s)[i]
  <2>1. Len(s) <= Len(s) /\ Len(s) <= Len(t)
    BY <1>1
  <2>2. QED
    BY <1>1, <2>1, SumsAgree
<1>3. Sums(t)[Len(s) + 1] = Sums(t)[Len(s)] + x
  <2>1. Len(s) + 1 \in 1 .. Len(t) /\ (Len(s) + 1) - 1 = Len(s)
    BY <1>1
  <2>2. QED
    BY <1>1, <2>1, SumsDef
<1>4. QED
  BY <1>1, <1>2, <1>3 DEF t

\* Sums of numbers that are not negative never fall.
LEMMA SumsGrow ==
    ASSUME NEW s \in Seq(Nat), NEW i \in 0 .. Len(s), NEW j \in i .. Len(s)
    PROVE  Sums(s)[i] \in Nat /\ Sums(s)[i] <= Sums(s)[j]
<1> DEFINE n == Len(s)
<1>1. s \in Seq(Int) /\ n \in Nat /\ \A k \in 1 .. n : s[k] \in Nat
  OBVIOUS
<1>2. \A k \in 1 .. n : Sums(s)[k] = Sums(s)[k - 1] + s[k]
  BY <1>1, SumsDef
<1>3. Sums(s)[0] = 0 /\ \A k \in 0 .. n : Sums(s)[k] \in Int
  BY <1>1, SumsDef
<1> HIDE DEF n
<1> DEFINE S == {k \in 0 .. n : Sums(s)[k] \in Nat /\ \A m \in 0 .. k : Sums(s)[m] <= Sums(s)[k]}
<1>4. 0 \in S
  BY <1>1, <1>3
<1>5. ASSUME NEW k \in 0 .. n - 1, k \in S PROVE k + 1 \in S
  <2>1. k + 1 \in 1 .. n /\ (k + 1) - 1 = k /\ s[k + 1] \in Nat
    BY <1>1
  <2>2. Sums(s)[k + 1] = Sums(s)[k] + s[k + 1] /\ Sums(s)[k] \in Nat
    BY <1>2, <1>5, <2>1
  <2>3. Sums(s)[k + 1] \in Nat /\ Sums(s)[k] <= Sums(s)[k + 1]
    BY <2>1, <2>2
  <2>4. ASSUME NEW m \in 0 .. k + 1 PROVE Sums(s)[m] <= Sums(s)[k + 1]
    <3>1. CASE m = k + 1
      BY <2>3, <3>1
    <3>2. CASE m \in 0 .. k
      <4>1. Sums(s)[m] <= Sums(s)[k] /\ Sums(s)[m] \in Int
        BY <1>1, <1>3, <1>5, <3>2
      <4>2. QED
        BY <2>2, <2>3, <4>1
    <3>3. QED
      BY <3>1, <3>2
  <2>5. QED
    BY <1>1, <2>1, <2>3, <2>4
<1>6. \A k \in 0 .. n : k \in S
  <2> HIDE DEF S
  <2>1. QED
    BY <1>1, <1>4, <1>5, InductTo
<1>7. i \in 0 .. n /\ j \in 0 .. n /\ i \in 0 .. j
  BY <1>1 DEF n
<1>8. QED
  BY <1>6, <1>7

------------------------------------------------------------------------------
(* Picking elements. *)

\* The definition of Picks has a solution: each element is appended or passed over.
LEMMA PicksDef ==
    ASSUME NEW T, NEW s \in Seq(T), NEW I
    PROVE  /\ Picks(s, I) \in [0 .. Len(s) -> Seq(T)]
           /\ Picks(s, I)[0] = <<>>
           /\ \A i \in 1 .. Len(s) :
                Picks(s, I)[i] = IF i \in I THEN Append(Picks(s, I)[i - 1], s[i])
                                 ELSE Picks(s, I)[i - 1]
<1> DEFINE n == Len(s)
           V == Seq(T)
           F == [i \in 1 .. n |-> [v \in V |-> IF i \in I THEN Append(v, s[i]) ELSE v]]
           Defines(f) == f = [i \in 0 .. n |-> IF i = 0 THEN <<>>
                                               ELSE IF i \in I THEN Append(f[i - 1], s[i])
                                               ELSE f[i - 1]]
           Stepwise(f) == /\ f \in [0 .. n -> V] /\ f[0] = <<>>
                          /\ \A i \in 1 .. n : f[i] = IF i \in I THEN Append(f[i - 1], s[i])
                                                      ELSE f[i - 1]
<1>1. n \in Nat /\ \A i \in 1 .. n : s[i] \in T
  OBVIOUS
<1>2. \E f : Stepwise(f)
  <2>1. n \in Nat /\ <<>> \in V /\ F \in Steps(n, V)
    BY <1>1 DEF Steps
  <2>2. PICK f : Runs(f, n, V, <<>>, F)
    <3> HIDE DEF F, n, V
    <3>1. QED
      BY <2>1, Recursion
  <2>3. f \in [0 .. n -> V] /\ f[0] = <<>> /\ \A i \in 1 .. n : f[i] = F[i][f[i - 1]]
    <3> HIDE DEF F, n, V
    <3>1. QED
      BY <2>2 DEF Runs
  <2>4. ASSUME NEW i \in 1 .. n
        PROVE  f[i] = IF i \in I THEN Append(f[i - 1], s[i]) ELSE f[i - 1]
    <3>1. i - 1 \in 0 .. n
      BY <1>1
    <3>2. f[i - 1] \in V
      BY <2>3, <3>1
    <3>3. F[i][f[i - 1]] = IF i \in I THEN Append(f[i - 1], s[i]) ELSE f[i - 1]
      BY <3>2
    <3>4. QED
      BY <2>3, <3>3
  <2>5. QED
    BY <2>3, <2>4
<1>3. \E f : Defines(f)
  <2>1. PICK f : Stepwise(f)
    BY <1>2
  <2>2. ASSUME NEW i \in 0 .. n
        PROVE  f[i] = IF i = 0 THEN <<>> ELSE IF i \in I THEN Append(f[i - 1], s[i]) ELSE f[i - 1]
    <3> HIDE DEF n, V
    <3>1. CASE i = 0
      BY <2>1, <3>1
    <3>2. CASE i # 0
      <4>1. i \in 1 .. n
        BY <1>1, <3>2
      <4>2. f[i] = IF i \in I THEN Append(f[i - 1], s[i]) ELSE f[i - 1]
        BY <2>1, <4>1
      <4>3. QED
        BY <3>2, <4>2
    <3>3. QED
      BY <3>1, <3>2
  <2>3. Defines(f)
    <3> HIDE DEF n, V
    <3>1. QED
      BY <2>1, <2>2
  <2>4. QED
    BY <2>3
<1>4. Defines(Picks(s, I))
  <2>1. Picks(s, I) = CHOOSE f : Defines(f)
    BY DEF Picks
  <2> HIDE DEF Defines
  <2>2. QED
    BY <1>3, <2>1
<1>5. PICK f : Stepwise(f)
  BY <1>2
<1> DEFINE g == Picks(s, I)
<1>6. /\ DOMAIN g = 0 .. n /\ g[0] = <<>>
      /\ \A i \in 1 .. n : g[i] = IF i \in I THEN Append(g[i - 1], s[i]) ELSE g[i - 1]
  <2>1. \A i \in 0 .. n : g[i] = IF i = 0 THEN <<>>
                                 ELSE IF i \in I THEN Append(g[i - 1], s[i]) ELSE g[i - 1]
    <3> HIDE DEF n, g
    <3>1. QED
      BY <1>4 DEF g
  <2>2. 0 \in 0 .. n /\ \A i \in 1 .. n : i \in 0 .. n /\ i # 0
    BY <1>1
  <2>3. DOMAIN g = 0 .. n
    BY <1>4
  <2>4. QED
    BY <2>1, <2>2, <2>3
<1>7. \A i \in 0 .. n : g[i] = f[i]
  <2> HIDE DEF n, g, V
  <2> DEFINE S == {i \in 0 .. n : g[i] = f[i]}
  <2>1. 0 \in S
    BY <1>1, <1>5, <1>6
  <2>2. ASSUME NEW i \in 0 .. n - 1, i \in S PROVE i + 1 \in S
    <3>1. i + 1 \in 1 .. n /\ (i + 1) - 1 = i /\ i + 1 \in 0 .. n
      BY <1>1
    <3>2. /\ g[i + 1] = IF i + 1 \in I THEN Append(g[i], s[i + 1]) ELSE g[i]
          /\ f[i + 1] = IF i + 1 \in I THEN Append(f[i], s[i + 1]) ELSE f[i]
      BY <1>5, <1>6, <3>1
    <3>3. QED
      BY <2>2, <3>1, <3>2
  <2>3. \A i \in 0 .. n : i \in S
    <3> HIDE DEF S
    <3>1. QED
      BY <1>1, <2>1, <2>2, InductTo
  <2>4. QED
    BY <2>3
<1>8. g \in [0 .. n -> V]
  <2> HIDE DEF n, g, V
  <2>1. QED
    BY <1>4, <1>5, <1>6, <1>7 DEF g
<1>9. QED
  BY <1>6, <1>8

\* What is kept are elements of the sequence.
LEMMA PickedTyped ==
    ASSUME NEW T, NEW s \in Seq(T), NEW I
    PROVE  Picked(s, I) \in Seq(T)
<1>1. Len(s) \in 0 .. Len(s)
  OBVIOUS
<1>2. QED
  BY <1>1, PicksDef DEF Picked

\* Nothing is kept of nothing.
LEMMA PickedEmpty == ASSUME NEW I PROVE Picked(<<>>, I) = <<>>
<1>1. PICK T : T = {}
  OBVIOUS
<1>2. PICK s \in Seq(T) : s = <<>>
  <2>1. <<>> \in Seq(T)
    OBVIOUS
  <2>2. QED
    BY <2>1, Zenon
<1>3. Picks(s, I)[0] = <<>> /\ Len(s) = 0
  BY <1>2, PicksDef
<1>4. QED
  BY <1>2, <1>3 DEF Picked

\* What is kept of the first n elements depends on those alone.
LEMMA PicksAgree ==
    ASSUME NEW T, NEW s \in Seq(T), NEW t \in Seq(T), NEW I, NEW J, NEW n \in Nat,
           n <= Len(s), n <= Len(t),
           \A i \in 1 .. n : s[i] = t[i] /\ (i \in I <=> i \in J)
    PROVE  \A i \in 0 .. n : Picks(s, I)[i] = Picks(t, J)[i]
<1> DEFINE S == {i \in 0 .. n : Picks(s, I)[i] = Picks(t, J)[i]}
<1>1. 0 \in S
  BY PicksDef
<1>2. ASSUME NEW i \in 0 .. n - 1, i \in S PROVE i + 1 \in S
  <2>1. i + 1 \in 1 .. n /\ i + 1 \in 1 .. Len(s) /\ i + 1 \in 1 .. Len(t) /\ (i + 1) - 1 = i
    OBVIOUS
  <2>2. /\ Picks(s, I)[i + 1] = IF i + 1 \in I THEN Append(Picks(s, I)[i], s[i + 1])
                                ELSE Picks(s, I)[i]
        /\ Picks(t, J)[i + 1] = IF i + 1 \in J THEN Append(Picks(t, J)[i], t[i + 1])
                                ELSE Picks(t, J)[i]
    BY <2>1, PicksDef
  <2>3. QED
    BY <1>2, <2>1, <2>2
<1>3. \A i \in 0 .. n : i \in S
  <2> HIDE DEF S
  <2>1. QED
    BY <1>1, <1>2, InductTo
<1>4. QED
  BY <1>3

\* What is kept stays at the front.
LEMMA PicksGrow ==
    ASSUME NEW T, NEW s \in Seq(T), NEW I, NEW n \in 0 .. Len(s), NEW m \in 0 .. n
    PROVE  /\ Len(Picks(s, I)[m]) <= Len(Picks(s, I)[n])
           /\ \A k \in 1 .. Len(Picks(s, I)[m]) : Picks(s, I)[n][k] = Picks(s, I)[m][k]
<1> DEFINE g == Picks(s, I)
           L == Len(s)
           Grown(i, j) == /\ Len(g[i]) <= Len(g[j])
                          /\ \A k \in 1 .. Len(g[i]) : g[j][k] = g[i][k]
           S == {j \in 0 .. L : j < m \/ Grown(m, j)}
<1>1. /\ L \in Nat /\ g \in [0 .. L -> Seq(T)] /\ \A i \in 1 .. L : s[i] \in T
      /\ \A i \in 1 .. L : g[i] = IF i \in I THEN Append(g[i - 1], s[i]) ELSE g[i - 1]
  BY PicksDef
<1>2. m \in 0 .. L /\ n \in 0 .. L /\ m <= n
  OBVIOUS
<1> HIDE DEF g, L
<1>3. 0 \in S
  BY <1>1, <1>2
<1>4. ASSUME NEW j \in 0 .. L - 1, j \in S PROVE j + 1 \in S
  <2>1. j + 1 \in 1 .. L /\ (j + 1) - 1 = j /\ j + 1 \in 0 .. L /\ j \in 0 .. L
    BY <1>1
  <2>2. g[j + 1] = IF j + 1 \in I THEN Append(g[j], s[j + 1]) ELSE g[j]
    BY <1>1, <2>1
  <2>3. g[j] \in Seq(T) /\ g[m] \in Seq(T) /\ s[j + 1] \in T
    BY <1>1, <1>2, <2>1
  <2>4. Grown(j, j + 1)
    BY <2>2, <2>3
  <2>5. CASE j + 1 <= m
    <3>1. j + 1 < m \/ j + 1 = m
      BY <1>2, <2>1, <2>5
    <3>2. QED
      BY <2>1, <3>1
  <2>6. CASE m <= j
    <3>1. Grown(m, j)
      BY <1>2, <1>4, <2>1, <2>6
    <3>2. Grown(m, j + 1)
      BY <2>2, <2>3, <2>4, <3>1
    <3>3. QED
      BY <2>1, <3>2
  <2>7. QED
    BY <1>2, <2>1, <2>5, <2>6
<1>5. \A j \in 0 .. L : j \in S
  <2> HIDE DEF S
  <2>1. QED
    BY <1>1, <1>3, <1>4, InductTo
<1>6. Grown(m, n)
  BY <1>2, <1>5
<1>7. QED
  BY <1>6 DEF g

\* Elements that follow one another are picked as they stand.
IsRange(I, n, lo, hi) == \A i \in 1 .. n : i \in I <=> lo < i /\ i <= hi

\* Where the elements of a range are kept, each lies its place in the range further on.
LEMMA PicksRange ==
    ASSUME NEW T, NEW s \in Seq(T), NEW I, NEW n \in 0 .. Len(s), NEW lo \in 0 .. n, NEW hi \in lo .. n,
           IsRange(I, n, lo, hi)
    PROVE  /\ Len(Picks(s, I)[n]) = hi - lo
           /\ \A k \in 1 .. hi - lo : \A j \in 1 .. n : j = lo + k => Picks(s, I)[n][k] = s[j]
<1> USE DEF IsRange
<1> DEFINE P == Picks(s, I)
           Count(m) == IF m <= lo THEN 0 ELSE IF m <= hi THEN m - lo ELSE hi - lo
           S == {m \in 0 .. n : Len(P[m]) = Count(m) /\ \A k \in 1 .. Count(m) : P[m][k] = s[lo + k]}
<1>1. n \in Nat /\ lo \in Nat /\ hi \in Nat /\ lo <= hi /\ hi <= n /\ n <= Len(s)
  OBVIOUS
<1>2. P \in [0 .. Len(s) -> Seq(T)] /\ P[0] = <<>>
      /\ \A i \in 1 .. Len(s) : P[i] = IF i \in I THEN Append(P[i - 1], s[i]) ELSE P[i - 1]
  BY PicksDef
<1>3. 0 \in S
  BY <1>1, <1>2
<1>4. ASSUME NEW m \in 0 .. n - 1, m \in S PROVE m + 1 \in S
  <2>1. m + 1 \in 1 .. Len(s) /\ (m + 1) - 1 = m /\ m + 1 \in 0 .. n /\ m + 1 \in 1 .. n /\ m \in 0 .. Len(s)
    BY <1>1
  <2>2. P[m] \in Seq(T) /\ s[m + 1] \in T
    BY <1>2, <2>1
  <2>3. P[m + 1] = IF m + 1 \in I THEN Append(P[m], s[m + 1]) ELSE P[m]
    BY <1>2, <2>1
  <2>4. Len(P[m]) = Count(m) /\ \A k \in 1 .. Count(m) : P[m][k] = s[lo + k]
    BY <1>4
  <2>5. CASE m + 1 \in I
    <3>1. lo < m + 1 /\ m + 1 <= hi /\ Count(m) = m - lo /\ Count(m + 1) = m + 1 - lo
      BY <1>1, <2>1, <2>5
    <3> DEFINE old == P[m]
               x == s[m + 1]
               new == P[m + 1]
    <3>2. old \in Seq(T) /\ x \in T /\ new = Append(old, x) /\ Len(old) = m - lo
          /\ \A k \in 1 .. m - lo : old[k] = s[lo + k]
      <4> HIDE DEF P, Count
      <4>1. QED
        BY <2>2, <2>3, <2>4, <2>5, <3>1
    <3> HIDE DEF old, x, new, P
    <3>3. Len(new) = m + 1 - lo /\ new[m + 1 - lo] = x /\ \A k \in 1 .. m - lo : new[k] = old[k]
      <4> DEFINE l == m - lo
      <4>1. l \in Nat /\ m + 1 - lo = l + 1
        BY <1>1, <2>1, <3>1
      <4>2. Len(old) = l
        BY <3>2
      <4> HIDE DEF l
      <4>3. Len(new) = l + 1 /\ new[l + 1] = x /\ \A k \in 1 .. l : new[k] = old[k]
        BY <3>2, <4>1, <4>2
      <4>4. QED
        BY <4>1, <4>3 DEF l
    <3>4. lo + (m + 1 - lo) = m + 1
      BY <1>1, <2>1
    <3>5. \A k \in 1 .. m + 1 - lo : new[k] = s[lo + k]
      <4> SUFFICES ASSUME NEW k \in 1 .. m + 1 - lo PROVE new[k] = s[lo + k]
        OBVIOUS
      <4>1. CASE k = m + 1 - lo
        BY <3>3, <3>4, <4>1 DEF x
      <4>2. CASE k # m + 1 - lo
        <5>1. k \in 1 .. m - lo
          BY <1>1, <2>1, <3>1, <4>2
        <5>2. QED
          BY <3>2, <3>3, <5>1
      <4>3. QED
        BY <4>1, <4>2
    <3>6. QED
      BY <2>1, <3>1, <3>3, <3>5 DEF new
  <2>6. CASE m + 1 \notin I
    <3>1. Count(m + 1) = Count(m)
      BY <1>1, <2>1, <2>6
    <3>2. P[m + 1] = P[m]
      BY <2>3, <2>6
    <3> HIDE DEF P
    <3>3. QED
      BY <2>1, <2>4, <3>1, <3>2
  <2>7. QED
    BY <2>5, <2>6
<1>5. \A m \in 0 .. n : m \in S
  <2> HIDE DEF S
  <2>1. QED
    BY <1>1, <1>3, <1>4, InductTo
<1>6. n \in S /\ Count(n) = hi - lo
  BY <1>1, <1>5
<1>7. QED
  BY <1>6

\* One more element is kept, or not.
LEMMA PickedAppend ==
    ASSUME NEW T, NEW s \in Seq(T), NEW x \in T, NEW I
    PROVE  Picked(Append(s, x), I) = IF Len(s) + 1 \in I THEN Append(Picked(s, I), x)
                                     ELSE Picked(s, I)
<1> DEFINE t == Append(s, x)
           n == Len(s)
<1>1. /\ t \in Seq(T) /\ Len(t) = n + 1 /\ n \in Nat /\ n <= n /\ n <= Len(t)
      /\ t[n + 1] = x /\ \A i \in 1 .. n : s[i] = t[i]
  OBVIOUS
<1> HIDE DEF t
<1>2. Picks(t, I)[n] = Picks(s, I)[n]
  <2>1. \A i \in 0 .. n : Picks(s, I)[i] = Picks(t, I)[i]
    BY <1>1, PicksAgree
  <2>2. n \in 0 .. n
    BY <1>1
  <2>3. QED
    BY <2>1, <2>2
<1>3. n + 1 \in 1 .. Len(t) /\ (n + 1) - 1 = n
  BY <1>1
<1>4. Picks(t, I)[n + 1] = IF n + 1 \in I THEN Append(Picks(t, I)[n], t[n + 1])
                           ELSE Picks(t, I)[n]
  BY <1>1, <1>3, PicksDef
<1>5. QED
  BY <1>1, <1>2, <1>4 DEF Picked, t

\* What is kept of one sequence after another.
LEMMA PickedConcat ==
    ASSUME NEW T, NEW s \in Seq(T), NEW t \in Seq(T), NEW I, NEW J, NEW K,
           \A i \in 1 .. Len(s) : i \in K <=> i \in I,
           \A j \in 1 .. Len(t) : Len(s) + j \in K <=> j \in J
    PROVE  Picked(s \o t, K) = Picked(s, I) \o Picked(t, J)
<1> DEFINE u == s \o t
           m == Len(s)
           n == Len(t)
           p == Picks(u, K)
           q == Picks(t, J)
           a == Picks(s, I)[m]
<1>1. /\ u \in Seq(T) /\ Len(u) = m + n /\ m \in Nat /\ n \in Nat /\ m <= m /\ m <= Len(u)
      /\ \A i \in 1 .. m : s[i] = u[i]
      /\ \A j \in 1 .. n : u[m + j] = t[j] /\ t[j] \in T
  BY ConcatProperties
<1> HIDE DEF u
<1>2. p[m] = a /\ a \in Seq(T)
  <2>1. \A i \in 0 .. m : Picks(s, I)[i] = Picks(u, K)[i]
    BY <1>1, PicksAgree
  <2>2. m \in 0 .. m
    BY <1>1
  <2>3. a \in Seq(T)
    BY <2>2, PicksDef
  <2>4. QED
    BY <2>1, <2>2, <2>3
<1>3. /\ q \in [0 .. n -> Seq(T)] /\ q[0] = <<>>
      /\ \A j \in 1 .. n : q[j] = IF j \in J THEN Append(q[j - 1], t[j]) ELSE q[j - 1]
  BY PicksDef
<1>4. \A i \in 1 .. m + n : p[i] = IF i \in K THEN Append(p[i - 1], u[i]) ELSE p[i - 1]
  <2>1. \A i \in 1 .. Len(u) :
          Picks(u, K)[i] = IF i \in K THEN Append(Picks(u, K)[i - 1], u[i]) ELSE Picks(u, K)[i - 1]
    <3>1. u \in Seq(T)
      BY <1>1
    <3> HIDE DEF m, n, p, q, a
    <3>2. QED
      BY <3>1, PicksDef
  <2> HIDE DEF m, n
  <2>2. QED
    BY <1>1, <2>1
<1>5. \A j \in 1 .. n : m + j \in K <=> j \in J
  OBVIOUS
<1> HIDE DEF m, n, p, q, a
<1> DEFINE S == {j \in 0 .. n : p[m + j] = a \o q[j]}
<1>6. 0 \in S
  <2>1. a \o <<>> = a
    BY <1>2, ConcatEmptySeq
  <2>2. m + 0 = m /\ 0 \in 0 .. n
    BY <1>1
  <2>3. QED
    BY <1>2, <1>3, <2>1, <2>2
<1>7. ASSUME NEW j \in 0 .. n - 1, j \in S PROVE j + 1 \in S
  <2>1. /\ j + 1 \in 1 .. n /\ (j + 1) - 1 = j /\ m + (j + 1) \in 1 .. m + n
        /\ (m + (j + 1)) - 1 = m + j /\ j \in 0 .. n /\ j + 1 \in 0 .. n
    BY <1>1
  <2>2. q[j + 1] = IF j + 1 \in J THEN Append(q[j], t[j + 1]) ELSE q[j]
    BY <1>3, <2>1
  <2>3. p[m + (j + 1)] = IF m + (j + 1) \in K THEN Append(p[m + j], u[m + (j + 1)]) ELSE p[m + j]
    BY <1>4, <2>1
  <2>4. (m + (j + 1) \in K <=> j + 1 \in J) /\ u[m + (j + 1)] = t[j + 1] /\ t[j + 1] \in T
    BY <1>1, <1>5, <2>1
  <2>5. q[j] \in Seq(T)
    BY <1>3, <2>1
  <2>6. Append(a \o q[j], t[j + 1]) = a \o Append(q[j], t[j + 1])
    <3> DEFINE b == q[j]
               x == t[j + 1]
    <3>1. a \in Seq(T) /\ b \in Seq(T) /\ x \in T /\ <<x>> \in Seq(T)
      BY <1>2, <2>4, <2>5
    <3> HIDE DEF b, x
    <3>2. a \o b \in Seq(T)
      BY <3>1, ConcatProperties
    <3>3. Append(a \o b, x) = (a \o b) \o <<x>> /\ Append(b, x) = b \o <<x>>
      BY <3>1, <3>2, AppendIsConcat
    <3>4. (a \o b) \o <<x>> = a \o (b \o <<x>>)
      BY <3>1, ConcatAssociative
    <3>5. Append(a \o b, x) = a \o Append(b, x)
      BY <3>3, <3>4
    <3>6. QED
      BY <3>5 DEF b, x
  <2>7. QED
    BY <1>7, <2>1, <2>2, <2>3, <2>4, <2>6
<1>8. \A j \in 0 .. n : j \in S
  <2> HIDE DEF S
  <2>1. QED
    BY <1>1, <1>6, <1>7, InductTo
<1>9. p[m + n] = a \o q[n]
  <2>1. n \in 0 .. n
    BY <1>1
  <2>2. QED
    BY <1>8, <2>1
<1>10. QED
  BY <1>1, <1>9 DEF Picked, u, m, n, p, q, a

------------------------------------------------------------------------------
(* FlattenSeq. *)

\* FlattenSeq is the last of a row of sequences, each the one before it and a piece.
LEMMA FlattenDef ==
    ASSUME NEW T, NEW ss \in Seq(Seq(T))
    PROVE  \E f \in [0 .. Len(ss) -> Seq(T)] :
             /\ f[0] = <<>> /\ FlattenSeq(ss) = f[Len(ss)]
             /\ \A i \in 1 .. Len(ss) : f[i] = f[i - 1] \o ss[i]
<1> DEFINE n == Len(ss)
           V == Seq(T)
           F == [i \in 1 .. n |-> [v \in V |-> v \o ss[i]]]
           Defines(f) == f = [i \in 1 .. n |-> IF i = 1 THEN ss[i] ELSE f[i - 1] \o ss[i]]
<1>1. n \in Nat /\ \A i \in 1 .. n : ss[i] \in V
  OBVIOUS
<1>2. PICK f \in [0 .. n -> V] : f[0] = <<>> /\ \A i \in 1 .. n : f[i] = f[i - 1] \o ss[i]
  <2>1. F \in Steps(n, V)
    <3>1. \A i \in 1 .. n, v \in V : v \o ss[i] \in V
      BY <1>1, ConcatProperties
    <3>2. QED
      BY <3>1 DEF Steps
  <2>2. <<>> \in V
    OBVIOUS
  <2>3. PICK f : Runs(f, n, V, <<>>, F)
    <3> HIDE DEF F, n, V
    <3>1. QED
      BY <1>1, <2>1, <2>2, Recursion
  <2>4. f \in [0 .. n -> V] /\ f[0] = <<>> /\ \A i \in 1 .. n : f[i] = F[i][f[i - 1]]
    <3> HIDE DEF F, n, V
    <3>1. QED
      BY <2>3 DEF Runs
  <2>5. ASSUME NEW i \in 1 .. n PROVE f[i] = f[i - 1] \o ss[i]
    <3>1. i - 1 \in 0 .. n
      BY <1>1
    <3>2. f[i - 1] \in V
      BY <2>4, <3>1
    <3>3. F[i][f[i - 1]] = f[i - 1] \o ss[i]
      BY <3>2
    <3>4. QED
      BY <2>4, <3>3
  <2>6. QED
    BY <2>4, <2>5
<1>3. CASE n = 0
  <2>1. ss = <<>> /\ FlattenSeq(ss) = ss
    BY <1>3, EmptySeq DEF FlattenSeq
  <2>2. QED
    BY <1>2, <1>3, <2>1
<1>4. CASE n # 0
  <2>1. \E h : Defines(h)
    <3> DEFINE h == [i \in 1 .. n |-> f[i]]
    <3>1. ASSUME NEW i \in 1 .. n PROVE h[i] = IF i = 1 THEN ss[i] ELSE h[i - 1] \o ss[i]
      <4>1. CASE i = 1
        <5>1. f[i] = <<>> \o ss[i] /\ ss[i] \in V
          <6>1. i - 1 = 0
            BY <4>1
          <6>2. QED
            BY <1>1, <1>2, <6>1
        <5>2. <<>> \o ss[i] = ss[i]
          BY <5>1, ConcatEmptySeq
        <5>3. QED
          BY <4>1, <5>1, <5>2
      <4>2. CASE i # 1
        <5>1. i - 1 \in 1 .. n
          BY <1>1, <4>2
        <5>2. h[i - 1] = f[i - 1] /\ f[i] = f[i - 1] \o ss[i]
          BY <1>2, <5>1
        <5>3. QED
          BY <4>2, <5>2
      <4>3. QED
        BY <4>1, <4>2
    <3>2. Defines(h)
      <4>1. DOMAIN h = 1 .. n
        OBVIOUS
      <4> HIDE DEF n
      <4>2. QED
        BY <3>1
    <3>3. QED
      BY <3>2
  <2> DEFINE g == CHOOSE h : Defines(h)
  <2>2. Defines(g)
    <3> HIDE DEF Defines
    <3>1. QED
      BY <2>1
  <2>3. FlattenSeq(ss) = g[n]
    BY <1>4 DEF FlattenSeq
  <2>4. \A i \in 1 .. n : g[i] = IF i = 1 THEN ss[i] ELSE g[i - 1] \o ss[i]
    <3> HIDE DEF n, g
    <3>1. QED
      BY <2>2
  <2> HIDE DEF n, g, V
  <2> DEFINE S == {i \in 0 .. n : i = 0 \/ g[i] = f[i]}
  <2>5. 0 \in S
    BY <1>1
  <2>6. ASSUME NEW i \in 0 .. n - 1, i \in S PROVE i + 1 \in S
    <3>1. i + 1 \in 1 .. n /\ (i + 1) - 1 = i /\ i + 1 \in 0 .. n
      BY <1>1
    <3>2. f[i + 1] = f[i] \o ss[i + 1]
      BY <1>2, <3>1
    <3>3. CASE i = 0
      <4>1. ss[1] \in V /\ <<>> \o ss[1] = ss[1]
        BY <1>1, <3>1, <3>3, ConcatEmptySeq DEF V
      <4>2. i + 1 = 1
        BY <3>3
      <4>3. g[1] = ss[1] /\ f[1] = <<>> \o ss[1]
        BY <1>2, <2>4, <3>1, <3>2, <3>3, <4>2
      <4>4. QED
        BY <3>1, <4>1, <4>2, <4>3
    <3>4. CASE i # 0
      <4>1. g[i] = f[i]
        BY <2>6, <3>4
      <4>2. i + 1 # 1
        BY <1>1, <3>4
      <4>3. g[i + 1] = g[i] \o ss[i + 1]
        BY <2>4, <3>1, <4>2
      <4>4. QED
        BY <3>1, <3>2, <4>1, <4>3
    <3>5. QED
      BY <3>3, <3>4
  <2>7. \A i \in 0 .. n : i \in S
    <3> HIDE DEF S
    <3>1. QED
      BY <1>1, <2>5, <2>6, InductTo
  <2>8. g[n] = f[n]
    BY <1>1, <1>4, <2>7
  <2>9. QED
    BY <1>2, <2>3, <2>8 DEF n, V
<1>5. QED
  BY <1>3, <1>4

\* What is flattened are elements of the pieces.
LEMMA FlattenTyped ==
    ASSUME NEW T, NEW ss \in Seq(Seq(T))
    PROVE  FlattenSeq(ss) \in Seq(T)
<1>1. PICK f \in [0 .. Len(ss) -> Seq(T)] : FlattenSeq(ss) = f[Len(ss)]
  BY FlattenDef
<1>2. Len(ss) \in 0 .. Len(ss)
  OBVIOUS
<1>3. QED
  BY <1>1, <1>2

\* No pieces give no elements.
LEMMA FlattenEmpty == FlattenSeq(<<>>) = <<>>
BY DEF FlattenSeq

\* One more piece comes behind the others.
LEMMA FlattenAppend ==
    ASSUME NEW T, NEW ss \in Seq(Seq(T)), NEW r \in Seq(T)
    PROVE  FlattenSeq(Append(ss, r)) = FlattenSeq(ss) \o r
<1> DEFINE tt == Append(ss, r)
           n == Len(ss)
<1>1. /\ tt \in Seq(Seq(T)) /\ Len(tt) = n + 1 /\ n \in Nat
      /\ tt[n + 1] = r /\ \A i \in 1 .. n : tt[i] = ss[i]
  OBVIOUS
<1> HIDE DEF tt
<1>2. PICK f \in [0 .. n -> Seq(T)] :
        /\ f[0] = <<>> /\ FlattenSeq(ss) = f[n]
        /\ \A i \in 1 .. n : f[i] = f[i - 1] \o ss[i]
  BY FlattenDef
<1>3. PICK g \in [0 .. Len(tt) -> Seq(T)] :
        /\ g[0] = <<>> /\ FlattenSeq(tt) = g[Len(tt)]
        /\ \A i \in 1 .. Len(tt) : g[i] = g[i - 1] \o tt[i]
  BY <1>1, FlattenDef
<1> HIDE DEF n
<1> DEFINE S == {i \in 0 .. n : g[i] = f[i]}
<1>4. 0 \in S
  BY <1>1, <1>2, <1>3
<1>5. ASSUME NEW i \in 0 .. n - 1, i \in S PROVE i + 1 \in S
  <2>1. i + 1 \in 1 .. n /\ (i + 1) - 1 = i /\ i + 1 \in 0 .. n /\ i + 1 \in 1 .. Len(tt)
    <3>1. n \in Nat /\ Len(tt) = n + 1
      BY <1>1
    <3>2. i + 1 \in 1 .. n /\ (i + 1) - 1 = i
      BY <3>1
    <3>3. QED
      BY <3>1, <3>2
  <2>2. g[i + 1] = g[i] \o tt[i + 1]
    BY <1>3, <2>1
  <2>3. f[i + 1] = f[i] \o ss[i + 1]
    BY <1>2, <2>1
  <2>4. tt[i + 1] = ss[i + 1] /\ g[i] = f[i]
    BY <1>1, <1>5, <2>1
  <2>5. QED
    BY <2>1, <2>2, <2>3, <2>4
<1>6. \A i \in 0 .. n : i \in S
  <2> HIDE DEF S
  <2>1. QED
    BY <1>1, <1>4, <1>5, InductTo
<1>7. g[n + 1] = g[n] \o r
  <2>1. n + 1 \in 1 .. Len(tt) /\ (n + 1) - 1 = n
    BY <1>1
  <2>2. QED
    BY <1>1, <1>3, <2>1
<1>8. g[n] = f[n]
  <2>1. n \in 0 .. n
    BY <1>1
  <2>2. QED
    BY <1>6, <2>1
<1>9. QED
  BY <1>1, <1>2, <1>3, <1>7, <1>8 DEF tt

\* Element b of piece i comes behind the pieces before it: as many elements as
\* their lengths sum up to.
LEMMA FlattenAt ==
    ASSUME NEW T, NEW ss \in Seq(Seq(T)), NEW L \in Seq(Nat),
           Len(L) = Len(ss), \A i \in 1 .. Len(ss) : L[i] = Len(ss[i])
    PROVE  /\ Len(FlattenSeq(ss)) = Sums(L)[Len(ss)]
           /\ \A i \in 1 .. Len(ss) : \A b \in 1 .. L[i] :
                FlattenSeq(ss)[Sums(L)[i - 1] + b] = ss[i][b]
<1> DEFINE n == Len(ss)
           P == Sums(L)
<1>1. PICK f \in [0 .. n -> Seq(T)] :
        /\ f[0] = <<>> /\ FlattenSeq(ss) = f[n]
        /\ \A i \in 1 .. n : f[i] = f[i - 1] \o ss[i]
  BY FlattenDef
<1>2. /\ n \in Nat /\ \A i \in 1 .. n : ss[i] \in Seq(T) /\ L[i] = Len(ss[i]) /\ L[i] \in Nat
  OBVIOUS
<1>3. /\ L \in Seq(Int) /\ P[0] = 0 /\ \A i \in 0 .. n : P[i] \in Int
      /\ \A i \in 1 .. n : P[i] = P[i - 1] + L[i]
  <2>1. L \in Seq(Int)
    OBVIOUS
  <2>2. QED
    BY <2>1, SumsDef
<1> HIDE DEF n, P
<1> DEFINE S == {k \in 0 .. n : /\ Len(f[k]) = P[k]
                                /\ \A i \in 1 .. k : \A b \in 1 .. L[i] :
                                     P[i - 1] \in Nat /\ P[i - 1] + b <= P[k]
                                     /\ f[k][P[i - 1] + b] = ss[i][b]}
<1>4. 0 \in S
  <2>1. Len(f[0]) = 0 /\ 0 \in 0 .. n
    BY <1>1, <1>2
  <2>2. QED
    BY <1>3, <2>1
<1>5. ASSUME NEW k \in 0 .. n - 1, k \in S PROVE k + 1 \in S
  <2>1. k + 1 \in 1 .. n /\ (k + 1) - 1 = k /\ k + 1 \in 0 .. n /\ k \in 0 .. n
    BY <1>2
  <2>2. f[k + 1] = f[k] \o ss[k + 1] /\ P[k + 1] = P[k] + L[k + 1]
    BY <1>1, <1>3, <2>1
  <2>3. f[k] \in Seq(T) /\ ss[k + 1] \in Seq(T) /\ L[k + 1] = Len(ss[k + 1]) /\ L[k + 1] \in Nat
    BY <1>2, <2>1
  <2>4. Len(f[k]) = P[k] /\ P[k] \in Nat
    BY <1>5, <2>3
  <2> DEFINE c == f[k]
             d == ss[k + 1]
  <2>5. /\ Len(c \o d) = Len(c) + Len(d)
        /\ \A i \in 1 .. Len(c) + Len(d) : (c \o d)[i] = IF i <= Len(c) THEN c[i] ELSE d[i - Len(c)]
    <3>1. c \in Seq(T) /\ d \in Seq(T)
      BY <2>3
    <3> HIDE DEF c, d
    <3>2. QED
      BY <3>1, ConcatProperties
  <2>6. Len(f[k + 1]) = P[k + 1] /\ P[k + 1] \in Nat
    <3>1. f[k + 1] = c \o d /\ P[k + 1] = Len(c) + Len(d) /\ Len(c) \in Nat /\ Len(d) \in Nat
      BY <2>2, <2>3, <2>4
    <3> HIDE DEF c, d
    <3>2. QED
      BY <2>5, <3>1
  <2>7. \A i \in 1 .. P[k + 1] : f[k + 1][i] = IF i <= P[k] THEN f[k][i] ELSE ss[k + 1][i - P[k]]
    BY <2>2, <2>3, <2>4, <2>5
  <2>8. P[k] <= P[k + 1]
    BY <2>2, <2>3, <2>4
  <2>9. ASSUME NEW i \in 1 .. k + 1, NEW b \in 1 .. L[i]
        PROVE  P[i - 1] \in Nat /\ P[i - 1] + b <= P[k + 1] /\ f[k + 1][P[i - 1] + b] = ss[i][b]
    <3>1. CASE i \in 1 .. k
      <4>1. P[i - 1] \in Nat /\ P[i - 1] + b <= P[k] /\ f[k][P[i - 1] + b] = ss[i][b]
        BY <1>5, <3>1
      <4>2. L[i] \in Nat /\ b \in Nat /\ b >= 1
        BY <1>2, <2>1, <3>1
      <4>3. P[i - 1] + b \in 1 .. P[k + 1] /\ P[i - 1] + b <= P[k]
        <5> DEFINE u == P[i - 1]
                   v == P[k]
                   w == P[k + 1]
        <5>1. u \in Nat /\ u + b <= v /\ v \in Nat /\ w \in Nat /\ v <= w
          BY <2>4, <2>6, <2>8, <4>1
        <5> HIDE DEF u, v, w
        <5>2. u + b \in 1 .. w
          BY <4>2, <5>1
        <5>3. QED
          BY <5>1, <5>2 DEF u, v, w
      <4>4. f[k + 1][P[i - 1] + b] = f[k][P[i - 1] + b]
        BY <2>7, <4>3
      <4>5. P[i - 1] + b <= P[k + 1]
        BY <4>3
      <4>6. QED
        BY <4>1, <4>4, <4>5
    <3>2. CASE i = k + 1
      <4>1. i - 1 = k /\ b \in 1 .. L[k + 1]
        BY <2>1, <3>2
      <4>2. P[k] + b \in 1 .. P[k + 1] /\ ~(P[k] + b <= P[k]) /\ (P[k] + b) - P[k] = b
        <5> DEFINE v == P[k]
                   w == P[k + 1]
                   l == L[k + 1]
        <5>1. v \in Nat /\ l \in Nat /\ w = v + l /\ b \in 1 .. l
          BY <2>2, <2>3, <2>4, <4>1
        <5> HIDE DEF v, w, l
        <5>2. v + b \in 1 .. w /\ ~(v + b <= v) /\ (v + b) - v = b
          BY <5>1
        <5>3. QED
          BY <5>2 DEF v, w
      <4>3. f[k + 1][P[k] + b] = ss[k + 1][b]
        BY <2>7, <4>2
      <4>4. QED
        BY <2>4, <3>2, <4>1, <4>2, <4>3
    <3>3. QED
      BY <2>1, <3>1, <3>2
  <2>10. QED
    BY <2>1, <2>6, <2>9
<1>6. \A k \in 0 .. n : k \in S
  <2> HIDE DEF S
  <2>1. QED
    BY <1>2, <1>4, <1>5, InductTo
<1>7. n \in S
  <2>1. n \in 0 .. n
    BY <1>2
  <2>2. QED
    BY <1>6, <2>1
<1>8. QED
  BY <1>1, <1>7 DEF n, P

------------------------------------------------------------------------------
(* Choices, powers, counting, and where an element lies. *)

\* Down to 1: what holds of n + 1, and of k when of k + 1, holds of all.
LEMMA InductDown ==
    ASSUME NEW n \in Nat, NEW S, n + 1 \in S,
           \A k \in 1 .. n : k + 1 \in S => k \in S
    PROVE  \A k \in 1 .. n + 1 : k \in S
<1> DEFINE T == {i \in 0 .. n : n + 1 - i \in S}
<1>1. 0 \in T
  OBVIOUS
<1>2. ASSUME NEW i \in 0 .. n - 1, i \in T PROVE i + 1 \in T
  <2> DEFINE k == n - i
  <2>1. k \in 1 .. n /\ k + 1 = n + 1 - i /\ k = n + 1 - (i + 1) /\ i + 1 \in 0 .. n
    OBVIOUS
  <2>2. k + 1 \in S
    BY <1>2, <2>1
  <2>3. k \in S
    BY <2>1, <2>2
  <2>4. QED
    BY <2>1, <2>3
<1>3. \A i \in 0 .. n : i \in T
  <2> HIDE DEF T
  <2>1. QED
    BY <1>1, <1>2, InductTo
<1>4. QED
  <2> SUFFICES ASSUME NEW k \in 1 .. n + 1 PROVE k \in S
    OBVIOUS
  <2>1. n + 1 - k \in 0 .. n /\ n + 1 - (n + 1 - k) = k
    OBVIOUS
  <2>2. QED
    BY <1>3, <2>1

\* A member of OneOfEach takes an element of each set.
LEMMA OneOfEachDef ==
    ASSUME NEW T, NEW sets \in Seq(SUBSET T), NEW c \in OneOfEach(sets)
    PROVE  c \in Seq(T) /\ Len(c) = Len(sets) /\ \A i \in 1 .. Len(sets) : c[i] \in sets[i]
<1> DEFINE n == Len(sets)
           V == SUBSET Seq(T)
           a == {<<>>}
           Longer(v, i) == {Append(b, x) : b \in v, x \in sets[i]}
           F == [i \in 1 .. n |-> [v \in V |-> Longer(v, i)]]
           Defines(f) == f = [i \in 0 .. n |-> IF i = 0 THEN a ELSE Longer(f[i - 1], i)]
<1>1. n \in Nat /\ \A i \in 1 .. n : sets[i] \in SUBSET T
  OBVIOUS
<1>2. ASSUME NEW i \in 1 .. n, NEW v \in V PROVE Longer(v, i) \in V
  <2>1. \A b \in v, x \in sets[i] : b \in Seq(T) /\ x \in T
    BY <1>1
  <2>2. \A b \in v, x \in sets[i] : Append(b, x) \in Seq(T)
    BY <2>1
  <2>3. QED
    BY <2>2
<1>3. a \in V
  OBVIOUS
<1>4. OneOfEach(sets) = (CHOOSE f : Defines(f))[n]
  BY DEF OneOfEach
<1>5. \A v, i : \A d \in Longer(v, i) : \E b \in v, x \in sets[i] : d = Append(b, x)
  OBVIOUS
<1>6. \A b \in a : b = <<>>
  OBVIOUS
<1> HIDE DEF n, V, a, Longer
<1>7. \E f : Defines(f)
  <2>1. F \in Steps(n, V)
    BY <1>2 DEF Steps
  <2>2. PICK f : Runs(f, n, V, a, F)
    <3> HIDE DEF F
    <3>1. QED
      BY <1>1, <1>3, <2>1, Recursion
  <2>3. f \in [0 .. n -> V] /\ f[0] = a /\ \A i \in 1 .. n : f[i] = F[i][f[i - 1]]
    BY <2>2 DEF Runs
  <2>4. ASSUME NEW i \in 0 .. n PROVE f[i] = IF i = 0 THEN a ELSE Longer(f[i - 1], i)
    <3>1. CASE i = 0
      BY <2>3, <3>1
    <3>2. CASE i # 0
      <4>1. i \in 1 .. n /\ i - 1 \in 0 .. n
        BY <1>1, <3>2
      <4>2. f[i - 1] \in V
        BY <2>3, <4>1
      <4>3. F[i][f[i - 1]] = Longer(f[i - 1], i)
        BY <4>1, <4>2
      <4>4. QED
        BY <2>3, <3>2, <4>1, <4>3
    <3>3. QED
      BY <3>1, <3>2
  <2>5. Defines(f)
    <3> HIDE DEF F
    <3>1. QED
      BY <2>3, <2>4
  <2>6. QED
    BY <2>5
<1> DEFINE chosen == CHOOSE f : Defines(f)
<1>8. Defines(chosen)
  <2> HIDE DEF Defines
  <2>1. QED
    BY <1>7
<1> HIDE DEF chosen
<1>9. chosen[0] = a /\ \A i \in 1 .. n : chosen[i] = Longer(chosen[i - 1], i)
  <2>1. \A i \in 0 .. n : chosen[i] = IF i = 0 THEN a ELSE Longer(chosen[i - 1], i)
    BY <1>8
  <2>2. 0 \in 0 .. n /\ \A i \in 1 .. n : i \in 0 .. n /\ i # 0
    BY <1>1
  <2>3. QED
    BY <2>1, <2>2
<1> DEFINE S == {m \in 0 .. n : \A b \in chosen[m] :
                   b \in Seq(T) /\ Len(b) = m /\ \A i \in 1 .. m : b[i] \in sets[i]}
<1>10. 0 \in S
  <2>1. ASSUME NEW b \in chosen[0] PROVE b \in Seq(T) /\ Len(b) = 0
    <3>1. b = <<>>
      BY <1>6, <1>9
    <3>2. QED
      BY <3>1
  <2>2. QED
    BY <1>1, <2>1
<1>11. ASSUME NEW m \in 0 .. n - 1, m \in S PROVE m + 1 \in S
  <2>1. m + 1 \in 1 .. n /\ m + 1 \in 0 .. n /\ (m + 1) - 1 = m
    BY <1>1
  <2>2. ASSUME NEW d \in chosen[m + 1]
        PROVE  d \in Seq(T) /\ Len(d) = m + 1 /\ \A i \in 1 .. m + 1 : d[i] \in sets[i]
    <3>0. d \in Longer(chosen[m], m + 1)
      BY <1>9, <2>1, <2>2
    <3>1. PICK b \in chosen[m], x \in sets[m + 1] : d = Append(b, x)
      BY <1>5, <3>0
    <3>2. b \in Seq(T) /\ Len(b) = m /\ x \in T /\ \A i \in 1 .. m : b[i] \in sets[i]
      BY <1>1, <1>11, <2>1
    <3>3. d \in Seq(T) /\ Len(d) = m + 1 /\ d[m + 1] = x /\ \A i \in 1 .. m : d[i] = b[i]
      BY <3>1, <3>2, <2>1
    <3>4. QED
      BY <2>1, <3>2, <3>3
  <2>3. QED
    BY <2>1, <2>2
<1>12. \A m \in 0 .. n : m \in S
  <2> HIDE DEF S
  <2>1. QED
    BY <1>1, <1>10, <1>11, InductTo
<1>13. OneOfEach(sets) = chosen[n]
  BY <1>4 DEF chosen
<1>14. n \in S
  BY <1>1, <1>12
<1>15. QED
  BY <1>13, <1>14 DEF n

\* Each power of two is twice the one before, and greater than its exponent.
LEMMA PowersDef ==
    ASSUME NEW n \in Nat
    PROVE  \A i \in 0 .. n : Powers(n)[i] \in Nat /\ Powers(n)[i] > i
<1> DEFINE V == Int
           a == 1
           F == [i \in 1 .. n |-> [v \in V |-> 2 * v]]
           Defines(f) == f = [i \in 0 .. n |-> IF i = 0 THEN 1 ELSE 2 * f[i - 1]]
<1>2. \E f : Defines(f)
  <2>1. a \in V /\ F \in Steps(n, V)
    BY DEF Steps
  <2>3. PICK f : Runs(f, n, V, a, F)
    <3> HIDE DEF F, V, a
    <3>1. QED
      BY <2>1, Recursion
  <2>4. f \in [0 .. n -> Int] /\ f[0] = 1 /\ \A i \in 1 .. n : f[i] = F[i][f[i - 1]]
    <3> HIDE DEF F
    <3>1. QED
      BY <2>3 DEF Runs
  <2>5. ASSUME NEW i \in 0 .. n PROVE f[i] = IF i = 0 THEN 1 ELSE 2 * f[i - 1]
    <3>1. CASE i = 0
      BY <2>4, <3>1
    <3>2. CASE i # 0
      <4>1. i \in 1 .. n /\ i - 1 \in 0 .. n
        BY <3>2
      <4>2. f[i - 1] \in Int
        BY <2>4, <4>1
      <4>3. F[i][f[i - 1]] = 2 * f[i - 1]
        BY <4>1, <4>2
      <4>5. QED
        BY <2>4, <3>2, <4>1, <4>3
    <3>3. QED
      BY <3>1, <3>2
  <2>6. Defines(f)
    <3> HIDE DEF F
    <3>1. QED
      BY <2>4, <2>5
  <2>7. QED
    BY <2>6
<1> DEFINE p == CHOOSE f : Defines(f)
<1>3. Defines(p)
  <2> HIDE DEF Defines
  <2>1. QED
    BY <1>2
<1>4. Powers(n) = p
  BY DEF Powers
<1> HIDE DEF p
<1>5. p[0] = 1 /\ \A i \in 0 .. n : i # 0 => p[i] = 2 * p[i - 1]
  BY <1>3
<1> DEFINE S == {i \in 0 .. n : p[i] \in Nat /\ p[i] > i}
<1>6. 0 \in S
  BY <1>5
<1>7. ASSUME NEW i \in 0 .. n - 1, i \in S PROVE i + 1 \in S
  <2>1. i + 1 \in 0 .. n /\ i + 1 # 0 /\ (i + 1) - 1 = i
    OBVIOUS
  <2>2. p[i + 1] = 2 * p[i]
    BY <1>5, <2>1
  <2> DEFINE u == p[i]
             v == p[i + 1]
  <2>3. u \in Nat /\ u > i /\ v = 2 * u
    BY <1>7, <2>2
  <2> HIDE DEF u, v
  <2>4. v \in Nat /\ v > i + 1
    BY <2>3
  <2>5. QED
    BY <2>1, <2>4 DEF v
<1>8. \A i \in 0 .. n : i \in S
  <2> HIDE DEF S
  <2>1. QED
    BY <1>6, <1>7, InductTo
<1>9. QED
  BY <1>4, <1>8

\* The positions 1 .. m in I, one more at each position that is in I.
LEMMA CountOfPrefix ==
    ASSUME NEW I, NEW m \in Nat
    PROVE  /\ Cardinality({j \in 1 .. m : j \in I}) \in 0 .. m
           /\ IsFiniteSet({j \in 1 .. m : j \in I})
           /\ Cardinality({j \in 1 .. m + 1 : j \in I})
                = Cardinality({j \in 1 .. m : j \in I}) + (IF m + 1 \in I THEN 1 ELSE 0)
<1> DEFINE C(i) == {j \in 1 .. i : j \in I}
<1>1. IsFiniteSet(1 .. m) /\ Cardinality(1 .. m) = m
  BY FS_Interval
<1>2. C(m) \in SUBSET (1 .. m)
  OBVIOUS
<1>3. IsFiniteSet(C(m)) /\ Cardinality(C(m)) \in Nat /\ Cardinality(C(m)) <= m
  BY <1>1, <1>2, FS_Subset, FS_CardinalityType
<1>4. CASE m + 1 \in I
  <2>1. C(m + 1) = C(m) \cup {m + 1} /\ m + 1 \notin C(m)
    BY <1>4
  <2> HIDE DEF C
  <2>2. Cardinality(C(m + 1)) = Cardinality(C(m)) + 1
    BY <1>3, <2>1, FS_AddElement
  <2>3. QED
    BY <1>3, <1>4, <2>2 DEF C
<1>5. CASE m + 1 \notin I
  <2>1. C(m + 1) = C(m)
    BY <1>5
  <2>2. QED
    BY <1>3, <1>5, <2>1
<1>6. QED
  BY <1>4, <1>5

\* What is kept of the first m elements is as long as there are positions among them.
LEMMA PicksCount ==
    ASSUME NEW T, NEW s \in Seq(T), NEW I, NEW m \in 0 .. Len(s)
    PROVE  Len(Picks(s, I)[m]) = Cardinality({j \in 1 .. m : j \in I})
<1> DEFINE n == Len(s)
           P == Picks(s, I)
           C(i) == Cardinality({j \in 1 .. i : j \in I})
           S == {i \in 0 .. n : Len(P[i]) = C(i)}
<1>1. /\ n \in Nat /\ P \in [0 .. n -> Seq(T)] /\ P[0] = <<>>
      /\ \A i \in 1 .. n : P[i] = IF i \in I THEN Append(P[i - 1], s[i]) ELSE P[i - 1]
  BY PicksDef
<1>2. \A i \in 1 .. n : s[i] \in T
  OBVIOUS
<1>3. 0 \in S
  <2>1. {j \in 1 .. 0 : j \in I} = {}
    OBVIOUS
  <2>2. C(0) = 0
    BY <2>1, FS_EmptySet
  <2>3. QED
    BY <1>1, <2>2
<1>4. ASSUME NEW i \in 0 .. n - 1, i \in S PROVE i + 1 \in S
  <2>1. i \in Nat /\ i + 1 \in 1 .. n /\ (i + 1) - 1 = i /\ i \in 0 .. n /\ i + 1 \in 0 .. n
    BY <1>1
  <2>2. C(i + 1) = C(i) + (IF i + 1 \in I THEN 1 ELSE 0)
    <3>1. i \in Nat
      BY <2>1
    <3>2. Cardinality({j \in 1 .. i + 1 : j \in I})
            = Cardinality({j \in 1 .. i : j \in I}) + (IF i + 1 \in I THEN 1 ELSE 0)
      BY <3>1, CountOfPrefix
    <3>3. QED
      BY <3>2, Zenon
  <2>3. P[i] \in Seq(T) /\ s[i + 1] \in T
    BY <1>1, <1>2, <2>1
  <2>4. P[i + 1] = IF i + 1 \in I THEN Append(P[i], s[i + 1]) ELSE P[i]
    BY <1>1, <2>1
  <2>5. Len(P[i]) = C(i)
    BY <1>4
  <2> HIDE DEF P, C, n
  <2>6. Len(P[i + 1]) = C(i + 1)
    BY <2>2, <2>3, <2>4, <2>5
  <2>7. QED
    BY <2>1, <2>6
<1>5. \A i \in 0 .. n : i \in S
  <2> HIDE DEF S
  <2>1. QED
    BY <1>1, <1>3, <1>4, InductTo
<1>6. QED
  BY <1>5

\* An element that is kept stands at the rank of its position.
Rank(i, I) == Cardinality({j \in 1 .. i : j \in I})
LEMMA PickedAt ==
    ASSUME NEW T, NEW s \in Seq(T), NEW I, NEW i \in 1 .. Len(s), i \in I
    PROVE  Rank(i, I) \in 1 .. Len(Picked(s, I)) /\ Picked(s, I)[Rank(i, I)] = s[i]
<1> DEFINE P == Picks(s, I)
           n == Len(s)
           c == Cardinality({j \in 1 .. i : j \in I})
<1>1. i - 1 \in 0 .. n /\ i \in 0 .. n /\ n \in 0 .. n /\ n \in Nat
  OBVIOUS
<1>2. P[i] = Append(P[i - 1], s[i]) /\ P[i - 1] \in Seq(T) /\ s[i] \in T /\ P[i] \in Seq(T)
  <2>1. /\ P \in [0 .. n -> Seq(T)]
        /\ \A j \in 1 .. n : P[j] = IF j \in I THEN Append(P[j - 1], s[j]) ELSE P[j - 1]
    BY PicksDef
  <2>2. i \in 1 .. n /\ s[i] \in T
    OBVIOUS
  <2> HIDE DEF P, n
  <2>3. QED
    BY <1>1, <2>1, <2>2
<1>3. Len(P[i]) = c
  BY <1>1, PicksCount
<1>4. Len(P[i]) <= Len(P[n]) /\ \A k \in 1 .. Len(P[i]) : P[n][k] = P[i][k]
  <2>1. i \in 0 .. n /\ n \in 0 .. Len(s) /\ i \in 0 .. Len(s)
    BY <1>1
  <2> HIDE DEF n
  <2>2. Len(P[i]) <= Len(P[n])
    BY <2>1, PicksGrow
  <2>3. ASSUME NEW k \in 1 .. Len(P[i]) PROVE P[n][k] = P[i][k]
    BY <2>1, PicksGrow
  <2>4. QED
    BY <2>2, <2>3
<1>5. P[n] \in Seq(T)
  BY <1>1, PicksDef
<1> HIDE DEF P, c
<1>6. Len(P[i]) \in 1 .. Len(P[n]) /\ P[i][Len(P[i])] = s[i]
  BY <1>2, <1>4, <1>5
<1>7. Len(P[i]) \in 1 .. Len(P[i])
  BY <1>2
<1>8. QED
  BY <1>3, <1>4, <1>6, <1>7 DEF Picked, P, c, Rank

\* What is kept, position by position, when the positions are given in order.
Ascends(q) == \A j, k \in 1 .. Len(q) : j < k => q[j] < q[k]
\* The elements of q are the positions up to n in I.
Names(q, n, I) ==
    /\ \A k \in 1 .. Len(q) : q[k] \in 1 .. n
    /\ \A i \in 1 .. n : i \in I <=> \E k \in 1 .. Len(q) : q[k] = i
LEMMA PickedInOrder ==
    ASSUME NEW T, NEW s \in Seq(T), NEW q \in Seq(Nat), Ascends(q), NEW I, Names(q, Len(s), I)
    PROVE  Len(Picked(s, I)) = Len(q) /\ \A k \in 1 .. Len(q) : Picked(s, I)[k] = s[q[k]]
<1> DEFINE P == Picks(s, I)
           n == Len(s)
           l == Len(q)
           Upto(m, c) == /\ \A k \in 1 .. l : q[k] <= m <=> k <= c
                         /\ Len(P[m]) = c
                         /\ \A k \in 1 .. c : P[m][k] = s[q[k]]
           S == {m \in 0 .. n : \E c \in 0 .. l : Upto(m, c)}
<1>1. /\ n \in Nat /\ P \in [0 .. n -> Seq(T)] /\ P[0] = <<>>
      /\ \A i \in 1 .. n : P[i] = IF i \in I THEN Append(P[i - 1], s[i]) ELSE P[i - 1]
  BY PicksDef
<1>2. /\ l \in Nat /\ \A k \in 1 .. l : q[k] \in Nat /\ q[k] >= 1 /\ q[k] <= n
      /\ \A i \in 1 .. n : s[i] \in T
  BY DEF Names
<1>3. \A i \in 1 .. n : i \in I <=> \E k \in 1 .. l : q[k] = i
  BY DEF Names
<1>4. \A j, k \in 1 .. l : j < k => q[j] < q[k]
  BY DEF Ascends
<1>p. Picked(s, I) = P[n]
  BY DEF Picked
<1> HIDE DEF P, n, l
<1>5. 0 \in S
  <2>1. Upto(0, 0)
    BY <1>1, <1>2
  <2>2. 0 \in 0 .. n /\ 0 \in 0 .. l
    BY <1>1, <1>2
  <2> HIDE DEF Upto
  <2>3. QED
    BY <2>1, <2>2
<1>6. ASSUME NEW m \in 0 .. n - 1, m \in S PROVE m + 1 \in S
  <2>1. PICK c \in 0 .. l : Upto(m, c)
    BY <1>6
  <2>2. m + 1 \in 1 .. n /\ (m + 1) - 1 = m /\ m \in 0 .. n /\ m + 1 \in 0 .. n
    BY <1>1
  <2>3. P[m] \in Seq(T) /\ s[m + 1] \in T
    BY <1>1, <1>2, <2>2
  <2>4. CASE m + 1 \in I
    <3>1. PICK k \in 1 .. l : q[k] = m + 1
      BY <1>3, <2>2, <2>4
    <3>2. k > c
      <4>1. ~(q[k] <= m)
        BY <2>2, <3>1
      <4>2. q[k] <= m <=> k <= c
        BY <2>1
      <4>3. ~(k <= c) /\ k \in Nat /\ c \in Nat
        BY <4>1, <4>2
      <4>4. QED
        BY <4>3
    <3>3. \A j \in 1 .. l : j < k => j <= c
      <4> SUFFICES ASSUME NEW j \in 1 .. l, j < k PROVE j <= c
        OBVIOUS
      <4>1. q[j] < q[k] /\ q[j] \in Nat
        BY <1>2, <1>4
      <4>2. q[j] <= m
        BY <3>1, <4>1
      <4>3. QED
        BY <2>1, <4>2
    <3>4. k = c + 1
      <4>1. k - 1 \in 0 .. l /\ c \in Nat /\ k \in Nat
        BY <1>2
      <4>2. CASE k > c + 1
        BY <3>3, <4>1, <4>2, <1>2
      <4>3. QED
        BY <3>2, <4>1, <4>2
    <3>5. P[m + 1] = Append(P[m], s[m + 1])
      BY <1>1, <2>2, <2>4
    <3>6. Len(P[m + 1]) = c + 1 /\ P[m + 1][c + 1] = s[m + 1] /\ \A j \in 1 .. c : P[m + 1][j] = P[m][j]
      BY <2>1, <2>3, <3>5
    <3>7. \A j \in 1 .. c + 1 : P[m + 1][j] = s[q[j]]
      BY <2>1, <3>1, <3>4, <3>6
    <3>8. \A j \in 1 .. l : q[j] <= m + 1 <=> j <= c + 1
      <4> SUFFICES ASSUME NEW j \in 1 .. l PROVE q[j] <= m + 1 <=> j <= c + 1
        OBVIOUS
      <4>1. q[j] \in Nat /\ m \in Nat /\ c \in Nat /\ k \in Nat
        BY <1>2
      <4>2. CASE j < k
        BY <1>4, <3>1, <3>4, <4>1, <4>2
      <4>3. CASE j = k
        BY <3>1, <3>4, <4>3
      <4>4. CASE j > k
        <5>1. q[k] < q[j]
          BY <1>4, <4>4
        <5>2. QED
          BY <3>1, <3>4, <4>1, <4>4, <5>1
      <4>5. QED
        BY <4>1, <4>2, <4>3, <4>4
    <3>9. Upto(m + 1, c + 1) /\ c + 1 \in 0 .. l
      BY <3>4, <3>6, <3>7, <3>8
    <3> HIDE DEF Upto
    <3>10. QED
      BY <2>2, <3>9
  <2>5. CASE m + 1 \notin I
    <3>1. P[m + 1] = P[m]
      BY <1>1, <2>2, <2>5
    <3>2. \A j \in 1 .. l : q[j] # m + 1 /\ q[j] \in Nat
      BY <1>2, <1>3, <2>2, <2>5
    <3>3. \A j \in 1 .. l : q[j] <= m + 1 <=> q[j] <= m
      BY <3>2
    <3>4. Upto(m + 1, c)
      BY <2>1, <3>1, <3>3
    <3> HIDE DEF Upto
    <3>5. QED
      BY <2>2, <3>4
  <2>6. QED
    BY <2>4, <2>5
<1>7. \A m \in 0 .. n : m \in S
  <2> HIDE DEF S
  <2>1. QED
    BY <1>1, <1>5, <1>6, InductTo
<1>8. PICK c \in 0 .. l : Upto(n, c)
  <2>1. n \in 0 .. n
    BY <1>1
  <2> HIDE DEF Upto
  <2>2. QED
    BY <1>7, <2>1
<1>9. c = l
  <2>1. c \in Nat /\ c <= l
    BY <1>2, <1>8
  <2>2. CASE l = 0
    BY <2>1, <2>2
  <2>3. CASE l # 0
    <3>1. l \in 1 .. l
      BY <1>2, <2>3
    <3>2. q[l] <= n
      BY <1>2, <3>1
    <3>3. \A k \in 1 .. l : q[k] <= n <=> k <= c
      BY <1>8
    <3>4. l <= c
      BY <3>1, <3>2, <3>3
    <3>5. QED
      BY <1>2, <2>1, <3>4
  <2>4. QED
    BY <2>2, <2>3
<1>10. QED
  BY <1>8, <1>9, <1>p DEF l

\* Every element of the flattened sequence is an element of some piece.
LEMMA FlattenLocate ==
    ASSUME NEW T, NEW ss \in Seq(Seq(T)), NEW L \in Seq(Nat),
           Len(L) = Len(ss), \A i \in 1 .. Len(ss) : L[i] = Len(ss[i]),
           NEW p \in 1 .. Len(FlattenSeq(ss))
    PROVE  \E i \in 1 .. Len(ss) : \E b \in 1 .. L[i] :
             p = Sums(L)[i - 1] + b /\ FlattenSeq(ss)[p] = ss[i][b]
<1> DEFINE n == Len(ss)
           P == Sums(L)
           Here(i) == \E b \in 1 .. L[i] : p = P[i - 1] + b
           S == {m \in 0 .. n : p <= P[m] => \E i \in 1 .. n : Here(i)}
<1>1. /\ n \in Nat /\ Len(L) = n /\ \A i \in 1 .. n : L[i] \in Nat
  OBVIOUS
<1>2. /\ P[0] = 0 /\ \A i \in 0 .. n : P[i] \in Int
      /\ \A i \in 1 .. n : P[i] = P[i - 1] + L[i]
  <2>1. L \in Seq(Int)
    OBVIOUS
  <2>2. QED
    BY <1>1, <2>1, SumsDef
<1>3. p \in Nat /\ p >= 1 /\ p <= P[n]
  <2>1. Len(FlattenSeq(ss)) = P[n]
    BY FlattenAt
  <2>2. n \in 0 .. n
    BY <1>1
  <2>3. P[n] \in Int
    BY <1>2, <2>2
  <2>4. QED
    BY <2>1, <2>3
<1> HIDE DEF n, P
<1>4. 0 \in S
  BY <1>1, <1>2, <1>3
<1>5. ASSUME NEW m \in 0 .. n - 1, m \in S PROVE m + 1 \in S
  <2>1. m + 1 \in 1 .. n /\ (m + 1) - 1 = m /\ m + 1 \in 0 .. n /\ m \in 0 .. n
    BY <1>1
  <2>2. P[m + 1] = P[m] + L[m + 1] /\ P[m] \in Int /\ L[m + 1] \in Nat
    BY <1>1, <1>2, <2>1
  <2>3. CASE p <= P[m]
    BY <1>5, <2>1, <2>3
  <2>4. CASE p > P[m] /\ p <= P[m + 1]
    <3> DEFINE b == p - P[m]
    <3>1. b \in 1 .. L[m + 1] /\ p = P[m] + b
      <4> DEFINE u == P[m]
                 v == P[m + 1]
                 l == L[m + 1]
      <4>1. u \in Int /\ l \in Nat /\ v = u + l /\ p \in Nat /\ p > u /\ p <= v
        BY <1>3, <2>2, <2>4
      <4> HIDE DEF u, v, l
      <4>2. p - u \in 1 .. l /\ p = u + (p - u)
        BY <4>1
      <4>3. QED
        BY <4>2 DEF u, l
    <3>2. Here(m + 1)
      BY <2>1, <3>1
    <3> HIDE DEF Here
    <3>3. QED
      BY <2>1, <3>2
  <2>5. CASE p > P[m + 1]
    <3>1. ~(p <= P[m + 1])
      <4>1. P[m + 1] \in Int
        BY <1>2, <2>1
      <4>2. QED
        BY <1>3, <2>5, <4>1
    <3>2. QED
      BY <2>1, <3>1
  <2>6. QED
    <3>1. P[m + 1] \in Int /\ P[m] \in Int
      BY <1>2, <2>1
    <3>2. QED
      BY <1>3, <2>3, <2>4, <2>5, <3>1
<1>6. \A m \in 0 .. n : m \in S
  <2> HIDE DEF S
  <2>1. QED
    BY <1>1, <1>4, <1>5, InductTo
<1>7. PICK i \in 1 .. n : Here(i)
  <2>1. n \in 0 .. n
    BY <1>1
  <2> HIDE DEF Here
  <2>2. QED
    BY <1>3, <1>6, <2>1
<1>8. PICK b \in 1 .. L[i] : p = P[i - 1] + b
  BY <1>7
<1>9. i \in 1 .. Len(ss)
  BY DEF n
<1>10. FlattenSeq(ss)[Sums(L)[i - 1] + b] = ss[i][b]
  BY <1>8, <1>9, FlattenAt
<1>11. QED
  BY <1>8, <1>9, <1>10 DEF P

\* Numbers moved up by m are as many as before.
LEMMA CountShifted ==
    ASSUME NEW m \in Int, NEW J \in SUBSET Int, IsFiniteSet(J), NEW K, K = {m + j : j \in J}
    PROVE  IsFiniteSet(K) /\ Cardinality(K) = Cardinality(J)
<1> DEFINE f == [j \in J |-> m + j]
<1>1. f \in [J -> K]
  OBVIOUS
<1>2. \A j, k \in J : f[j] = f[k] => j = k
  OBVIOUS
<1>3. \A y \in K : \E j \in J : f[j] = y
  OBVIOUS
<1> HIDE DEF f
<1>4. f \in Bijection(J, K)
  BY <1>1, <1>2, <1>3 DEF Bijection, Injection, Surjection, IsInjective
<1>5. QED
  BY <1>4, FS_Bijection DEF ExistsBijection

\* The positions of a concatenation: those of the first part, and those of the second
\* moved behind it.
Joined(m, n, A, C, K) ==
    /\ A \subseteq 1 .. m /\ C \subseteq 1 .. n /\ K \subseteq 1 .. m + n
    /\ \A i \in 1 .. m : i \in K <=> i \in A
    /\ \A j \in 1 .. n : m + j \in K <=> j \in C

LEMMA CountConcat ==
    ASSUME NEW m \in Nat, NEW n \in Nat, NEW A, NEW C, NEW K, Joined(m, n, A, C, K)
    PROVE  Cardinality(K) = Cardinality(A) + Cardinality(C)
<1> USE DEF Joined
<1> DEFINE B == {m + j : j \in C}
<1>1. K = A \cup B
  <2>1. ASSUME NEW i \in K PROVE i \in A \cup B
    <3>1. CASE i <= m
      BY <2>1, <3>1
    <3>2. CASE i > m
      <4>1. i - m \in 1 .. n /\ m + (i - m) = i
        BY <3>2
      <4>2. i - m \in C
        BY <2>1, <4>1
      <4>3. QED
        BY <4>1, <4>2
    <3>3. QED
      BY <3>1, <3>2
  <2>2. ASSUME NEW i \in A \cup B PROVE i \in K
    <3>1. CASE i \in A
      BY <3>1
    <3>2. CASE i \in B
      <4>1. PICK j \in C : i = m + j
        BY <3>2
      <4>2. QED
        BY <4>1
    <3>3. QED
      BY <2>2, <3>1, <3>2
  <2>3. QED
    BY <2>1, <2>2
<1>2. IsFiniteSet(A) /\ IsFiniteSet(C) /\ Cardinality(A) \in Nat /\ Cardinality(C) \in Nat
  <2>1. ASSUME NEW l \in Nat, NEW X, X \subseteq 1 .. l
        PROVE  IsFiniteSet(X) /\ Cardinality(X) \in Nat
    <3>1. IsFiniteSet(1 .. l) /\ X \in SUBSET (1 .. l)
      BY <2>1, FS_Interval
    <3>2. QED
      BY <3>1, FS_Subset, FS_CardinalityType
  <2>2. QED
    BY <2>1
<1>3. C \in SUBSET Int
  OBVIOUS
<1>4. IsFiniteSet(B) /\ Cardinality(B) = Cardinality(C)
  <2>1. B = {m + j : j \in C}
    OBVIOUS
  <2> HIDE DEF B
  <2>2. QED
    BY <1>2, <1>3, <2>1, m \in Int, CountShifted, Zenon
<1>5. A \cap B = {}
  OBVIOUS
<1>6. Cardinality(A \cup B) = Cardinality(A) + Cardinality(B)
  <2> HIDE DEF B
  <2>1. Cardinality(A \cup B) = Cardinality(A) + Cardinality(B) - Cardinality(A \cap B)
    BY <1>2, <1>4, FS_Union
  <2>2. Cardinality({}) = 0
    BY FS_EmptySet
  <2>3. QED
    BY <1>2, <1>4, <1>5, <2>1, <2>2
<1>7. QED
  <2> HIDE DEF B
  <2>1. QED
    BY <1>1, <1>4, <1>6

\* x comes before y in the pieces.
InOrder(ss, x, y) ==
    \E i, j \in 1 .. Len(ss) : \E b \in 1 .. Len(ss[i]), d \in 1 .. Len(ss[j]) :
      x = ss[i][b] /\ y = ss[j][d] /\ (i < j \/ (i = j /\ b < d))

\* Elements that come in an order in the flattened sequence come in it in the pieces.
LEMMA FlattenOrder ==
    ASSUME NEW T, NEW ss \in Seq(Seq(T)),
           NEW p \in 1 .. Len(FlattenSeq(ss)), NEW q \in 1 .. Len(FlattenSeq(ss)), p < q
    PROVE  InOrder(ss, FlattenSeq(ss)[p], FlattenSeq(ss)[q])
<1> DEFINE L == [i \in 1 .. Len(ss) |-> Len(ss[i])]
           P == Sums(L)
<1>1. L \in Seq(Nat) /\ Len(L) = Len(ss) /\ \A i \in 1 .. Len(ss) : L[i] = Len(ss[i])
  OBVIOUS
<1>2. Len(FlattenSeq(ss)) \in Nat
  BY FlattenTyped
<1>2a. \A i \in 1 .. Len(ss) : L[i] \in Nat
  OBVIOUS
<1> HIDE DEF L
<1>3. \A i \in 1 .. Len(ss) : P[i] = P[i - 1] + L[i]
  <2>1. L \in Seq(Int)
    BY <1>1
  <2>2. QED
    BY <1>1, <2>1, SumsDef
<1>4a. PICK i \in 1 .. Len(ss) : \E b \in 1 .. L[i] : p = P[i - 1] + b /\ FlattenSeq(ss)[p] = ss[i][b]
  BY <1>1, FlattenLocate
<1>4. PICK b \in 1 .. L[i] : p = P[i - 1] + b /\ FlattenSeq(ss)[p] = ss[i][b]
  BY <1>4a
<1>5a. PICK j \in 1 .. Len(ss) : \E d \in 1 .. L[j] : q = P[j - 1] + d /\ FlattenSeq(ss)[q] = ss[j][d]
  BY <1>1, FlattenLocate
<1>5. PICK d \in 1 .. L[j] : q = P[j - 1] + d /\ FlattenSeq(ss)[q] = ss[j][d]
  BY <1>5a
<1>6. Len(ss) \in Nat /\ p \in Nat /\ q \in Nat /\ L[i] \in Nat /\ L[j] \in Nat
  <2>1. Len(ss) \in Nat /\ p \in Nat /\ q \in Nat
    BY <1>2
  <2>2. L[i] \in Nat /\ L[j] \in Nat
    BY <1>2a
  <2>3. QED
    BY <2>1, <2>2
<1>7. i < j \/ (i = j /\ b < d)
  <2>1. P[i - 1] \in Nat /\ P[j - 1] \in Nat /\ P[j] \in Nat
    <3>0. Len(L) \in Nat /\ i \in 1 .. Len(L) /\ j \in 1 .. Len(L)
      BY <1>1, <1>6
    <3>1. i - 1 \in 0 .. Len(L) /\ j - 1 \in 0 .. Len(L) /\ j \in 0 .. Len(L) /\ Len(L) \in Nat
      BY <3>0
    <3>2. \A m \in 0 .. Len(L) : m \in m .. Len(L)
      BY <3>1
    <3>3. QED
      BY <1>1, <3>1, <3>2, SumsGrow
  <2>2. CASE i = j
    <3>1. P[i - 1] + b < P[i - 1] + d
      BY <1>4, <1>5, <2>2
    <3>2. QED
      BY <1>6, <2>1, <2>2, <3>1
  <2>3. CASE i > j
    <3>1. j \in 0 .. Len(L) /\ i - 1 \in j .. Len(L)
      BY <1>1, <1>6, <2>3
    <3>2. P[j] <= P[i - 1]
      BY <1>1, <3>1, SumsGrow
    <3>3. P[j] = P[j - 1] + L[j]
      BY <1>3
    <3>4. p = P[i - 1] + b /\ q = P[j - 1] + d /\ b >= 1 /\ d <= L[j] /\ b \in Nat /\ d \in Nat
      BY <1>4, <1>5, <1>6
    <3>5. P[j - 1] + L[j] <= P[i - 1]
      BY <3>2, <3>3
    <3>6. P[j - 1] + d <= P[i - 1] /\ P[i - 1] < P[i - 1] + b
      <4> DEFINE x == P[j - 1]
                 u == P[i - 1]
                 y == L[j]
      <4>1. x \in Nat /\ u \in Nat /\ y \in Nat /\ x + y <= u
        BY <1>6, <2>1, <3>5
      <4>2. d <= y /\ b >= 1 /\ b \in Nat /\ d \in Nat
        BY <3>4
      <4> HIDE DEF x, u, y
      <4>3. x + d <= u /\ u < u + b
        BY <4>1, <4>2
      <4>4. QED
        BY <4>3 DEF x, u
    <3>7. q < p
      <4> DEFINE x == P[j - 1]
                 u == P[i - 1]
      <4>1. x \in Nat /\ u \in Nat /\ b \in Nat /\ d \in Nat /\ x + d <= u /\ u < u + b
        BY <2>1, <3>4, <3>6
      <4>2. p = u + b /\ q = x + d
        BY <3>4
      <4> HIDE DEF x, u
      <4>3. QED
        BY <4>1, <4>2
    <3>8. FALSE
      BY <1>6, <3>7
    <3>9. QED
      BY <3>8
  <2>4. QED
    BY <1>6, <2>2, <2>3
<1>8. QED
  BY <1>1, <1>4, <1>4a, <1>5, <1>5a, <1>7 DEF InOrder

\* The first element is that of the first piece.
LEMMA FlattenFirst ==
    ASSUME NEW T, NEW ss \in Seq(Seq(T)), Len(ss) >= 1, Len(ss[1]) >= 1
    PROVE  Len(FlattenSeq(ss)) >= 1 /\ FlattenSeq(ss)[1] = ss[1][1]
<1> DEFINE L == [i \in 1 .. Len(ss) |-> Len(ss[i])]
           P == Sums(L)
<1>1. L \in Seq(Nat) /\ Len(L) = Len(ss) /\ \A i \in 1 .. Len(ss) : L[i] = Len(ss[i])
  OBVIOUS
<1>2. 1 \in 1 .. Len(ss) /\ 1 \in 1 .. Len(ss[1])
  OBVIOUS
<1> HIDE DEF L
<1>3. P[0] = 0 /\ P[1] = P[0] + L[1]
  <2>1. L \in Seq(Int) /\ 1 - 1 = 0
    BY <1>1
  <2>2. QED
    BY <1>1, <1>2, <2>1, SumsDef
<1>4. Len(FlattenSeq(ss)) = P[Len(ss)]
  BY <1>1, FlattenAt
<1>5. P[1] <= P[Len(ss)] /\ P[Len(ss)] \in Nat
  <2>1. 1 \in 0 .. Len(L) /\ Len(L) \in 1 .. Len(L) /\ Len(L) \in 0 .. Len(L)
    BY <1>1
  <2>2. QED
    BY <1>1, <2>1, SumsGrow
<1>6. FlattenSeq(ss)[P[1 - 1] + 1] = ss[1][1]
  <2>1. 1 \in 1 .. L[1]
    BY <1>1, <1>2
  <2>2. QED
    BY <1>1, <1>2, <2>1, FlattenAt
<1>7. P[1 - 1] + 1 = 1
  BY <1>3
<1>8. L[1] = Len(ss[1])
  BY <1>1, <1>2
<1>9. QED
  <2>1. Len(FlattenSeq(ss)) >= 1
    BY <1>3, <1>4, <1>5, <1>8
  <2>2. QED
    BY <1>6, <1>7, <2>1

\* Every other element stands behind another in its piece, or in another piece.
LEMMA FlattenLater ==
    ASSUME NEW T, NEW ss \in Seq(Seq(T)), NEW p \in 1 .. Len(FlattenSeq(ss)), p > 1
    PROVE  \E i \in 1 .. Len(ss) : \E b \in 1 .. Len(ss[i]) :
             FlattenSeq(ss)[p] = ss[i][b] /\ (b > 1 \/ i > 1)
<1>1. PICK first \in 1 .. Len(FlattenSeq(ss)) : first < p
  <2>1. 1 \in 1 .. Len(FlattenSeq(ss)) /\ 1 < p
    BY FlattenTyped
  <2>2. QED
    BY <2>1
<1>2. PICK j, i \in 1 .. Len(ss) : \E d \in 1 .. Len(ss[j]), b \in 1 .. Len(ss[i]) :
        /\ FlattenSeq(ss)[first] = ss[j][d] /\ FlattenSeq(ss)[p] = ss[i][b]
        /\ j < i \/ (j = i /\ d < b)
  <2>1. InOrder(ss, FlattenSeq(ss)[first], FlattenSeq(ss)[p])
    BY <1>1, FlattenOrder
  <2>2. QED
    BY <2>1 DEF InOrder
<1>3. PICK d \in 1 .. Len(ss[j]), b \in 1 .. Len(ss[i]) :
        FlattenSeq(ss)[p] = ss[i][b] /\ (j < i \/ (j = i /\ d < b))
  BY <1>2
<1>4. b > 1 \/ i > 1
  <2>1. \A k \in 1 .. Len(ss) : ss[k] \in Seq(T)
    OBVIOUS
  <2>2. Len(ss[i]) \in Nat /\ Len(ss[j]) \in Nat
    BY <1>2, <2>1
  <2>3. d \in Nat /\ b \in Nat /\ d >= 1
    BY <1>3, <2>2
  <2>4. QED
    BY <1>2, <1>3, <2>3
<1>5. QED
  BY <1>2, <1>3, <1>4

\* Every element stands in a piece.
LEMMA FlattenPlace ==
    ASSUME NEW T, NEW ss \in Seq(Seq(T)), NEW p \in 1 .. Len(FlattenSeq(ss))
    PROVE  \E i \in 1 .. Len(ss) : \E b \in 1 .. Len(ss[i]) : FlattenSeq(ss)[p] = ss[i][b]
<1> DEFINE L == [i \in 1 .. Len(ss) |-> Len(ss[i])]
<1>1. L \in Seq(Nat) /\ Len(L) = Len(ss) /\ \A i \in 1 .. Len(ss) : L[i] = Len(ss[i])
  OBVIOUS
<1> HIDE DEF L
<1>2. PICK i \in 1 .. Len(ss) : \E b \in 1 .. L[i] : FlattenSeq(ss)[p] = ss[i][b]
  BY <1>1, FlattenLocate
<1>3. QED
  BY <1>1, <1>2
==============================================================================
