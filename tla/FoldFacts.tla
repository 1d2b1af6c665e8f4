------------------------------- MODULE FoldFacts -------------------------------
(*************************************************************************)
(* Induction over a sequence, for the folds this project's models are    *)
(* written with. Folded is defined by recursion on the position; Fold    *)
(* below is that recursion, and the facts are proved from it. The        *)
(* operator that is folded and the invariant it keeps are parameters of  *)
(* the module, with a context they may refer to: whoever folds an        *)
(* operator instantiates this module with it and shows that Folded       *)
(* unfolds to the same recursion.                                        *)
(*************************************************************************)
EXTENDS Integers, Sequences, FiniteSetTheorems, WellFoundedInduction, TLAPS
CONSTANTS Op(_,_,_), Inv(_,_,_)

(* A non-empty set of naturals has a least element: from the well-       *)
(* foundedness of strict inclusion on finite sets.                       *)
LEMMA LeastElement ==
  ASSUME NEW T, T \subseteq Nat, T # {}
  PROVE  \E x \in T : \A y \in T : x <= y
<1>1. PICK n \in T : TRUE
  OBVIOUS
<1> DEFINE S == 0..n
           Up(k) == 0..k
           F == {Up(k) : k \in T \cap S}
<1>2. FiniteSubsetsOf(S) = SUBSET S
  <2>1. n \in Int /\ 0 \in Int
    BY <1>1
  <2>2. IsFiniteSet(S)
    BY <2>1, FS_Interval
  <2> HIDE DEF S
  <2> QED
    BY <2>2, FS_FiniteSubsetsOfFinite
<1>3. F \subseteq FiniteSubsetsOf(S)
  <2>1. ASSUME NEW k \in T \cap S PROVE Up(k) \in SUBSET S
    BY <1>1
  <2> HIDE DEF Up, S
  <2> QED
    BY <2>1, <1>2
<1>4. F # {}
  BY <1>1
<1> HIDE DEF F
<1>5. PICK u \in F : \A v \in F : <<v, u>> \notin StrictSubsetOrdering(S)
  BY <1>3, <1>4, FS_StrictSubsetOrderingWellFounded, WFMin
<1>6. PICK x \in T \cap S : u = Up(x)
  BY <1>5 DEF F
<1>7. ASSUME NEW y \in T, y < x PROVE FALSE
  <2>1. y \in S /\ Up(y) \in F
    BY <1>6, <1>7, <1>1 DEF F
  <2>2. Up(y) \subseteq Up(x) /\ Up(y) # Up(x) /\ Up(x) \subseteq S /\ Up(y) \subseteq S
    BY <1>7, <1>6, <1>1
  <2>3. <<Up(y), Up(x)>> \in StrictSubsetOrdering(S)
    <3> HIDE DEF Up
    <3> QED
      BY <2>2 DEF StrictSubsetOrdering
  <2> QED
    BY <2>1, <2>3, <1>5, <1>6
<1> QED
  BY <1>6, <1>7

(* Induction up to n, for a set.                                         *)
LEMMA Induction ==
  ASSUME NEW n \in Nat, NEW P, 0 \in P, \A i \in 0..n : i < n /\ i \in P => i + 1 \in P
  PROVE  0..n \subseteq P
<1> SUFFICES ASSUME (0..n) \ P # {} PROVE FALSE
  OBVIOUS
<1> DEFINE T == (0..n) \ P
<1>1. T \subseteq Nat
  OBVIOUS
<1>2. PICK x \in T : \A y \in T : x <= y
  <2> HIDE DEF T
  <2> QED
    BY <1>1, LeastElement DEF T
<1>3. x # 0 /\ x - 1 \in 0..n /\ x - 1 < n
  OBVIOUS
<1>4. x - 1 \in P
  BY <1>2, <1>3
<1> QED
  BY <1>3, <1>4

(* What Folded chooses when it folds Op in the context c: the results    *)
(* after each position. The fold is the last of them.                    *)
Table(c, n, base, seq) ==
  CHOOSE f : f = [i \in 0..n |-> IF i = 0 THEN base ELSE Op(c, f[i - 1], seq[i])]
Fold(c, base, seq) == Table(c, Len(seq), base, seq)[Len(seq)]

(* The equation that a table of results solves.                          *)
IsTable(f, c, n, base, seq) ==
  f = [i \in 0..n |-> IF i = 0 THEN base ELSE Op(c, f[i - 1], seq[i])]

(* The equation has a solution, so that the choice is one.               *)
LEMMA TableExists ==
  ASSUME NEW c, NEW n \in Nat, NEW base, NEW seq
  PROVE  \E f : IsTable(f, c, n, base, seq)
<1> DEFINE P == {k \in 0..n : \E f : IsTable(f, c, k, base, seq)}
<1>1. 0 \in P
  <2> DEFINE f == [i \in 0..0 |-> base]
  <2>1. IsTable(f, c, 0, base, seq)
    BY DEF IsTable
  <2> HIDE DEF f
  <2> QED
    BY <2>1
<1>2. ASSUME NEW k \in 0..n, k < n, k \in P PROVE k + 1 \in P
  <2>1. PICK f : IsTable(f, c, k, base, seq)
    BY <1>2
  <2> DEFINE g == [i \in 0..(k + 1) |-> IF i = k + 1 THEN Op(c, f[k], seq[k + 1]) ELSE f[i]]
  <2>2. ASSUME NEW i \in 0..(k + 1)
        PROVE  g[i] = IF i = 0 THEN base ELSE Op(c, g[i - 1], seq[i])
    <3>1. CASE i = k + 1
      <4>1. i # 0 /\ i - 1 = k /\ k \in 0..(k + 1) /\ k # k + 1
        BY <3>1
      <4> QED
        BY <3>1, <4>1
    <3>2. CASE i # k + 1
      <4>1. i \in 0..k /\ (i # 0 => i - 1 \in 0..(k + 1) /\ i - 1 # k + 1)
        BY <3>2
      <4>2. f[i] = IF i = 0 THEN base ELSE Op(c, f[i - 1], seq[i])
        BY <2>1, <4>1 DEF IsTable
      <4> QED
        BY <3>2, <4>1, <4>2
    <3> QED
      BY <3>1, <3>2
  <2>3. g = [i \in 0..(k + 1) |-> g[i]]
    OBVIOUS
  <2> HIDE DEF g
  <2>4. IsTable(g, c, k + 1, base, seq)
    BY <2>2, <2>3 DEF IsTable
  <2>5. k + 1 \in 0..n
    BY <1>2
  <2> QED
    BY <2>4, <2>5, Zenon
<1>3. 0..n \subseteq P
  <2> HIDE DEF P
  <2> QED
    BY <1>1, <1>2, Induction
<1> QED
  BY <1>3

(* The table, position by position: each takes the operator one element  *)
(* further.                                                              *)
LEMMA TableSteps ==
  ASSUME NEW c, NEW n \in Nat, NEW base, NEW seq, NEW k \in 0..n
  PROVE  Table(c, n, base, seq)[k] =
           IF k = 0 THEN base ELSE Op(c, Table(c, n, base, seq)[k - 1], seq[k])
<1> DEFINE f == Table(c, n, base, seq)
<1>1. IsTable(f, c, n, base, seq)
  <2>1. PICK g : IsTable(g, c, n, base, seq)
    BY TableExists
  <2> QED
    BY <2>1, Zenon DEF Table, IsTable
<1> HIDE DEF f
<1> QED
  BY <1>1 DEF IsTable, f

LEMMA StepsOfAny ==
  ASSUME NEW c, NEW n \in Nat, NEW seq
  PROVE  \A base : \A k \in 0..n :
           Table(c, n, base, seq)[k] =
             IF k = 0 THEN base ELSE Op(c, Table(c, n, base, seq)[k - 1], seq[k])
BY TableSteps

(* The length of a sequence is known by its domain.                      *)
LEMMA LengthByDomain ==
  ASSUME NEW seq, NEW n \in Nat, DOMAIN seq = 1..n
  PROVE  Len(seq) = n
OBVIOUS

(* What a fold keeps true, element by element, is true of its result.    *)
THEOREM FoldInvariant ==
  ASSUME NEW c, NEW base, NEW seq, NEW n \in Nat, DOMAIN seq = 1..n,
         Inv(c, 0, base),
         \A i \in 1..n : \A s : Inv(c, i - 1, s) => Inv(c, i, Op(c, s, seq[i]))
  PROVE  Inv(c, n, Fold(c, base, seq))
<1> DEFINE f == Table(c, n, base, seq)
           P == {k \in 0..n : Inv(c, k, f[k])}
<1>1. \A k \in 0..n : f[k] = IF k = 0 THEN base ELSE Op(c, f[k - 1], seq[k])
  BY TableSteps
<1>2. f[n] = Fold(c, base, seq)
  BY LengthByDomain DEF Fold
<1> HIDE DEF f
<1>3. 0 \in P
  BY <1>1
<1>4. ASSUME NEW k \in 0..n, k < n, k \in P PROVE k + 1 \in P
  <2>1. k + 1 \in 1..n /\ k + 1 \in 0..n /\ (k + 1) - 1 = k /\ k + 1 # 0
    BY <1>4
  <2> QED
    BY <1>1, <1>4, <2>1
<1>5. 0..n \subseteq P
  <2> HIDE DEF P
  <2> QED
    BY <1>3, <1>4, Induction
<1>6. n \in P
  BY <1>5
<1> QED
  BY <1>2, <1>6

(* A fold over one more element applies the operator once more.          *)
THEOREM FoldStep ==
  ASSUME NEW c, NEW base, NEW seq, NEW more, NEW n \in Nat,
         DOMAIN seq = 1..n, DOMAIN more = 1..(n + 1), \A i \in 1..n : more[i] = seq[i]
  PROVE  Fold(c, base, more) = Op(c, Fold(c, base, seq), more[n + 1])
<1> DEFINE f == Table(c, n, base, seq)
           g == Table(c, n + 1, base, more)
           P == {k \in 0..n : f[k] = g[k]}
<1>1. \A k \in 0..n : f[k] = IF k = 0 THEN base ELSE Op(c, f[k - 1], seq[k])
  BY TableSteps
<1>2. n + 1 \in Nat
  OBVIOUS
<1>3. \A k \in 0..(n + 1) : g[k] = IF k = 0 THEN base ELSE Op(c, g[k - 1], more[k])
  BY <1>2, TableSteps
<1>4. f[n] = Fold(c, base, seq) /\ g[n + 1] = Fold(c, base, more)
  BY LengthByDomain DEF Fold
<1> HIDE DEF f, g
<1>5. 0 \in P
  BY <1>1, <1>3
<1>6. ASSUME NEW k \in 0..n, k < n, k \in P PROVE k + 1 \in P
  <2>1. k + 1 \in 1..n /\ k + 1 \in 0..n /\ (k + 1) - 1 = k /\ k + 1 # 0 /\ k + 1 \in 0..(n + 1)
    BY <1>6
  <2> QED
    BY <1>1, <1>3, <1>6, <2>1
<1>7. 0..n \subseteq P
  <2> HIDE DEF P
  <2> QED
    BY <1>5, <1>6, Induction
<1>8. n \in P
  BY <1>7
<1>9. n + 1 \in 0..(n + 1) /\ (n + 1) - 1 = n /\ n + 1 # 0
  OBVIOUS
<1> QED
  BY <1>3, <1>4, <1>8, <1>9

(* A fold over no element, over one, and over two.                       *)
LEMMA FoldShort ==
  ASSUME NEW c, NEW base, NEW seq
  PROVE  /\ Len(seq) = 0 => Fold(c, base, seq) = base
         /\ Len(seq) = 1 => Fold(c, base, seq) = Op(c, base, seq[1])
         /\ Len(seq) = 2 => Fold(c, base, seq) = Op(c, Op(c, base, seq[1]), seq[2])
<1>1. \A n \in Nat : \A k \in 0..n :
        Table(c, n, base, seq)[k] =
          IF k = 0 THEN base ELSE Op(c, Table(c, n, base, seq)[k - 1], seq[k])
  BY StepsOfAny
<1>2. \A n \in Nat : 0 \in 0..n
  OBVIOUS
<1>3. /\ 1 \in 0..1 /\ 1 \in 0..2 /\ 2 \in 0..2 /\ 1 - 1 = 0 /\ 2 - 1 = 1
      /\ 0 \in Nat /\ 1 \in Nat /\ 2 \in Nat
  OBVIOUS
<1>4. Table(c, 0, base, seq)[0] = base /\ Table(c, 1, base, seq)[0] = base /\ Table(c, 2, base, seq)[0] = base
  BY <1>1, <1>2, <1>3
<1>5. Table(c, 1, base, seq)[1] = Op(c, base, seq[1]) /\ Table(c, 2, base, seq)[1] = Op(c, base, seq[1])
  BY <1>1, <1>3, <1>4
<1>6. Table(c, 2, base, seq)[2] = Op(c, Op(c, base, seq[1]), seq[2])
  BY <1>1, <1>3, <1>5
<1> QED
  BY <1>4, <1>5, <1>6 DEF Fold

(* Two contexts in which the operator does the same to every element.    *)
THEOREM FoldSame ==
  ASSUME NEW c, NEW d, NEW base, NEW seq, NEW n \in Nat, DOMAIN seq = 1..n,
         \A i \in 1..n : \A s : Op(c, s, seq[i]) = Op(d, s, seq[i])
  PROVE  Fold(c, base, seq) = Fold(d, base, seq)
<1> DEFINE f == Table(c, n, base, seq)
           g == Table(d, n, base, seq)
           P == {k \in 0..n : f[k] = g[k]}
<1>1. \A k \in 0..n : f[k] = IF k = 0 THEN base ELSE Op(c, f[k - 1], seq[k])
  BY TableSteps
<1>2. \A k \in 0..n : g[k] = IF k = 0 THEN base ELSE Op(d, g[k - 1], seq[k])
  BY TableSteps
<1>3. f[n] = Fold(c, base, seq) /\ g[n] = Fold(d, base, seq)
  BY LengthByDomain DEF Fold
<1> HIDE DEF f, g
<1>4. 0 \in P
  BY <1>1, <1>2
<1>5. ASSUME NEW k \in 0..n, k < n, k \in P PROVE k + 1 \in P
  <2>1. k + 1 \in 1..n /\ k + 1 \in 0..n /\ (k + 1) - 1 = k /\ k + 1 # 0
    BY <1>5
  <2> QED
    BY <1>1, <1>2, <1>5, <2>1
<1>6. 0..n \subseteq P
  <2> HIDE DEF P
  <2> QED
    BY <1>4, <1>5, Induction
<1>7. n \in P
  BY <1>6
<1> QED
  BY <1>3, <1>7

(* A fold over one sequence after another.                               *)
THEOREM FoldConcat ==
  ASSUME NEW c, NEW base, NEW s, NEW t, NEW all, NEW n \in Nat, NEW m \in Nat,
         DOMAIN s = 1..n, DOMAIN t = 1..m, DOMAIN all = 1..(n + m),
         \A i \in 1..n : all[i] = s[i], \A i \in 1..m : all[n + i] = t[i]
  PROVE  Fold(c, base, all) = Fold(c, Fold(c, base, s), t)
<1> DEFINE f == Table(c, n, base, s)
           g == Table(c, m, Fold(c, base, s), t)
           a == Table(c, n + m, base, all)
           P == {k \in 0..n : a[k] = f[k]}
           Q == {k \in 0..m : a[n + k] = g[k]}
<1>0. n + m \in Nat
  OBVIOUS
<1>1. \A k \in 0..n : f[k] = IF k = 0 THEN base ELSE Op(c, f[k - 1], s[k])
  BY TableSteps
<1>2. \A k \in 0..m : g[k] = IF k = 0 THEN Fold(c, base, s) ELSE Op(c, g[k - 1], t[k])
  BY StepsOfAny
<1>3. \A k \in 0..(n + m) : a[k] = IF k = 0 THEN base ELSE Op(c, a[k - 1], all[k])
  BY <1>0, TableSteps
<1>4. f[n] = Fold(c, base, s) /\ g[m] = Fold(c, Fold(c, base, s), t) /\ a[n + m] = Fold(c, base, all)
  BY <1>0, LengthByDomain DEF Fold
<1> HIDE DEF f, g, a
<1>5. 0 \in P
  BY <1>0, <1>1, <1>3
<1>6. ASSUME NEW k \in 0..n, k < n, k \in P PROVE k + 1 \in P
  <2>1. k + 1 \in 1..n /\ k + 1 \in 0..n /\ (k + 1) - 1 = k /\ k + 1 # 0 /\ k + 1 \in 0..(n + m)
    BY <1>6
  <2> QED
    BY <1>1, <1>3, <1>6, <2>1
<1>7. 0..n \subseteq P
  <2> HIDE DEF P
  <2> QED
    BY <1>5, <1>6, Induction
<1>8. 0 \in Q
  <2>1. n \in P /\ n + 0 = n /\ 0 \in 0..m
    BY <1>7
  <2>2. a[n] = f[n] /\ g[0] = f[n]
    BY <1>2, <1>4, <2>1
  <2>3. a[n + 0] = g[0]
    BY <2>1, <2>2
  <2> QED
    BY <2>1, <2>3
<1>9. ASSUME NEW k \in 0..m, k < m, k \in Q PROVE k + 1 \in Q
  <2>1. /\ k + 1 \in 1..m /\ k + 1 \in 0..m /\ (k + 1) - 1 = k /\ k + 1 # 0
        /\ n + (k + 1) \in 0..(n + m) /\ (n + (k + 1)) - 1 = n + k /\ n + (k + 1) # 0
    BY <1>9
  <2>2. a[n + (k + 1)] = Op(c, a[n + k], t[k + 1])
    BY <1>3, <2>1
  <2>3. g[k + 1] = Op(c, g[k], t[k + 1])
    BY <1>2, <2>1
  <2> QED
    BY <1>9, <2>1, <2>2, <2>3
<1>10. 0..m \subseteq Q
  <2> HIDE DEF Q
  <2> QED
    BY <1>8, <1>9, Induction
<1>11. m \in Q
  BY <1>10
<1> QED
  BY <1>4, <1>11

(* The same with one element in front.                                   *)
LEMMA FoldAfterFirst ==
  ASSUME NEW c, NEW base, NEW t, NEW all, NEW m \in Nat,
         DOMAIN t = 1..m, DOMAIN all = 1..(1 + m), \A i \in 1..m : all[1 + i] = t[i]
  PROVE  Fold(c, base, all) = Fold(c, Op(c, base, all[1]), t)
<1> DEFINE s == <<all[1]>>
<1>1. Len(s) = 1 /\ DOMAIN s = 1..1 /\ \A i \in 1..1 : all[i] = s[i]
  OBVIOUS
<1>2. Fold(c, base, s) = Op(c, base, all[1])
  BY <1>1, FoldShort
<1> HIDE DEF s
<1>3. \A n \in Nat : DOMAIN s = 1..n /\ DOMAIN all = 1..(n + m)
        /\ (\A i \in 1..n : all[i] = s[i]) /\ (\A i \in 1..m : all[n + i] = t[i])
        => Fold(c, base, all) = Fold(c, Fold(c, base, s), t)
  BY FoldConcat
<1> QED
  BY <1>1, <1>2, <1>3

(* r holds those of the first k elements of seq that are in T, in their  *)
(* order, and nothing else: e tells where each comes from.               *)
Picked(seq, k, T, r) ==
  /\ r \in Seq(T) /\ Len(r) <= k
  /\ \A i \in 1..k : seq[i] \in T => \E j \in 1..Len(r) : r[j] = seq[i]
  /\ \E e \in [1..Len(r) -> 1..k] :
       /\ \A j \in 1..Len(r) : r[j] = seq[e[j]]
       /\ \A i, j \in 1..Len(r) : i < j => e[i] < e[j]

(* One more element, which is in T.                                      *)
LEMMA PickedAppend ==
  ASSUME NEW T, NEW seq, NEW k \in Nat, NEW r, Picked(seq, k, T, r), seq[k + 1] \in T
  PROVE  Picked(seq, k + 1, T, Append(r, seq[k + 1]))
<1> DEFINE l == Len(r)
           q == Append(r, seq[k + 1])
<1>1. r \in Seq(T) /\ l \in Nat
  BY DEF Picked
<1>2. q \in Seq(T) /\ Len(q) = l + 1 /\ q[l + 1] = seq[k + 1] /\ \A j \in 1..l : q[j] = r[j]
  BY <1>1
<1>3. Len(q) <= k + 1
  BY <1>1, <1>2 DEF Picked
<1>4. PICK e \in [1..l -> 1..k] : /\ \A j \in 1..l : r[j] = seq[e[j]]
                                  /\ \A i, j \in 1..l : i < j => e[i] < e[j]
  BY DEF Picked
<1> DEFINE d == [j \in 1..(l + 1) |-> IF j = l + 1 THEN k + 1 ELSE e[j]]
<1>5. d \in [1..Len(q) -> 1..(k + 1)]
  BY <1>1, <1>2, <1>4
<1>6. \A j \in 1..Len(q) : q[j] = seq[d[j]]
  BY <1>1, <1>2, <1>4
<1>7. \A i, j \in 1..Len(q) : i < j => d[i] < d[j]
  <2> SUFFICES ASSUME NEW i \in 1..Len(q), NEW j \in 1..Len(q), i < j PROVE d[i] < d[j]
    OBVIOUS
  <2>1. i \in 1..l /\ e[i] \in 1..k /\ d[i] = e[i]
    BY <1>1, <1>2, <1>4
  <2> QED
    BY <1>1, <1>2, <1>4, <2>1
<1>8. ASSUME NEW i \in 1..(k + 1), seq[i] \in T PROVE \E j \in 1..Len(q) : q[j] = seq[i]
  <2>1. CASE i = k + 1
    BY <1>1, <1>2, <2>1
  <2>2. CASE i # k + 1
    <3>1. PICK j \in 1..l : r[j] = seq[i]
      BY <1>8, <2>2 DEF Picked
    <3> QED
      BY <1>1, <1>2, <3>1
  <2> QED
    BY <2>1, <2>2
<1> HIDE DEF q, d
<1> QED
  BY <1>2, <1>3, <1>5, <1>6, <1>7, <1>8, Zenon DEF Picked, q

(* One more element, which is not.                                       *)
LEMMA PickedSkip ==
  ASSUME NEW T, NEW seq, NEW k \in Nat, NEW r, Picked(seq, k, T, r), seq[k + 1] \notin T
  PROVE  Picked(seq, k + 1, T, r)
<1>1. r \in Seq(T) /\ Len(r) \in Nat
  BY DEF Picked
<1>2. \A i \in 1..(k + 1) : seq[i] \in T => i \in 1..k
  OBVIOUS
<1>3. \A e \in [1..Len(r) -> 1..k] : e \in [1..Len(r) -> 1..(k + 1)]
  OBVIOUS
<1>4. Len(r) <= k + 1
  BY <1>1 DEF Picked
<1> QED
  BY <1>1, <1>2, <1>3, <1>4, Zenon DEF Picked

(* A fold that appends the elements of T and skips the others picks T    *)
(* out of the sequence.                                                  *)
THEOREM FilterFacts ==
  ASSUME NEW c, NEW seq, NEW n \in Nat, DOMAIN seq = 1..n, NEW T,
         \A i \in 1..n : \A s : Op(c, s, seq[i]) = IF seq[i] \in T THEN Append(s, seq[i]) ELSE s
  PROVE  Picked(seq, n, T, Fold(c, <<>>, seq))
<1> DEFINE f == Table(c, n, <<>>, seq)
           P == {k \in 0..n : Picked(seq, k, T, f[k])}
<1>1. \A k \in 0..n : f[k] = IF k = 0 THEN <<>> ELSE Op(c, f[k - 1], seq[k])
  BY StepsOfAny
<1>2. f[n] = Fold(c, <<>>, seq)
  BY LengthByDomain DEF Fold
<1> HIDE DEF f
<1>3. 0 \in P
  <2>1. Picked(seq, 0, T, <<>>)
    <3>1. <<>> \in Seq(T) /\ Len(<<>>) = 0 /\ 1..0 = {}
      OBVIOUS
    <3> DEFINE e == [j \in 1..Len(<<>>) |-> j]
    <3>2. /\ e \in [1..Len(<<>>) -> 1..0]
          /\ \A j \in 1..Len(<<>>) : <<>>[j] = seq[e[j]]
          /\ \A i, j \in 1..Len(<<>>) : i < j => e[i] < e[j]
      BY <3>1
    <3>3. \A i \in 1..0 : seq[i] \in T => \E j \in 1..Len(<<>>) : <<>>[j] = seq[i]
      BY <3>1
    <3>4. <<>> \in Seq(T) /\ Len(<<>>) <= 0
      BY <3>1
    <3> HIDE DEF e
    <3> QED
      BY <3>2, <3>3, <3>4, Zenon DEF Picked
  <2>2. 0 \in 0..n /\ f[0] = <<>>
    BY <1>1
  <2> QED
    BY <2>1, <2>2
<1>4. ASSUME NEW k \in 0..n, k < n, k \in P PROVE k + 1 \in P
  <2>1. k + 1 \in 1..n /\ k + 1 \in 0..n /\ (k + 1) - 1 = k /\ k + 1 # 0 /\ k \in Nat
    BY <1>4
  <2>2. Picked(seq, k, T, f[k])
    BY <1>4
  <2>3. f[k + 1] = IF seq[k + 1] \in T THEN Append(f[k], seq[k + 1]) ELSE f[k]
    BY <1>1, <2>1
  <2>4. Picked(seq, k + 1, T, f[k + 1])
    <3>1. CASE seq[k + 1] \in T
      <4>1. f[k + 1] = Append(f[k], seq[k + 1])
        BY <2>3, <3>1
      <4>2. k \in Nat
        BY <2>1
      <4>3. Picked(seq, k + 1, T, Append(f[k], seq[k + 1]))
        BY <2>2, <3>1, <4>2, PickedAppend
      <4> QED
        BY <4>1, <4>3, Zenon
    <3>2. CASE seq[k + 1] \notin T
      <4>1. f[k + 1] = f[k]
        BY <2>3, <3>2
      <4> QED
        BY <2>1, <2>2, <3>2, <4>1, PickedSkip, Zenon
    <3> QED
      BY <3>1, <3>2
  <2> QED
    BY <2>1, <2>4
<1>5. 0..n \subseteq P
  <2> HIDE DEF P
  <2> QED
    BY <1>3, <1>4, Induction
<1>6. n \in P
  BY <1>5
<1> QED
  BY <1>2, <1>6

(* A fold that may append an element to what it builds, or leave it,     *)
(* builds a sequence of elements.                                        *)
THEOREM GrowthFacts ==
  ASSUME NEW c, NEW seq, NEW n \in Nat, DOMAIN seq = 1..n, NEW S,
         \A i \in 1..n : seq[i] \in S,
         \A i \in 1..n : \A s : Op(c, s, seq[i]) \in {s, Append(s, seq[i])}
  PROVE  Fold(c, <<>>, seq) \in Seq(S)
<1> DEFINE f == Table(c, n, <<>>, seq)
           P == {k \in 0..n : f[k] \in Seq(S)}
<1>1. \A k \in 0..n : f[k] = IF k = 0 THEN <<>> ELSE Op(c, f[k - 1], seq[k])
  BY StepsOfAny
<1>2. f[n] = Fold(c, <<>>, seq)
  BY LengthByDomain DEF Fold
<1> HIDE DEF f
<1>3. 0 \in P
  <2>1. 0 \in 0..n
    OBVIOUS
  <2>2. f[0] = <<>>
    BY <1>1, <2>1
  <2>3. <<>> \in Seq(S)
    OBVIOUS
  <2> QED
    BY <2>1, <2>2, <2>3, Zenon
<1>4. ASSUME NEW k \in 0..n, k < n, k \in P PROVE k + 1 \in P
  <2>1. k + 1 \in 1..n /\ k + 1 \in 0..n /\ (k + 1) - 1 = k /\ k + 1 # 0
    BY <1>4
  <2>2. f[k + 1] \in {f[k], Append(f[k], seq[k + 1])}
    BY <1>1, <2>1
  <2>3. f[k] \in Seq(S) /\ seq[k + 1] \in S
    BY <1>4, <2>1
  <2>4. Append(f[k], seq[k + 1]) \in Seq(S)
    BY <2>3
  <2>5. f[k + 1] \in Seq(S)
    BY <2>2, <2>3, <2>4, Zenon
  <2> QED
    BY <2>1, <2>5, Zenon
<1>5. 0..n \subseteq P
  <2> HIDE DEF P
  <2> QED
    BY <1>3, <1>4, Induction
<1>6. n \in P
  BY <1>5
<1> QED
  BY <1>2, <1>6
===============================================================================
