------------------------------- MODULE Recursion -------------------------------
(***************************************************************************)
(* Induction over the natural numbers, sequences and finite sets, stated   *)
(* with sets, and the recursive functions that the models are built from:  *)
(* a step function iterated over an interval, and a sum over a finite set. *)
(***************************************************************************)
EXTENDS Integers, Sequences, FiniteSets, WellFoundedInduction, SequenceTheorems,
        FiniteSetTheorems, TLAPS

LEMMA LeastElement ==
  ASSUME NEW T, T \subseteq Nat, T # {}
  PROVE  \E x \in T : \A y \in T : x <= y
  <1> DEFINE R == {ss \in Nat \X Nat : ss[1] < ss[2]}
  <1>1. IsWellFoundedOn(R, Nat)
    BY NatLessThanWellFounded DEF OpToRel
  <1> HIDE DEF R
  <1>2. PICK x \in T : \A y \in T : ~(<<y, x>> \in R)
    BY <1>1, WFMin
  <1>3. \A y \in T : y < x => <<y, x>> \in R
    BY DEF R
  <1>4. ASSUME NEW y \in T PROVE x <= y
    <2>1. x \in Nat /\ y \in Nat /\ ~(y < x)
      BY <1>2, <1>3
    <2> QED
      BY <2>1
  <1> QED
    BY <1>4

(* A set of numbers that has 0, and the successor of each of its members.  *)
LEMMA SetInduction ==
  ASSUME NEW T, 0 \in T, \A n \in Nat : n \in T => n + 1 \in T
  PROVE  \A n \in Nat : n \in T
  <1> DEFINE F == Nat \ T
  <1>1. SUFFICES ASSUME F # {} PROVE FALSE
    OBVIOUS
  <1>2. PICK x \in F : \A y \in F : x <= y
    BY <1>1, LeastElement
  <1>3. x # 0 /\ x \in Nat
    OBVIOUS
  <1>4. x - 1 \in Nat /\ x - 1 \notin F
    BY <1>2, <1>3
  <1>5. x - 1 \in T
    BY <1>4
  <1>6. (x - 1) + 1 \in T
    BY <1>4, <1>5
  <1>7. (x - 1) + 1 = x
    BY <1>3
  <1> QED
    BY <1>6, <1>7

(* The same up to m.                                                       *)
LEMMA IntervalInduction ==
  ASSUME NEW m \in Nat, NEW T, 0 \in T, \A n \in 0 .. m - 1 : n \in T => n + 1 \in T
  PROVE  \A n \in 0 .. m : n \in T
  <1> DEFINE U == {n \in Nat : n <= m => n \in T}
  <1>1. 0 \in U
    OBVIOUS
  <1>2. ASSUME NEW n \in Nat, n \in U PROVE n + 1 \in U
    <2>1. CASE n + 1 <= m
      <3>1. n \in 0 .. m - 1 /\ n \in T
        BY <1>2, <2>1
      <3>2. n + 1 \in T
        BY <3>1
      <3> QED
        BY <3>2
    <2> QED
      BY <2>1
  <1>3. \A n \in Nat : n \in U
    <2> HIDE DEF U
    <2> QED
      BY <1>1, <1>2, SetInduction
  <1> QED
    BY <1>3

(* A step function can be iterated: n times it takes a to g[n].  The names *)
(* are matched as they stand, where the functions' sets would not be.      *)
StepsIn(step, n, S) == step \in [1 .. n -> [S -> S]]
Iterates(g, step, n, S, a) ==
  g \in [0 .. n -> S] /\ g[0] = a /\ \A k \in 1 .. n : g[k] = step[k][g[k - 1]]

LEMMA NamedIteration ==
  ASSUME NEW m \in Nat, NEW S, NEW a \in S, NEW step, StepsIn(step, m, S)
  PROVE  \E g : Iterates(g, step, m, S, a)
  <1>5. step \in [1 .. m -> [S -> S]]
    BY DEF StepsIn
  <1> DEFINE Good(n, g) == g \in [0 .. n -> S] /\ g[0] = a
                           /\ \A k \in 1 .. n : g[k] = step[k][g[k - 1]]
             T == {n \in 0 .. m : \E g : Good(n, g)}
  <1>1. 0 \in T
    <2> DEFINE h == [k \in 0 .. 0 |-> a]
    <2>1. h \in [0 .. 0 -> S] /\ h[0] = a /\ 1 .. 0 = {}
      OBVIOUS
    <2> HIDE DEF h
    <2>2. \E g : Good(0, g)
      BY <2>1
    <2> HIDE DEF Good
    <2> QED
      BY <2>2
  <1>2. ASSUME NEW n \in 0 .. m - 1, n \in T PROVE n + 1 \in T
    <2>1. PICK g : Good(n, g)
      BY <1>2
    <2> DEFINE h == [k \in 0 .. n + 1 |-> IF k = n + 1 THEN step[n + 1][g[n]] ELSE g[k]]
    <2>2. g[n] \in S /\ n + 1 \in 1 .. m /\ n \in Nat
      BY <2>1
    <2>3. step[n + 1] \in [S -> S] /\ step[n + 1][g[n]] \in S
      BY <1>5, <2>2
    <2>4. h \in [0 .. n + 1 -> S]
      BY <2>1, <2>2, <2>3
    <2>5. h[0] = a
      BY <2>1, <2>2
    <2>6. ASSUME NEW k \in 1 .. n + 1 PROVE h[k] = step[k][h[k - 1]]
      <3>1. k - 1 \in 0 .. n /\ h[k - 1] = g[k - 1]
        BY <2>2
      <3>2. CASE k = n + 1
        <4>1. h[n + 1] = step[n + 1][g[n]] /\ k - 1 = n
          BY <3>2, <2>2
        <4> HIDE DEF h
        <4> QED
          BY <3>1, <3>2, <4>1
      <3>3. CASE k # n + 1
        <4>1. k \in 1 .. n /\ h[k] = g[k]
          BY <3>3, <2>2
        <4> QED
          BY <4>1, <3>1, <2>1
      <3> QED
        BY <3>2, <3>3
    <2> HIDE DEF h
    <2>7. Good(n + 1, h)
      BY <2>4, <2>5, <2>6
    <2> QED
      BY <2>7, <2>2
  <1>3. \A n \in 0 .. m : n \in T
    <2> HIDE DEF T
    <2> QED
      BY <1>1, <1>2, IntervalInduction
  <1>4. m \in 0 .. m
    OBVIOUS
  <1>6. PICK g : Good(m, g)
    <2> HIDE DEF Good
    <2> QED
      BY <1>3, <1>4
  <1>7. Iterates(g, step, m, S, a)
    BY <1>6 DEF Iterates
  <1> QED
    BY <1>7

(* The same, of a step function whose sets are in sight.                   *)
LEMMA Iteration ==
  ASSUME NEW m \in Nat, NEW S, NEW a \in S, NEW step \in [1 .. m -> [S -> S]]
  PROVE  \E g \in [0 .. m -> S] :
           g[0] = a /\ \A k \in 1 .. m : g[k] = step[k][g[k - 1]]
  <1>1. StepsIn(step, m, S)
    BY DEF StepsIn
  <1>2. PICK g : Iterates(g, step, m, S, a)
    BY <1>1, NamedIteration
  <1> QED
    BY <1>2 DEF Iterates

(* A function whose value at k is that of a step from a later place        *)
(* next[k], but for the places where it stops with a.                      *)
Jumps(f, m, S, Stop, a, step, next) ==
  /\ f \in [0 .. m -> S]
  /\ \A k \in 0 .. m : f[k] = IF k \in Stop THEN a ELSE step[k][f[next[k]]]

LEMMA JumpsExist ==
  ASSUME NEW m \in Nat, NEW S, NEW Stop, NEW a \in S, NEW step, NEW next,
         \A k \in 0 .. m : k \notin Stop =>
           step[k] \in [S -> S] /\ next[k] \in 0 .. m /\ next[k] > k
  PROVE  \E f : Jumps(f, m, S, Stop, a, step, next)
  <1> DEFINE V(k, f) == IF k \in Stop THEN a ELSE step[k][f[next[k]]]
             Good(j, f) == f \in [0 .. m -> S] /\ \A k \in 0 .. m : k > m - j => f[k] = V(k, f)
             T == {j \in 0 .. m + 1 : \E f : Good(j, f)}
  <1>1. 0 \in T
    <2> DEFINE h == [k \in 0 .. m |-> a]
    <2>1. h \in [0 .. m -> S]
      OBVIOUS
    <2>2. \A k \in 0 .. m : ~(k > m - 0)
      OBVIOUS
    <2> HIDE DEF h, V
    <2>3. Good(0, h)
      BY <2>1, <2>2
    <2> HIDE DEF Good
    <2> QED
      BY <2>3
  <1>2. ASSUME NEW j \in 0 .. m + 1 - 1, j \in T PROVE j + 1 \in T
    <2>1. PICK f : Good(j, f)
      BY <1>2
    <2> DEFINE p == m - j
               h == [f EXCEPT ![p] = V(p, f)]
    <2>2. p \in 0 .. m
      OBVIOUS
    <2>3. \A k \in 0 .. m : V(k, f) \in S
      <3> SUFFICES ASSUME NEW k \in 0 .. m PROVE V(k, f) \in S
        OBVIOUS
      <3>1. CASE k \in Stop
        BY <3>1
      <3>2. CASE k \notin Stop
        <4>1. step[k] \in [S -> S] /\ f[next[k]] \in S
          BY <2>1, <3>2
        <4> QED
          BY <3>2, <4>1
      <3> QED
        BY <3>1, <3>2
    <2>4. V(p, f) \in S
      BY <2>2, <2>3
    <2> HIDE DEF p
    <2>5. h \in [0 .. m -> S]
      BY <2>1, <2>4
    <2>6. ASSUME NEW k \in 0 .. m PROVE h[k] = IF k = p THEN V(p, f) ELSE f[k]
      BY <2>1
    <2>7. ASSUME NEW k \in 0 .. m, k >= p PROVE V(k, h) = V(k, f)
      <3>1. CASE k \in Stop
        BY <3>1
      <3>2. CASE k \notin Stop
        <4>1. next[k] \in 0 .. m /\ next[k] > k
          BY <3>2
        <4>2. next[k] # p
          BY <2>2, <2>7, <4>1
        <4>3. h[next[k]] = f[next[k]]
          BY <2>6, <4>1, <4>2
        <4> HIDE DEF h
        <4> QED
          BY <4>3
      <3> QED
        BY <3>1, <3>2
    <2>8. ASSUME NEW k \in 0 .. m, k > m - (j + 1) PROVE h[k] = V(k, h)
      <3>1. k >= p
        BY <2>8 DEF p
      <3>2. V(k, h) = V(k, f)
        BY <2>7, <3>1
      <3>3. k # p => f[k] = V(k, f)
        <4>1. k # p => k > m - j
          BY <2>2, <3>1 DEF p
        <4> QED
          BY <2>1, <4>1
      <3> HIDE DEF h, V
      <3> QED
        BY <2>6, <3>2, <3>3
    <2> HIDE DEF h, V
    <2>9. Good(j + 1, h)
      BY <2>5, <2>8
    <2>10. j + 1 \in 0 .. m + 1
      OBVIOUS
    <2> QED
      BY <2>9, <2>10
  <1>3. \A j \in 0 .. m + 1 : j \in T
    <2> HIDE DEF T
    <2>1. m + 1 \in Nat
      OBVIOUS
    <2> QED
      BY <1>1, <1>2, <2>1, IntervalInduction
  <1>4. PICK f : Good(m + 1, f)
    <2> HIDE DEF Good
    <2>1. m + 1 \in 0 .. m + 1
      OBVIOUS
    <2> QED
      BY <1>3, <2>1
  <1>5. \A k \in 0 .. m : k > m - (m + 1)
    OBVIOUS
  <1> QED
    BY <1>4, <1>5 DEF Jumps

(* A set that has the empty sequence, and the members of S appended to     *)
(* each sequence that it has.                                              *)
LEMMA AppendInduction ==
  ASSUME NEW S, NEW T, <<>> \in T,
         \A s \in Seq(S) : s \in T => \A e \in S : Append(s, e) \in T
  PROVE  \A s \in Seq(S) : s \in T
  <1> DEFINE U == {n \in Nat : \A s \in Seq(S) : Len(s) = n => s \in T}
  <1>1. 0 \in U
    <2>1. \A s \in Seq(S) : Len(s) = 0 => s = <<>>
      BY EmptySeq
    <2> QED
      BY <2>1
  <1>2. ASSUME NEW n \in Nat, n \in U PROVE n + 1 \in U
    <2> SUFFICES ASSUME NEW s \in Seq(S), Len(s) = n + 1 PROVE s \in T
      OBVIOUS
    <2>1. s # <<>>
      OBVIOUS
    <2>2. PICK r \in Seq(S), e \in S : s = Append(r, e)
      BY <2>1, SequenceEmptyOrAppend
    <2>3. Len(s) = Len(r) + 1 /\ Len(r) \in Nat
      BY <2>2
    <2>4. Len(r) = n
      BY <2>3
    <2>5. r \in T
      BY <1>2, <2>4
    <2> QED
      BY <2>2, <2>5
  <1>3. \A n \in Nat : n \in U
    <2> HIDE DEF U
    <2> QED
      BY <1>1, <1>2, SetInduction
  <1> QED
    BY <1>3

-----------------------------------------------------------------------------
(* A set that has the empty set, and with a subset of the finite set S the *)
(* set that has one more member.                                           *)
LEMMA FiniteInduction ==
  ASSUME NEW S, IsFiniteSet(S), NEW T, {} \in T,
         \A A \in SUBSET S : A \in T => \A x \in S : A \cup {x} \in T
  PROVE  \A A \in SUBSET S : A \in T
  <1> DEFINE U == {n \in Nat : \A A \in SUBSET S : Cardinality(A) = n => A \in T}
  <1>0. ASSUME NEW A \in SUBSET S PROVE IsFiniteSet(A) /\ Cardinality(A) \in Nat
    BY FS_Subset, FS_CardinalityType
  <1>1. 0 \in U
    <2>1. ASSUME NEW A \in SUBSET S, Cardinality(A) = 0 PROVE A \in T
      BY <1>0, <2>1, FS_EmptySet
    <2> QED
      BY <2>1
  <1>2. ASSUME NEW n \in Nat, n \in U PROVE n + 1 \in U
    <2>1. ASSUME NEW A \in SUBSET S, Cardinality(A) = n + 1 PROVE A \in T
      <3>1. A # {}
        <4>1. Cardinality({}) = 0 /\ n + 1 # 0
          BY FS_EmptySet
        <4> QED
          BY <2>1, <4>1
      <3>2. PICK x \in A : TRUE
        BY <3>1
      <3>3. Cardinality(A \ {x}) = Cardinality(A) - 1
        BY <1>0, <3>2, FS_RemoveElement
      <3>4. Cardinality(A \ {x}) = n
        BY <2>1, <3>3
      <3>5. A \ {x} \in SUBSET S /\ x \in S
        OBVIOUS
      <3>6. A \ {x} \in T
        BY <1>2, <3>4, <3>5
      <3>7. (A \ {x}) \cup {x} = A
        BY <3>2
      <3> QED
        BY <3>5, <3>6, <3>7
    <2> QED
      BY <2>1
  <1>3. \A n \in Nat : n \in U
    <2> HIDE DEF U
    <2> QED
      BY <1>1, <1>2, SetInduction
  <1> QED
    BY <1>0, <1>3

(* g gives the sum of the weights W over each subset of S.                 *)
Sums(g, W, S) ==
  /\ g \in [SUBSET S -> Int] /\ g[{}] = 0
  /\ \A A \in SUBSET S : \A x \in A : g[A] = W[x] + g[A \ {x}]

Total(W, S) == (CHOOSE g : Sums(g, W, S))[S]

LEMMA OneSum ==
  ASSUME NEW S, IsFiniteSet(S), NEW W, NEW g, Sums(g, W, S), NEW h, Sums(h, W, S)
  PROVE  g = h
  <1> DEFINE T == {A \in SUBSET S : g[A] = h[A]}
  <1>1. {} \in T
    BY DEF Sums
  <1>2. ASSUME NEW A \in SUBSET S, A \in T, NEW x \in S PROVE A \cup {x} \in T
    <2>1. CASE x \in A
      <3>1. A \cup {x} = A
        BY <2>1
      <3> QED
        BY <1>2, <3>1
    <2>2. CASE x \notin A
      <3> DEFINE B == A \cup {x}
      <3>1. B \in SUBSET S /\ x \in B /\ B \ {x} = A
        BY <2>2
      <3> HIDE DEF B
      <3>2. g[B] = W[x] + g[B \ {x}] /\ h[B] = W[x] + h[B \ {x}]
        BY <3>1 DEF Sums
      <3>3. g[B] = h[B]
        BY <1>2, <3>1, <3>2
      <3> QED
        BY <3>1, <3>3 DEF B
    <2> QED
      BY <2>1, <2>2
  <1>3. \A A \in SUBSET S : A \in T
    <2> HIDE DEF T
    <2> QED
      BY <1>1, <1>2, FiniteInduction
  <1>4. \A A \in SUBSET S : g[A] = h[A]
    BY <1>3
  <1> QED
    BY <1>4 DEF Sums

LEMMA SumExists ==
  ASSUME NEW S, IsFiniteSet(S), NEW W \in [S -> Int]
  PROVE  \E g : Sums(g, W, S)
  <1> DEFINE T == {A \in SUBSET S : \E g : Sums(g, W, A)}
  <1>1. {} \in T
    <2> DEFINE g == [A \in SUBSET {} |-> 0]
    <2>1. g \in [SUBSET {} -> Int] /\ g[{}] = 0
      OBVIOUS
    <2>2. \A A \in SUBSET {} : \A x \in A : g[A] = W[x] + g[A \ {x}]
      OBVIOUS
    <2> HIDE DEF g
    <2>3. Sums(g, W, {})
      BY <2>1, <2>2 DEF Sums
    <2> QED
      BY <2>3
  <1>2. ASSUME NEW B \in SUBSET S, B \in T, NEW y \in S PROVE B \cup {y} \in T
    <2>1. CASE y \in B
      <3>1. B \cup {y} = B
        BY <2>1
      <3> QED
        BY <1>2, <3>1
    <2>2. CASE y \notin B
      <3>1. PICK g : Sums(g, W, B)
        BY <1>2
      <3> DEFINE C == B \cup {y}
                 h == [A \in SUBSET C |-> IF y \in A THEN W[y] + g[A \ {y}] ELSE g[A]]
      <3>2. W[y] \in Int /\ g \in [SUBSET B -> Int]
        BY <3>1 DEF Sums
      <3>3. ASSUME NEW A \in SUBSET C PROVE A \ {y} \in SUBSET B /\ (y \notin A => A \in SUBSET B)
        OBVIOUS
      <3>4. h \in [SUBSET C -> Int]
        BY <3>2, <3>3
      <3>5. h[{}] = 0
        BY <3>1 DEF Sums
      <3>6. ASSUME NEW A \in SUBSET C, NEW x \in A PROVE h[A] = W[x] + h[A \ {x}]
        <4> DEFINE D == A \ {x}
        <4>1. D \in SUBSET C /\ x \in C /\ W[x] \in Int
          OBVIOUS
        <4>2. h[A] = (IF y \in A THEN W[y] + g[A \ {y}] ELSE g[A])
              /\ h[D] = (IF y \in D THEN W[y] + g[D \ {y}] ELSE g[D])
          BY <4>1
        <4>3. CASE x = y
          <5>1. y \in A /\ y \notin D /\ D = A \ {y}
            BY <4>3
          <5> QED
            BY <4>2, <4>3, <5>1
        <4>4. CASE x # y /\ y \in A
          <5>1. y \in D /\ D \ {y} = (A \ {y}) \ {x} /\ x \in A \ {y}
            BY <4>4
          <5>2. g[A \ {y}] = W[x] + g[(A \ {y}) \ {x}]
            BY <3>1, <3>3, <5>1 DEF Sums
          <5>3. g[(A \ {y}) \ {x}] \in Int
            <6>1. (A \ {y}) \ {x} \in SUBSET B
              BY <3>3
            <6> QED
              BY <3>2, <6>1
          <5>4. h[A] = W[y] + g[A \ {y}] /\ h[D] = W[y] + g[(A \ {y}) \ {x}]
            BY <4>2, <4>4, <5>1
          <5> HIDE DEF h, D
          <5>5. h[A] = W[x] + h[D]
            BY <3>2, <4>1, <5>2, <5>3, <5>4
          <5> QED
            BY <5>5 DEF D
        <4>5. CASE y \notin A
          <5>1. A \in SUBSET B /\ y \notin D /\ h[A] = g[A] /\ h[D] = g[D]
            BY <3>3, <4>2, <4>5
          <5>2. g[A] = W[x] + g[A \ {x}]
            BY <3>1, <5>1 DEF Sums
          <5> HIDE DEF h
          <5> QED
            BY <5>1, <5>2
        <4> QED
          BY <4>3, <4>4, <4>5
      <3> HIDE DEF h
      <3>7. Sums(h, W, C)
        BY <3>4, <3>5, <3>6 DEF Sums
      <3>8. C \in SUBSET S
        OBVIOUS
      <3> QED
        BY <3>7, <3>8
    <2> QED
      BY <2>1, <2>2
  <1>3. \A A \in SUBSET S : A \in T
    <2> HIDE DEF T
    <2> QED
      BY <1>1, <1>2, FiniteInduction
  <1> QED
    BY <1>3

LEMMA TotalSum ==
  ASSUME NEW S, IsFiniteSet(S), NEW W, NEW g, Sums(g, W, S)
  PROVE  Total(W, S) = g[S] /\ Total(W, S) \in Int
  <1>1. Sums(CHOOSE h : Sums(h, W, S), W, S)
    OBVIOUS
  <1>2. (CHOOSE h : Sums(h, W, S)) = g
    BY <1>1, OneSum
  <1>3. g[S] \in Int
    BY DEF Sums
  <1> QED
    BY <1>2, <1>3 DEF Total

(* Where one weight changes the sum changes by as much.                    *)
LEMMA TotalChange ==
  ASSUME NEW S, IsFiniteSet(S), NEW W \in [S -> Int], NEW V \in [S -> Int],
         NEW x \in S, \A y \in S \ {x} : V[y] = W[y]
  PROVE  Total(V, S) = Total(W, S) - W[x] + V[x]
  <1>1. PICK g : Sums(g, W, S)
    BY SumExists
  <1> DEFINE h == [A \in SUBSET S |-> g[A] + (IF x \in A THEN V[x] - W[x] ELSE 0)]
  <1>2. g \in [SUBSET S -> Int] /\ V[x] \in Int /\ W[x] \in Int
    BY <1>1 DEF Sums
  <1>3. h \in [SUBSET S -> Int] /\ h[{}] = 0
    BY <1>1, <1>2 DEF Sums
  <1>4. ASSUME NEW A \in SUBSET S, NEW z \in A PROVE h[A] = V[z] + h[A \ {z}]
    <2>1. A \ {z} \in SUBSET S
      OBVIOUS
    <2>2. g[A] = W[z] + g[A \ {z}] /\ g[A \ {z}] \in Int /\ W[z] \in Int /\ V[z] \in Int
      BY <1>1, <1>2, <2>1 DEF Sums
    <2>3. h[A] = g[A] + (IF x \in A THEN V[x] - W[x] ELSE 0)
          /\ h[A \ {z}] = g[A \ {z}] + (IF x \in A \ {z} THEN V[x] - W[x] ELSE 0)
      BY <2>1
    <2> HIDE DEF h
    <2>4. CASE z = x
      BY <1>2, <2>2, <2>3, <2>4
    <2>5. CASE z # x
      <3>1. V[z] = W[z] /\ (x \in A <=> x \in A \ {z})
        BY <2>5
      <3> QED
        BY <1>2, <2>2, <2>3, <3>1
    <2> QED
      BY <2>4, <2>5
  <1>5. h[S] = g[S] + (V[x] - W[x])
    OBVIOUS
  <1> HIDE DEF h
  <1>6. Sums(h, V, S)
    BY <1>3, <1>4 DEF Sums
  <1>7. Total(W, S) = g[S] /\ Total(V, S) = h[S] /\ g[S] \in Int
    BY <1>1, <1>6, TotalSum
  <1> QED
    BY <1>2, <1>5, <1>7

(* The same where two change.                                              *)
LEMMA TotalChanges ==
  ASSUME NEW S, IsFiniteSet(S), NEW W \in [S -> Int], NEW V \in [S -> Int],
         NEW x \in S, NEW y \in S, x # y, \A z \in S \ {x, y} : V[z] = W[z]
  PROVE  Total(V, S) = Total(W, S) - W[x] - W[y] + V[x] + V[y]
  <1> DEFINE U == [W EXCEPT ![x] = V[x]]
  <1>1. U \in [S -> Int] /\ U[x] = V[x] /\ U[y] = W[y] /\ \A z \in S \ {x} : U[z] = W[z]
    OBVIOUS
  <1>2. \A z \in S \ {y} : V[z] = U[z]
    OBVIOUS
  <1> HIDE DEF U
  <1>3. Total(U, S) = Total(W, S) - W[x] + U[x]
    BY <1>1, TotalChange
  <1>4. Total(V, S) = Total(U, S) - U[y] + V[y]
    BY <1>1, <1>2, TotalChange
  <1>5. Total(W, S) \in Int /\ Total(V, S) \in Int /\ W[x] \in Int /\ W[y] \in Int
        /\ V[x] \in Int /\ V[y] \in Int
    BY SumExists, TotalSum
  <1> QED
    BY <1>1, <1>3, <1>4, <1>5

(* What has no weight may be left out.                                     *)
LEMMA TotalPart ==
  ASSUME NEW S, IsFiniteSet(S), NEW W, NEW g, Sums(g, W, S),
         NEW P \in SUBSET S, \A x \in S \ P : W[x] = 0
  PROVE  Total(W, S) = g[P]
  <1> DEFINE h == [A \in SUBSET S |-> g[A \cap P]]
  <1>1. h \in [SUBSET S -> Int] /\ h[{}] = 0
    <2>1. g \in [SUBSET S -> Int] /\ g[{}] = 0 /\ {} \cap P = {}
      BY DEF Sums
    <2> QED
      BY <2>1
  <1>2. ASSUME NEW A \in SUBSET S, NEW x \in A PROVE h[A] = W[x] + h[A \ {x}]
    <2>1. A \ {x} \in SUBSET S /\ A \cap P \in SUBSET S /\ (A \ {x}) \cap P = (A \cap P) \ {x}
      OBVIOUS
    <2>2. h[A] = g[A \cap P] /\ h[A \ {x}] = g[(A \cap P) \ {x}]
      BY <2>1
    <2> HIDE DEF h
    <2>3. CASE x \in P
      <3>1. g[A \cap P] = W[x] + g[(A \cap P) \ {x}]
        BY <2>1, <2>3 DEF Sums
      <3> QED
        BY <2>2, <3>1
    <2>4. CASE x \notin P
      <3>1. W[x] = 0 /\ (A \cap P) \ {x} = A \cap P /\ g[A \cap P] \in Int
        BY <2>1, <2>4 DEF Sums
      <3> QED
        BY <2>2, <3>1
    <2> QED
      BY <2>3, <2>4
  <1>3. h[S] = g[P]
    <2>1. S \cap P = P
      OBVIOUS
    <2> QED
      BY <2>1
  <1> HIDE DEF h
  <1>4. Sums(h, W, S)
    BY <1>1, <1>2 DEF Sums
  <1> QED
    BY <1>3, <1>4, TotalSum

(* A cardinality is a sum of ones.                                         *)
LEMMA CardinalitySum ==
  ASSUME NEW S, IsFiniteSet(S), NEW P \in SUBSET S
  PROVE  Cardinality(P) = Total([x \in S |-> IF x \in P THEN 1 ELSE 0], S)
  <1> DEFINE W == [x \in S |-> IF x \in P THEN 1 ELSE 0]
             h == [A \in SUBSET S |-> Cardinality(A \cap P)]
  <1>1. ASSUME NEW A \in SUBSET S PROVE IsFiniteSet(A \cap P) /\ Cardinality(A \cap P) \in Nat
    <2>1. A \cap P \in SUBSET S
      OBVIOUS
    <2> QED
      BY <2>1, FS_Subset, FS_CardinalityType
  <1>2. h \in [SUBSET S -> Int]
    BY <1>1
  <1>3. h[{}] = 0
    <2>1. {} \cap P = {}
      OBVIOUS
    <2> QED
      BY <2>1, FS_EmptySet
  <1>4. ASSUME NEW A \in SUBSET S, NEW x \in A PROVE h[A] = W[x] + h[A \ {x}]
    <2>1. (A \ {x}) \cap P = (A \cap P) \ {x} /\ A \ {x} \in SUBSET S
      OBVIOUS
    <2>2. Cardinality((A \cap P) \ {x})
            = IF x \in A \cap P THEN Cardinality(A \cap P) - 1 ELSE Cardinality(A \cap P)
      BY <1>1, FS_RemoveElement
    <2>3. W[x] = (IF x \in A \cap P THEN 1 ELSE 0) /\ Cardinality(A \cap P) \in Nat
      BY <1>1
    <2>4. h[A] = Cardinality(A \cap P) /\ h[A \ {x}] = Cardinality((A \cap P) \ {x})
      BY <2>1
    <2> HIDE DEF h, W
    <2> QED
      BY <2>2, <2>3, <2>4
  <1>5. h[S] = Cardinality(P)
    <2>1. S \cap P = P
      OBVIOUS
    <2> QED
      BY <2>1
  <1> HIDE DEF h, W
  <1>6. Sums(h, W, S)
    BY <1>2, <1>3, <1>4 DEF Sums
  <1>7. Cardinality(P) = Total(W, S)
    BY <1>5, <1>6, TotalSum
  <1> QED
    BY <1>7 DEF W

=============================================================================
