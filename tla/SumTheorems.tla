----------------------------- MODULE SumTheorems -----------------------------
(***************************************************************************)
(* What the finite sums of the community module Functions satisfy.         *)
(*                                                                         *)
(* Every blueprint of the repository keeps a pot of tokens and a table of  *)
(* who may claim which part of it; the statement that the pot covers the   *)
(* table is a sum over that table.  The theorems below say how such a sum  *)
(* reacts when one entry changes or when one entry is added, for tables of *)
(* any finite size.                                                        *)
(*                                                                         *)
(* SumFunctionOnSet is a recursive function on the subsets of the index    *)
(* set that removes a CHOOSE-n element at each level.  The argument:       *)
(*   1. every non-empty set of naturals has a smallest element;            *)
(*   2. hence the recursion has a solution on every finite set (IterExists)*)
(*      and only one (IterUnique), so that the sum obeys its own equation  *)
(*      (SumRecursion);                                                    *)
(*   3. hence any element, not only the chosen one, can be taken out first *)
(*      (SumRemove), from which the rest follows.                          *)
(* Each induction is on the cardinality of a smallest counterexample.      *)
(***************************************************************************)
EXTENDS Functions, FiniteSets, WellFoundedInduction, FiniteSetTheorems, TLAPS

Chosen(T) == CHOOSE x \in T : TRUE

\* The subsets of S with at most n elements.
Within(S, n) == {T \in SUBSET S : Cardinality(T) <= n}

\* it solves the recursion of the sum of f on the family D of index sets.
Solves(it, f, D) ==
  /\ it \in [D -> Int]
  /\ \A T \in D :
       it[T] = IF T = {} THEN 0 ELSE f[Chosen(T)] + it[T \ {Chosen(T)}]

-----------------------------------------------------------------------------
(* A non-empty set of natural numbers has a least element. *)
LEMMA Least ==
  ASSUME NEW T \in SUBSET Nat, T # {}
  PROVE  \E m \in T : \A k \in T : m <= k
<1> DEFINE R == OpToRel(<, Nat)
<1>1. IsWellFoundedOn(R, Nat)
  BY NatLessThanWellFounded
<1>2. \A x, y \in Nat : x < y => <<x, y>> \in R
  BY DEF OpToRel
<1> HIDE DEF R
<1>3. PICK m \in T : \A k \in T : <<k, m>> \notin R
  BY <1>1, WFMin
<1>4. ASSUME NEW k \in T PROVE m <= k
  <2>1. m \in Nat /\ k \in Nat
    OBVIOUS
  <2>2. ~ (k < m)
    BY <2>1, <1>2, <1>3
  <2> QED BY <2>1, <2>2
<1> QED BY <1>4

(* What is removed from a non-empty finite set makes it smaller by one. *)
LEMMA ChosenRemoved ==
  ASSUME NEW S, IsFiniteSet(S), NEW T \in SUBSET S, T # {}
  PROVE  /\ Chosen(T) \in T
         /\ IsFiniteSet(T)
         /\ T \ {Chosen(T)} \in SUBSET S
         /\ Cardinality(T) \in Nat \ {0}
         /\ Cardinality(T \ {Chosen(T)}) = Cardinality(T) - 1
<1>1. Chosen(T) \in T
  BY DEF Chosen
<1>2. IsFiniteSet(T)
  BY FS_Subset
<1>3. Cardinality(T) \in Nat \ {0}
  BY <1>2, FS_CardinalityType, FS_EmptySet
<1>4. Cardinality(T \ {Chosen(T)}) = Cardinality(T) - 1
  BY <1>1, <1>2, FS_RemoveElement
<1> QED BY <1>1, <1>2, <1>3, <1>4

(* The recursion of the sum has a solution on the small subsets of S. *)
LEMMA IterExists ==
  ASSUME NEW S, IsFiniteSet(S), NEW f \in [S -> Int]
  PROVE  \A n \in Nat : \E it : Solves(it, f, Within(S, n))
<1> DEFINE Bad == {n \in Nat : ~ \E it : Solves(it, f, Within(S, n))}
<1>1. SUFFICES ASSUME Bad # {} PROVE FALSE
  OBVIOUS
<1>2. PICK n \in Bad : \A k \in Bad : n <= k
  <2>1. Bad \in SUBSET Nat
    OBVIOUS
  <2> HIDE DEF Bad
  <2> QED BY <1>1, <2>1, Least
<1>3. \A T \in SUBSET S : Cardinality(T) \in Nat /\ (Cardinality(T) = 0 <=> T = {})
  BY FS_Subset, FS_CardinalityType, FS_EmptySet
<1>4. CASE n = 0
  <2>1. Within(S, 0) = {{}}
    BY <1>3 DEF Within
  <2>2. Solves([T \in {{}} |-> 0], f, {{}})
    BY DEF Solves
  <2> QED BY <1>4, <2>1, <2>2
<1>5. CASE n # 0
  <2>1. n - 1 \in Nat /\ n - 1 \notin Bad
    BY <1>2, <1>5
  <2>2. PICK it : Solves(it, f, Within(S, n - 1))
    BY <2>1
  <2> DEFINE next == [T \in Within(S, n) |->
                        IF Cardinality(T) = n THEN f[Chosen(T)] + it[T \ {Chosen(T)}]
                        ELSE it[T]]
  <2>3. ASSUME NEW T \in Within(S, n)
        PROVE  /\ Cardinality(T) # n => T \in Within(S, n - 1)
               /\ T # {} => /\ Chosen(T) \in S
                            /\ T \ {Chosen(T)} \in Within(S, n - 1)
                            /\ T \ {Chosen(T)} \in Within(S, n)
                            /\ Cardinality(T \ {Chosen(T)}) # n
    <3>1. T \in SUBSET S /\ Cardinality(T) \in Nat /\ Cardinality(T) <= n
      BY <1>3 DEF Within
    <3>2. Cardinality(T) # n => T \in Within(S, n - 1)
      BY <3>1 DEF Within
    <3>3. CASE T # {}
      BY <3>1, <3>2, <3>3, ChosenRemoved DEF Within
    <3> QED BY <3>2, <3>3
  <2>4. \A T \in Within(S, n) : Cardinality(T) = n => T # {}
    BY <1>3, <1>5 DEF Within
  <2>5. next \in [Within(S, n) -> Int]
    <3> SUFFICES ASSUME NEW T \in Within(S, n) PROVE next[T] \in Int
      OBVIOUS
    <3>1. CASE Cardinality(T) = n
      <4>1. it[T \ {Chosen(T)}] \in Int /\ f[Chosen(T)] \in Int
        BY <2>2, <2>3, <2>4, <3>1 DEF Solves
      <4> QED BY <3>1, <4>1
    <3>2. CASE Cardinality(T) # n
      BY <2>2, <2>3, <3>2 DEF Solves
    <3> QED BY <3>1, <3>2
  <2>6. ASSUME NEW T \in Within(S, n)
        PROVE  next[T] = IF T = {} THEN 0 ELSE f[Chosen(T)] + next[T \ {Chosen(T)}]
    <3>1. T # {} => next[T \ {Chosen(T)}] = it[T \ {Chosen(T)}]
      BY <2>3
    <3>2. CASE Cardinality(T) = n
      BY <2>4, <3>1, <3>2
    <3>3. CASE Cardinality(T) # n
      <4>1. next[T] = it[T]
        BY <3>3
      <4>2. it[T] = IF T = {} THEN 0 ELSE f[Chosen(T)] + it[T \ {Chosen(T)}]
        BY <2>2, <2>3, <3>3 DEF Solves
      <4> QED BY <3>1, <4>1, <4>2
    <3> QED BY <3>2, <3>3
  <2>7. Solves(next, f, Within(S, n))
    BY <2>5, <2>6 DEF Solves
  <2> QED BY <2>7
<1> QED BY <1>4, <1>5

(* On a finite set the bound on the size is no restriction. *)
LEMMA WithinAll ==
  ASSUME NEW S, IsFiniteSet(S)
  PROVE  Cardinality(S) \in Nat /\ Within(S, Cardinality(S)) = SUBSET S
BY FS_Subset, FS_CardinalityType DEF Within

(* Two solutions agree wherever both are defined. *)
LEMMA IterUnique ==
  ASSUME NEW S, IsFiniteSet(S), NEW R \in SUBSET S, NEW f, NEW g, NEW it, NEW jt,
         \A x \in R : f[x] = g[x],
         Solves(it, f, SUBSET S), Solves(jt, g, SUBSET R)
  PROVE  \A T \in SUBSET R : it[T] = jt[T]
<1> DEFINE Bad == {n \in Nat : \E T \in SUBSET R : Cardinality(T) = n /\ it[T] # jt[T]}
<1>1. SUFFICES ASSUME NEW B \in SUBSET R, it[B] # jt[B] PROVE FALSE
  OBVIOUS
<1>2. IsFiniteSet(R) /\ Bad \in SUBSET Nat
  BY FS_Subset
<1>3. Bad # {}
  <2>1. Cardinality(B) \in Nat
    BY <1>2, FS_Subset, FS_CardinalityType
  <2> QED BY <1>1, <2>1
<1>4. PICK n \in Bad : \A k \in Bad : n <= k
  <2> HIDE DEF Bad
  <2> QED BY <1>2, <1>3, Least
<1>5. PICK T \in SUBSET R : Cardinality(T) = n /\ it[T] # jt[T]
  BY <1>4
<1>6. T # {}
  BY <1>5 DEF Solves
<1> DEFINE U == T \ {Chosen(T)}
<1>7. /\ Chosen(T) \in R
      /\ U \in SUBSET R
      /\ Cardinality(U) \in Nat
      /\ Cardinality(U) < n
  BY <1>2, <1>5, <1>6, ChosenRemoved
<1>8. it[U] = jt[U]
  BY <1>4, <1>7
<1>9. it[T] = f[Chosen(T)] + it[U] /\ jt[T] = g[Chosen(T)] + jt[U]
  BY <1>6 DEF Solves
<1> QED BY <1>5, <1>7, <1>8, <1>9

-----------------------------------------------------------------------------
(* The sum is the value of a solution of its recursion. *)
LEMMA SumSolves ==
  ASSUME NEW S, IsFiniteSet(S), NEW f \in [S -> Int]
  PROVE  \E it : Solves(it, f, SUBSET S) /\ SumFunctionOnSet(f, S) = it[S]
<1> DEFINE G == CHOOSE it : it = [T \in SUBSET S |->
                  IF T = {} THEN 0
                  ELSE f[CHOOSE x \in T : TRUE] + it[T \ {CHOOSE x \in T : TRUE}]]
<1>1. SumFunctionOnSet(f, S) = G[S]
  BY DEF SumFunctionOnSet, FoldFunctionOnSet, MapThenFoldSet
<1>2. PICK it : Solves(it, f, SUBSET S)
  <2>1. Cardinality(S) \in Nat /\ Within(S, Cardinality(S)) = SUBSET S
    BY WithinAll
  <2>2. \E it : Solves(it, f, Within(S, Cardinality(S)))
    BY <2>1, IterExists
  <2> QED BY <2>1, <2>2
<1>3. it = [T \in SUBSET S |-> IF T = {} THEN 0
              ELSE f[CHOOSE x \in T : TRUE] + it[T \ {CHOOSE x \in T : TRUE}]]
  BY <1>2 DEF Solves, Chosen
<1>4. G = [T \in SUBSET S |-> IF T = {} THEN 0
              ELSE f[CHOOSE x \in T : TRUE] + G[T \ {CHOOSE x \in T : TRUE}]]
  BY <1>3
<1> HIDE DEF G
<1>5. \A n \in Nat : \A T \in SUBSET S : Cardinality(T) = n => G[T] = it[T]
  <2> DEFINE Bad == {n \in Nat : \E T \in SUBSET S : Cardinality(T) = n /\ G[T] # it[T]}
  <2>1. SUFFICES ASSUME Bad # {} PROVE FALSE
    OBVIOUS
  <2>2. PICK n \in Bad : \A k \in Bad : n <= k
    <3>1. Bad \in SUBSET Nat
      OBVIOUS
    <3> HIDE DEF Bad
    <3> QED BY <2>1, <3>1, Least
  <2>3. PICK T \in SUBSET S : Cardinality(T) = n /\ G[T] # it[T]
    BY <2>2
  <2>4. T # {}
    BY <2>3, <1>3, <1>4
  <2> DEFINE U == T \ {Chosen(T)}
  <2>5. U \in SUBSET S /\ Cardinality(U) \in Nat /\ Cardinality(U) < n
    BY <2>3, <2>4, ChosenRemoved
  <2>6. G[U] = it[U]
    BY <2>2, <2>5
  <2>7. G[T] = f[Chosen(T)] + G[U] /\ it[T] = f[Chosen(T)] + it[U]
    BY <2>4, <1>3, <1>4 DEF Chosen
  <2> QED BY <2>3, <2>6, <2>7
<1>6. G[S] = it[S]
  BY <1>5, WithinAll
<1> QED BY <1>1, <1>2, <1>6

(* The sum obeys its own recursion. *)
LEMMA SumRecursion ==
  ASSUME NEW S, IsFiniteSet(S), NEW f \in [S -> Int], NEW T \in SUBSET S
  PROVE  /\ SumFunctionOnSet(f, T) \in Int
         /\ SumFunctionOnSet(f, T) =
              IF T = {} THEN 0
              ELSE f[Chosen(T)] + SumFunctionOnSet(f, T \ {Chosen(T)})
<1>1. PICK it : Solves(it, f, SUBSET S)
  BY SumSolves
<1>2. ASSUME NEW R \in SUBSET S PROVE SumFunctionOnSet(f, R) = it[R]
  <2> DEFINE g == [x \in R |-> f[x]]
  <2>1. IsFiniteSet(R) /\ g \in [R -> Int] /\ \A x \in R : f[x] = g[x]
    BY FS_Subset
  <2>2. PICK jt : Solves(jt, g, SUBSET R) /\ SumFunctionOnSet(g, R) = jt[R]
    BY <2>1, SumSolves
  <2>3. it[R] = jt[R]
    <3> HIDE DEF g
    <3> QED BY <1>1, <2>1, <2>2, IterUnique
  <2>4. SumFunctionOnSet(f, R) = SumFunctionOnSet(g, R)
    <3> DEFINE Body(h, k) == [A \in SUBSET R |->
                  IF A = {} THEN 0
                  ELSE h[CHOOSE x \in A : TRUE] + k[A \ {CHOOSE x \in A : TRUE}]]
    <3>1. \A k : Body(f, k) = Body(g, k)
      OBVIOUS
    <3>2. (CHOOSE k : k = Body(f, k)) = (CHOOSE k : k = Body(g, k))
      <4> HIDE DEF Body
      <4> QED BY <3>1
    <3>3. /\ SumFunctionOnSet(f, R) = (CHOOSE k : k = Body(f, k))[R]
          /\ SumFunctionOnSet(g, R) = (CHOOSE k : k = Body(g, k))[R]
      BY DEF SumFunctionOnSet, FoldFunctionOnSet, MapThenFoldSet
    <3> QED BY <3>2, <3>3
  <2> QED BY <2>2, <2>3, <2>4
<1>3. T # {} => T \ {Chosen(T)} \in SUBSET S
  BY DEF Chosen
<1> QED BY <1>1, <1>2, <1>3 DEF Solves

(* A sum may be started from any of its elements, not only the chosen one. *)
THEOREM SumRemove ==
  ASSUME NEW S, IsFiniteSet(S), NEW f \in [S -> Int], NEW x \in S
  PROVE  /\ SumFunctionOnSet(f, S) \in Int
         /\ SumFunctionOnSet(f, S \ {x}) \in Int
         /\ SumFunctionOnSet(f, S) = f[x] + SumFunctionOnSet(f, S \ {x})
<1> DEFINE Sum(T) == SumFunctionOnSet(f, T)
           Odd(T) == \E y \in T : Sum(T) # f[y] + Sum(T \ {y})
           Bad == {n \in Nat : \E T \in SUBSET S : Cardinality(T) = n /\ Odd(T)}
<1>1. \A T \in SUBSET S : /\ Sum(T) \in Int
                          /\ Cardinality(T) \in Nat
                          /\ T # {} => Sum(T) = f[Chosen(T)] + Sum(T \ {Chosen(T)})
  BY SumRecursion, FS_Subset, FS_CardinalityType
<1>2. S \ {x} \in SUBSET S /\ S \in SUBSET S
  OBVIOUS
<1>3. ASSUME Bad # {} PROVE FALSE
  <2>1. PICK n \in Bad : \A k \in Bad : n <= k
    <3>1. Bad \in SUBSET Nat
      OBVIOUS
    <3> HIDE DEF Bad
    <3> QED BY <1>3, <3>1, Least
  <2>2. PICK T \in SUBSET S : Cardinality(T) = n /\ Odd(T)
    BY <2>1
  <2>3. PICK y \in T : Sum(T) # f[y] + Sum(T \ {y})
    BY <2>2
  <2> DEFINE c == Chosen(T)
             U == T \ {c}
             V == T \ {y}
  <2>4. c \in T /\ U \in SUBSET S /\ V \in SUBSET S /\ Cardinality(U) = n - 1
    BY <2>2, ChosenRemoved
  <2>5. c # y
    BY <1>1, <2>3
  <2>6. Cardinality(V) = n - 1
    BY <2>2, FS_Subset, FS_RemoveElement
  <2>7. n - 1 \in Nat /\ n - 1 \notin Bad
    <3>1. n - 1 \in Nat
      BY <1>1, <2>4
    <3>2. n \in Nat
      BY <2>1
    <3> HIDE DEF Bad
    <3>3. n - 1 \in Bad => n <= n - 1
      BY <2>1
    <3> QED BY <3>1, <3>2, <3>3
  <2>8. ~ Odd(U) /\ ~ Odd(V)
    BY <2>4, <2>6, <2>7
  <2>9. Sum(U) = f[y] + Sum(U \ {y}) /\ Sum(V) = f[c] + Sum(V \ {c})
    BY <2>4, <2>5, <2>8
  <2>10. U \ {y} = V \ {c} /\ U \ {y} \in SUBSET S
    OBVIOUS
  <2>11. Sum(T) = f[c] + Sum(U)
    BY <1>1, <2>4
  <2>12. f[c] \in Int /\ f[y] \in Int /\ Sum(U \ {y}) \in Int
    BY <1>1, <2>4, <2>10
  <2>13. Sum(T) = f[y] + Sum(V)
    <3>1. Sum(V \ {c}) = Sum(U \ {y})
      BY <2>10
    <3>2. Sum(T) = f[c] + (f[y] + Sum(U \ {y}))
      BY <2>9, <2>11
    <3>3. Sum(V) = f[c] + Sum(U \ {y})
      BY <2>9, <3>1
    <3> HIDE DEF Sum, c, U, V
    <3> QED BY <2>12, <3>2, <3>3
  <2> QED BY <2>3, <2>13 DEF V
<1>4. ~ Odd(S)
  BY <1>1, <1>2, <1>3
<1> QED BY <1>1, <1>2, <1>4

(* Tables that agree on the index set have the same sum over it. *)
THEOREM SumCongruence ==
  ASSUME NEW S, IsFiniteSet(S), NEW D, NEW E, S \subseteq D, S \subseteq E,
         NEW f \in [D -> Int], NEW g \in [E -> Int],
         \A x \in S : f[x] = g[x]
  PROVE  /\ SumFunctionOnSet(f, S) \in Int
         /\ SumFunctionOnSet(f, S) = SumFunctionOnSet(g, S)
<1> DEFINE h == [x \in S |-> f[x]]
           Body(p, k) == [A \in SUBSET S |->
                  IF A = {} THEN 0
                  ELSE p[CHOOSE x \in A : TRUE] + k[A \ {CHOOSE x \in A : TRUE}]]
<1>1. \A k : Body(f, k) = Body(h, k) /\ Body(g, k) = Body(h, k)
  OBVIOUS
<1>2. \A p : SumFunctionOnSet(p, S) = (CHOOSE k : k = Body(p, k))[S]
  BY DEF SumFunctionOnSet, FoldFunctionOnSet, MapThenFoldSet
<1>3. h \in [S -> Int]
  OBVIOUS
<1> HIDE DEF Body, h
<1>4. /\ (CHOOSE k : k = Body(f, k)) = (CHOOSE k : k = Body(h, k))
      /\ (CHOOSE k : k = Body(g, k)) = (CHOOSE k : k = Body(h, k))
  BY <1>1
<1>5. SumFunctionOnSet(h, S) \in Int
  BY <1>3, SumRecursion
<1> QED BY <1>2, <1>4, <1>5

(* Changing the entry of x changes the sum by as much. *)
THEOREM SumUpdate ==
  ASSUME NEW S, IsFiniteSet(S), NEW f \in [S -> Int], NEW g \in [S -> Int],
         NEW x \in S, \A y \in S \ {x} : g[y] = f[y]
  PROVE  /\ SumFunctionOnSet(f, S) \in Int
         /\ SumFunctionOnSet(g, S) = SumFunctionOnSet(f, S) - f[x] + g[x]
<1>1. IsFiniteSet(S \ {x})
  BY FS_RemoveElement
<1>2. SumFunctionOnSet(g, S \ {x}) = SumFunctionOnSet(f, S \ {x})
  BY <1>1, SumCongruence
<1>3. /\ SumFunctionOnSet(f, S) \in Int
      /\ SumFunctionOnSet(f, S \ {x}) \in Int
      /\ SumFunctionOnSet(f, S) = f[x] + SumFunctionOnSet(f, S \ {x})
  BY SumRemove
<1>4. SumFunctionOnSet(g, S) = g[x] + SumFunctionOnSet(g, S \ {x})
  BY SumRemove
<1> QED BY <1>2, <1>3, <1>4

(* The sum over a table that grew by the entry of x grew by that entry. *)
THEOREM SumAdd ==
  ASSUME NEW S, IsFiniteSet(S), NEW x, x \notin S,
         NEW f \in [S -> Int], NEW g \in [S \cup {x} -> Int],
         \A y \in S : g[y] = f[y]
  PROVE  /\ SumFunctionOnSet(f, S) \in Int
         /\ SumFunctionOnSet(g, S \cup {x}) = SumFunctionOnSet(f, S) + g[x]
<1> DEFINE T == S \cup {x}
<1>1. IsFiniteSet(T) /\ T \ {x} = S /\ x \in T
  BY FS_AddElement
<1>2. SumFunctionOnSet(g, T) = g[x] + SumFunctionOnSet(g, S)
  BY <1>1, SumRemove
<1>3. SumFunctionOnSet(f, S) \in Int /\ SumFunctionOnSet(f, S) = SumFunctionOnSet(g, S)
  BY SumCongruence
<1> QED BY <1>2, <1>3

(* An empty table sums to zero, and so does one of zeros. *)
THEOREM SumEmpty ==
  ASSUME NEW f
  PROVE  SumFunctionOnSet(f, {}) = 0
<1> DEFINE Body(p, k) == [A \in SUBSET {} |->
                  IF A = {} THEN 0
                  ELSE p[CHOOSE x \in A : TRUE] + k[A \ {CHOOSE x \in A : TRUE}]]
           g == [x \in {} |-> 0]
<1>1. \A k : Body(f, k) = Body(g, k)
  OBVIOUS
<1>2. \A p : SumFunctionOnSet(p, {}) = (CHOOSE k : k = Body(p, k))[{}]
  BY DEF SumFunctionOnSet, FoldFunctionOnSet, MapThenFoldSet
<1>3. g \in [{} -> Int] /\ IsFiniteSet({})
  BY FS_EmptySet
<1> HIDE DEF Body, g
<1>4. (CHOOSE k : k = Body(f, k)) = (CHOOSE k : k = Body(g, k))
  BY <1>1
<1>5. SumFunctionOnSet(g, {}) = 0
  BY <1>3, SumRecursion
<1> QED BY <1>2, <1>4, <1>5

(* In a table without negative entries no entry exceeds the sum. *)
THEOREM SumBounds ==
  ASSUME NEW S, IsFiniteSet(S), NEW f \in [S -> Nat]
  PROVE  /\ SumFunctionOnSet(f, S) \in Nat
         /\ \A x \in S : f[x] <= SumFunctionOnSet(f, S)
<1> DEFINE Sum(T) == SumFunctionOnSet(f, T)
           Bad == {n \in Nat : \E T \in SUBSET S : Cardinality(T) = n /\ Sum(T) \notin Nat}
<1>1. f \in [S -> Int]
  OBVIOUS
<1>2. \A T \in SUBSET S : /\ Sum(T) \in Int
                          /\ Cardinality(T) \in Nat
                          /\ Sum(T) = IF T = {} THEN 0 ELSE f[Chosen(T)] + Sum(T \ {Chosen(T)})
  BY <1>1, SumRecursion, FS_Subset, FS_CardinalityType
<1>3. ASSUME Bad # {} PROVE FALSE
  <2>1. PICK n \in Bad : \A k \in Bad : n <= k
    <3>1. Bad \in SUBSET Nat
      OBVIOUS
    <3> HIDE DEF Bad
    <3> QED BY <1>3, <3>1, Least
  <2>2. PICK T \in SUBSET S : Cardinality(T) = n /\ Sum(T) \notin Nat
    BY <2>1
  <2>3. T # {}
    <3>1. Sum({}) = 0
      BY SumEmpty
    <3> HIDE DEF Sum
    <3> QED BY <2>2, <3>1
  <2> DEFINE U == T \ {Chosen(T)}
  <2>4. Chosen(T) \in T /\ U \in SUBSET S /\ Cardinality(U) \in Nat /\ Cardinality(U) < n
    BY <2>2, <2>3, ChosenRemoved
  <2>5. Sum(U) \in Nat
    BY <2>1, <2>4
  <2> QED BY <1>2, <2>2, <2>3, <2>4, <2>5
<1>4. \A T \in SUBSET S : Sum(T) \in Nat
  BY <1>2, <1>3
<1>5. ASSUME NEW x \in S PROVE f[x] <= Sum(S)
  <2>1. Sum(S) = f[x] + Sum(S \ {x})
    BY <1>1, SumRemove
  <2>2. Sum(S \ {x}) \in Nat /\ Sum(S) \in Nat
    BY <1>4
  <2> QED BY <2>1, <2>2
<1> QED BY <1>4, <1>5

(* A table of zeros sums to zero. *)
THEOREM SumZero ==
  ASSUME NEW S, IsFiniteSet(S), NEW f \in [S -> Int], \A x \in S : f[x] = 0
  PROVE  SumFunctionOnSet(f, S) = 0
<1> DEFINE Sum(T) == SumFunctionOnSet(f, T)
           Bad == {n \in Nat : \E T \in SUBSET S : Cardinality(T) = n /\ Sum(T) # 0}
<1>1. \A T \in SUBSET S : /\ Sum(T) \in Int
                          /\ Cardinality(T) \in Nat
                          /\ Sum(T) = IF T = {} THEN 0 ELSE f[Chosen(T)] + Sum(T \ {Chosen(T)})
  BY SumRecursion, FS_Subset, FS_CardinalityType
<1>2. ASSUME Bad # {} PROVE FALSE
  <2>1. PICK n \in Bad : \A k \in Bad : n <= k
    <3>1. Bad \in SUBSET Nat
      OBVIOUS
    <3> HIDE DEF Bad
    <3> QED BY <1>2, <3>1, Least
  <2>2. PICK T \in SUBSET S : Cardinality(T) = n /\ Sum(T) # 0
    BY <2>1
  <2>3. T # {}
    <3> HIDE DEF Sum
    <3> QED BY <1>1, <2>2
  <2> DEFINE U == T \ {Chosen(T)}
  <2>4. Chosen(T) \in T /\ U \in SUBSET S /\ Cardinality(U) \in Nat /\ Cardinality(U) < n
    BY <2>2, <2>3, ChosenRemoved
  <2>5. Sum(U) = 0
    BY <2>1, <2>4
  <2> QED BY <1>1, <2>2, <2>3, <2>4, <2>5
<1> QED BY <1>1, <1>2

=============================================================================
