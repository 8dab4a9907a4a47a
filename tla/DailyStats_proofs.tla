--------------------------- MODULE DailyStats_proofs ---------------------------
(***************************************************************************)
(* Proofs about DailyStats, for any events, groups and writers, any number *)
(* of days and deliveries, any merges and any limit of a Duration.         *)
(*                                                                         *)
(* A sum over the rows of a table is a fold, defined by recursion over     *)
(* finite sets.  The first part shows what such a sum is: it adds the      *)
(* weights in any order.  The induction is by a minimal counterexample,    *)
(* which FS_StrictSubsetOrderingWellFounded and WFMin provide.             *)
(***************************************************************************)
EXTENDS DailyStats, FiniteSetTheorems, WellFoundedInduction, TLAPS

\* Of a family of subsets of a finite set, one has none of the others within.
LEMMA MinimalSubset ==
    ASSUME NEW S, IsFiniteSet(S), NEW F, F \subseteq SUBSET S, F # {}
    PROVE  \E T \in F : \A U \in F : U \subseteq T => U = T
<1>1. IsWellFoundedOn(StrictSubsetOrdering(S), SUBSET S)
  BY FS_StrictSubsetOrderingWellFounded, FS_FiniteSubsetsOfFinite
<1>2. PICK T \in F : \A U \in F : ~(<<U, T>> \in StrictSubsetOrdering(S))
  BY <1>1, WFMin
<1> QED BY <1>2 DEF StrictSubsetOrdering

Chosen(T) == CHOOSE x \in T : TRUE

LEMMA ChosenIn == \A T : T # {} => Chosen(T) \in T
BY DEF Chosen

\* f takes a set apart as the fold does, one chosen element after the other.
TakesApart(f, R, w) ==
    \A T \in SUBSET R : f[T] = IF T = {} THEN 0 ELSE w[Chosen(T)] + f[T \ {Chosen(T)}]

Folds(f, R, w) == f \in [SUBSET R -> Nat] /\ TakesApart(f, R, w)

\* Folds of weights that agree agree.
LEMMA FoldsAgree ==
    ASSUME NEW R, NEW Q, NEW v, NEW w, NEW f, NEW g, TakesApart(f, R, v),
           TakesApart(g, Q, w), NEW T, IsFiniteSet(T), T \subseteq R, T \subseteq Q, \A x \in T : v[x] = w[x]
    PROVE  f[T] = g[T]
<1> DEFINE Bad == {U \in SUBSET T : f[U] # g[U]}
<1> SUFFICES ASSUME Bad # {} PROVE FALSE
  OBVIOUS
<1>0. Bad \subseteq SUBSET T
  OBVIOUS
<1>1. PICK U \in Bad : \A V \in Bad : V \subseteq U => V = U
  <2> HIDE DEF Bad
  <2> QED BY <1>0, MinimalSubset
<1>2. U \in SUBSET R /\ U \in SUBSET Q /\ U # {}
  BY <1>1 DEF TakesApart
<1> DEFINE c == Chosen(U)
<1>3. c \in U /\ U \ {c} \in SUBSET T /\ U \ {c} # U
  BY <1>1, <1>2, ChosenIn
<1>4. f[U \ {c}] = g[U \ {c}]
  BY <1>1, <1>3
<1>5. f[U] = v[c] + f[U \ {c}] /\ g[U] = w[c] + g[U \ {c}] /\ v[c] = w[c]
  BY <1>1, <1>2, <1>3 DEF TakesApart
<1> QED BY <1>1, <1>4, <1>5

\* There is a fold.
LEMMA FoldsExist ==
    ASSUME NEW R, IsFiniteSet(R), NEW w, \A x \in R : w[x] \in Nat
    PROVE  \E f : Folds(f, R, w)
<1> DEFINE Bad == {T \in SUBSET R : ~\E f : Folds(f, T, w)}
<1> SUFFICES ASSUME Bad # {} PROVE FALSE
  OBVIOUS
<1>0. Bad \subseteq SUBSET R
  OBVIOUS
<1>1. PICK T \in Bad : \A U \in Bad : U \subseteq T => U = T
  <2> HIDE DEF Bad
  <2> QED BY <1>0, MinimalSubset
<1> DEFINE Fold(U) == CHOOSE f : Folds(f, U, w)
<1>2. ASSUME NEW U \in SUBSET T, U # T PROVE Folds(Fold(U), U, w)
  <2>1. \E f : Folds(f, U, w)
    BY <1>1, <1>2
  <2> QED BY <2>1
<1> HIDE DEF Fold
<1> DEFINE f == [U \in SUBSET T |->
                   IF U = {} THEN 0 ELSE w[Chosen(U)] + Fold(U \ {Chosen(U)})[U \ {Chosen(U)}]]
<1>3. ASSUME NEW U \in SUBSET T, U # {}
      PROVE  /\ U \ {Chosen(U)} \in SUBSET T /\ U \ {Chosen(U)} # T
             /\ w[Chosen(U)] \in Nat
             /\ Fold(U \ {Chosen(U)})[U \ {Chosen(U)}] \in Nat
  <2>1. Chosen(U) \in U /\ Chosen(U) \in R
    BY <1>1, <1>3, ChosenIn
  <2>2. U \ {Chosen(U)} \in SUBSET T /\ U \ {Chosen(U)} # T
    BY <1>3, <2>1
  <2>3. Folds(Fold(U \ {Chosen(U)}), U \ {Chosen(U)}, w)
    BY <1>2, <2>2
  <2> QED BY <2>1, <2>2, <2>3 DEF Folds, TakesApart
<1>4. f \in [SUBSET T -> Nat]
  BY <1>3
<1>5. ASSUME NEW U \in SUBSET T, U # T PROVE f[U] = Fold(U)[U]
  <2>1. Folds(Fold(U), U, w) /\ U \in SUBSET U
    BY <1>2, <1>5
  <2>2. CASE U = {}
    BY <2>1, <2>2 DEF Folds, TakesApart
  <2>3. CASE U # {}
    <3> DEFINE V == U \ {Chosen(U)}
    <3>1. Fold(U)[U] = w[Chosen(U)] + Fold(U)[V]
      BY <2>1, <2>3 DEF Folds, TakesApart
    <3>2. Folds(Fold(V), V, w) /\ IsFiniteSet(V) /\ V \subseteq U
      BY <1>1, <1>2, <1>3, <2>3, FS_Subset
    <3>3. Fold(U)[V] = Fold(V)[V]
      <4> HIDE DEF V
      <4> QED BY <2>1, <3>2, FoldsAgree DEF Folds
    <3> QED BY <2>3, <3>1, <3>3
  <2> QED BY <2>2, <2>3
<1>6. ASSUME NEW U \in SUBSET T, U # {} PROVE f[U] = w[Chosen(U)] + f[U \ {Chosen(U)}]
  <2>1. f[U \ {Chosen(U)}] = Fold(U \ {Chosen(U)})[U \ {Chosen(U)}]
    BY <1>3, <1>5, <1>6
  <2>2. f[U] = w[Chosen(U)] + Fold(U \ {Chosen(U)})[U \ {Chosen(U)}]
    BY <1>6
  <2> QED BY <2>1, <2>2
<1>7. f[{}] = 0
  OBVIOUS
<1> HIDE DEF f
<1>8. Folds(f, T, w)
  BY <1>4, <1>6, <1>7 DEF Folds, TakesApart
<1> QED BY <1>1, <1>8

\* A fold adds the weights in any order.
LEMMA FoldsAnyOrder ==
    ASSUME NEW R, IsFiniteSet(R), NEW w, \A x \in R : w[x] \in Nat, NEW f, Folds(f, R, w),
           NEW T \in SUBSET R, NEW y \in T
    PROVE  f[T] = w[y] + f[T \ {y}]
<1> DEFINE Bad == {U \in SUBSET R : \E x \in U : f[U] # w[x] + f[U \ {x}]}
<1> SUFFICES ASSUME Bad # {} PROVE FALSE
  OBVIOUS
<1>0. Bad \subseteq SUBSET R
  OBVIOUS
<1>1. PICK U \in Bad : \A V \in Bad : V \subseteq U => V = U
  <2> HIDE DEF Bad
  <2> QED BY <1>0, MinimalSubset
<1>2. PICK x \in U : f[U] # w[x] + f[U \ {x}]
  BY <1>1
<1>3. ASSUME NEW V \in SUBSET U, V # U, NEW z \in V PROVE f[V] = w[z] + f[V \ {z}]
  BY <1>0, <1>1, <1>3
<1>4. U \in SUBSET R
  BY <1>0, <1>1
<1> HIDE DEF Bad
<1> DEFINE c == Chosen(U)
           V == U \ {x}
<1>5. c \in U /\ f[U] = w[c] + f[U \ {c}]
  BY <1>2, <1>4, ChosenIn DEF Folds, TakesApart
<1> HIDE DEF c
<1>6. x # c /\ x \in U \ {c} /\ c \in V
  BY <1>2, <1>5
<1>7. f[U \ {c}] = w[x] + f[V \ {c}]
  <2>1. f[U \ {c}] = w[x] + f[(U \ {c}) \ {x}]
    BY <1>3, <1>5, <1>6
  <2>2. (U \ {c}) \ {x} = V \ {c}
    OBVIOUS
  <2> QED BY <2>1, <2>2
<1>8. f[V] = w[c] + f[V \ {c}]
  <2>1. V \in SUBSET U /\ V # U
    BY <1>2
  <2> HIDE DEF V
  <2> QED BY <1>3, <1>6, <2>1
<1>9. w[x] \in Nat /\ w[c] \in Nat /\ f[V \ {c}] \in Nat
  BY <1>4, <1>5 DEF Folds, TakesApart
<1>10. f[U] # w[x] + f[V]
  BY <1>2
<1> HIDE DEF V
<1> QED BY <1>5, <1>7, <1>8, <1>9, <1>10

-----------------------------------------------------------------------------
(* The sum of a day and a group over a table.                                *)

StatRows == [day : Days, group : Groups, count : Nat]

\* A bag of rows, as daily_event_stats is.
IsTable(B) == IsABag(B) /\ IsFiniteSet(DOMAIN B) /\ DOMAIN B \subseteq StatRows

RowsOf(B, d, g) == {r \in BagToSet(B) : r.day = d /\ r.group = g}

Total(B, d, g) == MapThenSumSet(LAMBDA r : r.count * B[r], RowsOf(B, d, g))

\* What the rows of B contribute.
Weights(B) == [r \in DOMAIN B |-> r.count * B[r]]

LEMMA TableFacts ==
    ASSUME NEW B, IsTable(B)
    PROVE  /\ \A r \in DOMAIN B : /\ r \in StatRows /\ r.day \in Days /\ r.group \in Groups
                                  /\ r.count \in Nat /\ B[r] \in Nat /\ B[r] > 0
                                  /\ Weights(B)[r] \in Nat
           /\ \A d, g : IsFiniteSet(RowsOf(B, d, g)) /\ RowsOf(B, d, g) \subseteq DOMAIN B
<1>1. ASSUME NEW r \in DOMAIN B
      PROVE  /\ r \in StatRows /\ r.day \in Days /\ r.group \in Groups
             /\ r.count \in Nat /\ B[r] \in Nat /\ B[r] > 0
  BY DEF IsTable, IsABag, StatRows
<1>2. ASSUME NEW r \in DOMAIN B PROVE Weights(B)[r] \in Nat
  <2>1. \A m, n \in Nat : m * n \in Nat
    OBVIOUS
  <2>2. r.count * B[r] \in Nat
    BY <1>1, <2>1
  <2> QED BY <2>2 DEF Weights
<1>3. \A d, g : RowsOf(B, d, g) \subseteq DOMAIN B
  BY DEF RowsOf, BagToSet
<1>4. \A d, g : IsFiniteSet(RowsOf(B, d, g))
  BY <1>3, FS_Subset DEF IsTable
<1> QED BY <1>1, <1>2, <1>3, <1>4

\* The sum is what any fold of the weights says it is.
LEMMA TotalFolds ==
    ASSUME NEW B, IsTable(B), NEW d, NEW g
    PROVE  \E f : Folds(f, RowsOf(B, d, g), Weights(B)) /\ Total(B, d, g) = f[RowsOf(B, d, g)]
<1> DEFINE R == RowsOf(B, d, g)
<1>1. IsFiniteSet(R) /\ R \subseteq DOMAIN B /\ \A r \in R : Weights(B)[r] \in Nat
  BY TableFacts
<1>2. \A r \in R : Weights(B)[r] = r.count * B[r]
  BY <1>1 DEF Weights
<1> HIDE DEF R
<1>3. PICK f : Folds(f, R, Weights(B))
  BY <1>1, FoldsExist
<1> DEFINE Apart(h) == h = [T \in SUBSET R |->
                 IF T = {} THEN 0
                 ELSE (CHOOSE x \in T : TRUE).count * B[CHOOSE x \in T : TRUE]
                        + h[T \ {CHOOSE x \in T : TRUE}]]
           iter == CHOOSE h : Apart(h)
<1>4. Total(B, d, g) = iter[R]
  BY DEF Total, MapThenSumSet, MapThenFoldSet, R
<1>5. Apart(f)
  <2> DEFINE F == [T \in SUBSET R |->
                 IF T = {} THEN 0
                 ELSE (CHOOSE x \in T : TRUE).count * B[CHOOSE x \in T : TRUE]
                        + f[T \ {CHOOSE x \in T : TRUE}]]
  <2>1. ASSUME NEW T \in SUBSET R PROVE f[T] = F[T]
    <3>1. CASE T = {}
      BY <1>3, <3>1 DEF Folds, TakesApart
    <3>2. CASE T # {}
      <4>1. Chosen(T) \in R
        BY <3>2, ChosenIn
      <4>2. f[T] = Chosen(T).count * B[Chosen(T)] + f[T \ {Chosen(T)}]
        BY <1>2, <1>3, <3>2, <4>1 DEF Folds, TakesApart
      <4> QED BY <3>2, <4>2 DEF Chosen
    <3> QED BY <3>1, <3>2
  <2>2. f \in [SUBSET R -> Nat]
    BY <1>3 DEF Folds
  <2> HIDE DEF F
  <2>3. f = F
    <3>1. F = [T \in SUBSET R |-> F[T]]
      BY DEF F
    <3>2. f = [T \in SUBSET R |-> f[T]]
      BY <2>2
    <3> QED BY <2>1, <3>1, <3>2
  <2> QED BY <2>3 DEF F
<1>6. Apart(iter)
  <2> HIDE DEF Apart
  <2> QED BY <1>5
<1>7. TakesApart(iter, R, Weights(B))
  <2> HIDE DEF iter
  <2> SUFFICES ASSUME NEW T \in SUBSET R
               PROVE  iter[T] = IF T = {} THEN 0
                                ELSE Weights(B)[Chosen(T)] + iter[T \ {Chosen(T)}]
    BY DEF TakesApart
  <2>1. iter[T] = IF T = {} THEN 0 ELSE Chosen(T).count * B[Chosen(T)] + iter[T \ {Chosen(T)}]
    BY <1>6 DEF Chosen
  <2>2. T # {} => Weights(B)[Chosen(T)] = Chosen(T).count * B[Chosen(T)]
    BY <1>2, ChosenIn
  <2> QED BY <2>1, <2>2
<1> HIDE DEF iter
<1>8. iter[R] = f[R]
  BY <1>1, <1>3, <1>7, FoldsAgree DEF Folds
<1> QED BY <1>3, <1>4, <1>8 DEF R

\* One row more in a bag.
LEMMA PlusRow ==
    ASSUME NEW B, IsABag(B), NEW row
    PROVE  /\ IsABag(Plus(B, row))
           /\ DOMAIN Plus(B, row) = DOMAIN B \cup {row}
           /\ \A r \in DOMAIN B : r # row => Plus(B, row)[r] = B[r]
           /\ Plus(B, row)[row] = IF row \in DOMAIN B THEN B[row] + 1 ELSE 1
<1> DEFINE C == [r \in DOMAIN B \cup {row} |-> (IF r \in DOMAIN B THEN B[r] ELSE 0)
                                              + (IF r \in {row} THEN 1 ELSE 0)]
<1>1. Plus(B, row) = C
  BY DEF Plus, SetToBag, (+)
<1>2. \A r \in DOMAIN B : B[r] \in Nat /\ B[r] > 0
  BY DEF IsABag
<1>3. DOMAIN C = DOMAIN B \cup {row}
  OBVIOUS
<1>4. \A r \in DOMAIN C : C[r] \in Nat /\ C[r] > 0
  BY <1>2
<1>5. /\ \A r \in DOMAIN B : r # row => C[r] = B[r]
      /\ C[row] = IF row \in DOMAIN B THEN B[row] + 1 ELSE 1
  BY <1>2
<1>6. IsABag(C)
  <2>1. C = [r \in DOMAIN C |-> C[r]]
    BY <1>3
  <2> HIDE DEF C
  <2> QED BY <1>4, <2>1 DEF IsABag
<1> HIDE DEF C
<1> QED BY <1>1, <1>3, <1>5, <1>6

LEMMA PlusTable ==
    ASSUME NEW B, IsTable(B), NEW row \in StatRows
    PROVE  IsTable(Plus(B, row))
<1>1. IsABag(B) /\ IsFiniteSet(DOMAIN B) /\ DOMAIN B \subseteq StatRows
  BY DEF IsTable
<1>2. IsABag(Plus(B, row)) /\ DOMAIN Plus(B, row) = DOMAIN B \cup {row}
  BY <1>1, PlusRow
<1>3. IsFiniteSet(DOMAIN B \cup {row})
  BY <1>1, FS_AddElement
<1> QED BY <1>1, <1>2, <1>3 DEF IsTable

\* A row adds its count to its own day and group, merged with its like or not.
LEMMA TotalPlus ==
    ASSUME NEW B, IsTable(B), NEW row \in StatRows, NEW d, NEW g
    PROVE  /\ Total(B, d, g) \in Nat
           /\ Total(Plus(B, row), d, g) =
                Total(B, d, g) + IF row.day = d /\ row.group = g THEN row.count ELSE 0
<1> DEFINE C == Plus(B, row)
           R == RowsOf(B, d, g)
           Q == RowsOf(C, d, g)
<1>1. IsTable(C)
  BY PlusTable
<1>2. PICK f : Folds(f, R, Weights(B)) /\ Total(B, d, g) = f[R]
  BY TotalFolds
<1>3. PICK h : Folds(h, Q, Weights(C)) /\ Total(C, d, g) = h[Q]
  <2> HIDE DEF C
  <2> QED BY <1>1, TotalFolds
<1>4. /\ IsFiniteSet(R) /\ R \subseteq DOMAIN B /\ \A r \in R : Weights(B)[r] \in Nat
      /\ IsFiniteSet(Q) /\ \A r \in Q : Weights(C)[r] \in Nat
  <2> HIDE DEF C
  <2> QED BY <1>1, TableFacts
<1>5. \A r \in DOMAIN B : r # row => Weights(C)[r] = Weights(B)[r]
  <2>1. /\ DOMAIN B \subseteq DOMAIN C
        /\ \A r \in DOMAIN B : r # row => C[r] = B[r]
    BY PlusRow DEF IsTable
  <2> HIDE DEF C
  <2> QED BY <2>1 DEF Weights
<1>6. f[R] \in Nat
  BY <1>2 DEF Folds
<1>7. DOMAIN C = DOMAIN B \cup {row}
  BY PlusRow DEF IsTable
<1>8. CASE ~(row.day = d /\ row.group = g)
  <2>1. Q = R /\ row \notin R
    BY <1>7, <1>8 DEF RowsOf, BagToSet
  <2>2. \A r \in R : Weights(B)[r] = Weights(C)[r]
    BY <1>4, <1>5, <2>1
  <2>3. f[R] = h[R]
    <3> HIDE DEF C, R, Q
    <3> QED BY <1>2, <1>3, <1>4, <2>1, <2>2, FoldsAgree DEF Folds
  <2> QED BY <1>2, <1>3, <1>6, <1>8, <2>1, <2>3
<1>9. CASE row.day = d /\ row.group = g
  <2> DEFINE rest == R \ {row}
  <2>1. /\ row \in Q /\ Q \ {row} = rest
        /\ row \in R <=> row \in DOMAIN B
    BY <1>7, <1>9 DEF RowsOf, BagToSet
  <2>2. h[Q] = Weights(C)[row] + h[rest]
    <3> HIDE DEF C, R, Q
    <3>1. h[Q] = Weights(C)[row] + h[Q \ {row}]
      BY <1>3, <1>4, <2>1, FoldsAnyOrder
    <3> QED BY <2>1, <3>1
  <2>3. f[rest] = h[rest] /\ f[rest] \in Nat
    <3>1. rest \subseteq R /\ rest \subseteq Q /\ \A r \in rest : Weights(B)[r] = Weights(C)[r]
      BY <1>4, <1>5, <2>1
    <3>2. IsFiniteSet(rest)
      BY <1>4, <3>1, FS_Subset
    <3> HIDE DEF C, R, Q, rest
    <3> QED BY <1>2, <1>3, <3>1, <3>2, FoldsAgree DEF Folds
  <2>4. row.count \in Nat
    BY DEF StatRows
  <2>5. CASE row \in DOMAIN B
    <3>1. f[R] = Weights(B)[row] + f[rest]
      <4>1. row \in R /\ R \in SUBSET R
        BY <2>1, <2>5
      <4> HIDE DEF C, R, Q
      <4>2. f[R] = Weights(B)[row] + f[R \ {row}]
        BY <1>2, <1>4, <4>1, FoldsAnyOrder
      <4> QED BY <4>2
    <3>2. B[row] \in Nat /\ C[row] = B[row] + 1
      BY <2>5, PlusRow, TableFacts DEF IsTable
    <3>3. \A m, n \in Nat : m * (n + 1) = m * n + m /\ m * n \in Nat
      OBVIOUS
    <3>4. /\ Weights(B)[row] = row.count * B[row] /\ Weights(C)[row] = row.count * (B[row] + 1)
      BY <1>7, <2>5, <3>2 DEF Weights
    <3>5. Weights(C)[row] = Weights(B)[row] + row.count /\ Weights(B)[row] \in Nat
      BY <2>4, <3>2, <3>3, <3>4
    <3> HIDE DEF C, R, Q, rest
    <3> QED BY <1>2, <1>3, <1>9, <2>2, <2>3, <2>4, <3>1, <3>5 DEF C
  <2>6. CASE row \notin DOMAIN B
    <3>1. rest = R
      BY <2>1, <2>6
    <3>2. C[row] = 1
      BY <2>6, PlusRow DEF IsTable
    <3>3. \A m \in Nat : m * 1 = m
      OBVIOUS
    <3>4. Weights(C)[row] = row.count * C[row]
      BY <1>7 DEF Weights
    <3>5. Weights(C)[row] = row.count
      BY <2>4, <3>2, <3>3, <3>4
    <3> HIDE DEF C, R, Q, rest
    <3> QED BY <1>2, <1>3, <1>9, <2>2, <2>3, <2>4, <3>1, <3>5 DEF C
  <2> QED BY <2>5, <2>6
<1> QED BY <1>2, <1>6, <1>8, <1>9

-----------------------------------------------------------------------------
(* Two rows taken out of a bag.                                              *)

Both(r, s) == SetToBag({r}) (+) SetToBag({s})

LEMMA BothFacts ==
    ASSUME NEW r, NEW s
    PROVE  /\ DOMAIN Both(r, s) = {r, s}
           /\ Both(r, s)[r] = IF r = s THEN 2 ELSE 1
           /\ Both(r, s)[s] = IF r = s THEN 2 ELSE 1
BY DEF Both, SetToBag, (+)

\* What is left of a bag when a part of it is removed.
LEMMA Removed ==
    ASSUME NEW B, IsABag(B), NEW D, D \sqsubseteq B, \A x \in DOMAIN D : D[x] \in Nat
    PROVE  /\ IsABag(B (-) D)
           /\ DOMAIN (B (-) D) = {x \in DOMAIN B : x \in DOMAIN D => B[x] > D[x]}
           /\ \A x \in DOMAIN (B (-) D) : (B (-) D)[x] = IF x \in DOMAIN D THEN B[x] - D[x] ELSE B[x]
<1> DEFINE A == [x \in DOMAIN B |-> IF x \in DOMAIN D THEN B[x] - D[x] ELSE B[x]]
           L == {x \in DOMAIN A : A[x] > 0}
           C == [x \in L |-> A[x]]
<1>1. B (-) D = C
  BY DEF (-)
<1>2. \A x \in DOMAIN B : B[x] \in Nat /\ B[x] > 0
  BY DEF IsABag
<1>3. \A x \in DOMAIN A : A[x] \in Int
  BY <1>2
<1>4. L = {x \in DOMAIN B : x \in DOMAIN D => B[x] > D[x]}
  BY <1>2
<1>5. \A x \in L : A[x] = IF x \in DOMAIN D THEN B[x] - D[x] ELSE B[x]
  OBVIOUS
<1>6. \A x \in L : A[x] \in Int /\ A[x] > 0
  BY <1>3
<1> HIDE DEF A, L
<1>7. C \in [L -> {n \in Nat : n > 0}]
  BY <1>6
<1>8. DOMAIN C = L /\ \A x \in L : C[x] = A[x]
  OBVIOUS
<1> HIDE DEF C
<1>9. IsABag(C)
  BY <1>7, <1>8 DEF IsABag
<1> QED BY <1>1, <1>4, <1>5, <1>8, <1>9

\* A bag is its rest and the two rows.
LEMMA SplitBag ==
    ASSUME NEW B, IsABag(B), NEW r, NEW s, Both(r, s) \sqsubseteq B
    PROVE  /\ IsABag(B (-) Both(r, s))
           /\ DOMAIN (B (-) Both(r, s)) \subseteq DOMAIN B
           /\ B = Plus(Plus(B (-) Both(r, s), r), s)
<1> DEFINE D == Both(r, s)
           rest == B (-) D
           P == Plus(rest, r)
           C == Plus(P, s)
<1>1. DOMAIN D = {r, s} /\ D[r] = (IF r = s THEN 2 ELSE 1) /\ D[s] = (IF r = s THEN 2 ELSE 1)
  BY BothFacts
<1>2. \A x \in DOMAIN B : B[x] \in Nat /\ B[x] > 0
  BY DEF IsABag
<1>3. r \in DOMAIN B /\ s \in DOMAIN B /\ B[r] >= D[r] /\ B[s] >= D[s]
  <2> HIDE DEF D
  <2>1. DOMAIN D \subseteq DOMAIN B /\ \A x \in DOMAIN D : D[x] \leq B[x]
    BY DEF \sqsubseteq, D
  <2> QED BY <1>1, <1>2, <2>1
<1>4. /\ IsABag(rest)
      /\ DOMAIN rest = {x \in DOMAIN B : x \in DOMAIN D => B[x] > D[x]}
      /\ \A x \in DOMAIN rest : rest[x] = IF x \in DOMAIN D THEN B[x] - D[x] ELSE B[x]
  <2>1. \A x \in DOMAIN D : D[x] \in Nat
    BY <1>1
  <2>2. D \sqsubseteq B
    OBVIOUS
  <2> HIDE DEF D
  <2> QED BY <2>1, <2>2, Removed
<1> HIDE DEF D, rest
<1>5. /\ IsABag(P) /\ DOMAIN P = DOMAIN rest \cup {r}
      /\ \A x \in DOMAIN rest : x # r => P[x] = rest[x]
      /\ P[r] = IF r \in DOMAIN rest THEN rest[r] + 1 ELSE 1
  BY <1>4, PlusRow
<1> HIDE DEF P
<1>6. /\ IsABag(C) /\ DOMAIN C = DOMAIN P \cup {s}
      /\ \A x \in DOMAIN P : x # s => C[x] = P[x]
      /\ C[s] = IF s \in DOMAIN P THEN P[s] + 1 ELSE 1
  BY <1>5, PlusRow
<1> HIDE DEF C
<1>7. DOMAIN C = DOMAIN B
  BY <1>1, <1>3, <1>4, <1>5, <1>6
<1>8. ASSUME NEW x \in DOMAIN B PROVE C[x] = B[x]
  <2>1. CASE x # r /\ x # s
    BY <1>1, <1>4, <1>5, <1>6, <2>1
  <2>2. CASE r = s /\ x = r
    <3>1. D[r] = 2 /\ B[r] \in Nat /\ B[r] >= 2
      BY <1>1, <1>2, <1>3, <2>2
    <3>2. r \in DOMAIN rest <=> B[r] > 2
      BY <1>1, <1>3, <1>4, <3>1
    <3>3. P[r] = B[r] - 1
      BY <1>1, <1>4, <1>5, <3>1, <3>2
    <3>4. C[s] = P[s] + 1
      BY <1>5, <1>6, <2>2
    <3> QED BY <2>2, <3>1, <3>3, <3>4
  <2>3. CASE r # s /\ x = r
    <3>1. D[r] = 1 /\ B[r] \in Nat /\ B[r] >= 1
      BY <1>1, <1>2, <1>3, <2>3
    <3>2. r \in DOMAIN rest <=> B[r] > 1
      BY <1>1, <1>3, <1>4, <3>1
    <3>3. P[r] = B[r]
      BY <1>1, <1>4, <1>5, <3>1, <3>2
    <3>4. C[r] = P[r]
      BY <1>5, <1>6, <2>3
    <3> QED BY <2>3, <3>3, <3>4
  <2>4. CASE r # s /\ x = s
    <3>1. D[s] = 1 /\ B[s] \in Nat /\ B[s] >= 1
      BY <1>1, <1>2, <1>3, <2>4
    <3>2. s \in DOMAIN rest <=> B[s] > 1
      BY <1>1, <1>3, <1>4, <3>1
    <3>3. s \in DOMAIN P <=> s \in DOMAIN rest
      BY <1>5, <2>4
    <3>4. s \in DOMAIN rest => P[s] = B[s] - 1
      BY <1>1, <1>4, <1>5, <2>4, <3>1
    <3> QED BY <1>6, <2>4, <3>1, <3>2, <3>3, <3>4
  <2> QED BY <2>1, <2>2, <2>3, <2>4
<1>9. B = [x \in DOMAIN B |-> B[x]] /\ C = [x \in DOMAIN C |-> C[x]]
  BY <1>6 DEF IsABag
<1>10. B = C
  BY <1>7, <1>8, <1>9
<1> QED BY <1>4, <1>10 DEF C, P, rest, D

\* Joining two rows of a day and a group leaves every sum as it is.
LEMMA TotalJoin ==
    ASSUME NEW B, IsTable(B), NEW r \in StatRows, NEW s \in StatRows, Both(r, s) \sqsubseteq B,
           NEW row \in StatRows, row.day = r.day, row.group = r.group,
           s.day = r.day, s.group = r.group, row.count = r.count + s.count, NEW d, NEW g
    PROVE  /\ IsTable(Plus(B (-) Both(r, s), row))
           /\ Total(Plus(B (-) Both(r, s), row), d, g) = Total(B, d, g)
<1> DEFINE rest == B (-) Both(r, s)
           P == Plus(rest, r)
<1>1. IsABag(B) /\ IsFiniteSet(DOMAIN B) /\ DOMAIN B \subseteq StatRows
  BY DEF IsTable
<1>2. IsABag(rest) /\ DOMAIN rest \subseteq DOMAIN B /\ B = Plus(P, s)
  BY <1>1, SplitBag
<1> HIDE DEF rest
<1>3. IsTable(rest)
  BY <1>1, <1>2, FS_Subset DEF IsTable
<1>4. IsTable(P) /\ IsTable(Plus(rest, row))
  BY <1>3, PlusTable
<1>5. /\ Total(rest, d, g) \in Nat
      /\ Total(P, d, g) = Total(rest, d, g) + (IF r.day = d /\ r.group = g THEN r.count ELSE 0)
      /\ Total(Plus(rest, row), d, g) =
           Total(rest, d, g) + IF row.day = d /\ row.group = g THEN row.count ELSE 0
  BY <1>3, TotalPlus
<1> HIDE DEF P
<1>6. Total(B, d, g) = Total(P, d, g) + IF s.day = d /\ s.group = g THEN s.count ELSE 0
  BY <1>2, <1>4, TotalPlus
<1>7. r.count \in Nat /\ s.count \in Nat
  BY DEF StatRows
<1>8. Total(Plus(rest, row), d, g) = Total(B, d, g)
  BY <1>5, <1>6, <1>7
<1> QED BY <1>4, <1>8 DEF rest

\* The sum of a day and a group is 0 exactly when no row has them.
LEMMA TotalZero ==
    ASSUME NEW B, IsTable(B), \A r \in DOMAIN B : r.count > 0, NEW d, NEW g
    PROVE  Total(B, d, g) \in Nat /\ (Total(B, d, g) = 0 <=> RowsOf(B, d, g) = {})
<1> DEFINE R == RowsOf(B, d, g)
<1>1. PICK f : Folds(f, R, Weights(B)) /\ Total(B, d, g) = f[R]
  BY TotalFolds
<1>2. IsFiniteSet(R) /\ R \subseteq DOMAIN B /\ \A r \in R : Weights(B)[r] \in Nat
  BY TableFacts
<1>3. f[R] \in Nat
  BY <1>1 DEF Folds
<1>4. R = {} => f[R] = 0
  <2> HIDE DEF R
  <2> QED BY <1>1 DEF Folds, TakesApart
<1>5. ASSUME NEW r \in R PROVE f[R] > 0
  <2>1. r \in DOMAIN B /\ r.count \in Nat /\ r.count > 0 /\ B[r] \in Nat /\ B[r] > 0
    BY <1>2, TableFacts
  <2>2. \A m, n \in Nat : m > 0 /\ n > 0 => m * n > 0
    OBVIOUS
  <2>3. Weights(B)[r] > 0
    BY <2>1, <2>2 DEF Weights
  <2> HIDE DEF R
  <2>4. f[R \ {r}] \in Nat
    BY <1>1 DEF Folds
  <2>5. R \in SUBSET R
    OBVIOUS
  <2>6. f[R] = Weights(B)[r] + f[R \ {r}]
    BY <1>1, <1>2, <1>5, <2>5, FoldsAnyOrder
  <2> QED BY <1>2, <1>5, <2>3, <2>4, <2>6
<1> HIDE DEF R
<1>6. R # {} => f[R] > 0
  BY <1>5
<1> QED BY <1>1, <1>3, <1>4, <1>6 DEF R

-----------------------------------------------------------------------------
(* The inductive invariant: the tables are finite bags, no row counts        *)
(* nothing, the sums are the history of the inserts, and the log has no more *)
(* rows than the history has inserts.                                        *)

InLog(d, g) == {r \in BagToSet(log) : r.day = d /\ group[r.event] = g}

FiniteTables ==
    /\ IsTable(stats) /\ \A r \in DOMAIN stats : r.count > 0
    /\ IsFiniteSet(DOMAIN log)

Summed == \A d \in Days, g \in Groups : Total(stats, d, g) = inserted[<<d, g>>]

Logged ==
    \A d \in Days, g \in Groups : Cardinality(InLog(d, g)) <= inserted[<<d, g>>] + missed[<<d, g>>]

StatsInv == TypeOK /\ FiniteTables /\ Summed /\ Logged

LEMMA SumIsTotal == \A d, g : SumOf(d, g) = Total(stats, d, g)
BY DEF SumOf, Total, RowsOf

LEMMA TypeOKInit == Init => TypeOK
<1> SUFFICES ASSUME Init PROVE TypeOK
  OBVIOUS
<1>1. today \in Days
  BY StatsAssumption DEF Init, Days
<1>2. IsABag(EmptyBag) /\ BagToSet(EmptyBag) = {}
  BY DEF IsABag, EmptyBag, SetToBag, BagToSet
<1>3. log = EmptyBag /\ stats = EmptyBag
  BY DEF Init
<1>4. writes \in [Events -> 0..MaxWrites]
  BY StatsAssumption DEF Init
<1>5. inserted \in [Days \X Groups -> Nat] /\ missed \in [Days \X Groups -> Nat]
  BY DEF Init
<1> QED BY <1>1, <1>2, <1>3, <1>4, <1>5 DEF Init, TypeOK

LEMMA EmptyTable == IsTable(EmptyBag) /\ DOMAIN EmptyBag = {}
<1>1. IsABag(EmptyBag) /\ DOMAIN EmptyBag = {}
  BY DEF IsABag, EmptyBag, SetToBag
<1> QED BY <1>1, FS_EmptySet DEF IsTable

LEMMA StatsInvInit == Init => StatsInv
<1> SUFFICES ASSUME Init PROVE StatsInv
  OBVIOUS
<1>1. log = EmptyBag /\ stats = EmptyBag
  BY DEF Init
<1>2. FiniteTables
  BY <1>1, EmptyTable, FS_EmptySet DEF FiniteTables
<1>3. ASSUME NEW d \in Days, NEW g \in Groups
      PROVE  inserted[<<d, g>>] = 0 /\ missed[<<d, g>>] = 0
  BY DEF Init
<1>4. ASSUME NEW d \in Days, NEW g \in Groups PROVE Total(stats, d, g) = 0
  <2>1. RowsOf(stats, d, g) = {}
    BY <1>1, EmptyTable DEF RowsOf, BagToSet
  <2> QED BY <1>2, <2>1, TotalZero DEF FiniteTables
<1>5. ASSUME NEW d \in Days, NEW g \in Groups PROVE Cardinality(InLog(d, g)) = 0
  <2>1. InLog(d, g) = {}
    BY <1>1, EmptyTable DEF InLog, BagToSet
  <2> QED BY <2>1, FS_EmptySet
<1>6. Summed
  BY <1>3, <1>4 DEF Summed
<1>7. Logged
  <2>1. ASSUME NEW d \in Days, NEW g \in Groups
        PROVE  Cardinality(InLog(d, g)) <= inserted[<<d, g>>] + missed[<<d, g>>]
    <3>1. Cardinality(InLog(d, g)) = 0 /\ inserted[<<d, g>>] = 0 /\ missed[<<d, g>>] = 0
      BY <1>3, <1>5
    <3> QED BY <3>1
  <2> QED BY <2>1 DEF Logged
<1> QED BY <1>2, <1>6, <1>7, TypeOKInit DEF StatsInv

\* A row more in the log counts once, for its own day and group.
LEMMA LogGrows ==
    ASSUME StatsInv, NEW row \in LogRows, log' = Plus(log, row), group' = group
    PROVE  /\ IsABag(log') /\ IsFiniteSet(DOMAIN log') /\ BagToSet(log') \subseteq LogRows
           /\ \A d, g : /\ Cardinality(InLog(d, g)) \in Nat /\ Cardinality(InLog(d, g)') \in Nat
                        /\ Cardinality(InLog(d, g)') <= Cardinality(InLog(d, g))
                             + IF row.day = d /\ group[row.event] = g THEN 1 ELSE 0
<1>1. IsABag(log) /\ IsFiniteSet(DOMAIN log) /\ DOMAIN log \subseteq LogRows
  BY DEF StatsInv, TypeOK, FiniteTables, BagToSet
<1>2. IsABag(log') /\ DOMAIN log' = DOMAIN log \cup {row}
  BY <1>1, PlusRow
<1>3. IsFiniteSet(DOMAIN log')
  BY <1>1, <1>2, FS_AddElement
<1>4. ASSUME NEW d, NEW g
      PROVE  /\ Cardinality(InLog(d, g)) \in Nat /\ Cardinality(InLog(d, g)') \in Nat
             /\ Cardinality(InLog(d, g)') <= Cardinality(InLog(d, g))
                  + IF row.day = d /\ group[row.event] = g THEN 1 ELSE 0
  <2> DEFINE L == InLog(d, g)
             M == InLog(d, g)'
  <2>1. L \subseteq DOMAIN log /\ M \subseteq DOMAIN log'
    BY DEF InLog, BagToSet
  <2>2. M = IF row.day = d /\ group[row.event] = g THEN L \cup {row} ELSE L
    BY <1>2 DEF InLog, BagToSet
  <2> HIDE DEF L, M
  <2>3. IsFiniteSet(L)
    BY <1>1, <2>1, FS_Subset
  <2>4. Cardinality(L) \in Nat
    BY <2>3, FS_CardinalityType
  <2>5. Cardinality(L \cup {row}) = Cardinality(L) \/ Cardinality(L \cup {row}) = Cardinality(L) + 1
    BY <2>3, FS_AddElement
  <2>6. /\ Cardinality(M) \in Nat
        /\ Cardinality(M) <= Cardinality(L) + IF row.day = d /\ group[row.event] = g THEN 1 ELSE 0
    BY <2>2, <2>4, <2>5
  <2> QED BY <2>4, <2>6 DEF L, M
<1> QED BY <1>1, <1>2, <1>3, <1>4 DEF BagToSet

\* A step that leaves the tables and the history alone.
LEMMA TablesStand ==
    ASSUME StatsInv, TypeOK', UNCHANGED <<group, log, stats, inserted, missed>>
    PROVE  StatsInv'
<1>1. group' = group /\ log' = log /\ stats' = stats /\ inserted' = inserted /\ missed' = missed
  OBVIOUS
<1>2. FiniteTables'
  BY <1>1 DEF StatsInv, FiniteTables
<1>3. Summed'
  BY <1>1 DEF StatsInv, Summed
<1>4. Logged'
  BY <1>1 DEF StatsInv, Logged, InLog
<1> QED BY <1>2, <1>3, <1>4 DEF StatsInv

LEMMA StartWriteStep ==
    ASSUME StatsInv, NEW w \in Writers, NEW e \in Events, StartWrite(w, e)
    PROVE  StatsInv'
<1>1. /\ writes[e] < MaxWrites
      /\ holds' = [holds EXCEPT ![w] = [day |-> today, event |-> e]]
      /\ writes' = [writes EXCEPT ![e] = @ + 1]
      /\ UNCHANGED <<today, group, log, stats, inserted, missed>>
  BY DEF StartWrite, DateRow, tables, history
<1>2. [day |-> today, event |-> e] \in LogRows
  BY DEF LogRows, StatsInv, TypeOK
<1>3. holds' \in [Writers -> LogRows \cup {NoRow}]
  BY <1>1, <1>2 DEF StatsInv, TypeOK
<1>4. writes' \in [Events -> 0..MaxWrites]
  BY <1>1, StatsAssumption DEF StatsInv, TypeOK
<1>5. TypeOK'
  BY <1>1, <1>3, <1>4 DEF StatsInv, TypeOK
<1> QED BY <1>1, <1>5, TablesStand

LEMMA MidnightStep ==
    ASSUME StatsInv, Midnight
    PROVE  StatsInv'
<1>1. /\ today < LastDay /\ today' = today + 1
      /\ UNCHANGED <<group, holds, writes, log, stats, inserted, missed>>
  BY DEF Midnight, tables, history
<1>2. today' \in Days
  BY <1>1, StatsAssumption DEF StatsInv, TypeOK, Days
<1>3. TypeOK'
  BY <1>1, <1>2 DEF StatsInv, TypeOK
<1> QED BY <1>1, <1>3, TablesStand

LEMMA MergeLogStep ==
    ASSUME StatsInv, MergeLog
    PROVE  StatsInv'
<1>1. PICK row \in BagToSet(log) : log[row] > 1 /\ log' = log (-) SetToBag({row})
  BY DEF MergeLog
<1>2. UNCHANGED <<today, group, holds, writes, stats, inserted, missed>>
  BY DEF MergeLog, history
<1>3. IsABag(log) /\ row \in DOMAIN log /\ log[row] \in Nat
  BY <1>1 DEF StatsInv, TypeOK, BagToSet, IsABag
<1> DEFINE D == SetToBag({row})
<1>4. DOMAIN D = {row} /\ D[row] = 1 /\ \A x \in DOMAIN D : D[x] \in Nat
  BY DEF SetToBag
<1>5. D \sqsubseteq log
  BY <1>1, <1>3, <1>4 DEF \sqsubseteq
<1> HIDE DEF D
<1>6. /\ IsABag(log (-) D)
      /\ DOMAIN (log (-) D) = {x \in DOMAIN log : x \in DOMAIN D => log[x] > D[x]}
  BY <1>3, <1>4, <1>5, Removed
<1>7. IsABag(log') /\ DOMAIN log' = DOMAIN log
  BY <1>1, <1>4, <1>6 DEF D
<1>8. TypeOK'
  BY <1>2, <1>7 DEF StatsInv, TypeOK, BagToSet
<1>9. FiniteTables' /\ Summed'
  BY <1>2, <1>7 DEF StatsInv, FiniteTables, Summed
<1>10. ASSUME NEW d, NEW g PROVE InLog(d, g)' = InLog(d, g)
  BY <1>2, <1>7 DEF InLog, BagToSet
<1>11. Logged'
  BY <1>2, <1>10 DEF StatsInv, Logged
<1> QED BY <1>8, <1>9, <1>11 DEF StatsInv

\* Joining rows leaves the table a table and every sum as it was.
LEMMA MergeStatsKeeps ==
    ASSUME StatsInv, MergeStats
    PROVE  /\ IsTable(stats') /\ \A r \in DOMAIN stats' : r.count > 0
           /\ \A d, g : Total(stats', d, g) = Total(stats, d, g)
<1>1. PICK r, s \in BagToSet(stats) :
         /\ r.day = s.day /\ r.group = s.group
         /\ Both(r, s) \sqsubseteq stats
         /\ stats' = Plus(stats (-) Both(r, s), [r EXCEPT !.count = r.count + s.count])
  BY DEF MergeStats, Join, Both
<1> DEFINE row == [r EXCEPT !.count = r.count + s.count]
<1>2. /\ IsTable(stats) /\ r \in DOMAIN stats /\ s \in DOMAIN stats
      /\ r \in StatRows /\ s \in StatRows /\ r.count > 0 /\ s.count > 0
  BY <1>1 DEF StatsInv, FiniteTables, IsTable, BagToSet
<1>3. /\ row \in StatRows /\ row.day = r.day /\ row.group = r.group
      /\ row.count = r.count + s.count /\ row.count > 0
  BY <1>2 DEF StatRows
<1> HIDE DEF row
<1>4. IsTable(stats') /\ \A d, g : Total(stats', d, g) = Total(stats, d, g)
  <2>1. ASSUME NEW d, NEW g
        PROVE  IsTable(Plus(stats (-) Both(r, s), row))
               /\ Total(Plus(stats (-) Both(r, s), row), d, g) = Total(stats, d, g)
    BY <1>1, <1>2, <1>3, TotalJoin
  <2> QED BY <1>1, <2>1 DEF row
<1>5. DOMAIN stats' \subseteq DOMAIN stats \cup {row}
  <2> DEFINE rest == stats (-) Both(r, s)
  <2>1. IsABag(stats)
    BY <1>2 DEF IsTable
  <2>2. IsABag(rest) /\ DOMAIN rest \subseteq DOMAIN stats
    BY <1>1, <2>1, SplitBag
  <2> HIDE DEF rest
  <2>3. DOMAIN Plus(rest, row) = DOMAIN rest \cup {row}
    BY <2>2, PlusRow
  <2>4. stats' = Plus(rest, row)
    BY <1>1 DEF rest, row
  <2> QED BY <2>2, <2>3, <2>4
<1>6. \A x \in DOMAIN stats' : x.count > 0
  BY <1>3, <1>5 DEF StatsInv, FiniteTables
<1> QED BY <1>4, <1>6

LEMMA MergeStatsStep ==
    ASSUME StatsInv, MergeStats
    PROVE  StatsInv'
<1>1. UNCHANGED <<today, group, holds, writes, log, inserted, missed>>
  BY DEF MergeStats, Join, history
<1>2. /\ IsTable(stats') /\ \A r \in DOMAIN stats' : r.count > 0
      /\ \A d, g : Total(stats', d, g) = Total(stats, d, g)
  BY MergeStatsKeeps
<1>3. IsABag(stats') /\ BagToSet(stats') \subseteq [day : Days, group : Groups, count : Nat]
  BY <1>2 DEF IsTable, StatRows, BagToSet
<1>4. TypeOK'
  BY <1>1, <1>3 DEF StatsInv, TypeOK
<1>5. FiniteTables'
  BY <1>1, <1>2 DEF StatsInv, FiniteTables
<1>6. Summed'
  BY <1>1, <1>2 DEF StatsInv, Summed
<1>7. Logged'
  BY <1>1 DEF StatsInv, Logged, InLog
<1> QED BY <1>4, <1>5, <1>6, <1>7 DEF StatsInv

\* The view takes the insert: its row adds one to the sum and to the history.
LEMMA SendTaken ==
    ASSUME StatsInv, NEW row \in LogRows,
           stats' = Plus(stats, [day |-> row.day, group |-> group[row.event], count |-> 1])
    PROVE  /\ IsTable(stats') /\ \A r \in DOMAIN stats' : r.count > 0
           /\ \A d, g : /\ Total(stats, d, g) \in Nat
                        /\ Total(stats', d, g) = Total(stats, d, g)
                             + IF row.day = d /\ group[row.event] = g THEN 1 ELSE 0
<1> DEFINE new == [day |-> row.day, group |-> group[row.event], count |-> 1]
<1>1. /\ new \in StatRows /\ new.count = 1
      /\ new.day = row.day /\ new.group = group[row.event]
  BY DEF LogRows, StatRows, StatsInv, TypeOK
<1>2. IsTable(stats) /\ \A r \in DOMAIN stats : r.count > 0
  BY DEF StatsInv, FiniteTables
<1>3. stats' = Plus(stats, new)
  OBVIOUS
<1> HIDE DEF new
<1>4. IsTable(stats')
  BY <1>1, <1>2, <1>3, PlusTable
<1>5. DOMAIN stats' = DOMAIN stats \cup {new}
  <2>1. IsABag(stats)
    BY <1>2 DEF IsTable
  <2> QED BY <1>3, <2>1, PlusRow
<1>6. \A r \in DOMAIN stats' : r.count > 0
  BY <1>1, <1>2, <1>5
<1>7. ASSUME NEW d, NEW g
      PROVE  /\ Total(stats, d, g) \in Nat
             /\ Total(stats', d, g) = Total(stats, d, g)
                  + IF row.day = d /\ group[row.event] = g THEN 1 ELSE 0
  <2>1. /\ Total(stats, d, g) \in Nat
        /\ Total(Plus(stats, new), d, g) =
             Total(stats, d, g) + IF new.day = d /\ new.group = g THEN new.count ELSE 0
    BY <1>1, <1>2, TotalPlus
  <2> QED BY <1>1, <1>3, <2>1
<1> QED BY <1>4, <1>6, <1>7

Counts == [Days \X Groups -> Nat]

OneMore(h, row) == [h EXCEPT ![<<row.day, group[row.event]>>] = @ + 1]

\* k counts the insert of row and nothing else on top of h.
Counted(k, h, row) ==
    /\ k \in Counts
    /\ \A d \in Days, g \in Groups :
         k[<<d, g>>] = h[<<d, g>>] + IF row.day = d /\ group[row.event] = g THEN 1 ELSE 0

\* One more insert of a day and a group in the history.
LEMMA HistoryGrows ==
    ASSUME NEW h \in Counts, NEW row \in LogRows, group \in [Events -> Groups]
    PROVE  Counted(OneMore(h, row), h, row)
<1> DEFINE k == OneMore(h, row)
           x == <<row.day, group[row.event]>>
<1>1. x \in Days \X Groups
  BY DEF LogRows
<1> USE DEF Counts
<1>2. ASSUME NEW d \in Days, NEW g \in Groups
      PROVE  /\ h[<<d, g>>] \in Nat /\ <<d, g>> \in Days \X Groups
             /\ <<d, g>> = x <=> row.day = d /\ group[row.event] = g
  OBVIOUS
<1> HIDE DEF x
<1>3. k = [h EXCEPT ![x] = @ + 1]
  BY DEF x, OneMore
<1> HIDE DEF k
<1>4. k \in [Days \X Groups -> Nat]
  BY <1>1, <1>3
<1>5. \A y \in Days \X Groups : k[y] = IF y = x THEN h[y] + 1 ELSE h[y]
  BY <1>3
<1>6. ASSUME NEW d \in Days, NEW g \in Groups
      PROVE  k[<<d, g>>] = h[<<d, g>>] + IF row.day = d /\ group[row.event] = g THEN 1 ELSE 0
  <2> DEFINE y == <<d, g>>
  <2>1. /\ h[y] \in Nat /\ y \in Days \X Groups
        /\ y = x <=> row.day = d /\ group[row.event] = g
    BY <1>2
  <2> HIDE DEF y
  <2>2. k[y] = IF y = x THEN h[y] + 1 ELSE h[y]
    BY <1>5, <2>1
  <2>3. k[y] = h[y] + IF row.day = d /\ group[row.event] = g THEN 1 ELSE 0
    BY <2>1, <2>2
  <2> QED BY <2>3 DEF y
<1> QED BY <1>4, <1>6 DEF k, Counted

LEMMA SendStep ==
    ASSUME StatsInv, NEW w \in Writers, Send(w)
    PROVE  StatsInv'
<1> DEFINE row == holds[w]
<1>1. TypeOK /\ FiniteTables /\ Summed /\ Logged
  BY DEF StatsInv
<1>2. /\ row # NoRow /\ holds' = [holds EXCEPT ![w] = NoRow]
      /\ UNCHANGED <<today, group, writes>>
  BY DEF Send
<1>3. row \in LogRows /\ holds' \in [Writers -> LogRows \cup {NoRow}]
  BY <1>1, <1>2 DEF TypeOK
<1>4. \/ /\ log' = Plus(log, row)
         /\ stats' = Plus(stats, [day |-> row.day, group |-> group[row.event], count |-> 1])
         /\ inserted' = OneMore(inserted, row)
         /\ missed' = missed
      \/ /\ log' = Plus(log, row)
         /\ missed' = OneMore(missed, row)
         /\ stats' = stats /\ inserted' = inserted
      \/ UNCHANGED <<log, stats, inserted, missed>>
  BY DEF Send, tables, history, OneMore
<1> HIDE DEF row
<1>5. /\ group \in [Events -> Groups] /\ inserted \in [Days \X Groups -> Nat]
      /\ missed \in [Days \X Groups -> Nat]
  BY <1>1 DEF TypeOK
<1>6. CASE log' = Plus(log, row)
  <2>1. /\ IsABag(log') /\ IsFiniteSet(DOMAIN log') /\ BagToSet(log') \subseteq LogRows
        /\ \A d, g : /\ Cardinality(InLog(d, g)) \in Nat /\ Cardinality(InLog(d, g)') \in Nat
                     /\ Cardinality(InLog(d, g)') <= Cardinality(InLog(d, g))
                          + IF row.day = d /\ group[row.event] = g THEN 1 ELSE 0
    <3>1. group' = group
      BY <1>2
    <3> QED BY <1>3, <1>6, <3>1, LogGrows
  <2>2. CASE /\ stats' = Plus(stats, [day |-> row.day, group |-> group[row.event], count |-> 1])
             /\ inserted' = OneMore(inserted, row)
             /\ missed' = missed
    <3>1. /\ IsTable(stats') /\ \A r \in DOMAIN stats' : r.count > 0
          /\ \A d, g : /\ Total(stats, d, g) \in Nat
                       /\ Total(stats', d, g) = Total(stats, d, g)
                            + IF row.day = d /\ group[row.event] = g THEN 1 ELSE 0
      BY <1>3, <2>2, SendTaken
    <3>2. /\ inserted' \in [Days \X Groups -> Nat]
          /\ \A d \in Days, g \in Groups : inserted'[<<d, g>>] =
               inserted[<<d, g>>] + IF row.day = d /\ group[row.event] = g THEN 1 ELSE 0
      <4>1. inserted \in Counts
        BY <1>5 DEF Counts
      <4>2. Counted(OneMore(inserted, row), inserted, row)
        BY <1>3, <1>5, <4>1, HistoryGrows
      <4> QED BY <2>2, <4>2 DEF Counted, Counts
    <3>3. IsABag(stats') /\ BagToSet(stats') \subseteq [day : Days, group : Groups, count : Nat]
      BY <3>1 DEF IsTable, StatRows, BagToSet
    <3>4. TypeOK'
      BY <1>1, <1>2, <1>3, <2>1, <2>2, <3>2, <3>3 DEF TypeOK
    <3>5. FiniteTables'
      BY <2>1, <3>1 DEF FiniteTables
    <3>6. ASSUME NEW d \in Days, NEW g \in Groups PROVE Total(stats', d, g) = inserted'[<<d, g>>]
      <4>1. Total(stats, d, g) = inserted[<<d, g>>]
        BY <1>1 DEF Summed
      <4> QED BY <3>1, <3>2, <4>1
    <3>7. Summed'
      BY <3>6 DEF Summed
    <3>8. ASSUME NEW d \in Days, NEW g \in Groups
          PROVE  Cardinality(InLog(d, g)') <= inserted'[<<d, g>>] + missed'[<<d, g>>]
      <4>1. Cardinality(InLog(d, g)) <= inserted[<<d, g>>] + missed[<<d, g>>]
        BY <1>1 DEF Logged
      <4>2. inserted[<<d, g>>] \in Nat /\ missed[<<d, g>>] \in Nat
        BY <1>5
      <4> QED BY <2>1, <2>2, <3>2, <4>1, <4>2
    <3>9. Logged'
      BY <3>8 DEF Logged
    <3> QED BY <3>4, <3>5, <3>7, <3>9 DEF StatsInv
  <2>3. CASE /\ missed' = OneMore(missed, row)
             /\ stats' = stats /\ inserted' = inserted
    <3>1. /\ missed' \in [Days \X Groups -> Nat]
          /\ \A d \in Days, g \in Groups : missed'[<<d, g>>] =
               missed[<<d, g>>] + IF row.day = d /\ group[row.event] = g THEN 1 ELSE 0
      <4>1. missed \in Counts
        BY <1>5 DEF Counts
      <4>2. Counted(OneMore(missed, row), missed, row)
        BY <1>3, <1>5, <4>1, HistoryGrows
      <4> QED BY <2>3, <4>2 DEF Counted, Counts
    <3>2. TypeOK'
      BY <1>1, <1>2, <1>3, <2>1, <2>3, <3>1 DEF TypeOK
    <3>3. FiniteTables' /\ Summed'
      BY <1>1, <2>1, <2>3 DEF FiniteTables, Summed
    <3>4. ASSUME NEW d \in Days, NEW g \in Groups
          PROVE  Cardinality(InLog(d, g)') <= inserted'[<<d, g>>] + missed'[<<d, g>>]
      <4>1. Cardinality(InLog(d, g)) <= inserted[<<d, g>>] + missed[<<d, g>>]
        BY <1>1 DEF Logged
      <4>2. inserted[<<d, g>>] \in Nat /\ missed[<<d, g>>] \in Nat
        BY <1>5
      <4> QED BY <2>1, <2>3, <3>1, <4>1, <4>2
    <3>5. Logged'
      BY <3>4 DEF Logged
    <3> QED BY <3>2, <3>3, <3>5 DEF StatsInv
  <2>4. CASE UNCHANGED <<log, stats, inserted, missed>>
    <3>1. TypeOK'
      BY <1>1, <1>2, <1>3, <2>4 DEF TypeOK
    <3>2. UNCHANGED <<group, log, stats, inserted, missed>>
      BY <1>2, <2>4
    <3> QED BY <3>1, <3>2, TablesStand
  <2> QED BY <1>4, <2>2, <2>3, <2>4
<1>7. CASE UNCHANGED <<log, stats, inserted, missed>>
  <2>1. TypeOK'
    BY <1>1, <1>2, <1>3, <1>7 DEF TypeOK
  <2>2. UNCHANGED <<group, log, stats, inserted, missed>>
    BY <1>2, <1>7
  <2> QED BY <2>1, <2>2, TablesStand
<1> QED BY <1>4, <1>6, <1>7

LEMMA StatsInvNext == StatsInv /\ [Next]_vars => StatsInv'
<1> SUFFICES ASSUME StatsInv, [Next]_vars PROVE StatsInv'
  OBVIOUS
<1>1. ASSUME NEW w \in Writers, Send(w) PROVE StatsInv'
  BY <1>1, SendStep
<1>2. ASSUME NEW w \in Writers, NEW e \in Events, StartWrite(w, e) PROVE StatsInv'
  BY <1>2, StartWriteStep
<1>3. CASE UNCHANGED vars
  <2>1. UNCHANGED <<today, group, holds, writes, log, stats, inserted, missed>>
    BY <1>3 DEF vars, tables, history
  <2>2. TypeOK'
    BY <2>1 DEF StatsInv, TypeOK
  <2>3. UNCHANGED <<group, log, stats, inserted, missed>>
    BY <2>1
  <2> QED BY <2>2, <2>3, TablesStand
<1>4. Done => UNCHANGED vars
  BY DEF Done
<1> QED BY <1>1, <1>2, <1>3, <1>4, MidnightStep, MergeLogStep, MergeStatsStep DEF Next

LEMMA StatsInvariant == Spec => []StatsInv
BY StatsInvInit, StatsInvNext, PTL DEF Spec

-----------------------------------------------------------------------------
(* The theorems.                                                             *)

\* The types of the variables, in every reachable state.
THEOREM StatsTypeCorrect == Spec => []TypeOK
<1>1. StatsInv => TypeOK
  BY DEF StatsInv
<1> QED BY <1>1, StatsInvariant, PTL

\* Whatever is merged and whenever, an answer has each day and group with an
\* insert once, and with the number of its inserts.
\* (event_querier.go:26-72, migrations/clickhouse/002)
THEOREM AnswersAlwaysExact == Spec => []AnswersExact
<1>1. ASSUME StatsInv, NEW from \in Dates, NEW to \in Dates
      PROVE  DailyEvents(from, to) =
               {[day |-> x[1], group |-> x[2], count |-> inserted[x]] :
                  x \in {y \in Days \X Groups : y[1] >= from /\ y[1] <= to /\ inserted[y] > 0}}
  <2> DEFINE Rows == {x \in BagToSet(stats) : x.day >= from /\ x.day <= to}
             Keys == {y \in Days \X Groups : y[1] >= from /\ y[1] <= to /\ inserted[y] > 0}
             Row(r) == [day |-> r.day, group |-> r.group, count |-> SumOf(r.day, r.group)]
             KeyRow(x) == [day |-> x[1], group |-> x[2], count |-> inserted[x]]
  <2>1. IsTable(stats) /\ (\A r \in DOMAIN stats : r.count > 0) /\ Summed
    BY <1>1 DEF StatsInv, FiniteTables
  <2>2. ASSUME NEW r \in DOMAIN stats
        PROVE  /\ r.day \in Days /\ r.group \in Groups
               /\ inserted[<<r.day, r.group>>] > 0
               /\ SumOf(r.day, r.group) = inserted[<<r.day, r.group>>]
    <3>1. r.day \in Days /\ r.group \in Groups
      BY <2>1, TableFacts
    <3>2. RowsOf(stats, r.day, r.group) # {}
      BY DEF RowsOf, BagToSet
    <3>3. /\ Total(stats, r.day, r.group) \in Nat
          /\ Total(stats, r.day, r.group) = 0 <=> RowsOf(stats, r.day, r.group) = {}
      BY <2>1, TotalZero
    <3>4. Total(stats, r.day, r.group) = inserted[<<r.day, r.group>>]
      BY <2>1, <3>1 DEF Summed
    <3> QED BY <3>1, <3>2, <3>3, <3>4, SumIsTotal
  <2>3. ASSUME NEW d \in Days, NEW g \in Groups, inserted[<<d, g>>] > 0
        PROVE  \E r \in DOMAIN stats : r.day = d /\ r.group = g
    <3>1. /\ Total(stats, d, g) \in Nat
          /\ Total(stats, d, g) = 0 <=> RowsOf(stats, d, g) = {}
      BY <2>1, TotalZero
    <3>2. Total(stats, d, g) = inserted[<<d, g>>]
      BY <2>1 DEF Summed
    <3> QED BY <2>3, <3>1, <3>2 DEF RowsOf, BagToSet
  <2>4. ASSUME NEW r \in Rows PROVE \E x \in Keys : Row(r) = KeyRow(x)
    <3>1. r \in DOMAIN stats /\ r.day >= from /\ r.day <= to
      BY DEF BagToSet
    <3>2. <<r.day, r.group>> \in Keys
      BY <2>2, <3>1
    <3>3. Row(r) = KeyRow(<<r.day, r.group>>)
      BY <2>2, <3>1
    <3> QED BY <3>2, <3>3
  <2>5. ASSUME NEW x \in Keys PROVE \E r \in Rows : Row(r) = KeyRow(x)
    <3>1. x[1] \in Days /\ x[2] \in Groups /\ x = <<x[1], x[2]>> /\ inserted[x] > 0
      OBVIOUS
    <3>2. PICK r \in DOMAIN stats : r.day = x[1] /\ r.group = x[2]
      BY <2>3, <3>1
    <3>3. r \in Rows
      BY <3>2 DEF BagToSet
    <3>4. SumOf(r.day, r.group) = inserted[x]
      BY <2>2, <3>1, <3>2
    <3> QED BY <3>2, <3>3, <3>4
  <2>6. DailyEvents(from, to) = {Row(r) : r \in Rows}
    BY DEF DailyEvents
  <2> HIDE DEF Rows, Keys, Row, KeyRow
  <2>7. {Row(r) : r \in Rows} = {KeyRow(x) : x \in Keys}
    BY <2>4, <2>5
  <2> QED BY <2>6, <2>7 DEF Keys, KeyRow
<1>2. StatsInv => AnswersExact
  BY <1>1 DEF AnswersExact
<1> QED BY <1>2, StatsInvariant, PTL

\* The statistics count no fewer events than events_log has, but for the inserts
\* the view failed on.
\* (event_writer.go:42-66, migrations/clickhouse/001, 002)
THEOREM StatsAlwaysCoverLog == Spec => []StatsCoverLog
<1>1. ASSUME StatsInv, NEW d \in Days, NEW g \in Groups
      PROVE  Cardinality({r \in BagToSet(log) : r.day = d /\ group[r.event] = g})
               <= SumOf(d, g) + missed[<<d, g>>]
  <2>1. SumOf(d, g) = inserted[<<d, g>>]
    BY <1>1, SumIsTotal DEF StatsInv, Summed
  <2>2. Cardinality(InLog(d, g)) <= inserted[<<d, g>>] + missed[<<d, g>>]
    BY <1>1 DEF StatsInv, Logged
  <2> QED BY <2>1, <2>2 DEF InLog
<1>2. StatsInv => StatsCoverLog
  BY <1>1 DEF StatsCoverLog
<1> QED BY <1>2, StatsInvariant, PTL

\* No merge and no midnight moves a figure: a sum changes only upwards, and only as
\* a row dated on its day is sent.  (event_writer.go:36-62)
THEOREM PastDaysAlwaysStand == Spec => PastDaysStand
<1> DEFINE Stands == \A d \in Days, g \in Groups : SumOf(d, g)' # SumOf(d, g) =>
               /\ SumOf(d, g)' > SumOf(d, g)
               /\ \E w \in Writers : holds[w] # NoRow /\ holds[w].day = d /\ holds'[w] = NoRow
<1>0. (\A d, g : SumOf(d, g) = Total(stats, d, g))'
  BY SumIsTotal, PTL
<1>1. ASSUME StatsInv, [Next]_vars PROVE Stands
  <2>1. \A d, g : SumOf(d, g) = Total(stats, d, g) /\ SumOf(d, g)' = Total(stats', d, g)
    BY <1>0, SumIsTotal
  <2>2. CASE stats' = stats
    BY <2>1, <2>2
  <2>3. CASE MergeStats
    <3>1. \A d, g : Total(stats', d, g) = Total(stats, d, g)
      BY <1>1, <2>3, MergeStatsKeeps
    <3> QED BY <2>1, <3>1
  <2>4. ASSUME NEW w \in Writers, Send(w) PROVE stats' = stats \/ Stands
    <3> DEFINE row == holds[w]
    <3>1. TypeOK /\ row # NoRow /\ holds' = [holds EXCEPT ![w] = NoRow]
      BY <1>1, <2>4 DEF StatsInv, Send
    <3>2. row \in LogRows /\ holds'[w] = NoRow
      BY <3>1 DEF TypeOK
    <3>3. \/ stats' = stats
          \/ stats' = Plus(stats, [day |-> row.day, group |-> group[row.event], count |-> 1])
      BY <2>4 DEF Send, tables
    <3>4. CASE stats' = Plus(stats, [day |-> row.day, group |-> group[row.event], count |-> 1])
      <4> HIDE DEF row
      <4>1. \A d, g : /\ Total(stats, d, g) \in Nat
                      /\ Total(stats', d, g) = Total(stats, d, g)
                           + IF row.day = d /\ group[row.event] = g THEN 1 ELSE 0
        BY <1>1, <3>2, <3>4, SendTaken
      <4>2. ASSUME NEW d \in Days, NEW g \in Groups, Total(stats', d, g) # Total(stats, d, g)
            PROVE  Total(stats', d, g) > Total(stats, d, g) /\ row.day = d
        BY <4>1, <4>2
      <4>3. ASSUME NEW d \in Days, NEW g \in Groups, SumOf(d, g)' # SumOf(d, g)
            PROVE  SumOf(d, g)' > SumOf(d, g) /\ row.day = d
        BY <2>1, <4>2, <4>3
      <4> QED BY <3>1, <3>2, <4>3 DEF row
    <3> QED BY <3>3, <3>4
  <2>5. ASSUME ~MergeStats, \A w \in Writers : ~Send(w) PROVE stats' = stats
    BY <1>1, <2>5 DEF Next, StartWrite, DateRow, Midnight, MergeLog, Done, vars, tables
  <2> HIDE DEF Stands
  <2> QED BY <2>2, <2>3, <2>4, <2>5
<1> HIDE DEF Stands
<1>2. StatsInv /\ [Next]_vars => [Stands]_vars
  BY <1>1
<1>3. Spec => [][Stands]_vars
  BY <1>2, StatsInvariant, PTL DEF Spec
<1> QED BY <1>3 DEF PastDaysStand, Stands

=============================================================================
