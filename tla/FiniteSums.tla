----------------------------- MODULE FiniteSums -----------------------------
(***************************************************************************)
(* Sums over finite sets, as the folds of module Functions define them.    *)
(* The fold picks its terms by CHOOSE and is a recursive function on the   *)
(* subsets of its set; that the function exists, and that the sum does not *)
(* depend on the order, is proved here from minimal counterexamples.       *)
(***************************************************************************)
EXTENDS Integers, Functions, FiniteSetTheorems, WellFoundedInduction, TLAPS

\* The sum of f over S: SumFunctionOnSet, and FoldFunction(+, 0, f) if S is f's domain.
Total(f, S) == FoldFunctionOnSet(+, 0, f, S)

\* The term the fold takes next, and the equation of its recursion.
Chosen(s) == CHOOSE x \in s : TRUE
FoldStep(f, it, s) == IF s = {} THEN 0 ELSE f[Chosen(s)] + it[s \ {Chosen(s)}]
IsFold(it, f, S) == it = [s \in SUBSET S |-> FoldStep(f, it, s)]

-----------------------------------------------------------------------------
\* Among subsets of a finite set there is a minimal one.
LEMMA MinimalSet ==
    ASSUME NEW S, IsFiniteSet(S), NEW Bad, Bad \subseteq SUBSET S, Bad # {}
    PROVE  \E T \in Bad : \A U \in Bad : ~ (U \subseteq T /\ U # T)
<1>1. IsWellFoundedOn(StrictSubsetOrdering(S), SUBSET S)
  BY FS_StrictSubsetOrderingWellFounded, FS_FiniteSubsetsOfFinite
<1>2. PICK T \in Bad : \A U \in Bad : ~ (<<U, T>> \in StrictSubsetOrdering(S))
  <2> HIDE DEF IsWellFoundedOn, StrictSubsetOrdering
  <2> QED BY <1>1, WFMin
<1>3. \A U \in Bad : U \subseteq T /\ U # T => <<U, T>> \in StrictSubsetOrdering(S)
  BY DEF StrictSubsetOrdering
<1>4. \A U \in Bad : ~ (U \subseteq T /\ U # T)
  BY <1>2, <1>3
<1> QED
  <2> HIDE <1>2, <1>3
  <2> WITNESS T \in Bad
  <2> QED BY <1>4

\* The term chosen is one of them.
LEMMA ChosenIn ==
    ASSUME NEW s, s # {}
    PROVE  Chosen(s) \in s
BY DEF Chosen

\* Two functions that satisfy the recursion agree where both are defined.
LEMMA FoldsAgree ==
    ASSUME NEW f, NEW S, IsFiniteSet(S), NEW U \in SUBSET S, NEW V \in SUBSET S,
           NEW a, NEW b, IsFold(a, f, U), IsFold(b, f, V)
    PROVE  \A W \in SUBSET S : W \subseteq U /\ W \subseteq V => a[W] = b[W]
<1> DEFINE Bad == {W \in SUBSET S : W \subseteq U /\ W \subseteq V /\ a[W] # b[W]}
<1> SUFFICES ASSUME Bad # {} PROVE FALSE
  OBVIOUS
<1>1. PICK T \in Bad : \A W \in Bad : ~ (W \subseteq T /\ W # T)
  <2> HIDE DEF Bad
  <2>1. Bad \subseteq SUBSET S
    BY DEF Bad
  <2> QED BY <2>1, MinimalSet
<1>2. a[T] = FoldStep(f, a, T) /\ b[T] = FoldStep(f, b, T)
  BY DEF IsFold
<1>3. CASE T = {}
  BY <1>2, <1>3 DEF FoldStep
<1>4. CASE T # {}
  <2> DEFINE R == T \ {Chosen(T)}
  <2>1. R \subseteq T /\ R # T
    BY <1>4, ChosenIn
  <2>2. a[R] = b[R]
    BY <1>1, <2>1
  <2> QED BY <1>2, <1>4, <2>2 DEF FoldStep
<1> QED BY <1>3, <1>4

\* There is one, on every finite set.
LEMMA FoldExists ==
    ASSUME NEW f, NEW S, IsFiniteSet(S)
    PROVE  \E it : IsFold(it, f, S)
<1> DEFINE Bad == {W \in SUBSET S : ~ \E it : IsFold(it, f, W)}
<1> SUFFICES ASSUME Bad # {} PROVE FALSE
  OBVIOUS
<1>1. PICK T \in Bad : \A W \in Bad : ~ (W \subseteq T /\ W # T)
  <2> HIDE DEF Bad
  <2>1. Bad \subseteq SUBSET S
    BY DEF Bad
  <2> QED BY <2>1, MinimalSet
<1> DEFINE F(W) == CHOOSE it : IsFold(it, f, W)
           g == [s \in SUBSET T |-> IF s = {} THEN 0
                                    ELSE f[Chosen(s)] + F(s \ {Chosen(s)})[s \ {Chosen(s)}]]
<1>2. \A W \in SUBSET T : W # T => IsFold(F(W), f, W)
  BY <1>1
<1>3. ASSUME NEW s \in SUBSET T, s # {}
      PROVE  g[s \ {Chosen(s)}] = F(s \ {Chosen(s)})[s \ {Chosen(s)}]
  <2> DEFINE R == s \ {Chosen(s)}
             Q == R \ {Chosen(R)}
  <2>1. R \in SUBSET T /\ R # T
    BY <1>3, ChosenIn
  <2>2. IsFold(F(R), f, R)
    BY <1>2, <2>1
  <2> HIDE DEF F
  <2>3. F(R)[R] = FoldStep(f, F(R), R)
    BY <2>2 DEF IsFold
  <2>4. CASE R = {}
    BY <2>3, <2>4 DEF FoldStep
  <2>5. CASE R # {}
    <3>1. Q \in SUBSET T /\ Q # T /\ Q \subseteq R
      BY <2>1
    <3>2. IsFold(F(Q), f, Q)
      BY <1>2, <3>1
    <3>3. Q \in SUBSET S /\ R \in SUBSET S
      BY <2>1, <3>1
    <3>4. F(Q)[Q] = F(R)[Q]
      <4> DEFINE a == F(Q)
                 b == F(R)
      <4>1. IsFold(a, f, Q) /\ IsFold(b, f, R)
        BY <2>2, <3>2
      <4>2. a[Q] = b[Q]
        <5> HIDE DEF a, b, Q, R
        <5>1. \A W \in SUBSET S : W \subseteq Q /\ W \subseteq R => a[W] = b[W]
          BY <3>3, <4>1, FoldsAgree
        <5> QED BY <3>1, <3>3, <5>1
      <4> QED BY <4>2
    <3>5. g[R] = f[Chosen(R)] + F(Q)[Q]
      BY <2>1, <2>5
    <3>6. F(R)[R] = f[Chosen(R)] + F(R)[Q]
      BY <2>3, <2>5 DEF FoldStep
    <3> QED BY <3>4, <3>5, <3>6
  <2> QED BY <2>4, <2>5
<1>4. \A s \in SUBSET T : g[s] = FoldStep(f, g, s)
  <2> SUFFICES ASSUME NEW s \in SUBSET T PROVE g[s] = FoldStep(f, g, s)
    OBVIOUS
  <2>1. CASE s = {}
    BY <2>1 DEF FoldStep
  <2>2. CASE s # {}
    <3>1. g[s] = f[Chosen(s)] + F(s \ {Chosen(s)})[s \ {Chosen(s)}]
      BY <2>2
    <3> HIDE DEF g, F
    <3> QED BY <1>3, <2>2, <3>1 DEF FoldStep
  <2> QED BY <2>1, <2>2
<1>5. IsFold(g, f, T)
  BY <1>4 DEF IsFold
<1> QED BY <1>1, <1>5

-----------------------------------------------------------------------------
\* A sum is the term chosen and the sum of the others.
LEMMA TotalUnfolds ==
    ASSUME NEW f, NEW S, IsFiniteSet(S)
    PROVE  Total(f, S) = IF S = {} THEN 0 ELSE f[Chosen(S)] + Total(f, S \ {Chosen(S)})
<1> DEFINE F(W) == CHOOSE it : IsFold(it, f, W)
<1>1. \A W : Total(f, W) = F(W)[W]
  BY DEF Total, FoldFunctionOnSet, MapThenFoldSet, IsFold, FoldStep, Chosen
<1>2. IsFold(F(S), f, S)
  BY FoldExists
<1> DEFINE R == S \ {Chosen(S)}
<1>3. IsFold(F(R), f, R)
  <2>1. IsFiniteSet(R)
    BY FS_RemoveElement
  <2> HIDE DEF R
  <2> QED BY <2>1, FoldExists
<1>4. F(R)[R] = F(S)[R]
  <2>1. R \in SUBSET S
    OBVIOUS
  <2> HIDE DEF R, F
  <2> QED BY <1>2, <1>3, <2>1, FoldsAgree
<1>5. F(S)[S] = FoldStep(f, F(S), S)
  <2> HIDE DEF F
  <2> QED BY <1>2 DEF IsFold
<1>6. Total(f, S) = FoldStep(f, F(S), S)
  BY <1>1, <1>5
<1>7. F(S)[R] = Total(f, R)
  BY <1>1, <1>4
<1> QED
  <2> HIDE DEF F, Total
  <2> QED BY <1>6, <1>7 DEF FoldStep

\* A sum of natural numbers is one.
LEMMA TotalOf ==
    ASSUME NEW f, NEW S, IsFiniteSet(S), \A x \in S : f[x] \in Nat
    PROVE  Total(f, S) \in Nat
<1> DEFINE Bad == {W \in SUBSET S : Total(f, W) \notin Nat}
<1> SUFFICES ASSUME Bad # {} PROVE FALSE
  OBVIOUS
<1>1. PICK T \in Bad : \A W \in Bad : ~ (W \subseteq T /\ W # T)
  <2> HIDE DEF Bad
  <2>1. Bad \subseteq SUBSET S
    BY DEF Bad
  <2> QED BY <2>1, MinimalSet
<1>2. IsFiniteSet(T)
  BY FS_Subset
<1>3. Total(f, T) = IF T = {} THEN 0 ELSE f[Chosen(T)] + Total(f, T \ {Chosen(T)})
  BY <1>2, TotalUnfolds
<1>4. CASE T # {}
  <2>1. Chosen(T) \in T
    BY <1>4, ChosenIn
  <2>2. Total(f, T \ {Chosen(T)}) \in Nat
    BY <1>1, <2>1
  <2>3. f[Chosen(T)] \in Nat
    BY <2>1
  <2> QED BY <1>3, <1>4, <2>2, <2>3
<1> QED BY <1>3, <1>4

\* Sums are added term by term.
LEMMA TotalPlus ==
    ASSUME NEW f, NEW g, NEW h, NEW S, IsFiniteSet(S),
           \A x \in S : f[x] \in Nat /\ g[x] \in Nat /\ h[x] = f[x] + g[x]
    PROVE  Total(h, S) = Total(f, S) + Total(g, S)
<1> DEFINE Bad == {W \in SUBSET S : Total(h, W) # Total(f, W) + Total(g, W)}
<1> SUFFICES ASSUME Bad # {} PROVE FALSE
  OBVIOUS
<1>1. PICK T \in Bad : \A W \in Bad : ~ (W \subseteq T /\ W # T)
  <2> HIDE DEF Bad
  <2>1. Bad \subseteq SUBSET S
    BY DEF Bad
  <2> QED BY <2>1, MinimalSet
<1>2. IsFiniteSet(T)
  BY FS_Subset
<1>3. /\ Total(f, T) = IF T = {} THEN 0 ELSE f[Chosen(T)] + Total(f, T \ {Chosen(T)})
      /\ Total(g, T) = IF T = {} THEN 0 ELSE g[Chosen(T)] + Total(g, T \ {Chosen(T)})
      /\ Total(h, T) = IF T = {} THEN 0 ELSE h[Chosen(T)] + Total(h, T \ {Chosen(T)})
  BY <1>2, TotalUnfolds
<1>4. CASE T # {}
  <2> DEFINE R == T \ {Chosen(T)}
  <2>1. Chosen(T) \in T
    BY <1>4, ChosenIn
  <2>2. Total(h, R) = Total(f, R) + Total(g, R)
    BY <1>1, <2>1
  <2>3. Total(f, R) \in Nat /\ Total(g, R) \in Nat
    <3>1. IsFiniteSet(R) /\ \A x \in R : f[x] \in Nat /\ g[x] \in Nat
      BY <1>2, FS_RemoveElement
    <3> HIDE DEF R
    <3> QED BY <3>1, TotalOf
  <2>4. /\ f[Chosen(T)] \in Nat /\ g[Chosen(T)] \in Nat
        /\ h[Chosen(T)] = f[Chosen(T)] + g[Chosen(T)]
    BY <2>1
  <2>5. /\ Total(f, T) = f[Chosen(T)] + Total(f, R) /\ Total(g, T) = g[Chosen(T)] + Total(g, R)
        /\ Total(h, T) = h[Chosen(T)] + Total(h, R)
    BY <1>3, <1>4
  <2>6. Total(h, T) = Total(f, T) + Total(g, T)
    <3> HIDE DEF R
    <3> QED BY <2>2, <2>3, <2>4, <2>5
  <2> QED BY <2>6
<1> QED BY <1>3, <1>4

\* Sums are ordered term by term.
LEMMA TotalMonotone ==
    ASSUME NEW f, NEW g, NEW S, IsFiniteSet(S),
           \A x \in S : f[x] \in Nat /\ g[x] \in Nat /\ f[x] <= g[x]
    PROVE  Total(f, S) <= Total(g, S)
<1> DEFINE d == [x \in S |-> g[x] - f[x]]
<1>1. \A x \in S : d[x] \in Nat /\ g[x] = f[x] + d[x]
  OBVIOUS
<1> HIDE DEF d
<1>2. Total(g, S) = Total(f, S) + Total(d, S)
  BY <1>1, TotalPlus
<1>3. Total(f, S) \in Nat /\ Total(d, S) \in Nat
  BY <1>1, TotalOf
<1> QED BY <1>2, <1>3

\* A sum of zeros is zero.
LEMMA TotalZero ==
    ASSUME NEW f, NEW S, IsFiniteSet(S), \A x \in S : f[x] = 0
    PROVE  Total(f, S) = 0
<1>1. \A x \in S : f[x] \in Nat /\ f[x] = f[x] + f[x]
  OBVIOUS
<1>2. Total(f, S) = Total(f, S) + Total(f, S)
  BY <1>1, TotalPlus
<1>3. Total(f, S) \in Nat
  BY <1>1, TotalOf
<1>4. \A n \in Nat : n = n + n => n = 0
  OBVIOUS
<1> QED BY <1>2, <1>3, <1>4

\* Any term may be taken out of a sum.
LEMMA TotalWithout ==
    ASSUME NEW f, NEW S, IsFiniteSet(S), \A x \in S : f[x] \in Nat, NEW a \in S
    PROVE  Total(f, S) = f[a] + Total(f, S \ {a})
<1> DEFINE Bad == {W \in SUBSET S : \E b \in W : Total(f, W) # f[b] + Total(f, W \ {b})}
<1> SUFFICES ASSUME Bad # {} PROVE FALSE
  OBVIOUS
<1>1. PICK T \in Bad : \A W \in Bad : ~ (W \subseteq T /\ W # T)
  <2> HIDE DEF Bad
  <2>1. Bad \subseteq SUBSET S
    BY DEF Bad
  <2> QED BY <2>1, MinimalSet
<1>2. PICK b \in T : Total(f, T) # f[b] + Total(f, T \ {b})
  OBVIOUS
<1> DEFINE c == Chosen(T)
<1>3. c \in T /\ T \in SUBSET S /\ T # {}
  BY ChosenIn
<1>4. \A W \in SUBSET S : W \subseteq T /\ W # T =>
          \A x \in W : Total(f, W) = f[x] + Total(f, W \ {x})
  BY <1>1
<1>5. \A W \in SUBSET S : IsFiniteSet(W) /\ Total(f, W) \in Nat
  <2> SUFFICES ASSUME NEW W \in SUBSET S PROVE IsFiniteSet(W) /\ Total(f, W) \in Nat
    OBVIOUS
  <2>1. IsFiniteSet(W)
    BY FS_Subset
  <2> QED BY <2>1, TotalOf
<1>6. Total(f, T) = f[c] + Total(f, T \ {c})
  BY <1>3, <1>5, TotalUnfolds
<1> HIDE DEF c, Bad
<1>7. b # c
  BY <1>2, <1>6
<1> DEFINE R == T \ {c}
           Q == T \ {b}
           O == (T \ {c}) \ {b}
<1>8. /\ R \in SUBSET S /\ R \subseteq T /\ R # T /\ b \in R /\ R \ {b} = O
      /\ Q \in SUBSET S /\ Q \subseteq T /\ Q # T /\ c \in Q /\ Q \ {c} = O
      /\ O \in SUBSET S
  BY <1>3, <1>7
<1>9. /\ Total(f, R) = f[b] + Total(f, O) /\ Total(f, Q) = f[c] + Total(f, O)
      /\ Total(f, T) = f[c] + Total(f, R) /\ Total(f, T) # f[b] + Total(f, Q)
  <2>1. Total(f, T) = f[c] + Total(f, R) /\ Total(f, T) # f[b] + Total(f, Q)
    BY <1>2, <1>6
  <2> HIDE DEF R, Q, O
  <2>2. Total(f, R) = f[b] + Total(f, R \ {b}) /\ Total(f, Q) = f[c] + Total(f, Q \ {c})
    BY <1>4, <1>8
  <2> QED BY <1>8, <2>1, <2>2
<1>10. f[b] \in Nat /\ f[c] \in Nat /\ Total(f, O) \in Nat
  <2> HIDE DEF O
  <2> QED BY <1>3, <1>5, <1>8
<1> HIDE DEF R, Q, O
<1> QED BY <1>9, <1>10

\* A sum with one term that is not zero is that term.
LEMMA TotalOne ==
    ASSUME NEW f, NEW S, IsFiniteSet(S), NEW a \in S, f[a] \in Nat,
           \A x \in S : x # a => f[x] = 0
    PROVE  Total(f, S) = f[a]
<1>1. Total(f, S) = f[a] + Total(f, S \ {a})
  BY TotalWithout
<1>2. Total(f, S \ {a}) = 0
  <2>1. IsFiniteSet(S \ {a})
    BY FS_RemoveElement
  <2> QED BY <2>1, TotalZero
<1> QED BY <1>1, <1>2

-----------------------------------------------------------------------------
\* Sums of functions that agree on the set are the same.
LEMMA TotalSame ==
    ASSUME NEW f, NEW g, NEW S, IsFiniteSet(S), \A x \in S : f[x] \in Nat /\ g[x] = f[x]
    PROVE  Total(g, S) = Total(f, S)
<1> DEFINE z == [x \in S |-> 0]
<1>1. \A x \in S : f[x] \in Nat /\ z[x] \in Nat /\ g[x] = f[x] + z[x]
  OBVIOUS
<1>2. \A x \in S : z[x] = 0
  OBVIOUS
<1> HIDE DEF z
<1>3. Total(g, S) = Total(f, S) + Total(z, S) /\ Total(z, S) = 0 /\ Total(f, S) \in Nat
  BY <1>1, <1>2, TotalPlus, TotalZero, TotalOf
<1> QED BY <1>3

\* The sum over two disjoint sets is the sum of the two sums.
LEMMA TotalDisjoint ==
    ASSUME NEW f, NEW A, NEW B, IsFiniteSet(A), IsFiniteSet(B), A \cap B = {},
           \A x \in A \cup B : f[x] \in Nat
    PROVE  IsFiniteSet(A \cup B) /\ Total(f, A \cup B) = Total(f, A) + Total(f, B)
<1> DEFINE Bad == {W \in SUBSET B : Total(f, A \cup W) # Total(f, A) + Total(f, W)}
<1>1. \A W \in SUBSET B : IsFiniteSet(W) /\ IsFiniteSet(A \cup W)
  BY FS_Subset, FS_Union
<1>2. IsFiniteSet(A \cup B) /\ (Bad = {} => Total(f, A \cup B) = Total(f, A) + Total(f, B))
  BY <1>1
<1> SUFFICES ASSUME Bad # {} PROVE FALSE
  BY <1>2
<1>3. PICK T \in Bad : \A W \in Bad : ~ (W \subseteq T /\ W # T)
  <2> HIDE DEF Bad
  <2>1. Bad \subseteq SUBSET B
    BY DEF Bad
  <2> QED BY <2>1, MinimalSet
<1>4. Total(f, A) \in Nat
  BY TotalOf
<1>5. CASE T = {}
  <2>1. A \cup T = A
    BY <1>5
  <2>2. Total(f, T) = 0
    BY <1>1, <1>5, TotalUnfolds
  <2>3. Total(f, A \cup T) # Total(f, A) + Total(f, T)
    OBVIOUS
  <2> HIDE DEF Bad
  <2>4. \A n \in Nat : n + 0 = n
    OBVIOUS
  <2>5. Total(f, A) + Total(f, T) = Total(f, A)
    BY <1>4, <2>2, <2>4
  <2> QED BY <2>1, <2>3, <2>5
<1>6. CASE T # {}
  <2> PICK x \in T : TRUE
    BY <1>6
  <2> DEFINE R == T \ {x}
             U == A \cup T
             V == A \cup R
  <2>1. x \in U /\ U \ {x} = V /\ U \subseteq A \cup B /\ T \subseteq B /\ R \in SUBSET B
    OBVIOUS
  <2>2. IsFiniteSet(T) /\ IsFiniteSet(U) /\ IsFiniteSet(R) /\ IsFiniteSet(V)
    BY <1>1, <2>1
  <2>3. Total(f, V) = Total(f, A) + Total(f, R)
    BY <1>3, <2>1
  <2>4. Total(f, U) # Total(f, A) + Total(f, T)
    OBVIOUS
  <2> HIDE DEF U, V, Bad
  <2>5. Total(f, U) = f[x] + Total(f, U \ {x})
    BY <2>1, <2>2, TotalWithout
  <2>6. Total(f, T) = f[x] + Total(f, T \ {x})
    BY <2>1, <2>2, TotalWithout
  <2> HIDE DEF R
  <2>7. Total(f, R) \in Nat /\ f[x] \in Nat
    BY <2>1, <2>2, TotalOf
  <2>8. Total(f, T) = f[x] + Total(f, R)
    BY <2>6 DEF R
  <2>9. Total(f, U) = f[x] + Total(f, V)
    BY <2>1, <2>5
  <2> QED BY <1>4, <2>3, <2>4, <2>7, <2>8, <2>9
<1> QED BY <1>5, <1>6

ImageOf(b, S) == {b[x] : x \in S}

\* A sum may be taken over the images of a one-to-one function.
LEMMA TotalImage ==
    ASSUME NEW f, NEW g, NEW b, NEW S, IsFiniteSet(S),
           \A x \in S : f[x] \in Nat /\ g[b[x]] = f[x],
           \A x, y \in S : b[x] = b[y] => x = y
    PROVE  /\ IsFiniteSet(ImageOf(b, S))
           /\ Total(g, ImageOf(b, S)) = Total(f, S)
<1> USE DEF ImageOf
<1> DEFINE I(W) == {b[x] : x \in W}
           Bad == {W \in SUBSET S : ~ (IsFiniteSet(I(W)) /\ Total(g, I(W)) = Total(f, W))}
<1> SUFFICES ASSUME Bad # {} PROVE FALSE
  OBVIOUS
<1>1. PICK T \in Bad : \A W \in Bad : ~ (W \subseteq T /\ W # T)
  <2> HIDE DEF Bad
  <2>1. Bad \subseteq SUBSET S
    BY DEF Bad
  <2> QED BY <2>1, MinimalSet
<1>2. IsFiniteSet(T) /\ T \subseteq S /\ ~ (IsFiniteSet(I(T)) /\ Total(g, I(T)) = Total(f, T))
  BY FS_Subset
<1>3. CASE T = {}
  <2>1. I(T) = {}
    BY <1>3
  <2>2. Total(f, {}) = 0 /\ Total(g, {}) = 0 /\ IsFiniteSet({})
    BY FS_EmptySet, TotalUnfolds
  <2> HIDE DEF I
  <2> QED BY <1>2, <1>3, <2>1, <2>2
<1>4. CASE T # {}
  <2> PICK x \in T : TRUE
    BY <1>4
  <2> DEFINE R == T \ {x}
             J == I(T)
             K == I(R)
  <2>1. b[x] \in J /\ J \ {b[x]} = K /\ J = K \cup {b[x]}
    BY <1>2
  <2>2. IsFiniteSet(K) /\ Total(g, K) = Total(f, R)
    <3>1. R \in SUBSET S /\ R \subseteq T /\ R # T
      BY <1>2
    <3> QED BY <1>1, <3>1
  <2>3. \A y \in J : g[y] \in Nat
    BY <1>2
  <2>4. g[b[x]] = f[x] /\ f[x] \in Nat
    BY <1>2
  <2> HIDE DEF J, K
  <2>5. IsFiniteSet(J)
    BY <2>1, <2>2, FS_AddElement
  <2>6. Total(g, J) = g[b[x]] + Total(g, J \ {b[x]})
    BY <2>1, <2>3, <2>5, TotalWithout
  <2>7. Total(f, T) = f[x] + Total(f, T \ {x})
    BY <1>2, TotalWithout
  <2>8. Total(g, J) = Total(f, T)
    BY <2>1, <2>2, <2>4, <2>6, <2>7
  <2> QED BY <1>2, <2>5, <2>8 DEF J
<1> QED BY <1>3, <1>4

\* A sum may be taken fiber by fiber of a function.
LEMMA TotalFibers ==
    ASSUME NEW f, NEW h, NEW S, IsFiniteSet(S), \A x \in S : f[x] \in Nat,
           NEW C, IsFiniteSet(C), \A x \in S : h[x] \in C
    PROVE  Total(f, S) = Total([c \in C |-> Total(f, {x \in S : h[x] = c})], C)
<1> DEFINE g == [c \in C |-> Total(f, {x \in S : h[x] = c})]
           O(W) == {x \in S : h[x] \in W}
           Bad == {W \in SUBSET C : Total(f, O(W)) # Total(g, W)}
<1>1. \A W : IsFiniteSet(O(W)) /\ Total(f, O(W)) \in Nat
  <2> SUFFICES ASSUME NEW W PROVE IsFiniteSet(O(W)) /\ Total(f, O(W)) \in Nat
    OBVIOUS
  <2>1. O(W) \subseteq S
    OBVIOUS
  <2>2. IsFiniteSet(O(W))
    BY <2>1, FS_Subset
  <2>3. \A x \in O(W) : f[x] \in Nat
    BY <2>1
  <2> HIDE DEF O
  <2> QED BY <2>2, <2>3, TotalOf
<1>2. \A c \in C : {x \in S : h[x] = c} = O({c}) /\ g[c] = Total(f, O({c})) /\ g[c] \in Nat
  <2> SUFFICES ASSUME NEW c \in C
               PROVE  {x \in S : h[x] = c} = O({c}) /\ g[c] = Total(f, O({c})) /\ g[c] \in Nat
    OBVIOUS
  <2>1. {x \in S : h[x] = c} = O({c})
    OBVIOUS
  <2>2. g[c] = Total(f, O({c}))
    BY <2>1
  <2>3. Total(f, O({c})) \in Nat
    <3> HIDE DEF O, g
    <3> QED BY <1>1
  <2> QED BY <2>1, <2>2, <2>3
<1>3. O(C) = S
  OBVIOUS
<1> SUFFICES Bad = {}
  <2> HIDE DEF g, O
  <2>1. Total(f, O(C)) = Total(g, C)
    OBVIOUS
  <2>2. Total(f, S) = Total(g, C)
    BY <1>3, <2>1
  <2> QED BY <2>2 DEF g
<1> HIDE DEF g
<1> SUFFICES ASSUME Bad # {} PROVE FALSE
  OBVIOUS
<1>4. PICK T \in Bad : \A W \in Bad : ~ (W \subseteq T /\ W # T)
  <2> HIDE DEF Bad
  <2>1. Bad \subseteq SUBSET C
    BY DEF Bad
  <2> QED BY <2>1, MinimalSet
<1>5. IsFiniteSet(T) /\ T \subseteq C /\ Total(f, O(T)) # Total(g, T)
  BY FS_Subset
<1>6. CASE T = {}
  <2>1. O(T) = {}
    BY <1>6
  <2>2. Total(f, {}) = 0 /\ Total(g, {}) = 0
    BY FS_EmptySet, TotalUnfolds
  <2> HIDE DEF O
  <2> QED BY <1>5, <1>6, <2>1, <2>2
<1>7. CASE T # {}
  <2> PICK c \in T : TRUE
    BY <1>7
  <2> DEFINE R == T \ {c}
             A == O(R)
             B == O({c})
  <2>1. O(T) = A \cup B /\ A \cap B = {}
    OBVIOUS
  <2>2. \A x \in A \cup B : f[x] \in Nat
    OBVIOUS
  <2>3. IsFiniteSet(A) /\ IsFiniteSet(B)
    <3> HIDE DEF O
    <3> QED BY <1>1
  <2>4. Total(f, A) = Total(g, R)
    BY <1>4, <1>5
  <2>5. g[c] = Total(f, B) /\ \A y \in T : g[y] \in Nat
    <3> HIDE DEF O
    <3> QED BY <1>2, <1>5
  <2>6. Total(g, T) = g[c] + Total(g, T \ {c})
    BY <1>5, <2>5, TotalWithout
  <2>7. Total(f, A) \in Nat /\ Total(f, B) \in Nat
    <3> HIDE DEF O
    <3> QED BY <1>1
  <2> HIDE DEF A, B
  <2>8. Total(f, A \cup B) = Total(f, A) + Total(f, B)
    BY <2>1, <2>2, <2>3, TotalDisjoint
  <2>9. Total(f, A \cup B) = Total(g, T)
    BY <2>4, <2>5, <2>6, <2>7, <2>8
  <2>10. Total(f, O(T)) = Total(f, A \cup B)
    <3> HIDE DEF O
    <3> QED BY <2>1
  <2> QED BY <1>5, <2>9, <2>10
<1> QED BY <1>6, <1>7

\* A sum of equal terms.
LEMMA TotalConstant ==
    ASSUME NEW f, NEW S, IsFiniteSet(S), NEW m \in Nat, \A x \in S : f[x] = m
    PROVE  Total(f, S) = Cardinality(S) * m
<1> DEFINE Bad == {W \in SUBSET S : Total(f, W) # Cardinality(W) * m}
<1> SUFFICES ASSUME Bad # {} PROVE FALSE
  OBVIOUS
<1>1. PICK T \in Bad : \A W \in Bad : ~ (W \subseteq T /\ W # T)
  <2> HIDE DEF Bad
  <2>1. Bad \subseteq SUBSET S
    BY DEF Bad
  <2> QED BY <2>1, MinimalSet
<1>2. IsFiniteSet(T) /\ T \subseteq S /\ Total(f, T) # Cardinality(T) * m
  BY FS_Subset
<1>3. CASE T = {}
  <2>1. Total(f, T) = 0 /\ Cardinality(T) = 0
    BY <1>2, <1>3, TotalUnfolds, FS_EmptySet
  <2> QED BY <1>2, <2>1
<1>4. CASE T # {}
  <2> PICK x \in T : TRUE
    BY <1>4
  <2> DEFINE R == T \ {x}
             n == Cardinality(R)
  <2>1. IsFiniteSet(R) /\ Cardinality(T) = n + 1
    <3>1. IsFiniteSet(R) /\ Cardinality(R) = Cardinality(T) - 1 /\ Cardinality(T) \in Nat
      BY <1>2, FS_RemoveElement, FS_CardinalityType
    <3> QED BY <3>1
  <2>2. n \in Nat
    BY <2>1, FS_CardinalityType
  <2>3. Total(f, R) = n * m
    <3>1. R \in SUBSET S /\ R \subseteq T /\ R # T
      BY <1>2
    <3> QED BY <1>1, <3>1
  <2>4. Total(f, T) = f[x] + Total(f, R) /\ f[x] = m
    BY <1>2, TotalWithout
  <2> HIDE DEF n, R
  <2>5. (n + 1) * m = m + n * m
    BY <2>2
  <2> QED BY <1>2, <2>1, <2>3, <2>4, <2>5
<1> QED BY <1>3, <1>4

\* The number of elements of a subset, as a sum over the set.
LEMMA CardinalityIsTotal ==
    ASSUME NEW S, IsFiniteSet(S), NEW W \in SUBSET S
    PROVE  Cardinality(W) = Total([x \in S |-> IF x \in W THEN 1 ELSE 0], S)
<1> DEFINE f == [x \in S |-> IF x \in W THEN 1 ELSE 0]
           V == S \ W
<1>1. /\ \A x \in W : f[x] = 1
      /\ \A x \in V : f[x] = 0
      /\ \A x \in W \cup V : f[x] \in Nat
      /\ W \cap V = {} /\ W \cup V = S
  OBVIOUS
<1>2. IsFiniteSet(W) /\ IsFiniteSet(V)
  BY <1>1, FS_Subset
<1> HIDE DEF f, V
<1>3. Total(f, W) = Cardinality(W) * 1 /\ Total(f, V) = 0
  BY <1>1, <1>2, TotalConstant, TotalZero
<1>4. Total(f, W \cup V) = Total(f, W) + Total(f, V)
  BY <1>1, <1>2, TotalDisjoint
<1>5. Cardinality(W) \in Nat
  BY <1>2, FS_CardinalityType
<1>6. \A n \in Nat : n * 1 + 0 = n
  OBVIOUS
<1>7. Total(f, W \cup V) = Cardinality(W)
  BY <1>3, <1>4, <1>5, <1>6
<1>8. Total(f, S) = Cardinality(W)
  BY <1>1, <1>7
<1> QED BY <1>8 DEF f

-----------------------------------------------------------------------------
\* The elements of S that h maps to k.
Fiber(h, S, k) == {x \in S : h[x] = k}

\* S is the fiber of n once for each element of K: the fibers have the same images under b.
Repeated(h, b, S, K, n) ==
    /\ IsFiniteSet(S) /\ IsFiniteSet(K) /\ n \in K
    /\ \A x \in S : h[x] \in K
    /\ \A x, y \in S : h[x] = h[y] /\ b[x] = b[y] => x = y
    /\ \A k \in K : ImageOf(b, Fiber(h, S, k)) = ImageOf(b, Fiber(h, S, n))

\* A sum of what depends on b alone is that of one fiber, as often as there are fibers.
LEMMA TotalRepeats ==
    ASSUME NEW S, NEW K, NEW n, NEW h, NEW b, Repeated(h, b, S, K, n),
           NEW f, NEW g, \A x \in S : f[x] \in Nat /\ g[b[x]] = f[x]
    PROVE  /\ Total(f, Fiber(h, S, n)) \in Nat
           /\ Total(f, S) = Cardinality(K) * Total(f, Fiber(h, S, n))
<1> DEFINE F(k) == Fiber(h, S, k)
           each == [k \in K |-> Total(f, F(k))]
<1> USE DEF Repeated
<1>1. ASSUME NEW k \in K
      PROVE  /\ IsFiniteSet(F(k)) /\ Total(f, F(k)) \in Nat
             /\ Total(g, ImageOf(b, F(k))) = Total(f, F(k))
  <2>1. F(k) \subseteq S /\ \A x, y \in F(k) : b[x] = b[y] => x = y
    BY DEF Fiber
  <2>2. IsFiniteSet(F(k))
    BY <2>1, FS_Subset
  <2>3. \A x \in F(k) : f[x] \in Nat /\ g[b[x]] = f[x]
    BY <2>1
  <2> HIDE DEF F
  <2>4. Total(f, F(k)) \in Nat
    BY <2>2, <2>3, TotalOf
  <2>5. Total(g, ImageOf(b, F(k))) = Total(f, F(k))
    BY <2>1, <2>2, <2>3, TotalImage
  <2> QED BY <2>2, <2>4, <2>5
<1>2. \A k \in K : ImageOf(b, F(k)) = ImageOf(b, F(n))
  OBVIOUS
<1>3. Total(f, S) = Total(each, K)
  <2>1. \A x \in S : f[x] \in Nat
    OBVIOUS
  <2>2. Total(f, S) = Total([k \in K |-> Total(f, {x \in S : h[x] = k})], K)
    BY <2>1, TotalFibers
  <2> QED BY <2>2 DEF Fiber
<1>4. \A k \in K : each[k] = Total(f, F(n))
  <2> HIDE DEF F
  <2>1. \A k \in K : Total(f, F(k)) = Total(f, F(n))
    BY <1>1, <1>2
  <2> QED BY <2>1
<1>5. Total(f, F(n)) \in Nat
  BY <1>1
<1> HIDE DEF each, F
<1>6. Total(each, K) = Cardinality(K) * Total(f, F(n))
  BY <1>4, <1>5, TotalConstant
<1> QED BY <1>3, <1>5, <1>6 DEF F

\* So is the number of elements with what depends on b alone.
LEMMA CardinalityRepeats ==
    ASSUME NEW S, NEW K, NEW n, NEW h, NEW b, Repeated(h, b, S, K, n),
           NEW W, W \subseteq S, \A x, y \in S : x \in W /\ b[x] = b[y] => y \in W
    PROVE  /\ Cardinality(W \cap Fiber(h, S, n)) \in Nat
           /\ Cardinality(W) = Cardinality(K) * Cardinality(W \cap Fiber(h, S, n))
<1> DEFINE F == Fiber(h, S, n)
           f == [x \in S |-> IF x \in W THEN 1 ELSE 0]
           part == [x \in F |-> IF x \in W \cap F THEN 1 ELSE 0]
           g == [y \in {b[x] : x \in S} |-> IF \E x \in W : b[x] = y THEN 1 ELSE 0]
<1>0. IsFiniteSet(S)
  BY DEF Repeated
<1>1. F \subseteq S
  BY DEF Fiber
<1>2. IsFiniteSet(F)
  BY <1>0, <1>1, FS_Subset
<1>3. /\ \A x \in S : f[x] \in Nat /\ g[b[x]] = f[x]
      /\ \A x \in F : f[x] \in Nat /\ part[x] = f[x]
      /\ W \cap F \in SUBSET F
  BY <1>1
<1>4. Cardinality(W) = Total(f, S)
  BY <1>0, CardinalityIsTotal
<1>5. Cardinality(W \cap F) = Total(part, F)
  <2> HIDE DEF F
  <2> QED BY <1>2, <1>3, CardinalityIsTotal
<1> HIDE DEF f, part, g
<1>6. Total(part, F) = Total(f, F)
  <2> HIDE DEF F
  <2> QED BY <1>2, <1>3, TotalSame
<1>7. Total(f, F) \in Nat /\ Total(f, S) = Cardinality(K) * Total(f, F)
  <2>1. \A x \in S : f[x] \in Nat /\ g[b[x]] = f[x]
    BY <1>3
  <2>2. /\ Total(f, Fiber(h, S, n)) \in Nat
        /\ Total(f, S) = Cardinality(K) * Total(f, Fiber(h, S, n))
    BY <2>1, TotalRepeats
  <2> QED BY <2>2
<1> HIDE DEF F
<1>8. Cardinality(W \cap F) \in Nat /\ Cardinality(W) = Cardinality(K) * Cardinality(W \cap F)
  BY <1>4, <1>5, <1>6, <1>7
<1> QED BY <1>8 DEF F

=============================================================================
