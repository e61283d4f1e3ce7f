----------------------------- MODULE FoldLemmas -----------------------------
(***************************************************************************)
(* What the models' operators on sets and sequences compute, for inputs of *)
(* every size: the sums, folds, concatenations and orderings that the      *)
(* library defines by recursion or by CHOOSE. An induction over finite     *)
(* sets is done by a smallest counterexample (MinimalSubset), a recursive  *)
(* definition is first shown to define a function (RecursionExists).       *)
(***************************************************************************)
EXTENDS Integers, Sequences, FiniteSets, SequencesExt, Selections, TLAPS, FiniteSetTheorems,
        SequenceTheorems, WellFoundedInduction

(* A set of subsets of a finite set has a smallest one: the counterexample *)
(* from which every induction below starts.                                *)
LEMMA MinimalSubset ==
  ASSUME NEW S, IsFiniteSet(S), NEW T, T \subseteq SUBSET S, T # {}
  PROVE  \E U \in T : \A V \in T : V \subseteq U => V = U
<1>1. T \subseteq FiniteSubsetsOf(S)
  BY FS_Subset DEF FiniteSubsetsOf
<1>2. PICK U \in T : \A V \in T : <<V, U>> \notin StrictSubsetOrdering(S)
  BY <1>1, WFMin, FS_StrictSubsetOrderingWellFounded
<1> QED BY <1>2 DEF StrictSubsetOrdering

Chooses(ch, S) == \A s \in SUBSET S : s # {} => ch[s] \in s

StepsAlike(g, h, ch, S) ==
  g[{}] = h[{}] /\ \A s \in SUBSET S : s # {} /\ g[s \ {ch[s]}] = h[s \ {ch[s]}] => g[s] = h[s]

(* Two functions that take the same step on every subset are equal there.  *)
LEMMA SameRecursion ==
  ASSUME NEW S, IsFiniteSet(S), NEW ch, Chooses(ch, S), NEW g, NEW h, StepsAlike(g, h, ch, S)
  PROVE  \A s \in SUBSET S : g[s] = h[s]
<1> DEFINE T == {s \in SUBSET S : g[s] # h[s]}
<1> SUFFICES ASSUME T # {} PROVE FALSE
  OBVIOUS
<1>1. PICK U \in T : \A V \in T : V \subseteq U => V = U
  <2>1. T \subseteq SUBSET S
    OBVIOUS
  <2> HIDE DEF T
  <2> QED BY <2>1, MinimalSubset
<1>2. U # {} /\ ch[U] \in U
  BY DEF Chooses, StepsAlike
<1>3. U \ {ch[U]} \notin T
  BY <1>1, <1>2
<1> QED BY <1>2, <1>3 DEF StepsAlike

Recurses(g, U, base, step, ch) ==
  g[{}] = base /\ \A s \in SUBSET U : s # {} => g[s] = step[<<s, g[s \ {ch[s]}]>>]

(* A recursion over the subsets of a set has the same values on a part of  *)
(* it.                                                                     *)
LEMMA RecursionsAgree ==
  ASSUME NEW S, IsFiniteSet(S), NEW ch, Chooses(ch, S), NEW W, W \subseteq S, NEW base, NEW step,
         NEW g, NEW h, Recurses(g, S, base, step, ch), Recurses(h, W, base, step, ch)
  PROVE  \A r \in SUBSET W : g[r] = h[r]
<1>1. IsFiniteSet(W) /\ Chooses(ch, W)
  BY FS_Subset DEF Chooses
<1>2. StepsAlike(g, h, ch, W)
  BY DEF Recurses, StepsAlike
<1> QED BY <1>1, <1>2, SameRecursion

(* A recursion over the subsets of a finite set defines a function, so the *)
(* folds of the library are what they say they are.                        *)
LEMMA RecursionExists ==
  ASSUME NEW S, IsFiniteSet(S), NEW ch, Chooses(ch, S), NEW V, NEW base \in V,
         NEW step \in [(SUBSET S) \X V -> V]
  PROVE  \E g \in [SUBSET S -> V] : Recurses(g, S, base, step, ch)
<1> DEFINE Has(U) == \E g \in [SUBSET U -> V] : Recurses(g, U, base, step, ch)
           T == {U \in SUBSET S : ~Has(U)}
<1> SUFFICES ASSUME T # {} PROVE FALSE
  OBVIOUS
<1>1. PICK U \in T : \A W \in T : W \subseteq U => W = U
  <2>1. T \subseteq SUBSET S
    OBVIOUS
  <2> HIDE DEF T
  <2> QED BY <2>1, MinimalSubset
<1> DEFINE G(W) == CHOOSE g \in [SUBSET W -> V] : Recurses(g, W, base, step, ch)
           Before(s) == G(s \ {ch[s]})[s \ {ch[s]}]
           H == [s \in SUBSET U |-> IF s = U /\ U # {} THEN step[<<U, Before(U)>>]
                                    ELSE IF s = {} THEN base ELSE G(s)[s]]
<1>2. ASSUME NEW W \in SUBSET U, W # U
      PROVE  G(W) \in [SUBSET W -> V] /\ Recurses(G(W), W, base, step, ch)
  BY <1>1, <1>2
<1>3. ASSUME NEW s \in SUBSET U, s # {}
      PROVE  /\ s \ {ch[s]} \in SUBSET U /\ s \ {ch[s]} # U /\ s \ {ch[s]} # s
             /\ Before(s) \in V /\ Before(s) = H[s \ {ch[s]}]
  <2>1. ch[s] \in s
    BY <1>3 DEF Chooses
  <2>2. s \ {ch[s]} \in SUBSET U /\ s \ {ch[s]} # U /\ s \ {ch[s]} # s
    BY <2>1
  <2>3. Before(s) \in V
    BY <1>2, <2>2
  <2>4. s \ {ch[s]} = {} => Before(s) = base
    BY ZenonT(60), <1>2, <2>2 DEF Recurses
  <2> QED BY <2>2, <2>3, <2>4
<1>4. ASSUME NEW s \in SUBSET U, s # {}, s # U
      PROVE  G(s)[s] = step[<<s, Before(s)>>]
  <2> DEFINE W == s \ {ch[s]}
  <2>1. W \in SUBSET U /\ W # U
    BY <1>3, <1>4
  <2>2. Recurses(G(s), s, base, step, ch) /\ Recurses(G(W), W, base, step, ch)
    BY <1>2, <1>4, <2>1
  <2>3. IsFiniteSet(s) /\ Chooses(ch, s) /\ W \subseteq s
    BY FS_Subset DEF Chooses
  <2>4. G(s)[W] = G(W)[W]
    <3> HIDE DEF G, W
    <3> QED BY <2>2, <2>3, RecursionsAgree
  <2> QED BY <1>4, <2>2, <2>4 DEF Recurses
<1>5. H \in [SUBSET U -> V]
  <2> SUFFICES ASSUME NEW s \in SUBSET U PROVE H[s] \in V
    OBVIOUS
  <2>1. CASE s = U /\ U # {}
    BY <1>3, <2>1
  <2>2. CASE s # U \/ U = {}
    <3>1. s # {} => G(s)[s] \in V
      BY <1>2, <2>2
    <3> QED BY <2>2, <3>1
  <2> QED BY <2>1, <2>2
<1>6. Recurses(H, U, base, step, ch)
  <2>1. H[{}] = base
    OBVIOUS
  <2>2. ASSUME NEW s \in SUBSET U, s # {}
        PROVE  H[s] = step[<<s, H[s \ {ch[s]}]>>]
    <3>1. H[s] = step[<<s, Before(s)>>]
      BY <1>4, <2>2
    <3> QED BY <1>3, <2>2, <3>1
  <2> QED BY <2>1, <2>2 DEF Recurses
<1> QED BY <1>1, <1>5, <1>6
-----------------------------------------------------------------------------
IsSum(g, S, f) ==
  g = [s \in SUBSET S |-> IF s = {} THEN 0
                          ELSE LET x == CHOOSE x \in s : TRUE IN f[x] + g[s \ {x}]]

(* There is one function that sums f over the subsets of a finite set.     *)
LEMMA SumIsUnique ==
  ASSUME NEW S, IsFiniteSet(S), NEW f, NEW g, NEW h, IsSum(g, S, f), IsSum(h, S, f)
  PROVE  g = h
<1> DEFINE ch == [s \in SUBSET S |-> CHOOSE x \in s : TRUE]
<1>1. Chooses(ch, S)
  BY DEF Chooses
<1>2. StepsAlike(g, h, ch, S)
  <2>1. ASSUME NEW s \in SUBSET S, s # {}, g[s \ {ch[s]}] = h[s \ {ch[s]}]
        PROVE  g[s] = h[s]
    <3>1. g[s] = f[ch[s]] + g[s \ {ch[s]}]
      BY <2>1 DEF IsSum
    <3>2. h[s] = f[ch[s]] + h[s \ {ch[s]}]
      BY <2>1 DEF IsSum
    <3> QED BY <2>1, <3>1, <3>2
  <2>2. g[{}] = h[{}]
    BY DEF IsSum
  <2> QED BY <2>1, <2>2 DEF StepsAlike
<1>3. \A s \in SUBSET S : g[s] = h[s]
  <2> HIDE DEF ch
  <2> QED BY <1>1, <1>2, SameRecursion
<1> QED BY <1>3 DEF IsSum

(* There is one, and it has the type of what is summed.                    *)
LEMMA SumExists ==
  ASSUME NEW S, IsFiniteSet(S), NEW V \in {Int, Nat}, NEW f, \A x \in S : f[x] \in V
  PROVE  \E g \in [SUBSET S -> V] : IsSum(g, S, f)
<1> DEFINE ch   == [s \in SUBSET S |-> CHOOSE x \in s : TRUE]
           step == [sv \in (SUBSET S) \X V |-> IF sv[1] = {} THEN 0 ELSE f[ch[sv[1]]] + sv[2]]
<1>1. Chooses(ch, S)
  BY DEF Chooses
<1>2. step \in [(SUBSET S) \X V -> V]
  <2> SUFFICES ASSUME NEW s \in SUBSET S, NEW v \in V
               PROVE  (IF s = {} THEN 0 ELSE f[ch[s]] + v) \in V
    OBVIOUS
  <2>1. s # {} => f[ch[s]] \in V
    BY <1>1 DEF Chooses
  <2> HIDE DEF ch
  <2> QED BY <2>1
<1>3. PICK g \in [SUBSET S -> V] : Recurses(g, S, 0, step, ch)
  <2>1. 0 \in V
    OBVIOUS
  <2> HIDE DEF ch, step
  <2> QED BY <1>1, <1>2, <2>1, RecursionExists
<1>4. ASSUME NEW s \in SUBSET S, s # {} PROVE g[s] = f[CHOOSE x \in s : TRUE] + g[s \ {CHOOSE x \in s : TRUE}]
  <2>1. g[s] = step[<<s, g[s \ {ch[s]}]>>]
    BY <1>3, <1>4 DEF Recurses
  <2>2. <<s, g[s \ {ch[s]}]>> \in (SUBSET S) \X V
    OBVIOUS
  <2> QED BY <1>4, <2>1, <2>2
<1>5. g[{}] = 0
  BY <1>3 DEF Recurses
<1> QED BY <1>4, <1>5 DEF IsSum

(* The sum over a set is that of its first element and of the others.      *)
LEMMA SumOfSubsets ==
  ASSUME NEW S, IsFiniteSet(S), NEW f, NEW g, IsSum(g, S, f), NEW U \in SUBSET S
  PROVE  SumFunctionOnSet(f, U) = g[U]
<1> DEFINE gU == [s \in SUBSET U |-> g[s]]
<1>1. IsFiniteSet(U)
  BY FS_Subset
<1>2. IsSum(gU, U, f)
  <2>1. ASSUME NEW s \in SUBSET U
        PROVE  gU[s] = IF s = {} THEN 0
                       ELSE LET x == CHOOSE x \in s : TRUE IN f[x] + gU[s \ {x}]
    BY DEF IsSum
  <2> QED BY <2>1 DEF IsSum
<1>3. \A h : IsSum(h, U, f) => h = gU
  <2> HIDE DEF gU
  <2> QED BY <1>1, <1>2, SumIsUnique
<1>4. gU = CHOOSE h : IsSum(h, U, f)
  <2> HIDE DEF gU
  <2> QED BY <1>2, <1>3
<1>5. SumFunctionOnSet(f, U) = gU[U]
  <2> HIDE DEF gU
  <2> QED BY <1>4 DEF SumFunctionOnSet, FoldFunctionOnSet, MapThenFoldSet, IsSum
<1> QED BY <1>5

(* SumFunctionOnSet has the type of what it sums, and is zero on no        *)
(* elements.                                                               *)
LEMMA SumType ==
  ASSUME NEW S, IsFiniteSet(S), NEW V \in {Int, Nat}, NEW f, \A x \in S : f[x] \in V
  PROVE  SumFunctionOnSet(f, S) \in V /\ SumFunctionOnSet(f, {}) = 0
<1>1. PICK g \in [SUBSET S -> V] : IsSum(g, S, f)
  BY SumExists
<1>2. \A U \in SUBSET S : SumFunctionOnSet(f, U) = g[U]
  BY <1>1, SumOfSubsets
<1>3. g[{}] = 0
  BY <1>1 DEF IsSum
<1> QED BY <1>2, <1>3

(* A sum is any one of its terms plus the sum of the rest.                 *)
LEMMA SumStep ==
  ASSUME NEW S, IsFiniteSet(S), NEW f, \A x \in S : f[x] \in Int, NEW x \in S
  PROVE  SumFunctionOnSet(f, S) = f[x] + SumFunctionOnSet(f, S \ {x})
<1> DEFINE T == {U \in SUBSET S : \E y \in U : SumFunctionOnSet(f, U) # f[y] + SumFunctionOnSet(f, U \ {y})}
<1> SUFFICES ASSUME T # {} PROVE FALSE
  OBVIOUS
<1>1. PICK g \in [SUBSET S -> Int] : IsSum(g, S, f)
  BY SumExists
<1>2. \A U \in SUBSET S : SumFunctionOnSet(f, U) = g[U]
  BY <1>1, SumOfSubsets
<1>3. T = {U \in SUBSET S : \E y \in U : g[U] # f[y] + g[U \ {y}]}
  BY <1>2
<1> HIDE DEF T
<1>4. PICK U \in T : \A V \in T : V \subseteq U => V = U
  <2>1. T \subseteq SUBSET S
    BY <1>3
  <2> QED BY <2>1, MinimalSubset
<1>5. PICK y \in U : g[U] # f[y] + g[U \ {y}]
  BY <1>3
<1> DEFINE z == CHOOSE z \in U : TRUE
<1>6. z \in U /\ g[U] = f[z] + g[U \ {z}] /\ U \in SUBSET S
  BY <1>1, <1>3, <1>5 DEF IsSum
<1> HIDE DEF z
<1>7. y # z
  BY <1>5, <1>6
<1> DEFINE A == U \ {z}
           B == U \ {y}
<1>8. A \notin T /\ B \notin T /\ A \in SUBSET S /\ B \in SUBSET S /\ y \in A /\ z \in B
  BY <1>4, <1>5, <1>6, <1>7
<1>9. g[A] = f[y] + g[A \ {y}] /\ g[B] = f[z] + g[B \ {z}]
  <2> HIDE DEF A, B
  <2> QED BY <1>3, <1>8
<1>10. A \ {y} = B \ {z}
  OBVIOUS
<1>11. f[y] \in Int /\ f[z] \in Int /\ g[A \ {y}] \in Int
  BY <1>5, <1>6
<1>12. g[U] = f[z] + g[A] /\ g[U] # f[y] + g[B]
  BY <1>5, <1>6
<1>13. g[A] \in Int /\ g[B] \in Int /\ g[U] \in Int
  BY <1>6, <1>8
<1> HIDE DEF A, B
<1>14. g[B] = f[z] + g[A \ {y}]
  BY <1>9, <1>10
<1> QED BY <1>9, <1>14, <1>11, <1>12, <1>13

(* The sums of functions that agree on a set are equal.                    *)
LEMMA SumsAgree ==
  ASSUME NEW S, IsFiniteSet(S), NEW f, NEW g, \A x \in S : f[x] \in Int /\ g[x] = f[x]
  PROVE  SumFunctionOnSet(g, S) = SumFunctionOnSet(f, S)
<1>1. PICK G \in [SUBSET S -> Int] : IsSum(G, S, f)
  BY SumExists
<1>2. IsSum(G, S, g)
  BY <1>1 DEF IsSum
<1> QED BY <1>1, <1>2, SumOfSubsets

(* The sum over two disjoint sets is the sum of their sums.                *)
LEMMA SumOfUnion ==
  ASSUME NEW A, NEW B, IsFiniteSet(A), IsFiniteSet(B), A \cap B = {},
         NEW f, \A x \in A \cup B : f[x] \in Int
  PROVE  SumFunctionOnSet(f, A \cup B) = SumFunctionOnSet(f, A) + SumFunctionOnSet(f, B)
<1> DEFINE Adds(U) == SumFunctionOnSet(f, U \cup B) = SumFunctionOnSet(f, U) + SumFunctionOnSet(f, B)
           T == {U \in SUBSET A : ~Adds(U)}
<1> SUFFICES ASSUME T # {} PROVE FALSE
  OBVIOUS
<1>1. PICK U \in T : \A V \in T : V \subseteq U => V = U
  <2>1. T \subseteq SUBSET A
    OBVIOUS
  <2> HIDE DEF T
  <2> QED BY <2>1, MinimalSubset
<1>2. ASSUME NEW W \in SUBSET A
      PROVE  IsFiniteSet(W) /\ IsFiniteSet(W \cup B) /\ SumFunctionOnSet(f, W) \in Int
  BY FS_Subset, FS_Union, SumType
<1>3. SumFunctionOnSet(f, B) \in Int /\ SumFunctionOnSet(f, {}) = 0
  BY SumType
<1>4. PICK x \in U : TRUE
  <2>1. {} \cup B = B
    OBVIOUS
  <2>2. Adds({})
    BY <1>3, <2>1
  <2> QED BY <2>2
<1> DEFINE W == U \ {x}
<1>5. Adds(W)
  BY <1>1
<1>6. SumFunctionOnSet(f, U) = f[x] + SumFunctionOnSet(f, W)
  <2>1. IsFiniteSet(U) /\ \A y \in U : f[y] \in Int
    BY <1>2
  <2> QED BY <2>1, SumStep
<1>7. SumFunctionOnSet(f, U \cup B) = f[x] + SumFunctionOnSet(f, W \cup B)
  <2>1. (U \cup B) \ {x} = W \cup B
    OBVIOUS
  <2>2. IsFiniteSet(U \cup B) /\ (\A y \in U \cup B : f[y] \in Int) /\ x \in U \cup B
    BY <1>2
  <2>3. SumFunctionOnSet(f, U \cup B) = f[x] + SumFunctionOnSet(f, (U \cup B) \ {x})
    BY <2>2, SumStep
  <2> QED BY <2>1, <2>3
<1>8. f[x] \in Int /\ SumFunctionOnSet(f, W) \in Int
  BY <1>2
<1>9. Adds(U)
  <2> HIDE DEF W
  <2> QED BY <1>3, <1>5, <1>6, <1>7, <1>8
<1> QED BY <1>9

(* The sum over disjoint sets, one by one, is the sum over their union.    *)
LEMMA SumOfFibers ==
  ASSUME NEW D, IsFiniteSet(D), NEW F, NEW f,
         \A k \in D : IsFiniteSet(F[k]) /\ \A x \in F[k] : f[x] \in Int,
         \A k, l \in D : k # l => F[k] \cap F[l] = {}
  PROVE  SumFunctionOnSet([k \in D |-> SumFunctionOnSet(f, F[k])], D)
           = SumFunctionOnSet(f, UNION {F[k] : k \in D})
<1> DEFINE s == [k \in D |-> SumFunctionOnSet(f, F[k])]
           All(U) == UNION {F[k] : k \in U}
           T == {U \in SUBSET D : SumFunctionOnSet(s, U) # SumFunctionOnSet(f, All(U))}
<1> SUFFICES ASSUME T # {} PROVE FALSE
  OBVIOUS
<1>1. PICK U \in T : \A V \in T : V \subseteq U => V = U
  <2>1. T \subseteq SUBSET D
    OBVIOUS
  <2> HIDE DEF T
  <2> QED BY <2>1, MinimalSubset
<1>2. \A k \in D : s[k] \in Int
  <2> SUFFICES ASSUME NEW k \in D PROVE SumFunctionOnSet(f, F[k]) \in Int
    OBVIOUS
  <2> QED BY SumType
<1>3. U \subseteq D /\ IsFiniteSet(U)
  BY FS_Subset
<1> HIDE DEF s
<1>4. PICK x \in U : TRUE
  <2>1. SumFunctionOnSet(s, {}) = 0 /\ SumFunctionOnSet(f, {}) = 0
    BY FS_EmptySet, SumType
  <2>2. All({}) = {}
    OBVIOUS
  <2> QED BY <2>1, <2>2
<1> DEFINE W == U \ {x}
<1>5. SumFunctionOnSet(s, W) = SumFunctionOnSet(f, All(W))
  BY <1>1
<1>6. SumFunctionOnSet(s, U) = s[x] + SumFunctionOnSet(s, W)
  BY <1>2, <1>3, SumStep
<1>7. All(U) = F[x] \cup All(W) /\ F[x] \cap All(W) = {}
  <2>1. ASSUME NEW k \in W PROVE F[x] \cap F[k] = {}
    BY <1>3
  <2> QED BY <2>1
<1>8. IsFiniteSet(All(W)) /\ \A y \in F[x] \cup All(W) : f[y] \in Int
  <2>1. IsFiniteSet(W)
    BY <1>3, FS_RemoveElement
  <2>2. IsFiniteSet({F[k] : k \in W})
    <3> DEFINE g == [k \in W |-> F[k]]
    <3>1. g \in Surjection(W, {F[k] : k \in W})
      BY DEF Surjection
    <3> HIDE DEF g
    <3> QED BY <2>1, <3>1, FS_Surjection
  <2>3. IsFiniteSet(All(W))
    BY <1>3, <2>2, FS_UNION
  <2> QED BY <1>3, <2>3
<1>9. SumFunctionOnSet(f, All(U)) = SumFunctionOnSet(f, F[x]) + SumFunctionOnSet(f, All(W))
  <2> DEFINE B == All(W)
  <2>1. IsFiniteSet(F[x]) /\ IsFiniteSet(B) /\ F[x] \cap B = {} /\ \A y \in F[x] \cup B : f[y] \in Int
    BY <1>3, <1>7, <1>8
  <2> HIDE DEF B
  <2>2. SumFunctionOnSet(f, F[x] \cup B) = SumFunctionOnSet(f, F[x]) + SumFunctionOnSet(f, B)
    BY <2>1, SumOfUnion
  <2> QED BY <1>7, <2>2 DEF B
<1>10. s[x] = SumFunctionOnSet(f, F[x])
  BY <1>3 DEF s
<1> QED BY <1>5, <1>6, <1>9, <1>10

(* A finite set of numbers has a least and a greatest one.                 *)
LEMMA HasFirstAndLast ==
  ASSUME NEW S, IsFiniteSet(S), S # {}, \A x \in S : x \in Int
  PROVE  \E f \in S, l \in S : \A x \in S : f <= x /\ x <= l
<1> DEFINE Bounded(U) == \E f \in U, l \in U : \A x \in U : f <= x /\ x <= l
           T == {U \in SUBSET S : U # {} /\ ~Bounded(U)}
<1> SUFFICES ASSUME T # {} PROVE FALSE
  OBVIOUS
<1>1. PICK U \in T : \A V \in T : V \subseteq U => V = U
  <2>1. T \subseteq SUBSET S
    OBVIOUS
  <2> HIDE DEF T
  <2> QED BY <2>1, MinimalSubset
<1>2. U \in SUBSET S /\ U # {} /\ ~Bounded(U)
  OBVIOUS
<1>3. \A V \in SUBSET S : V # {} /\ V \subseteq U /\ V # U => Bounded(V)
  BY <1>1
<1> HIDE DEF T
<1>4. PICK x \in U : TRUE
  BY <1>2
<1>5. ASSUME NEW V, V = U \ {x}, V # {} PROVE FALSE
  <2>1. PICK f \in V, l \in V : \A y \in V : f <= y /\ y <= l
    BY ZenonT(60), <1>2, <1>3, <1>4, <1>5
  <2>2. x \in Int /\ f \in Int /\ l \in Int /\ \A y \in U : y \in Int /\ (y = x \/ y \in V)
    BY <1>2, <1>5
  <2>3. \E f1 \in {x, f}, l1 \in {x, l} : f1 <= f /\ f1 <= x /\ l <= l1 /\ x <= l1
    BY <2>2
  <2>4. PICK f1 \in {x, f}, l1 \in {x, l} : f1 <= f /\ f1 <= x /\ l <= l1 /\ x <= l1
    BY <2>3
  <2>5. f1 \in U /\ l1 \in U /\ f1 \in Int /\ l1 \in Int
    BY <1>5, <2>2, <2>4
  <2>6. \A y \in U : f1 <= y /\ y <= l1
    BY <2>1, <2>2, <2>4, <2>5
  <2> QED BY <1>2, <2>5, <2>6
<1>6. U \ {x} = {} => Bounded(U)
  <2> SUFFICES ASSUME U = {x} PROVE Bounded(U)
    BY <1>4
  <2>1. x \in Int
    BY <1>2
  <2> QED BY <2>1
<1> QED BY <1>2, <1>5, <1>6

-----------------------------------------------------------------------------
(* Insertion moves what follows by one, and changes nothing else.          *)
LEMMA Inserted ==
  ASSUME NEW S, NEW s \in Seq(S), NEW e \in S, NEW i \in 1 .. Len(s) + 1
  PROVE  /\ InsertAt(s, i, e) \in Seq(S)
         /\ Len(InsertAt(s, i, e)) = Len(s) + 1
         /\ DOMAIN InsertAt(s, i, e) = 1 .. Len(s) + 1
         /\ \A k \in 1 .. Len(s) + 1 :
              InsertAt(s, i, e)[k] = IF k < i THEN s[k] ELSE IF k = i THEN e ELSE s[k - 1]
<1> DEFINE before == SubSeq(s, 1, i - 1)
           after  == SubSeq(s, i, Len(s))
           upTo   == before \o <<e>>
<1>1. /\ before \in Seq(S) /\ Len(before) = i - 1
      /\ \A k \in 1 .. i - 1 : before[k] = s[k]
  BY SubSeqProperties
<1>2. /\ after \in Seq(S) /\ Len(after) = Len(s) - i + 1
      /\ \A k \in 1 .. Len(s) - i + 1 : after[k] = s[i + k - 1]
  BY SubSeqProperties
<1>3. /\ upTo \in Seq(S) /\ Len(upTo) = i
      /\ \A k \in 1 .. i : upTo[k] = IF k < i THEN before[k] ELSE e
  <2>1. <<e>> \in Seq(S) /\ Len(<<e>>) = 1 /\ <<e>>[1] = e
    OBVIOUS
  <2> HIDE DEF before
  <2>2. /\ before \o <<e>> \in Seq(S)
        /\ Len(before \o <<e>>) = Len(before) + Len(<<e>>)
        /\ \A k \in 1 .. Len(before) + Len(<<e>>) :
             (before \o <<e>>)[k] = IF k <= Len(before) THEN before[k] ELSE <<e>>[k - Len(before)]
    BY <1>1, <2>1, ConcatProperties
  <2> QED BY <1>1, <2>1, <2>2
<1>4. InsertAt(s, i, e) = upTo \o after
  BY DEF InsertAt
<1> HIDE DEF before, after, upTo
<1>5. /\ upTo \o after \in Seq(S) /\ Len(upTo \o after) = Len(s) + 1
      /\ \A k \in 1 .. Len(s) + 1 :
           (upTo \o after)[k] = IF k <= i THEN upTo[k] ELSE after[k - i]
  <2>1. /\ upTo \o after \in Seq(S)
        /\ Len(upTo \o after) = Len(upTo) + Len(after)
        /\ \A k \in 1 .. Len(upTo) + Len(after) :
             (upTo \o after)[k] = IF k <= Len(upTo) THEN upTo[k] ELSE after[k - Len(upTo)]
    BY <1>2, <1>3, ConcatProperties
  <2>2. Len(upTo) = i /\ Len(after) = Len(s) - i + 1 /\ i + (Len(s) - i + 1) = Len(s) + 1
    BY <1>2, <1>3
  <2> QED BY <2>1, <2>2
<1> QED BY <1>1, <1>2, <1>3, <1>4, <1>5

(* In a sequence of integers that does not decrease, those below x come    *)
(* first, and their number is the place of the last.                       *)
LEMMA SortedPrefix ==
  ASSUME NEW n \in Nat, NEW f, \A k \in 1 .. n : f[k] \in Int,
         \A j, k \in 1 .. n : j < k => f[j] <= f[k], NEW x \in Int
  PROVE  LET c == Cardinality({k \in 1 .. n : f[k] < x})
         IN c \in 0 .. n /\ \A k \in 1 .. n : f[k] < x <=> k <= c
<1> DEFINE B == {k \in 1 .. n : f[k] < x}
<1>1. PICK m \in 0 .. n : B = 1 .. m
  <2>1. CASE B = {}
    BY <2>1
  <2>2. CASE B # {}
    <3>1. IsFiniteSet(B) /\ \A k \in B : k \in Int
      <4>1. B \subseteq 1 .. n /\ IsFiniteSet(1 .. n)
        BY FS_Interval
      <4> QED BY <4>1, FS_Subset
    <3>2. PICK m \in B : \A k \in B : k <= m
      <4> HIDE DEF B
      <4> QED BY <2>2, <3>1, HasFirstAndLast
    <3>3. \A k \in 1 .. n : k <= m => f[k] < x
      BY <3>2
    <3> QED BY <3>2, <3>3
  <2> QED BY <2>1, <2>2
<1> HIDE DEF B
<1>2. Cardinality(1 .. m) = m
  BY FS_Interval
<1>3. Cardinality(B) = m /\ \A k \in 1 .. n : k \in B <=> k <= m
  BY <1>1, <1>2
<1> QED BY <1>3 DEF B

(* By a key, a sequence does not decrease.                                 *)
NonDecreasing(key, s) == \A j, k \in DOMAIN s : j < k => key[s[j]] <= key[s[k]]

Beside(x, y) == x = y \/ x = y + 1

(* How many of its elements have a key below x.                            *)
Below(key, s, x) == Cardinality({k \in DOMAIN s : key[s[k]] < x})

(* What is inserted behind the elements with a lesser key, or a key that   *)
(* is not greater, leaves a sequence that does not decrease so.            *)
LEMMA InsertedInOrder ==
  ASSUME NEW S, NEW s \in Seq(S), NEW e \in S, NEW key \in [S -> Int], NonDecreasing(key, s),
         NEW x \in Int, Beside(x, key[e]), NEW c, c = Below(key, s, x)
  PROVE  /\ c \in 0 .. Len(s)
         /\ InsertAt(s, c + 1, e) \in Seq(S) /\ Len(InsertAt(s, c + 1, e)) = Len(s) + 1
         /\ InsertAt(s, c + 1, e)[c + 1] = e
         /\ NonDecreasing(key, InsertAt(s, c + 1, e))
         /\ ToSet(InsertAt(s, c + 1, e)) = ToSet(s) \cup {e}
<1> DEFINE f == [k \in 1 .. Len(s) |-> key[s[k]]]
           t == InsertAt(s, c + 1, e)
           l == Len(s)
<1>1. l \in Nat /\ DOMAIN s = 1 .. l /\ \A k \in 1 .. l : s[k] \in S /\ f[k] = key[s[k]] /\ f[k] \in Int
  OBVIOUS
<1>2. x \in Int /\ key[e] \in Int /\ c = Cardinality({k \in 1 .. l : f[k] < x})
  <2> DEFINE A == {k \in 1 .. l : f[k] < x}
             B == {k \in DOMAIN s : key[s[k]] < x}
  <2>1. A = B
    BY <1>1
  <2>2. c = Cardinality(B) /\ key[e] \in Int
    BY DEF Below
  <2> HIDE DEF A, B
  <2>3. c = Cardinality(A) /\ key[e] \in Int /\ x \in Int
    BY <2>1, <2>2
  <2> QED BY <2>3 DEF A
<1>3. \A j, k \in 1 .. l : j < k => f[j] <= f[k]
  BY <1>1 DEF NonDecreasing
<1> HIDE DEF f
<1>4. c \in 0 .. l /\ \A k \in 1 .. l : f[k] < x <=> k <= c
  <2> HIDE DEF l
  <2> DEFINE d == Cardinality({k \in 1 .. l : f[k] < x})
  <2>1. d \in 0 .. l /\ \A k \in 1 .. l : f[k] < x <=> k <= d
    BY <1>1, <1>2, <1>3, SortedPrefix
  <2>2. c = d
    BY <1>2
  <2> HIDE DEF d
  <2> QED BY <2>1, <2>2
<1>5. /\ t \in Seq(S) /\ Len(t) = l + 1 /\ DOMAIN t = 1 .. l + 1
      /\ \A k \in 1 .. l + 1 : t[k] = IF k < c + 1 THEN s[k] ELSE IF k = c + 1 THEN e ELSE s[k - 1]
  <2> DEFINE p == c + 1
  <2>1. p \in 1 .. Len(s) + 1
    BY <1>1, <1>4
  <2> HIDE DEF p
  <2>2. /\ InsertAt(s, p, e) \in Seq(S)
        /\ Len(InsertAt(s, p, e)) = Len(s) + 1
        /\ DOMAIN InsertAt(s, p, e) = 1 .. Len(s) + 1
        /\ \A k \in 1 .. Len(s) + 1 :
             InsertAt(s, p, e)[k] = IF k < p THEN s[k] ELSE IF k = p THEN e ELSE s[k - 1]
    BY <2>1, Inserted
  <2> QED BY <2>2 DEF p
<1> HIDE DEF t, l
<1>6. t[c + 1] = e
  <2>1. c + 1 \in 1 .. l + 1 /\ ~(c + 1 < c + 1)
    BY <1>1, <1>4
  <2> QED BY <1>5, <2>1
<1>9. \A k \in 1 .. l + 1 : k < c + 1 => k \in 1 .. l /\ t[k] = s[k]
  <2> SUFFICES ASSUME NEW k \in 1 .. l + 1, k < c + 1
               PROVE  k \in 1 .. l /\ t[k] = s[k]
    OBVIOUS
  <2> QED BY <1>1, <1>4, <1>5
<1>10. \A k \in 1 .. l + 1 : k > c + 1 => k - 1 \in 1 .. l /\ t[k] = s[k - 1]
  <2> SUFFICES ASSUME NEW k \in 1 .. l + 1, k > c + 1
               PROVE  k - 1 \in 1 .. l /\ t[k] = s[k - 1]
    OBVIOUS
  <2>1. k \in Int /\ c \in Int /\ ~(k < c + 1) /\ ~(k = c + 1)
    BY <1>1, <1>4
  <2>2. t[k] = s[k - 1]
    BY <1>5, <2>1
  <2> QED BY <1>1, <1>4, <2>1, <2>2
<1>11. NonDecreasing(key, t)
  <2> SUFFICES ASSUME NEW j \in 1 .. l + 1, NEW k \in 1 .. l + 1, j < k
               PROVE  key[t[j]] <= key[t[k]]
    BY <1>5 DEF NonDecreasing
  <2>1. \A m \in 1 .. l : (m <= c => f[m] <= key[e]) /\ (~(m <= c) => key[e] <= f[m])
    BY <1>1, <1>2, <1>4 DEF Beside
  <2>a. ASSUME NEW m \in 1 .. l + 1
        PROVE  /\ m < c + 1 => m \in 1 .. l /\ key[t[m]] = f[m]
               /\ m > c + 1 => m - 1 \in 1 .. l /\ key[t[m]] = f[m - 1]
    BY <1>1, <1>9, <1>10
  <2>2. /\ j < c + 1 => j \in 1 .. l /\ key[t[j]] = f[j]
        /\ j > c + 1 => j - 1 \in 1 .. l /\ key[t[j]] = f[j - 1]
    BY <2>a
  <2>3. /\ k < c + 1 => k \in 1 .. l /\ key[t[k]] = f[k]
        /\ k > c + 1 => k - 1 \in 1 .. l /\ key[t[k]] = f[k - 1]
    BY <2>a
  <2>4. CASE k < c + 1
    BY <1>1, <1>3, <1>4, <2>2, <2>3, <2>4
  <2>5. CASE k = c + 1
    BY <1>1, <1>4, <1>6, <2>1, <2>2, <2>5
  <2>6. CASE k > c + 1 /\ j = c + 1
    BY <1>1, <1>4, <1>6, <2>1, <2>3, <2>6
  <2>7. CASE k > c + 1 /\ j < c + 1
    <3>1. j < k - 1 /\ j \in 1 .. l /\ k - 1 \in 1 .. l
      BY <1>4, <2>2, <2>3, <2>7
    <3> QED BY <1>1, <1>3, <2>2, <2>3, <2>7, <3>1
  <2>8. CASE k > c + 1 /\ j > c + 1
    <3>1. j - 1 < k - 1 /\ j - 1 \in 1 .. l /\ k - 1 \in 1 .. l
      BY <1>4, <2>2, <2>3, <2>8
    <3> QED BY <1>1, <1>3, <2>2, <2>3, <2>8, <3>1
  <2> QED BY <1>4, <2>4, <2>5, <2>6, <2>7, <2>8
<1>8. ToSet(t) = ToSet(s) \cup {e}
  <2>1. ASSUME NEW k \in 1 .. l PROVE s[k] \in ToSet(t)
    <3>1. CASE k <= c
      <4>1. k \in 1 .. l + 1 /\ t[k] = s[k]
        BY <1>1, <1>4, <1>9, <3>1
      <4> QED BY <1>5, <4>1 DEF ToSet
    <3>2. CASE ~(k <= c)
      <4>1. k + 1 \in 1 .. l + 1 /\ k + 1 > c + 1 /\ (k + 1) - 1 = k
        BY <1>1, <1>4, <3>2
      <4>2. t[k + 1] = s[k]
        BY <1>10, <4>1
      <4> QED BY <1>5, <4>1, <4>2 DEF ToSet
    <3> QED BY <3>1, <3>2
  <2>2. e \in ToSet(t)
    <3>1. c + 1 \in 1 .. l + 1
      BY <1>1, <1>4
    <3> QED BY <1>5, <1>6, <3>1 DEF ToSet
  <2>3. ASSUME NEW k \in 1 .. l + 1 PROVE t[k] = e \/ \E m \in 1 .. l : t[k] = s[m]
    <3>1. k < c + 1 \/ k = c + 1 \/ k > c + 1
      BY <1>4
    <3> QED BY <1>6, <1>9, <1>10, <3>1
  <2>4. ToSet(s) = {s[k] : k \in 1 .. l} /\ ToSet(t) = {t[k] : k \in 1 .. l + 1}
    BY <1>1, <1>5 DEF ToSet
  <2> HIDE DEF ToSet
  <2> QED BY <2>1, <2>2, <2>3, <2>4
<1> QED BY <1>1, <1>4, <1>5, <1>6, <1>8, <1>11 DEF t, l

(* Where something holds of none of 1 .. n but not of all, there is a first. *)
LEMMA LeastOf ==
  ASSUME NEW n \in Nat, NEW T, T \subseteq 0 .. n, T # {}
  PROVE  \E m \in T : \A k \in 0 .. n : k < m => k \notin T
<1>1. IsFiniteSet(T) /\ \A k \in T : k \in Int
  <2>1. IsFiniteSet(0 .. n)
    BY FS_Interval
  <2>2. IsFiniteSet(T)
    BY <2>1, FS_Subset
  <2> QED BY <2>2
<1>2. PICK m \in T : \A k \in T : m <= k
  BY <1>1, HasFirstAndLast
<1> QED BY <1>1, <1>2

(* g[i] is the concatenation of the first i of the sequences.              *)
Flattens(g, seqs, n) ==
  g = [i \in 1 .. n |-> IF i = 1 THEN seqs[i] ELSE g[i - 1] \o seqs[i]]

(* An element comes last, whether it is appended before or after joining.  *)
LEMMA AppendLast ==
  ASSUME NEW S, NEW s \in Seq(S), NEW t \in Seq(S), NEW x \in S
  PROVE  s \o Append(t, x) = Append(s \o t, x) /\ s \o t \in Seq(S)
<1> DEFINE u == <<x>>
<1>1. u \in Seq(S)
  OBVIOUS
<1>2. s \o t \in Seq(S) /\ Append(t, x) = t \o u /\ Append(s \o t, x) = (s \o t) \o u
  <2>1. s \o t \in Seq(S)
    BY ConcatProperties
  <2> QED BY <2>1, AppendIsConcat
<1> HIDE DEF u
<1>3. (s \o t) \o u = s \o (t \o u)
  BY <1>1, ConcatAssociative
<1> QED BY <1>2, <1>3

(* The concatenation of one sequence after the other is defined for every  *)
(* number of them.                                                         *)
LEMMA FlattensExists ==
  ASSUME NEW S, NEW seqs \in Seq(Seq(S)), Len(seqs) # 0
  PROVE  \E g : Flattens(g, seqs, Len(seqs))
<1> DEFINE Has(m) == \E g \in [1 .. m -> Seq(S)] : Flattens(g, seqs, m)
           n == Len(seqs)
           T == {m \in 0 .. n : ~Has(m)}
<1> SUFFICES ASSUME T # {} PROVE FALSE
  <2>1. n \in 0 .. n
    OBVIOUS
  <2> QED BY <2>1
<1>1. PICK m \in T : \A k \in 0 .. n : k < m => k \notin T
  <2>1. n \in Nat /\ T \subseteq 0 .. n
    OBVIOUS
  <2> HIDE DEF T, n
  <2> QED BY <2>1, LeastOf
<1>2. m # 0
  <2>1. [i \in 1 .. 0 |-> <<>>] \in [1 .. 0 -> Seq(S)]
    OBVIOUS
  <2>2. Flattens([i \in 1 .. 0 |-> <<>>], seqs, 0)
    BY DEF Flattens
  <2>3. Has(0)
    BY <2>1, <2>2
  <2> QED BY <2>3
<1>3. PICK g \in [1 .. m - 1 -> Seq(S)] : Flattens(g, seqs, m - 1)
  <2>1. m - 1 \in 0 .. n /\ m - 1 < m
    BY <1>2
  <2> QED BY <1>1, <2>1
<1> DEFINE h == [i \in 1 .. m |-> IF i < m THEN g[i]
                                ELSE IF i = 1 THEN seqs[i] ELSE g[i - 1] \o seqs[i]]
<1>4. h \in [1 .. m -> Seq(S)]
  <2> SUFFICES ASSUME NEW i \in 1 .. m
               PROVE  (IF i < m THEN g[i] ELSE IF i = 1 THEN seqs[i] ELSE g[i - 1] \o seqs[i]) \in Seq(S)
    OBVIOUS
  <2>1. seqs[i] \in Seq(S)
    OBVIOUS
  <2>2. i # 1 => g[i - 1] \in Seq(S)
    BY <1>3
  <2>3. i < m => g[i] \in Seq(S)
    BY <1>3
  <2> QED BY <2>1, <2>2, <2>3
<1>5. Flattens(h, seqs, m)
  <2> SUFFICES ASSUME NEW i \in 1 .. m
               PROVE  h[i] = IF i = 1 THEN seqs[i] ELSE h[i - 1] \o seqs[i]
    BY DEF Flattens
  <2>1. i # 1 => h[i - 1] = g[i - 1]
    BY <1>3
  <2>2. i < m => g[i] = IF i = 1 THEN seqs[i] ELSE g[i - 1] \o seqs[i]
    <3>1. i < m => i \in 1 .. m - 1
      OBVIOUS
    <3> QED BY <1>3, <3>1 DEF Flattens
  <2> QED BY <2>1, <2>2
<1> HIDE DEF h
<1>6. Has(m)
  BY <1>4, <1>5
<1> QED BY <1>6

(* The last sequence comes last in the concatenation.                      *)
LEMMA FlattenGrows ==
  ASSUME NEW S, NEW seqs \in Seq(Seq(S)), NEW s \in Seq(S)
  PROVE  FlattenSeq(Append(seqs, s)) = FlattenSeq(seqs) \o s
<1> DEFINE n == Len(seqs)
           t == Append(seqs, s)
<1>1. n \in Nat /\ t \in Seq(Seq(S)) /\ Len(t) = n + 1 /\ t[n + 1] = s
      /\ \A i \in 1 .. n : t[i] = seqs[i]
  BY AppendProperties
<1> HIDE DEF t
<1> DEFINE h == CHOOSE h : Flattens(h, t, n + 1)
<1>2. Flattens(h, t, n + 1) /\ FlattenSeq(t) = h[n + 1]
  <2>1. Len(t) # 0
    BY <1>1
  <2>2. \E g : Flattens(g, t, Len(t))
    BY <1>1, <2>1, FlattensExists
  <2>3. FlattenSeq(t) = h[n + 1]
    BY <1>1, <2>1 DEF FlattenSeq, Flattens
  <2>4. \E g : Flattens(g, t, n + 1)
    BY <1>1, <2>2
  <2> QED BY <2>3, <2>4
<1> HIDE DEF h
<1>3. h[n + 1] = IF n + 1 = 1 THEN t[n + 1] ELSE h[(n + 1) - 1] \o t[n + 1]
  <2>1. n + 1 \in 1 .. n + 1
    BY <1>1
  <2> QED BY <1>2, <2>1 DEF Flattens
<1>4. CASE n = 0
  <2>1. seqs = <<>> /\ FlattenSeq(seqs) = <<>> /\ <<>> \o s = s
    BY <1>4, ConcatEmptySeq DEF FlattenSeq
  <2> QED BY <1>1, <1>2, <1>3, <1>4, <2>1 DEF t
<1>5. CASE n # 0
  <2> DEFINE g == CHOOSE g : Flattens(g, seqs, n)
             T == {i \in 0 .. n : i # 0 /\ g[i] # h[i]}
  <2>1. Flattens(g, seqs, n) /\ FlattenSeq(seqs) = g[n]
    <3>1. \E f : Flattens(f, seqs, n)
      BY <1>5, FlattensExists
    <3> QED BY <1>5, <3>1 DEF FlattenSeq, Flattens
  <2> HIDE DEF g, n
  <2>2. T = {}
    <3> SUFFICES ASSUME T # {} PROVE FALSE
      OBVIOUS
    <3>1. PICK i \in T : \A k \in 0 .. n : k < i => k \notin T
      <4>1. T \subseteq 0 .. n
        OBVIOUS
      <4> HIDE DEF T
      <4> QED BY <1>1, <4>1, LeastOf
    <3>2. i \in 1 .. n /\ i \in 1 .. n + 1
      BY <1>1
    <3>3. /\ g[i] = IF i = 1 THEN seqs[i] ELSE g[i - 1] \o seqs[i]
          /\ h[i] = IF i = 1 THEN t[i] ELSE h[i - 1] \o t[i]
      BY <1>2, <2>1, <3>2 DEF Flattens
    <3>4. i # 1 => g[i - 1] = h[i - 1]
      <4>1. i # 1 => i - 1 \in 0 .. n /\ i - 1 < i /\ i - 1 # 0
        BY <1>1, <3>2
      <4> QED BY <3>1, <4>1
    <3> QED BY <1>1, <3>2, <3>3, <3>4
  <2>3. g[n] = h[n]
    <3>1. n \in 0 .. n
      BY <1>1
    <3> QED BY <1>5, <2>2, <3>1
  <2>4. (n + 1) - 1 = n /\ n + 1 # 1
    BY <1>1, <1>5
  <2> QED BY <1>1, <1>2, <1>3, <2>1, <2>3, <2>4 DEF t
<1> QED BY <1>4, <1>5

(* A concatenation has the elements of both sequences.                     *)
LEMMA ConcatSet ==
  ASSUME NEW S, NEW s \in Seq(S), NEW t \in Seq(S)
  PROVE  ToSet(s \o t) = ToSet(s) \cup ToSet(t)
<1>1. /\ s \o t \in Seq(S) /\ Len(s \o t) = Len(s) + Len(t)
      /\ \A i \in 1 .. Len(s) + Len(t) :
           (s \o t)[i] = IF i <= Len(s) THEN s[i] ELSE t[i - Len(s)]
  BY ConcatProperties
<1>2. ASSUME NEW u \in Seq(S) PROVE DOMAIN u = 1 .. Len(u) /\ Len(u) \in Nat
  OBVIOUS
<1> DEFINE st == s \o t
<1>3. DOMAIN st = 1 .. Len(s) + Len(t) /\ DOMAIN s = 1 .. Len(s) /\ DOMAIN t = 1 .. Len(t)
  BY <1>1, <1>2
<1>4. ASSUME NEW k \in 1 .. Len(t) PROVE t[k] \in ToSet(st)
  <2>1. k + Len(s) \in 1 .. Len(s) + Len(t) /\ ~(k + Len(s) <= Len(s)) /\ (k + Len(s)) - Len(s) = k
    BY <1>2
  <2>2. st[k + Len(s)] = t[k]
    BY <1>1, <2>1
  <2> QED BY <1>3, <2>1, <2>2 DEF ToSet
<1>5. ASSUME NEW k \in 1 .. Len(s) PROVE s[k] \in ToSet(st)
  <2>1. k \in 1 .. Len(s) + Len(t) /\ k <= Len(s)
    BY <1>2
  <2>2. st[k] = s[k]
    BY <1>1, <2>1
  <2> QED BY <1>3, <2>1, <2>2 DEF ToSet
<1>6. ASSUME NEW k \in 1 .. Len(s) + Len(t) PROVE st[k] \in ToSet(s) \cup ToSet(t)
  <2>1. st[k] = IF k <= Len(s) THEN s[k] ELSE t[k - Len(s)]
    BY <1>1
  <2>2. k <= Len(s) => k \in 1 .. Len(s)
    BY <1>2
  <2>3. ~(k <= Len(s)) => k - Len(s) \in 1 .. Len(t)
    BY <1>2
  <2> QED BY <1>3, <2>1, <2>2, <2>3 DEF ToSet
<1> HIDE DEF st
<1>7. ToSet(st) = ToSet(s) \cup ToSet(t)
  BY <1>3, <1>4, <1>5, <1>6 DEF ToSet
<1> QED BY <1>7 DEF st

(* A sequence of sequences becomes one that has the elements of them all.  *)
LEMMA Flattened ==
  ASSUME NEW S, NEW seqs \in Seq(Seq(S))
  PROVE  /\ FlattenSeq(seqs) \in Seq(S)
         /\ ToSet(FlattenSeq(seqs)) = UNION {ToSet(seqs[i]) : i \in 1 .. Len(seqs)}
<1>1. CASE Len(seqs) = 0
  <2>1. seqs = <<>>
    BY <1>1
  <2> QED BY <1>1, <2>1 DEF FlattenSeq, ToSet
<1>2. CASE Len(seqs) # 0
  <2> DEFINE n == Len(seqs)
             g == CHOOSE g : Flattens(g, seqs, n)
             All(i) == UNION {ToSet(seqs[j]) : j \in 1 .. i}
             T == {i \in 0 .. n : i # 0 /\ ~(g[i] \in Seq(S) /\ ToSet(g[i]) = All(i))}
  <2>1. Flattens(g, seqs, n)
    BY <1>2, FlattensExists
  <2>2. FlattenSeq(seqs) = g[n]
    BY <1>2 DEF FlattenSeq, Flattens
  <2> HIDE DEF g
  <2>3. T = {}
    <3> SUFFICES ASSUME T # {} PROVE FALSE
      OBVIOUS
    <3>1. PICK i \in T : \A k \in 0 .. n : k < i => k \notin T
      <4>1. n \in Nat /\ T \subseteq 0 .. n
        OBVIOUS
      <4> HIDE DEF T, n
      <4> QED BY <4>1, LeastOf
    <3>2. i \in 1 .. n /\ seqs[i] \in Seq(S)
      OBVIOUS
    <3>3. g[i] = IF i = 1 THEN seqs[i] ELSE g[i - 1] \o seqs[i]
      BY <2>1, <3>2 DEF Flattens
    <3>4. CASE i = 1
      <4>1. All(1) = ToSet(seqs[1])
        <5>1. 1 .. 1 = {1}
          OBVIOUS
        <5> QED BY <5>1
      <4> QED BY <3>2, <3>3, <3>4, <4>1
    <3>5. CASE i # 1
      <4>1. g[i - 1] \in Seq(S) /\ ToSet(g[i - 1]) = All(i - 1)
        <5>1. i - 1 \in 0 .. n /\ i - 1 < i /\ i - 1 # 0
          BY <3>2, <3>5
        <5> QED BY <3>1, <5>1
      <4>2. g[i] \in Seq(S)
        BY <3>2, <3>3, <3>5, <4>1, ConcatProperties
      <4>3. ToSet(g[i]) = ToSet(g[i - 1]) \cup ToSet(seqs[i])
        BY <3>2, <3>3, <3>5, <4>1, ConcatSet
      <4>4. All(i) = All(i - 1) \cup ToSet(seqs[i])
        <5>1. 1 .. i = (1 .. i - 1) \cup {i}
          BY <3>2
        <5> QED BY <5>1
      <4> QED BY <4>1, <4>2, <4>3, <4>4
    <3> QED BY <3>4, <3>5
  <2>4. n \in 0 .. n /\ n # 0
    BY <1>2
  <2> QED BY <2>2, <2>3, <2>4
<1> QED BY <1>1, <1>2

(* The elements of a set of numbers can be put in order; a sequence of     *)
(* them that is in order and of their number has them all.                 *)
Ascending(s) == \A j, k \in DOMAIN s : j < k => s[j] < s[k]

(* The elements of a finite set of numbers can be put in ascending order.  *)
LEMMA OrderExists ==
  ASSUME NEW S, IsFiniteSet(S), \A x \in S : x \in Int
  PROVE  \E s \in [1 .. Cardinality(S) -> S] : Ascending(s)
<1> DEFINE Has(U) == \E s \in [1 .. Cardinality(U) -> U] : Ascending(s)
           T == {U \in SUBSET S : ~Has(U)}
<1> SUFFICES ASSUME T # {} PROVE FALSE
  OBVIOUS
<1>1. PICK U \in T : \A V \in T : V \subseteq U => V = U
  <2>1. T \subseteq SUBSET S
    OBVIOUS
  <2> HIDE DEF T
  <2> QED BY <2>1, MinimalSubset
<1>2. U \subseteq S /\ IsFiniteSet(U) /\ ~Has(U)
  BY FS_Subset
<1>3. U # {}
  <2>1. Cardinality({}) = 0 /\ 1 .. 0 = {}
    BY FS_EmptySet
  <2>2. [k \in {} |-> 0] \in [{} -> {}] /\ Ascending([k \in {} |-> 0])
    BY DEF Ascending
  <2>3. Has({})
    BY <2>1, <2>2
  <2> QED BY <1>2, <2>3
<1>4. PICK l \in U : \A x \in U : x <= l
  BY <1>2, <1>3, HasFirstAndLast
<1> DEFINE W == U \ {l}
           n == Cardinality(W)
<1>5. IsFiniteSet(W) /\ n \in Nat /\ Cardinality(U) = n + 1
  <2>1. IsFiniteSet(W) /\ Cardinality(W) = Cardinality(U) - 1
    BY <1>2, <1>4, FS_RemoveElement
  <2>2. Cardinality(W) \in Nat /\ Cardinality(U) \in Nat
    BY <1>2, <2>1, FS_CardinalityType
  <2> HIDE DEF W
  <2> QED BY <2>1, <2>2
<1>6. PICK r \in [1 .. n -> W] : Ascending(r)
  <2>1. W \in SUBSET S /\ W \subseteq U /\ W # U
    BY <1>2
  <2> HIDE DEF W
  <2> QED BY <1>1, <2>1
<1> HIDE DEF n
<1> DEFINE s == [k \in 1 .. n + 1 |-> IF k <= n THEN r[k] ELSE l]
<1>7. s \in [1 .. n + 1 -> U]
  BY <1>5
<1>8. Ascending(s)
  <2> SUFFICES ASSUME NEW j \in 1 .. n + 1, NEW k \in 1 .. n + 1, j < k
               PROVE  s[j] < s[k]
    BY DEF Ascending
  <2>1. j \in 1 .. n /\ s[j] = r[j]
    BY <1>5
  <2>2. CASE k <= n
    BY <1>5, <1>6, <2>1, <2>2 DEF Ascending
  <2>3. CASE ~(k <= n)
    BY <1>2, <1>4, <1>5, <2>1, <2>3
  <2> QED BY <2>2, <2>3
<1> QED BY <1>2, <1>5, <1>7, <1>8

(* A sequence of a set's elements that is ascending and of their number    *)
(* has them all.                                                           *)
LEMMA OrderIsOnto ==
  ASSUME NEW S, IsFiniteSet(S), \A x \in S : x \in Int,
         NEW s \in [1 .. Cardinality(S) -> S], Ascending(s)
  PROVE  s \in Seq(S) /\ ToSet(s) = S
<1> DEFINE n == Cardinality(S)
<1>1. n \in Nat
  BY FS_CardinalityType
<1>2. s \in Injection(1 .. n, S)
  <2> SUFFICES ASSUME NEW j \in 1 .. n, NEW k \in 1 .. n, s[j] = s[k]
               PROVE  j = k
    BY DEF Injection, IsInjective
  <2>1. s[j] \in Int /\ s[k] \in Int
    OBVIOUS
  <2>2. ~(j < k) /\ ~(k < j)
    BY <2>1 DEF Ascending
  <2> QED BY <1>1, <2>2
<1>3. Cardinality(1 .. n) = n
  BY <1>1, FS_Interval
<1> HIDE DEF n
<1>4. s \in Surjection(1 .. n, S)
  BY <1>2, <1>3, FS_Injection DEF n
<1>5. DOMAIN s = 1 .. n /\ \A x \in S : \E k \in 1 .. n : s[k] = x
  BY <1>4 DEF Surjection
<1>6. s \in Seq(S)
  BY <1>1, <1>4 DEF Surjection
<1> QED BY <1>5, <1>6 DEF ToSet, n

(* Selections' InOrder is the one sequence that is so.                     *)
LEMMA InOrderIs ==
  ASSUME NEW S, IsFiniteSet(S), \A x \in S : x \in Int,
         NEW s \in [1 .. Cardinality(S) -> S], Ascending(s)
  PROVE  InOrder(S) = s
<1> DEFINE n == Cardinality(S)
           Under(x) == {y \in S : y < x}
<1>1. n \in Nat
  BY FS_CardinalityType
<1>2. s \in [1 .. n -> S] /\ Ascending(s)
  OBVIOUS
<1>3. s \in Seq(S) /\ ToSet(s) = S
  BY <1>2, OrderIsOnto
<1>4. /\ \A x \in S : \E k \in 1 .. n : s[k] = x
      /\ \A k \in 1 .. n : s[k] \in S /\ s[k] \in Int
  <2>1. DOMAIN s = 1 .. n
    BY <1>2
  <2> QED BY <1>2, <1>3, <2>1 DEF ToSet
<1> HIDE DEF n
<1>5. ASSUME NEW k \in 1 .. n
      PROVE  Cardinality(Under(s[k])) = k - 1
  <2> DEFINE f == [j \in 1 .. k - 1 |-> s[j]]
  <2>1. ASSUME NEW j \in 1 .. n PROVE s[j] < s[k] <=> j < k
    <3>1. j < k => s[j] < s[k]
      BY <1>2 DEF Ascending
    <3>2. k < j => s[k] < s[j]
      BY <1>2 DEF Ascending
    <3>3. s[j] \in Int /\ s[k] \in Int /\ j \in Int /\ k \in Int
      BY <1>4
    <3> QED BY <3>1, <3>2, <3>3
  <2>2. \A j \in 1 .. k - 1 : j \in 1 .. n /\ j < k
    BY <1>1
  <2>3. f \in Injection(1 .. k - 1, Under(s[k]))
    <3>1. ASSUME NEW i \in 1 .. k - 1, NEW j \in 1 .. k - 1, f[i] = f[j] PROVE i = j
      <4>1. i \in 1 .. n /\ j \in 1 .. n /\ s[i] = s[j] /\ s[i] \in Int
        BY <1>4, <2>2, <3>1
      <4>2. (i < j => s[i] < s[j]) /\ (j < i => s[j] < s[i])
        BY <1>2, <4>1 DEF Ascending
      <4> QED BY <4>1, <4>2
    <3>2. f \in [1 .. k - 1 -> Under(s[k])]
      BY <1>2, <2>1, <2>2
    <3> QED BY <3>1, <3>2 DEF Injection, IsInjective
  <2>4. ASSUME NEW y \in Under(s[k]) PROVE \E j \in 1 .. k - 1 : f[j] = y
    <3>1. PICK j \in 1 .. n : s[j] = y
      BY <1>4
    <3>2. j < k
      BY <2>1, <3>1
    <3>3. j \in 1 .. k - 1
      BY <1>1, <3>2
    <3> QED BY <3>1, <3>3
  <2>5. f \in Surjection(1 .. k - 1, Under(s[k]))
    BY <2>3, <2>4 DEF Surjection, Injection
  <2>6. IsFiniteSet(1 .. k - 1) /\ Cardinality(1 .. k - 1) = k - 1
    BY <1>1, FS_Interval
  <2> HIDE DEF f
  <2>7. f \in Bijection(1 .. k - 1, Under(s[k]))
    BY <2>3, <2>5 DEF Bijection
  <2>8. ExistsBijection(1 .. k - 1, Under(s[k]))
    BY <2>7 DEF ExistsBijection
  <2> QED BY <2>6, <2>8, FS_Bijection
<1>6. ASSUME NEW k \in 1 .. n
      PROVE  (CHOOSE x \in S : Cardinality(Under(x)) = k - 1) = s[k]
  <2>1. s[k] \in S /\ Cardinality(Under(s[k])) = k - 1
    BY <1>2, <1>5
  <2>2. ASSUME NEW x \in S, Cardinality(Under(x)) = k - 1 PROVE x = s[k]
    <3>1. PICK j \in 1 .. n : s[j] = x
      BY <1>4
    <3>2. j - 1 = k - 1
      BY <1>5, <2>2, <3>1
    <3> QED BY <1>1, <3>1, <3>2
  <2> QED BY <2>1, <2>2
<1>7. InOrder(S) = [k \in 1 .. n |-> s[k]]
  BY <1>6 DEF InOrder, n
<1> QED BY <1>2, <1>7

(* It lists the set.                                                       *)
LEMMA InOrderLists ==
  ASSUME NEW S, IsFiniteSet(S), \A x \in S : x \in Int
  PROVE  /\ InOrder(S) \in [1 .. Cardinality(S) -> S] /\ Ascending(InOrder(S))
         /\ InOrder(S) \in Seq(S) /\ ToSet(InOrder(S)) = S
<1>1. PICK s \in [1 .. Cardinality(S) -> S] : Ascending(s)
  BY OrderExists
<1>2. InOrder(S) = s
  BY <1>1, InOrderIs
<1> QED BY <1>1, <1>2, OrderIsOnto

(* A number beyond all others comes last.                                  *)
LEMMA InOrderGrows ==
  ASSUME NEW S, IsFiniteSet(S), \A x \in S : x \in Int, NEW m \in Int, \A x \in S : x < m
  PROVE  /\ Cardinality(S \cup {m}) = Cardinality(S) + 1 /\ Cardinality(S) \in Nat
         /\ \A k \in 1 .. Cardinality(S) : InOrder(S \cup {m})[k] = InOrder(S)[k]
         /\ InOrder(S \cup {m})[Cardinality(S) + 1] = m
<1> DEFINE n == Cardinality(S)
           M == S \cup {m}
           s == [k \in 1 .. n + 1 |-> IF k <= n THEN InOrder(S)[k] ELSE m]
<1>1. IsFiniteSet(M) /\ Cardinality(M) = n + 1 /\ n \in Nat
  <2>1. m \notin S
    OBVIOUS
  <2> QED BY <2>1, FS_AddElement, FS_CardinalityType
<1>2. InOrder(S) \in [1 .. n -> S] /\ Ascending(InOrder(S))
  BY InOrderLists
<1>3. s \in [1 .. n + 1 -> M]
  BY <1>1, <1>2
<1>4. Ascending(s)
  <2> SUFFICES ASSUME NEW j \in 1 .. n + 1, NEW k \in 1 .. n + 1, j < k PROVE s[j] < s[k]
    BY <1>3 DEF Ascending
  <2>1. j \in 1 .. n /\ s[j] = InOrder(S)[j] /\ InOrder(S)[j] \in S
    BY <1>1, <1>2
  <2>2. CASE k \in 1 .. n
    BY <1>2, <2>1, <2>2 DEF Ascending
  <2>3. CASE k = n + 1
    BY <1>1, <2>1, <2>3
  <2> QED BY <1>1, <2>2, <2>3
<1>5. /\ \A x \in M : x \in Int
      /\ \A k \in 1 .. n : s[k] = InOrder(S)[k]
      /\ s[n + 1] = m
  BY <1>1
<1> HIDE DEF M, s, n
<1>6. InOrder(M) = s
  BY <1>1, <1>3, <1>4, <1>5, InOrderIs
<1> QED BY <1>1, <1>5, <1>6 DEF M, n

(* What a loop picks out of a sequence is of the sequence, each element    *)
(* once, and in its order.                                                 *)
LEMMA SelectedElements ==
  ASSUME NEW S, NEW s \in Seq(S), NEW I, I \subseteq DOMAIN s
  PROVE  /\ Selected(s, I) \in Seq(S) /\ Len(Selected(s, I)) = Cardinality(I)
         /\ ToSet(Selected(s, I)) = {s[i] : i \in I}
         /\ \E o \in [DOMAIN Selected(s, I) -> I] :
              /\ \A k \in DOMAIN o : Selected(s, I)[k] = s[o[k]]
              /\ \A j, k \in DOMAIN o : j < k => o[j] < o[k]
<1> DEFINE n == Cardinality(I)
           o == InOrder(I)
<1>1. DOMAIN s = 1 .. Len(s) /\ Len(s) \in Nat /\ \A i \in DOMAIN s : s[i] \in S
  OBVIOUS
<1>2. IsFiniteSet(I) /\ \A i \in I : i \in Int
  <2>1. IsFiniteSet(1 .. Len(s))
    BY <1>1, FS_Interval
  <2>2. I \subseteq 1 .. Len(s)
    BY <1>1
  <2> QED BY <2>1, <2>2, FS_Subset
<1>3. o \in [1 .. n -> I] /\ Ascending(o) /\ ToSet(o) = I
  BY <1>2, InOrderLists
<1>4. n \in Nat
  BY <1>2, FS_CardinalityType
<1>5. Selected(s, I) = [k \in 1 .. n |-> s[o[k]]]
  BY DEF Selected
<1> HIDE DEF n, o
<1>6. Selected(s, I) \in Seq(S) /\ Len(Selected(s, I)) = n /\ DOMAIN Selected(s, I) = 1 .. n
  <2>1. Selected(s, I) \in [1 .. n -> S]
    BY <1>1, <1>3, <1>5
  <2> QED BY <1>4, <2>1
<1>7. ToSet(Selected(s, I)) = {s[i] : i \in I}
  <2>1. DOMAIN o = 1 .. n
    BY <1>3
  <2>2. \A i \in I : \E k \in 1 .. n : o[k] = i
    BY <1>3, <2>1 DEF ToSet
  <2>3. \A k \in 1 .. n : o[k] \in I
    BY <1>3
  <2> QED BY <1>5, <1>6, <2>2, <2>3 DEF ToSet
<1>8. o \in [DOMAIN Selected(s, I) -> I] /\ DOMAIN o = 1 .. n
  BY <1>3, <1>6
<1> QED BY <1>3, <1>5, <1>6, <1>7, <1>8 DEF Ascending, n

(* What is picked does not depend on what follows, and the last element    *)
(* is picked last.                                                         *)
LEMMA SelectedGrows ==
  ASSUME NEW S, NEW s \in Seq(S), NEW e \in S, NEW I, I \subseteq DOMAIN s
  PROVE  /\ Selected(Append(s, e), I) = Selected(s, I)
         /\ Selected(Append(s, e), I \cup {Len(s) + 1}) = Append(Selected(s, I), e)
<1> DEFINE n == Cardinality(I)
           m == Len(s) + 1
           t == Append(s, e)
           I2 == I \cup {m}
<1>1. /\ DOMAIN s = 1 .. Len(s) /\ Len(s) \in Nat
      /\ \A i \in DOMAIN s : t[i] = s[i]
      /\ t[m] = e
  BY AppendProperties
<1>2. IsFiniteSet(I) /\ \A i \in I : i \in Int /\ i < m
  <2>1. IsFiniteSet(1 .. Len(s))
    BY <1>1, FS_Interval
  <2>2. I \subseteq 1 .. Len(s)
    BY <1>1
  <2>3. \A i \in I : i \in Int /\ i < m
    BY <1>1, <2>2
  <2> QED BY <2>1, <2>2, <2>3, FS_Subset
<1>3. InOrder(I) \in [1 .. n -> I]
  BY <1>2, InOrderLists
<1>4. /\ Cardinality(I2) = n + 1 /\ n \in Nat
      /\ \A k \in 1 .. n : InOrder(I2)[k] = InOrder(I)[k]
      /\ InOrder(I2)[n + 1] = m
  <2>1. m \in Int
    BY <1>1
  <2> HIDE DEF m
  <2> QED BY <1>2, <2>1, InOrderGrows
<1>5. Selected(s, I) \in Seq(S) /\ Len(Selected(s, I)) = n
  BY SelectedElements
<1>6. /\ Selected(s, I) = [k \in 1 .. n |-> s[InOrder(I)[k]]]
      /\ Selected(t, I) = [k \in 1 .. n |-> t[InOrder(I)[k]]]
      /\ Selected(t, I2) = [k \in 1 .. n + 1 |-> t[InOrder(I2)[k]]]
  BY <1>4 DEF Selected
<1>7. \A k \in 1 .. n : t[InOrder(I)[k]] = s[InOrder(I)[k]]
  BY <1>1, <1>3
<1>8. Append(Selected(s, I), e) = [k \in 1 .. n + 1 |-> IF k <= n THEN Selected(s, I)[k] ELSE e]
  <2> DEFINE q == Selected(s, I)
  <2>1. q \in Seq(S) /\ Len(q) = n
    BY <1>5
  <2> HIDE DEF q
  <2> DEFINE a == Append(q, e)
  <2>2. a \in Seq(S) /\ Len(a) = n + 1 /\ a[n + 1] = e /\ \A k \in 1 .. n : a[k] = q[k]
    BY <2>1, AppendProperties
  <2> HIDE DEF a
  <2>3. a = [k \in 1 .. n + 1 |-> a[k]]
    BY <2>2
  <2>4. \A k \in 1 .. n + 1 : a[k] = IF k <= n THEN q[k] ELSE e
    <3> SUFFICES ASSUME NEW k \in 1 .. n + 1 PROVE a[k] = IF k <= n THEN q[k] ELSE e
      OBVIOUS
    <3>1. k <= n => k \in 1 .. n
      BY <1>4
    <3>2. ~(k <= n) => k = n + 1
      BY <1>4
    <3> QED BY <2>2, <3>1, <3>2
  <2>5. a = [k \in 1 .. n + 1 |-> IF k <= n THEN q[k] ELSE e]
    BY <2>3, <2>4
  <2> QED BY <2>5 DEF a, q
<1> HIDE DEF n, m, t, I2
<1>9. Selected(t, I) = Selected(s, I)
  BY <1>6, <1>7
<1>10. Selected(t, I2) = Append(Selected(s, I), e)
  <2>1. \A k \in 1 .. n + 1 : t[InOrder(I2)[k]] = IF k <= n THEN Selected(s, I)[k] ELSE e
    <3> SUFFICES ASSUME NEW k \in 1 .. n + 1
                 PROVE  t[InOrder(I2)[k]] = IF k <= n THEN Selected(s, I)[k] ELSE e
      OBVIOUS
    <3>1. CASE k <= n
      <4>1. k \in 1 .. n
        BY <1>4, <3>1
      <4> QED BY <1>4, <1>6, <1>7, <3>1, <4>1
    <3>2. CASE ~(k <= n)
      <4>1. k = n + 1
        BY <1>4, <3>2
      <4> QED BY <1>1, <1>4, <3>2, <4>1
    <3> QED BY <3>1, <3>2
  <2> QED BY <1>6, <1>8, <2>1
<1> QED BY <1>9, <1>10 DEF t, I2, m

(* The greatest and the least of a finite set of numbers.                  *)
LEMMA Extremes ==
  ASSUME NEW S, IsFiniteSet(S), S # {}, \A x \in S : x \in Int
  PROVE  /\ Max(S) \in S /\ \A x \in S : x <= Max(S)
         /\ Min(S) \in S /\ \A x \in S : Min(S) <= x
<1>1. PICK f \in S, l \in S : \A x \in S : f <= x /\ x <= l
  BY HasFirstAndLast
<1>2. \E x \in S : \A y \in S : x >= y
  BY <1>1
<1>3. Max(S) \in S /\ \A y \in S : Max(S) >= y
  BY <1>2 DEF Max
<1>4. Min(S) \in S /\ \A y \in S : Min(S) <= y
  BY <1>1 DEF Min
<1> QED BY <1>3, <1>4

(* What is picked last has the greatest of the indices.                    *)
LEMMA SelectedLast ==
  ASSUME NEW S, NEW s \in Seq(S), NEW I, I \subseteq DOMAIN s
  PROVE  /\ I = {} => Selected(s, I) = <<>>
         /\ I # {} => Selected(s, I) # <<>> /\ Last(Selected(s, I)) = s[Max(I)]
<1> DEFINE o == InOrder(I)
           n == Cardinality(I)
<1>1. IsFiniteSet(I) /\ \A x \in I : x \in Int
  <2>1. DOMAIN s = 1 .. Len(s) /\ Len(s) \in Nat
    OBVIOUS
  <2>2. IsFiniteSet(1 .. Len(s))
    BY <2>1, FS_Interval
  <2> QED BY <2>1, <2>2, FS_Subset
<1>2. n \in Nat /\ (I = {} => n = 0) /\ (I # {} => n # 0)
  BY <1>1, FS_CardinalityType, FS_EmptySet
<1>3. o \in [1 .. n -> I] /\ Ascending(o) /\ ToSet(o) = I
  BY <1>1, InOrderLists
<1> HIDE DEF o, n
<1>4. Selected(s, I) = [k \in 1 .. n |-> s[o[k]]]
  BY DEF Selected, o, n
<1>5. CASE I = {}
  <2>1. 1 .. n = {}
    BY <1>2, <1>5
  <2>2. Selected(s, I) \in Seq(S) /\ Len(Selected(s, I)) = 0
    BY <1>2, <1>5, SelectedElements DEF n
  <2> QED BY <1>5, <2>2, EmptySeq
<1>6. CASE I # {}
  <2>1. n \in 1 .. n /\ \A k \in 1 .. n : k <= n
    BY <1>2, <1>6
  <2>2. \A k \in 1 .. n : o[k] <= o[n]
    <3> SUFFICES ASSUME NEW k \in 1 .. n PROVE o[k] <= o[n]
      OBVIOUS
    <3>1. o[k] \in Int /\ o[n] \in Int
      BY <1>1, <1>3, <2>1
    <3>2. CASE k = n
      BY <3>1, <3>2
    <3>3. CASE k < n
      <4>1. o[k] < o[n]
        BY <1>3, <2>1, <3>3 DEF Ascending
      <4> QED BY <3>1, <4>1
    <3> QED BY <1>2, <2>1, <3>2, <3>3
  <2>3. o[n] \in I /\ \A x \in I : x <= o[n]
    BY <1>3, <2>1, <2>2 DEF ToSet
  <2>4. Max(I) \in I /\ \A x \in I : x <= Max(I)
    BY <1>1, <1>6, Extremes
  <2>5. Max(I) = o[n]
    <3>1. PICK a \in Int, b \in Int : a = Max(I) /\ b = o[n]
      BY <1>1, <2>3, <2>4
    <3>2. a <= b /\ b <= a
      BY <2>3, <2>4, <3>1
    <3> QED BY <3>1, <3>2
  <2>6. Selected(s, I) \in Seq(S) /\ Len(Selected(s, I)) = n
    BY SelectedElements DEF n
  <2>7. Last(Selected(s, I)) = Selected(s, I)[n]
    BY <2>6 DEF Last
  <2>8. Selected(s, I) # <<>>
    BY <1>2, <1>6, <2>6, EmptySeq
  <2>9. Selected(s, I)[n] = s[o[n]]
    BY <1>4, <2>1
  <2>10. Last(Selected(s, I)) = s[Max(I)]
    BY <2>5, <2>7, <2>9
  <2> QED BY <1>6, <2>8, <2>10
<1>7. I = {} => Selected(s, I) = <<>>
  BY <1>5
<1>8. I # {} => Selected(s, I) # <<>> /\ Last(Selected(s, I)) = s[Max(I)]
  BY <1>6
<1> QED BY <1>7, <1>8

(* A fold over a sequence takes the greatest of its indices last.          *)
LEMMA GreatestIndex ==
  ASSUME NEW n \in Nat
  PROVE  /\ \A s \in SUBSET (1 .. n) : s # {} => Max(s) \in s
         /\ \A m \in 1 .. n : Max(1 .. m) = m /\ (1 .. m) \ {m} = 1 .. m - 1
<1>1. ASSUME NEW s \in SUBSET (1 .. n), s # {}
      PROVE  Max(s) \in s /\ \A x \in s : x <= Max(s)
  <2>1. IsFiniteSet(1 .. n)
    BY FS_Interval
  <2>2. IsFiniteSet(s)
    BY <2>1, FS_Subset
  <2>3. \A x \in s : x \in Int
    OBVIOUS
  <2> QED BY <1>1, <2>2, <2>3, Extremes
<1>2. ASSUME NEW m \in 1 .. n PROVE Max(1 .. m) = m
  <2>1. 1 .. m \in SUBSET (1 .. n) /\ m \in 1 .. m
    OBVIOUS
  <2>2. Max(1 .. m) \in 1 .. m /\ m <= Max(1 .. m)
    BY <1>1, <2>1
  <2> QED BY <2>2
<1>3. \A m \in 1 .. n : (1 .. m) \ {m} = 1 .. m - 1
  OBVIOUS
<1> QED BY <1>1, <1>2, <1>3

(* A function has no more values than arguments.                           *)
LEMMA ImageOf ==
  ASSUME NEW S, IsFiniteSet(S), NEW f
  PROVE  IsFiniteSet({f[x] : x \in S}) /\ Cardinality({f[x] : x \in S}) <= Cardinality(S)
<1> DEFINE T == {f[x] : x \in S}
           g == [x \in S |-> f[x]]
<1>1. g \in Surjection(S, T)
  BY DEF Surjection
<1> QED BY <1>1, FS_Surjection

(* A recursion that takes the greatest of its indices last, as a fold over *)
(* a sequence does ...                                                     *)
TakesLast(h, n, base, step) ==
  h = [s \in SUBSET (1 .. n) |-> IF s = {} THEN base ELSE step[<<Max(s), h[s \ {Max(s)}]>>]]

(* ... defines a function,                                                 *)
LEMMA IterationExists ==
  ASSUME NEW n \in Nat, NEW V, NEW base \in V, NEW step \in [(1 .. n) \X V -> V]
  PROVE  \E h \in [SUBSET (1 .. n) -> V] : TakesLast(h, n, base, step)
<1> DEFINE D == 1 .. n
           ch == [s \in SUBSET D |-> Max(s)]
           stp == [sv \in (SUBSET D) \X V |-> IF sv[1] = {} THEN base ELSE step[<<ch[sv[1]], sv[2]>>]]
<1>1. IsFiniteSet(D) /\ Chooses(ch, D)
  <2>1. IsFiniteSet(D)
    BY FS_Interval
  <2>2. ASSUME NEW s \in SUBSET D, s # {} PROVE ch[s] \in s
    <3>1. Max(s) \in s
      <4> HIDE DEF ch
      <4> QED BY <2>2, GreatestIndex
    <3>2. ch[s] = Max(s)
      <4> HIDE DEF D
      <4> QED OBVIOUS
    <3> HIDE DEF ch
    <3> QED BY <3>1, <3>2
  <2> HIDE DEF ch, D
  <2> QED BY <2>1, <2>2 DEF Chooses
<1>2. stp \in [(SUBSET D) \X V -> V]
  <2> SUFFICES ASSUME NEW s \in SUBSET D, NEW v \in V
               PROVE  (IF s = {} THEN base ELSE step[<<ch[s], v>>]) \in V
    OBVIOUS
  <2>1. s # {} => ch[s] \in D
    BY <1>1 DEF Chooses
  <2> HIDE DEF ch
  <2> QED BY <2>1
<1>3. PICK h \in [SUBSET D -> V] : Recurses(h, D, base, stp, ch)
  <2> HIDE DEF ch, stp, D
  <2> QED BY <1>1, <1>2, RecursionExists
<1>4. ASSUME NEW s \in SUBSET D, s # {} PROVE h[s] = step[<<Max(s), h[s \ {Max(s)}]>>]
  <2>1. h[s] = stp[<<s, h[s \ {ch[s]}]>>]
    BY <1>3, <1>4 DEF Recurses
  <2>2. h[s \ {ch[s]}] \in V
    OBVIOUS
  <2> QED BY <1>4, <2>1, <2>2
<1>5. h[{}] = base
  BY <1>3 DEF Recurses
<1>6. h = [s \in SUBSET D |-> IF s = {} THEN base ELSE step[<<Max(s), h[s \ {Max(s)}]>>]]
  BY <1>4, <1>5
<1> QED BY <1>6 DEF TakesLast

(* whose values on the initial parts are those of a loop.                  *)
LEMMA IterationSteps ==
  ASSUME NEW n \in Nat, NEW V, NEW base \in V, NEW step \in [(1 .. n) \X V -> V],
         NEW h, TakesLast(h, n, base, step)
  PROVE  /\ h[1 .. 0] = base
         /\ \A m \in 1 .. n : h[1 .. m] = step[<<m, h[1 .. m - 1]>>]
<1>1. h[1 .. 0] = base
  <2>1. 1 .. 0 = {} /\ {} \in SUBSET (1 .. n)
    OBVIOUS
  <2> QED BY <2>1 DEF TakesLast
<1>2. ASSUME NEW m \in 1 .. n PROVE h[1 .. m] = step[<<m, h[1 .. m - 1]>>]
  <2>1. 1 .. m \in SUBSET (1 .. n) /\ 1 .. m # {} /\ Max(1 .. m) = m /\ (1 .. m) \ {m} = 1 .. m - 1
    BY GreatestIndex
  <2>2. h[1 .. m] = step[<<Max(1 .. m), h[(1 .. m) \ {Max(1 .. m)}]>>]
    BY <2>1 DEF TakesLast
  <2> QED BY <2>1, <2>2
<1> QED BY <1>1, <1>2

(* Where the elements of each sequence are in the concatenation.           *)
Positions(off, seqs) ==
  /\ off \in [0 .. Len(seqs) -> Nat] /\ off[0] = 0
  /\ Len(FlattenSeq(seqs)) = off[Len(seqs)]
  /\ \A i \in 1 .. Len(seqs) :
       /\ off[i] = off[i - 1] + Len(seqs[i])
       /\ \A k \in 1 .. Len(seqs[i]) : FlattenSeq(seqs)[off[i - 1] + k] = seqs[i][k]

(* A sequence more.                                                        *)
LEMMA PositionsGrow ==
  ASSUME NEW S, NEW seqs \in Seq(Seq(S)), NEW s \in Seq(S), NEW off, Positions(off, seqs)
  PROVE  \E o : Positions(o, Append(seqs, s))
<1> DEFINE n == Len(seqs)
           t == Append(seqs, s)
           f == FlattenSeq(seqs)
           o == [i \in 0 .. n + 1 |-> IF i <= n THEN off[i] ELSE off[n] + Len(s)]
<1>1. /\ n \in Nat /\ t \in Seq(Seq(S)) /\ Len(t) = n + 1 /\ t[n + 1] = s
      /\ \A i \in 1 .. n : t[i] = seqs[i] /\ Len(seqs[i]) \in Nat
  BY AppendProperties
<1>2. f \in Seq(S) /\ FlattenSeq(t) = f \o s
  BY Flattened, FlattenGrows
<1>3. off \in [0 .. n -> Nat] /\ off[0] = 0 /\ Len(f) = off[n] /\ Len(s) \in Nat
  BY DEF Positions
<1>4. ASSUME NEW i \in 1 .. n
      PROVE  /\ off[i] = off[i - 1] + Len(seqs[i]) /\ off[i - 1] \in Nat /\ off[i] \in Nat
             /\ \A k \in 1 .. Len(seqs[i]) : f[off[i - 1] + k] = seqs[i][k]
  <2>1. i - 1 \in 0 .. n /\ i \in 0 .. n
    BY <1>1
  <2>2. off[i - 1] \in Nat /\ off[i] \in Nat
    BY <1>3, <2>1
  <2> QED BY <2>2 DEF Positions
<1> DEFINE Under == \A i \in 0 .. n : off[i] <= off[n]
<1> HIDE DEF t, f, n, o
<1>5. Under
  <2> DEFINE T == {i \in 0 .. n : off[n - i] > off[n]}
  <2> SUFFICES T = {}
    <3> SUFFICES ASSUME NEW i \in 0 .. n, off[i] > off[n] PROVE FALSE
      BY <1>1, <1>3
    <3>1. n - i \in 0 .. n /\ n - (n - i) = i
      BY <1>1
    <3> QED BY <3>1
  <2> SUFFICES ASSUME T # {} PROVE FALSE
    OBVIOUS
  <2>1. PICK m \in T : \A k \in 0 .. n : k < m => k \notin T
    <3>1. T \subseteq 0 .. n
      OBVIOUS
    <3> HIDE DEF T, n
    <3> QED BY <1>1, <3>1, LeastOf
  <2>2. m # 0 /\ m \in 0 .. n
    BY <1>1, <1>3
  <2>3. m - 1 \in 0 .. n /\ m - 1 < m /\ n - m + 1 \in 1 .. n /\ n - (m - 1) = n - m + 1
    BY <1>1, <2>2
  <2>4. off[n - m + 1] <= off[n]
    <3>1. m - 1 \notin T
      BY <2>1, <2>3
    <3>2. ~(off[n - (m - 1)] > off[n])
      BY <2>3, <3>1
    <3>3. n - (m - 1) \in 0 .. n /\ n \in 0 .. n
      BY <1>1, <2>3
    <3>4. off[n - (m - 1)] \in Nat /\ off[n] \in Nat
      BY <1>3, <3>3
    <3> HIDE DEF T
    <3> QED BY <2>3, <3>2, <3>4
  <2>5. off[n - m + 1] = off[n - m] + Len(seqs[n - m + 1]) /\ off[n - m] \in Nat
    <3>1. n \in Nat /\ m \in Nat
      BY <1>1, <2>2
    <3>2. PICK i \in 1 .. n : i = n - m + 1
      BY <2>3
    <3>3. i - 1 = n - m
      BY <3>1, <3>2
    <3>4. off[i] = off[n - m] + Len(seqs[i]) /\ off[n - m] \in Nat
      BY <1>4, <3>3
    <3> QED BY <3>2, <3>4
  <2>6. off[n - m] <= off[n]
    <3>1. n - m + 1 \in 1 .. n /\ n \in 0 .. n /\ off[n] \in Nat
      BY <1>1, <1>3, <2>3
    <3>2. Len(seqs[n - m + 1]) \in Nat
      BY <1>1, <3>1
    <3> DEFINE a == off[n - m]
               b == off[n - m + 1]
               c == off[n]
               l == Len(seqs[n - m + 1])
    <3>3. b = a + l /\ a \in Nat /\ l \in Nat /\ c \in Nat /\ b <= c
      BY <2>4, <2>5, <3>1, <3>2
    <3> HIDE DEF a, b, c, l
    <3>4. a <= c
      BY <3>3
    <3> QED BY <3>4 DEF a, c
  <2>7. off[n - m] > off[n]
    BY <2>1
  <2>8. n \in 0 .. n /\ off[n] \in Nat
    BY <1>1, <1>3
  <2> HIDE DEF T
  <2> QED BY <2>5, <2>6, <2>7, <2>8
<1> HIDE DEF Under
<1>6. /\ Len(f \o s) = off[n] + Len(s)
      /\ \A k \in 1 .. off[n] : (f \o s)[k] = f[k]
      /\ \A k \in 1 .. Len(s) : (f \o s)[off[n] + k] = s[k]
  <2> DEFINE c == off[n]
  <2>1. f \in Seq(S) /\ s \in Seq(S) /\ Len(f) = c
    BY <1>2, <1>3
  <2> HIDE DEF c
  <2>2. Len(f \o s) = c + Len(s)
    BY <2>1, ConcatProperties
  <2>3. ASSUME NEW k \in 1 .. c PROVE (f \o s)[k] = f[k]
    BY <2>1
  <2>4. ASSUME NEW k \in 1 .. Len(s) PROVE (f \o s)[c + k] = s[k]
    BY <2>1
  <2> QED BY <2>2, <2>3, <2>4 DEF c
<1>7. /\ o \in [0 .. n + 1 -> Nat] /\ o[0] = 0 /\ o[n + 1] = off[n] + Len(s)
      /\ \A i \in 0 .. n : o[i] = off[i]
  <2>1. ASSUME NEW i \in 0 .. n PROVE o[i] = off[i] /\ i \in 0 .. n + 1 /\ off[i] \in Nat
    BY <1>1, <1>3 DEF o
  <2>2. o[n + 1] = off[n] + Len(s) /\ off[n] + Len(s) \in Nat
    BY <1>1, <1>3 DEF o
  <2>3. o = [i \in 0 .. n + 1 |-> o[i]]
    BY DEF o
  <2>4. \A i \in 0 .. n + 1 : i \in 0 .. n \/ i = n + 1
    BY <1>1
  <2>5. 0 \in 0 .. n
    BY <1>1
  <2>6. \A i \in 0 .. n + 1 : o[i] \in Nat
    BY <2>1, <2>2, <2>4
  <2> QED BY <1>3, <2>1, <2>2, <2>3, <2>5, <2>6
<1>8. ASSUME NEW i \in 1 .. n + 1
      PROVE  /\ o[i] = o[i - 1] + Len(t[i])
             /\ \A k \in 1 .. Len(t[i]) : (f \o s)[o[i - 1] + k] = t[i][k]
  <2>1. CASE i = n + 1
    <3>1. o[i - 1] = off[n] /\ o[i] = off[n] + Len(s) /\ t[i] = s
      <4>1. i - 1 = n /\ n \in 0 .. n
        BY <1>1, <2>1
      <4> QED BY <1>1, <1>7, <2>1, <4>1
    <3> QED BY <1>6, <3>1
  <2>2. CASE i \in 1 .. n
    <3>1. o[i - 1] = off[i - 1] /\ o[i] = off[i] /\ t[i] = seqs[i]
      <4>1. i - 1 \in 0 .. n /\ i \in 0 .. n
        BY <1>1, <2>2
      <4> QED BY <1>1, <1>7, <2>2, <4>1
    <3>2. ASSUME NEW k \in 1 .. Len(seqs[i]) PROVE (f \o s)[off[i - 1] + k] = seqs[i][k]
      <4>1. i \in 0 .. n /\ n \in 0 .. n
        BY <1>1, <2>2
      <4>2. off[i] <= off[n] /\ off[n] \in Nat
        BY <1>3, <1>5, <4>1 DEF Under
      <4>3. off[i] = off[i - 1] + Len(seqs[i]) /\ off[i - 1] \in Nat /\ Len(seqs[i]) \in Nat
        BY <1>1, <1>4, <2>2
      <4>4. off[i - 1] + k \in 1 .. off[n]
        <5> DEFINE a == off[i - 1]
                   l == Len(seqs[i])
                   c == off[n]
        <5>1. a + l <= c /\ a \in Nat /\ l \in Nat /\ c \in Nat /\ k \in 1 .. l
          BY <4>2, <4>3
        <5> HIDE DEF a, l, c
        <5>2. a + k \in 1 .. c
          BY <5>1
        <5> QED BY <5>2 DEF a, c
      <4> QED BY <1>4, <1>6, <2>2, <4>4
    <3> QED BY <1>4, <2>2, <3>1, <3>2
  <2>3. i = n + 1 \/ i \in 1 .. n
    BY <1>1
  <2> QED BY <2>1, <2>2, <2>3
<1>9. Positions(o, t)
  <2>1. FlattenSeq(t) = f \o s /\ Len(t) = n + 1
    BY <1>1, <1>2
  <2>2. Len(FlattenSeq(t)) = o[n + 1]
    BY <1>6, <1>7, <2>1
  <2>3. \A i \in 1 .. n + 1 :
          /\ o[i] = o[i - 1] + Len(t[i])
          /\ \A k \in 1 .. Len(t[i]) : FlattenSeq(t)[o[i - 1] + k] = t[i][k]
    BY <1>8, <2>1
  <2> QED BY <1>7, <2>1, <2>2, <2>3 DEF Positions
<1> QED BY <1>9 DEF t

(* A concatenation has its elements somewhere.                             *)
LEMMA FlattenPositions ==
  ASSUME NEW S, NEW seqs \in Seq(Seq(S))
  PROVE  \E off : Positions(off, seqs)
<1> DEFINE n == Len(seqs)
           pre(m) == [i \in 1 .. m |-> seqs[i]]
           Has(m) == \E off : Positions(off, pre(m))
           T == {m \in 0 .. n : ~Has(m)}
<1>1. n \in Nat /\ \A i \in 1 .. n : seqs[i] \in Seq(S)
  OBVIOUS
<1>2. T = {}
  <2> SUFFICES ASSUME T # {} PROVE FALSE
    OBVIOUS
  <2>1. PICK m \in T : \A k \in 0 .. n : k < m => k \notin T
    <3>1. T \subseteq 0 .. n
      OBVIOUS
    <3> HIDE DEF T, n
    <3> QED BY <1>1, <3>1, LeastOf
  <2>2. m # 0
    <3>1. pre(0) = <<>> /\ Len(<<>>) = 0 /\ FlattenSeq(<<>>) = <<>>
      BY DEF FlattenSeq
    <3>2. Positions([i \in 0 .. 0 |-> 0], pre(0))
      BY <3>1 DEF Positions
    <3>3. Has(0)
      BY <3>2
    <3> QED BY <3>3
  <2>3. m - 1 \in 0 .. n /\ m - 1 < m /\ m \in 1 .. n
    BY <1>1, <2>2
  <2>4. PICK off : Positions(off, pre(m - 1))
    BY <2>1, <2>3
  <2>5. pre(m - 1) \in Seq(Seq(S)) /\ seqs[m] \in Seq(S) /\ Append(pre(m - 1), seqs[m]) = pre(m)
    <3>1. pre(m - 1) \in Seq(Seq(S)) /\ Len(pre(m - 1)) = m - 1
      BY <1>1, <2>3
    <3>2. Append(pre(m - 1), seqs[m]) = pre(m)
      BY <1>1, <2>3, <3>1
    <3> QED BY <1>1, <2>3, <3>1, <3>2
  <2>6. \E o : Positions(o, Append(pre(m - 1), seqs[m]))
    <3> HIDE DEF pre
    <3> QED BY <2>4, <2>5, PositionsGrow
  <2>7. Has(m)
    BY <2>5, <2>6
  <2> QED BY <2>7
<1>3. pre(n) = seqs
  OBVIOUS
<1> QED BY <1>1, <1>2, <1>3

(* Every place of the concatenation is one of theirs.                      *)
InPositions(off, seqs) ==
  /\ \A i, j \in 0 .. Len(seqs) : i <= j => off[i] <= off[j]
  /\ \A p \in 1 .. off[Len(seqs)] :
       \E i \in 1 .. Len(seqs) : \E k \in 1 .. Len(seqs[i]) : p = off[i - 1] + k

(* The offsets of a concatenation are such.                                *)
LEMMA PositionsCover ==
  ASSUME NEW S, NEW seqs \in Seq(Seq(S)), NEW off, Positions(off, seqs)
  PROVE  InPositions(off, seqs)
<1> DEFINE n == Len(seqs)
<1>1. n \in Nat /\ off \in [0 .. n -> Nat] /\ off[0] = 0
  BY DEF Positions
<1>2. ASSUME NEW i \in 1 .. n
      PROVE  off[i] = off[i - 1] + Len(seqs[i]) /\ Len(seqs[i]) \in Nat /\ off[i - 1] \in Nat
             /\ i - 1 \in 0 .. n /\ off[i] \in Nat
  <2>1. off[i] = off[i - 1] + Len(seqs[i])
    BY DEF Positions
  <2>2. seqs[i] \in Seq(S)
    OBVIOUS
  <2>3. i - 1 \in 0 .. n /\ i \in 0 .. n
    BY <1>1
  <2> HIDE DEF n
  <2>4. off[i - 1] \in Nat /\ off[i] \in Nat
    BY <1>1, <2>3
  <2> QED BY <2>1, <2>2, <2>3, <2>4
<1> HIDE DEF n
<1>3. ASSUME NEW i \in 0 .. n, NEW j \in 0 .. n, i <= j PROVE off[i] <= off[j]
  <2> DEFINE T == {k \in 0 .. n : k >= i /\ off[i] > off[k]}
  <2>0. off[i] \in Nat /\ off[j] \in Nat
    BY <1>1
  <2> SUFFICES T = {}
    BY <1>3, <2>0
  <2> SUFFICES ASSUME T # {} PROVE FALSE
    OBVIOUS
  <2>1. PICK m \in T : \A k \in 0 .. n : k < m => k \notin T
    <3>1. T \subseteq 0 .. n
      OBVIOUS
    <3> HIDE DEF T, n
    <3> QED BY <1>1, <3>1, LeastOf
  <2>2. m > i /\ m \in 1 .. n
    BY <1>1, <2>1
  <2>3. off[m] >= off[m - 1] /\ m - 1 \in 0 .. n
    <3> DEFINE a == off[m]
               b == off[m - 1]
               l == Len(seqs[m])
    <3>1. a = b + l /\ a \in Nat /\ b \in Nat /\ l \in Nat /\ m - 1 \in 0 .. n
      BY <1>2, <2>2
    <3> HIDE DEF a, b, l
    <3>2. a >= b
      BY <3>1
    <3> QED BY <3>1, <3>2 DEF a, b
  <2>4. off[i] <= off[m - 1]
    BY <1>1, <2>1, <2>2, <2>3
  <2> QED BY <1>1, <2>1, <2>2, <2>3, <2>4
<1>4. ASSUME NEW p \in 1 .. off[n]
      PROVE  \E i \in 1 .. n : \E k \in 1 .. Len(seqs[i]) : p = off[i - 1] + k
  <2> DEFINE T == {i \in 0 .. n : p <= off[i]}
  <2>1. T # {}
    BY <1>1
  <2>2. PICK i \in T : \A k \in 0 .. n : k < i => k \notin T
    <3>1. T \subseteq 0 .. n
      OBVIOUS
    <3> HIDE DEF T, n
    <3> QED BY <1>1, <2>1, <3>1, LeastOf
  <2>3. i # 0 /\ i \in 1 .. n
    BY <1>1, <2>2
  <2>4. off[i - 1] < p /\ p <= off[i]
    BY <1>1, <1>2, <2>2, <2>3
  <2>5. p - off[i - 1] \in 1 .. Len(seqs[i]) /\ p = off[i - 1] + (p - off[i - 1])
    BY <1>2, <2>3, <2>4
  <2> QED BY <2>3, <2>5
<1> QED BY <1>3, <1>4 DEF n, InPositions

(* Sequences that go up, each from behind the end of the one before, make  *)
(* a sequence that goes up.                                                *)
GoesUp(s) == \A i \in 2 .. Len(s) : s[i - 1] < s[i]
GoOn(seqs) ==
  \A m \in 1 .. Len(seqs) :
    /\ Len(seqs[m]) # 0 /\ GoesUp(seqs[m])
    /\ m > 1 => seqs[m - 1][Len(seqs[m - 1])] < seqs[m][1]

(* Then so does the whole.                                                 *)
LEMMA FlattenGoesUp ==
  ASSUME NEW S, NEW seqs \in Seq(Seq(S)), GoOn(seqs)
  PROVE  GoesUp(FlattenSeq(seqs))
<1> DEFINE n == Len(seqs)
           f == FlattenSeq(seqs)
<1>1. PICK off : Positions(off, seqs)
  BY FlattenPositions
<1>2. InPositions(off, seqs)
  BY <1>1, PositionsCover
<1>3. /\ n \in Nat /\ off \in [0 .. n -> Nat] /\ off[0] = 0 /\ Len(f) = off[n]
      /\ \A i \in 1 .. n : off[i] = off[i - 1] + Len(seqs[i])
      /\ \A i \in 1 .. n : \A k \in 1 .. Len(seqs[i]) : f[off[i - 1] + k] = seqs[i][k]
  BY <1>1 DEF Positions
<1>4. \A i \in 1 .. n : Len(seqs[i]) \in Nat
  OBVIOUS
<1> HIDE DEF f, n
<1> SUFFICES ASSUME NEW p \in 2 .. Len(f) PROVE f[p - 1] < f[p]
  BY DEF GoesUp, f
<1>5. p \in 1 .. off[n]
  <2>1. off[n] \in Nat
    BY <1>3
  <2> QED BY <1>3, <2>1
<1>6. PICK i \in 1 .. n : \E k \in 1 .. Len(seqs[i]) : p = off[i - 1] + k
  BY <1>2, <1>5 DEF InPositions, n
<1>7. PICK k \in 1 .. Len(seqs[i]) : p = off[i - 1] + k
  BY <1>6
<1>8. /\ Len(seqs[i]) # 0 /\ GoesUp(seqs[i]) /\ i - 1 \in 0 .. n /\ off[i - 1] \in Nat /\ Len(seqs[i]) \in Nat
      /\ i > 1 => seqs[i - 1][Len(seqs[i - 1])] < seqs[i][1]
  <2>1. i - 1 \in 0 .. n
    BY <1>3
  <2> QED BY <1>3, <1>4, <2>1 DEF GoOn, n
<1>9. CASE k # 1
  <2>1. k \in 2 .. Len(seqs[i]) /\ k - 1 \in 1 .. Len(seqs[i]) /\ p - 1 = off[i - 1] + (k - 1)
    <3> DEFINE l == Len(seqs[i])
               o == off[i - 1]
    <3>1. k \in 1 .. l /\ l \in Nat /\ o \in Nat /\ p = o + k
      BY <1>7, <1>8
    <3> HIDE DEF l, o
    <3>2. k \in 2 .. l /\ k - 1 \in 1 .. l /\ p - 1 = o + (k - 1)
      BY <1>9, <3>1
    <3> QED BY <3>2 DEF l, o
  <2>2. f[p] = seqs[i][k] /\ f[p - 1] = seqs[i][k - 1]
    BY <1>3, <1>7, <2>1
  <2> QED BY <1>8, <2>1, <2>2 DEF GoesUp
<1>10. CASE k = 1
  <2>1. i # 1
    BY <1>3, <1>7, <1>10
  <2>2. i - 1 \in 1 .. n /\ i > 1 /\ i - 2 \in 0 .. n /\ (i - 1) - 1 = i - 2
    BY <1>3, <2>1
  <2>3. Len(seqs[i - 1]) # 0 /\ Len(seqs[i - 1]) \in Nat
    BY <1>4, <2>2 DEF GoOn, n
  <2>4. off[i - 1] = off[(i - 1) - 1] + Len(seqs[i - 1]) /\ off[(i - 1) - 1] \in Nat
    BY <1>3, <2>2
  <2>5. p - 1 = off[(i - 1) - 1] + Len(seqs[i - 1])
    BY <1>7, <1>10, <2>4, <1>8
  <2>6. Len(seqs[i - 1]) \in 1 .. Len(seqs[i - 1])
    BY <2>3
  <2>7. f[p - 1] = seqs[i - 1][Len(seqs[i - 1])]
    BY <1>3, <2>2, <2>5, <2>6
  <2>8. f[p] = seqs[i][1]
    BY <1>3, <1>7, <1>10
  <2> QED BY <1>8, <2>2, <2>7, <2>8
<1> QED BY <1>9, <1>10

(* The elements at places that are given in ascending order.               *)
LEMMA SelectedAre ==
  ASSUME NEW V, NEW s \in Seq(V), NEW n \in Nat, NEW f \in [1 .. n -> DOMAIN s], Ascending(f)
  PROVE  Selected(s, {f[k] : k \in 1 .. n}) = [k \in 1 .. n |-> s[f[k]]]
<1> DEFINE I == {f[k] : k \in 1 .. n}
<1>1. DOMAIN s \subseteq Int /\ I \subseteq DOMAIN s /\ f \in [1 .. n -> I]
  OBVIOUS
<1>2. \A j, k \in 1 .. n : j # k => f[j] # f[k]
  <2> SUFFICES ASSUME NEW j \in 1 .. n, NEW k \in 1 .. n, f[j] = f[k], j < k PROVE FALSE
    OBVIOUS
  <2>1. f[j] < f[k] /\ f[j] \in Int
    BY <1>1 DEF Ascending
  <2> QED BY <2>1
<1>3. IsFiniteSet(I) /\ Cardinality(I) = n
  <2>1. IsFiniteSet(1 .. n) /\ Cardinality(1 .. n) = n
    BY FS_Interval
  <2>2. f \in Bijection(1 .. n, I)
    <3>1. \A x \in I : \E k \in 1 .. n : f[k] = x
      OBVIOUS
    <3> HIDE DEF I
    <3> QED BY <1>1, <1>2, <3>1 DEF Bijection, Injection, Surjection, IsInjective
  <2>3. ExistsBijection(1 .. n, I)
    BY <2>2 DEF ExistsBijection
  <2> QED BY <2>1, <2>3, FS_Bijection
<1> HIDE DEF I
<1>4. InOrder(I) = f
  <2>1. \A x \in I : x \in Int
    BY <1>1
  <2> QED BY <1>1, <1>3, <2>1, InOrderIs
<1> QED BY <1>3, <1>4 DEF Selected, I
-----------------------------------------------------------------------------
(* An insertion sort, as std::sort does of few elements, by a relation R   *)
(* of their numbers 1 .. n that is a weak order on all but the elements L, *)
(* which it does not compare with any.                                     *)
WeakOrderBut(R, L, n) ==
  /\ L \subseteq 1 .. n
  /\ \A i, j \in 1 .. n : <<i, j>> \in R => i \notin L /\ j \notin L /\ <<j, i>> \notin R
  /\ \A i, j, k \in 1 .. n :
       k \notin L /\ <<i, j>> \in R => <<i, k>> \in R \/ <<k, j>> \in R

(* Where the element v goes.                                               *)
PlaceOf(p, v, R) ==
  LET stays == {k \in DOMAIN p : <<v, p[k]>> \notin R}
  IN IF 1 \in stays THEN Max(stays) + 1 ELSE 1

(* What holds of the first m elements when they are inserted in turn: each *)
(* is there once;                                                          *)
EachOnce(p, m) ==
  /\ p \in [1 .. m -> 1 .. m]
  /\ \A i \in 1 .. m : \E k \in 1 .. m : p[k] = i
  /\ \A j, k \in 1 .. m : p[j] = p[k] => j = k

(* none comes before the first, if that is compared;                       *)
FirstLeast(p, m, R, L) ==
  1 <= m /\ p[1] \notin L => \A k \in 1 .. m : <<p[k], p[1]>> \notin R

(* behind an element that is not compared are later ones;                  *)
LaterBehind(p, m, L) == \A a, b \in 1 .. m : a < b /\ p[a] \in L => p[a] < p[b]

(* one that comes before one in front of it is parted from it;             *)
PartedBy(p, m, R, L) ==
  \A a, b \in 1 .. m : a < b /\ <<p[b], p[a]>> \in R => \E c \in 1 .. m : a < c /\ c < b /\ p[c] \in L

(* in front of one that was put before an element that is not compared are *)
(* later ones that are, and none behind it that was there came before it;  *)
PutInFront(p, m, R, L) ==
  \A a, c \in 1 .. m : a < c /\ p[c] \in L /\ p[c] < p[a] =>
    \A e \in 1 .. m : /\ e < a => p[e] \notin L /\ p[e] > p[a]
                      /\ e > a /\ p[e] < p[a] => <<p[e], p[a]>> \notin R

(* and the one that was first then stays before one that was not put in    *)
(* front of it.                                                            *)
BehindFirst(p, m, R) ==
  \A b \in 1 .. m :
    \/ \A a \in 1 .. m : a < b => p[a] > p[b]
    \/ \E f \in 1 .. m : /\ f < b /\ p[f] < p[b] /\ <<p[b], p[f]>> \notin R
                         /\ \A e \in 1 .. m : e < f => p[e] > p[b]

Sorts(p, m, R, L) ==
  /\ EachOnce(p, m) /\ FirstLeast(p, m, R, L) /\ LaterBehind(p, m, L)
  /\ PartedBy(p, m, R, L) /\ PutInFront(p, m, R, L) /\ BehindFirst(p, m, R)

(* The sequence t is p with v at the place q.                              *)
HasAt(t, p, m, q, v) ==
  /\ q \in 1 .. m + 1 /\ t[q] = v
  /\ \A k \in 1 .. m : t[IF k < q THEN k ELSE k + 1] = p[k]

(* In front of all, or behind the last that it does not come before.       *)
InFront(p, m, q, v, R) == q = 1 /\ (m = 0 \/ <<v, p[1]>> \in R)
Behind(p, m, q, v, R) ==
  /\ q \in 2 .. m + 1 /\ <<v, p[1]>> \notin R /\ <<v, p[q - 1]>> \notin R
  /\ \A k \in q .. m : <<v, p[k]>> \in R

(* The place of a further element.                                         *)
LEMMA PlaceIs ==
  ASSUME NEW m \in Nat, NEW p, DOMAIN p = 1 .. m, NEW v, NEW R, NEW q, q = PlaceOf(p, v, R)
  PROVE  q \in 1 .. m + 1 /\ (InFront(p, m, q, v, R) \/ Behind(p, m, q, v, R))
<1> DEFINE stays == {k \in 1 .. m : <<v, p[k]>> \notin R}
<1>1. q = IF 1 \in stays THEN Max(stays) + 1 ELSE 1
  BY DEF PlaceOf
<1>2. stays \in SUBSET (1 .. m)
  OBVIOUS
<1>3. CASE 1 \in stays
  <2>1. Max(stays) \in stays /\ \A x \in stays : x <= Max(stays)
    <3>1. IsFiniteSet(stays)
      <4>1. IsFiniteSet(1 .. m)
        BY FS_Interval
      <4> HIDE DEF stays
      <4> QED BY <1>2, <4>1, FS_Subset
    <3>2. stays # {} /\ \A x \in stays : x \in Int
      BY <1>2, <1>3
    <3> HIDE DEF stays
    <3> QED BY <3>1, <3>2, Extremes
  <2> DEFINE x == Max(stays)
  <2>2. x \in 1 .. m /\ <<v, p[x]>> \notin R /\ \A k \in 1 .. m : <<v, p[k]>> \notin R => k <= x
    BY <2>1
  <2>3. q = x + 1 /\ <<v, p[1]>> \notin R
    BY <1>1, <1>3
  <2> HIDE DEF x, stays
  <2> QED BY <2>2, <2>3 DEF Behind
<1>4. CASE 1 \notin stays
  BY <1>1, <1>4 DEF InFront
<1> QED BY <1>3, <1>4

(* An old place in the new sequence, and a new one that is not q in the    *)
(* old.                                                                    *)
LEMMA PlacesShift ==
  ASSUME NEW m \in Nat, NEW t, NEW p, NEW q, NEW v, HasAt(t, p, m, q, v)
  PROVE  \A j \in 1 .. m + 1 : j # q =>
           LET k == IF j < q THEN j ELSE j - 1 IN k \in 1 .. m /\ t[j] = p[k]
<1> SUFFICES ASSUME NEW j \in 1 .. m + 1, j # q, NEW k, k = IF j < q THEN j ELSE j - 1
             PROVE  k \in 1 .. m /\ t[j] = p[k]
  OBVIOUS
<1>1. q \in 1 .. m + 1 /\ \A l \in 1 .. m : t[IF l < q THEN l ELSE l + 1] = p[l]
  BY DEF HasAt
<1>2. k \in 1 .. m /\ j = IF k < q THEN k ELSE k + 1
  BY <1>1
<1> QED BY <1>1, <1>2

(* A place among the elements with the new one, and without it.            *)
PlaceBefore(j, q) == IF j < q THEN j ELSE j - 1
PlaceAfter(k, q)  == IF k < q THEN k ELSE k + 1

(* One element more: it is there once, as the others are.                  *)
LEMMA OnceMore ==
  ASSUME NEW m \in Nat, NEW p, EachOnce(p, m), NEW q, NEW t \in [1 .. m + 1 -> Nat],
         HasAt(t, p, m, q, m + 1)
  PROVE  EachOnce(t, m + 1)
<1> DEFINE Old(j) == IF j < q THEN j ELSE j - 1
           New(k) == IF k < q THEN k ELSE k + 1
<1>1. /\ p \in [1 .. m -> 1 .. m] /\ \A i \in 1 .. m : \E k \in 1 .. m : p[k] = i
      /\ \A j, k \in 1 .. m : p[j] = p[k] => j = k
  BY DEF EachOnce
<1>2. \A j \in 1 .. m + 1 : j # q => Old(j) \in 1 .. m /\ t[j] = p[Old(j)]
  BY PlacesShift
<1>3. q \in 1 .. m + 1 /\ t[q] = m + 1 /\ \A k \in 1 .. m : t[New(k)] = p[k]
  BY DEF HasAt
<1>4. t \in [1 .. m + 1 -> 1 .. m + 1]
  <2> SUFFICES ASSUME NEW j \in 1 .. m + 1 PROVE t[j] \in 1 .. m + 1
    OBVIOUS
  <2>1. CASE j = q
    BY <1>3, <2>1
  <2>2. CASE j # q
    <3>1. t[j] \in 1 .. m
      BY <1>1, <1>2, <2>2
    <3> QED BY <3>1
  <2> QED BY <2>1, <2>2
<1>5. ASSUME NEW i \in 1 .. m + 1 PROVE \E k \in 1 .. m + 1 : t[k] = i
  <2>1. CASE i = m + 1
    BY <1>3, <2>1
  <2>2. CASE i # m + 1
    <3>1. PICK k \in 1 .. m : p[k] = i
      BY <1>1, <2>2
    <3>2. New(k) \in 1 .. m + 1 /\ t[New(k)] = i
      BY <1>3, <3>1
    <3> QED BY <3>2
  <2> QED BY <2>1, <2>2
<1>6. ASSUME NEW j \in 1 .. m + 1, NEW k \in 1 .. m + 1, t[j] = t[k] PROVE j = k
  <2>1. ASSUME NEW l \in 1 .. m + 1, l # q PROVE t[l] # m + 1
    <3>1. t[l] \in 1 .. m
      BY <1>1, <1>2, <2>1
    <3> QED BY <3>1
  <2>2. CASE j = q \/ k = q
    BY <1>3, <1>6, <2>1, <2>2
  <2>3. CASE j # q /\ k # q
    <3>1. /\ Old(j) \in 1 .. m /\ Old(k) \in 1 .. m
          /\ t[j] = p[Old(j)] /\ t[k] = p[Old(k)]
      BY <1>2, <2>3
    <3>2. Old(j) = Old(k)
      <4> HIDE DEF Old
      <4> QED BY <1>1, <1>6, <3>1
    <3> QED BY <1>3, <2>3, <3>2
  <2> QED BY <2>2, <2>3
<1> QED BY <1>4, <1>5, <1>6 DEF EachOnce

(* What the parts of Sorts need of the order and of the elements there.    *)
Inserting(t, p, m, q, n, R, L) ==
  /\ m \in Nat /\ n \in Nat /\ m + 1 <= n /\ WeakOrderBut(R, L, n)
  /\ Sorts(p, m, R, L) /\ HasAt(t, p, m, q, m + 1)
  /\ InFront(p, m, q, m + 1, R) \/ Behind(p, m, q, m + 1, R)

(* An old element's place, and what is known of it.                        *)
LEMMA OldPlace ==
  ASSUME NEW t, NEW p, NEW m, NEW q, NEW n, NEW R, NEW L, Inserting(t, p, m, q, n, R, L)
  PROVE  /\ q \in 1 .. m + 1 /\ t[q] = m + 1 /\ m + 1 \in 1 .. n
         /\ \A j \in 1 .. m + 1 : j # q =>
              LET k == PlaceBefore(j, q)
              IN /\ k \in 1 .. m /\ t[j] = p[k] /\ p[k] \in 1 .. n /\ p[k] < m + 1
                 /\ k < q <=> j < q
                 /\ \A i \in 1 .. m + 1 : i # q => (j < i <=> k < PlaceBefore(i, q))
         /\ \A k \in 1 .. m :
              LET j == PlaceAfter(k, q)
              IN /\ j \in 1 .. m + 1 /\ j # q /\ t[j] = p[k] /\ PlaceBefore(j, q) = k
<1>1. /\ m \in Nat /\ n \in Nat /\ m + 1 <= n /\ HasAt(t, p, m, q, m + 1) /\ p \in [1 .. m -> 1 .. m]
  BY DEF Inserting, Sorts, EachOnce
<1>2. q \in 1 .. m + 1 /\ t[q] = m + 1 /\ m + 1 \in 1 .. n
  BY <1>1 DEF HasAt
<1>3. ASSUME NEW j \in 1 .. m + 1, j # q, NEW k, k = PlaceBefore(j, q)
      PROVE  /\ k \in 1 .. m /\ t[j] = p[k] /\ p[k] \in 1 .. n /\ p[k] < m + 1
             /\ k < q <=> j < q
             /\ \A i \in 1 .. m + 1 : i # q => (j < i <=> k < PlaceBefore(i, q))
  <2>1. k \in 1 .. m /\ t[j] = p[k]
    BY <1>1, <1>3, PlacesShift DEF PlaceBefore
  <2>2. p[k] \in 1 .. m
    BY <1>1, <2>1
  <2>3. p[k] \in 1 .. n /\ p[k] < m + 1
    BY <1>1, <2>2
  <2>4. k < q <=> j < q
    BY <1>2, <1>3 DEF PlaceBefore
  <2>5. \A i \in 1 .. m + 1 : i # q => (j < i <=> k < PlaceBefore(i, q))
    BY <1>1, <1>2, <1>3 DEF PlaceBefore
  <2> QED BY <2>1, <2>3, <2>4, <2>5
<1>4. ASSUME NEW k \in 1 .. m, NEW j, j = PlaceAfter(k, q)
      PROVE  j \in 1 .. m + 1 /\ j # q /\ t[j] = p[k] /\ PlaceBefore(j, q) = k
  <2>1. t[j] = p[k]
    BY <1>1, <1>4 DEF HasAt, PlaceAfter
  <2> QED BY <1>1, <1>2, <1>4, <2>1 DEF PlaceBefore, PlaceAfter
<1> QED BY <1>2, <1>3, <1>4

(* A new first element comes before all.                                   *)
LEMMA FirstBeforeAll ==
  ASSUME NEW t, NEW p, NEW m, NEW q, NEW n, NEW R, NEW L, Inserting(t, p, m, q, n, R, L),
         InFront(p, m, q, m + 1, R)
  PROVE  \A k \in 1 .. m : m + 1 \notin L /\ <<p[k], m + 1>> \notin R
<1> SUFFICES ASSUME NEW k \in 1 .. m PROVE m + 1 \notin L /\ <<p[k], m + 1>> \notin R
  OBVIOUS
<1>1. /\ m \in Nat /\ n \in Nat /\ m + 1 <= n /\ WeakOrderBut(R, L, n) /\ p \in [1 .. m -> 1 .. m]
      /\ FirstLeast(p, m, R, L)
  BY DEF Inserting, Sorts, EachOnce
<1>2. <<m + 1, p[1]>> \in R /\ 1 \in 1 .. m
  BY <1>1 DEF InFront
<1>3. p[1] \in 1 .. n /\ p[k] \in 1 .. n /\ m + 1 \in 1 .. n
  BY <1>1, <1>2
<1>4. p[1] \notin L /\ m + 1 \notin L /\ <<p[1], m + 1>> \notin R
  BY <1>1, <1>2, <1>3 DEF WeakOrderBut
<1>5. <<p[k], p[1]>> \notin R
  BY <1>1, <1>2, <1>4 DEF FirstLeast
<1> QED BY <1>1, <1>3, <1>4, <1>5 DEF WeakOrderBut

(* With a further element none comes before the first, either.             *)
LEMMA FirstStaysLeast ==
  ASSUME NEW t, NEW p, NEW m, NEW q, NEW n, NEW R, NEW L, Inserting(t, p, m, q, n, R, L)
  PROVE  FirstLeast(t, m + 1, R, L)
<1> SUFFICES ASSUME t[1] \notin L, NEW j \in 1 .. m + 1 PROVE <<t[j], t[1]>> \notin R
  BY DEF FirstLeast
<1>1. /\ m \in Nat /\ n \in Nat /\ WeakOrderBut(R, L, n) /\ p \in [1 .. m -> 1 .. m]
      /\ FirstLeast(p, m, R, L) /\ m + 1 \in 1 .. n
  BY DEF Inserting, Sorts, EachOnce
<1>2. \A i \in 1 .. n : <<i, i>> \notin R
  BY <1>1 DEF WeakOrderBut
<1>3. CASE InFront(p, m, q, m + 1, R)
  <2>1. q = 1 /\ t[1] = m + 1
    BY <1>3, OldPlace DEF InFront
  <2>2. CASE j = 1
    BY <1>1, <1>2, <2>1, <2>2
  <2>3. CASE j # 1
    <3>1. PlaceBefore(j, q) \in 1 .. m /\ t[j] = p[PlaceBefore(j, q)]
      BY <2>1, <2>3, OldPlace
    <3> QED BY <1>3, <2>1, <3>1, FirstBeforeAll
  <2> QED BY <2>2, <2>3
<1>4. CASE Behind(p, m, q, m + 1, R)
  <2>1. q # 1 /\ <<m + 1, p[1]>> \notin R /\ 1 <= m /\ 1 < q /\ 1 \in 1 .. m + 1
    BY <1>1, <1>4 DEF Behind
  <2>2. t[1] = p[1]
    BY <2>1, OldPlace DEF PlaceBefore
  <2>3. CASE j = q
    BY <2>1, <2>2, <2>3, OldPlace
  <2>4. CASE j # q
    <3>1. PlaceBefore(j, q) \in 1 .. m /\ t[j] = p[PlaceBefore(j, q)]
      BY <2>4, OldPlace
    <3> QED BY <1>1, <2>1, <2>2, <3>1 DEF FirstLeast
  <2> QED BY <2>3, <2>4
<1> QED BY <1>3, <1>4 DEF Inserting

(* Behind one that is not compared are later ones still.                   *)
LEMMA LaterStayBehind ==
  ASSUME NEW t, NEW p, NEW m, NEW q, NEW n, NEW R, NEW L, Inserting(t, p, m, q, n, R, L)
  PROVE  LaterBehind(t, m + 1, L)
<1> SUFFICES ASSUME NEW a \in 1 .. m + 1, NEW b \in 1 .. m + 1, a < b, t[a] \in L PROVE t[a] < t[b]
  BY DEF LaterBehind
<1>1. /\ m \in Nat /\ n \in Nat /\ WeakOrderBut(R, L, n) /\ p \in [1 .. m -> 1 .. m]
      /\ LaterBehind(p, m, L) /\ m + 1 \in 1 .. n /\ q \in 1 .. m + 1
  BY OldPlace DEF Inserting, Sorts, EachOnce
<1>2. a # q
  <2> SUFFICES ASSUME a = q PROVE FALSE
    OBVIOUS
  <2>0. m + 1 \in L
    BY OldPlace
  <2>1. \A k \in 1 .. m : p[k] \in 1 .. n
    BY <1>1
  <2>2. \A k \in 1 .. m : <<m + 1, p[k]>> \notin R
    BY <1>1, <2>0, <2>1 DEF WeakOrderBut
  <2>3. q <= m
    BY <1>1
  <2>4. 1 \in 1 .. m /\ q \in 1 .. m /\ q \in q .. m /\ m # 0
    BY <1>1, <2>3
  <2>5. ~InFront(p, m, q, m + 1, R)
    BY <2>2, <2>4 DEF InFront
  <2>6. ~Behind(p, m, q, m + 1, R)
    BY <2>2, <2>4 DEF Behind
  <2> QED BY <2>5, <2>6 DEF Inserting
<1>3. LET j == PlaceBefore(a, q)
      IN /\ j \in 1 .. m /\ t[a] = p[j] /\ p[j] < m + 1
         /\ \A i \in 1 .. m + 1 : i # q => (a < i <=> j < PlaceBefore(i, q))
  BY <1>2, OldPlace
<1>4. CASE b = q
  BY <1>3, <1>4, OldPlace
<1>5. CASE b # q
  <2>1. PlaceBefore(b, q) \in 1 .. m /\ t[b] = p[PlaceBefore(b, q)]
    BY <1>5, OldPlace
  <2>2. PlaceBefore(a, q) < PlaceBefore(b, q)
    BY <1>3, <1>5
  <2> QED BY <1>1, <1>3, <2>1, <2>2 DEF LaterBehind
<1> QED BY <1>4, <1>5

(* Only what comes before is passed.                                       *)
LEMMA NonePassed ==
  ASSUME NEW t, NEW p, NEW m, NEW q, NEW n, NEW R, NEW L, Inserting(t, p, m, q, n, R, L),
         NEW k \in 1 .. m, q <= k, ~InFront(p, m, q, m + 1, R)
  PROVE  p[k] \notin L /\ m + 1 \notin L /\ <<m + 1, p[k]>> \in R /\ <<p[k], m + 1>> \notin R
<1>1. /\ m \in Nat /\ n \in Nat /\ m + 1 <= n /\ WeakOrderBut(R, L, n) /\ p \in [1 .. m -> 1 .. m]
      /\ Behind(p, m, q, m + 1, R)
  BY DEF Inserting, Sorts, EachOnce
<1>2. k \in q .. m
  BY <1>1 DEF Behind
<1>3. <<m + 1, p[k]>> \in R
  BY <1>1, <1>2 DEF Behind
<1>4. p[k] \in 1 .. n /\ m + 1 \in 1 .. n
  BY <1>1
<1> QED BY <1>1, <1>3, <1>4 DEF WeakOrderBut

(* One that comes before one in front of it is parted from it still.       *)
LEMMA StayParted ==
  ASSUME NEW t, NEW p, NEW m, NEW q, NEW n, NEW R, NEW L, Inserting(t, p, m, q, n, R, L)
  PROVE  PartedBy(t, m + 1, R, L)
<1> SUFFICES ASSUME NEW a \in 1 .. m + 1, NEW b \in 1 .. m + 1, a < b, <<t[b], t[a]>> \in R
             PROVE  \E c \in 1 .. m + 1 : a < c /\ c < b /\ t[c] \in L
  BY DEF PartedBy
<1> DEFINE i == PlaceBefore(a, q)
           j == PlaceBefore(b, q)
<1>1. /\ m \in Nat /\ n \in Nat /\ WeakOrderBut(R, L, n) /\ p \in [1 .. m -> 1 .. m]
      /\ PartedBy(p, m, R, L) /\ m + 1 \in 1 .. n /\ q \in 1 .. m + 1 /\ t[q] = m + 1
  BY OldPlace DEF Inserting, Sorts, EachOnce
<1>2. ASSUME a # q
      PROVE  /\ i \in 1 .. m /\ t[a] = p[i] /\ p[i] \in 1 .. n /\ (i < q <=> a < q)
             /\ \A x \in 1 .. m + 1 : x # q => (a < x <=> i < PlaceBefore(x, q))
  BY <1>2, OldPlace
<1>3. ASSUME b # q
      PROVE  /\ j \in 1 .. m /\ t[b] = p[j] /\ p[j] \in 1 .. n /\ (j < q <=> b < q)
  BY <1>3, OldPlace
<1>4. ASSUME NEW c \in 1 .. m
      PROVE  /\ PlaceAfter(c, q) \in 1 .. m + 1 /\ PlaceAfter(c, q) # q
             /\ t[PlaceAfter(c, q)] = p[c] /\ PlaceBefore(PlaceAfter(c, q), q) = c
  BY <1>4, OldPlace
<1>5. CASE a = q
  <2>0. b # q /\ ~(b < q)
    BY <1>5
  <2>1. j \in 1 .. m /\ q <= j /\ <<p[j], m + 1>> \in R
    <3>1. j \in 1 .. m /\ t[b] = p[j] /\ ~(j < q)
      BY <1>3, <2>0
    <3>2. <<p[j], m + 1>> \in R
      BY <1>1, <1>5, <3>1
    <3> HIDE DEF j
    <3>3. q <= j
      BY <1>1, <3>1
    <3> QED BY <3>1, <3>2, <3>3
  <2>2. ~InFront(p, m, q, m + 1, R)
    BY <2>1, FirstBeforeAll
  <2> QED BY <2>1, <2>2, NonePassed
<1>6. CASE b = q
  <2>1. i \in 1 .. m /\ i < q /\ <<m + 1, p[i]>> \in R /\ i = a
    <3>1. a # q /\ a < q
      BY <1>6
    <3>2. i \in 1 .. m /\ t[a] = p[i] /\ i < q
      BY <1>2, <3>1
    <3>3. i = a
      BY <3>1 DEF PlaceBefore
    <3> HIDE DEF i
    <3> QED BY <1>1, <1>6, <3>2, <3>3
  <2>2. q # 1 /\ Behind(p, m, q, m + 1, R)
    BY <2>1 DEF Inserting, InFront
  <2>3. q - 1 \in 1 .. m /\ <<m + 1, p[q - 1]>> \notin R
    BY <1>1, <2>2 DEF Behind
  <2>4. i < q - 1 /\ p[q - 1] \in 1 .. n /\ p[i] \in 1 .. n
    <3>1. i # q - 1
      BY <2>1, <2>3
    <3>2. p[q - 1] \in 1 .. m /\ p[i] \in 1 .. m
      BY <1>1, <2>1, <2>3
    <3> HIDE DEF i
    <3>3. i < q - 1
      BY <1>1, <2>1, <3>1
    <3>4. m <= n
      BY <1>1
    <3> QED BY <1>1, <3>2, <3>3, <3>4
  <2>5. \E c \in 1 .. m : i < c /\ c < q /\ p[c] \in L
    <3>1. CASE p[q - 1] \in L
      BY <1>1, <2>3, <2>4, <3>1
    <3>2. CASE p[q - 1] \notin L
      <4>1. <<p[q - 1], p[i]>> \in R
        BY <1>1, <2>1, <2>3, <2>4, <3>2 DEF WeakOrderBut
      <4>2. \E c \in 1 .. m : i < c /\ c < q - 1 /\ p[c] \in L
        BY <1>1, <2>1, <2>3, <2>4, <4>1 DEF PartedBy
      <4> QED BY <1>1, <4>2
    <3> QED BY <3>1, <3>2
  <2>6. PICK c \in 1 .. m : i < c /\ c < q /\ p[c] \in L
    BY <2>5
  <2>7. PlaceAfter(c, q) = c /\ t[c] = p[c] /\ c \in 1 .. m + 1
    BY <1>4, <2>6 DEF PlaceAfter
  <2> QED BY <1>6, <2>1, <2>6, <2>7
<1>7. CASE a # q /\ b # q
  <2>1. i < j /\ <<p[j], p[i]>> \in R /\ i \in 1 .. m /\ j \in 1 .. m
    BY <1>2, <1>3, <1>7
  <2>2. PICK c \in 1 .. m : i < c /\ c < j /\ p[c] \in L
    BY <1>1, <2>1 DEF PartedBy
  <2> DEFINE x == PlaceAfter(c, q)
  <2>3. x \in 1 .. m + 1 /\ x # q /\ t[x] = p[c] /\ PlaceBefore(x, q) = c
    BY <1>4
  <2>4. a < x
    BY <1>2, <1>7, <2>2, <2>3
  <2>5. x < b
    BY <1>7, <2>2, <2>3, OldPlace
  <2> QED BY <2>2, <2>3, <2>4, <2>5
<1> QED BY <1>5, <1>6, <1>7

(* In front of one that was put before one not compared nothing changes.   *)
LEMMA StayInFront ==
  ASSUME NEW t, NEW p, NEW m, NEW q, NEW n, NEW R, NEW L, Inserting(t, p, m, q, n, R, L)
  PROVE  PutInFront(t, m + 1, R, L)
<1> SUFFICES ASSUME NEW a \in 1 .. m + 1, NEW c \in 1 .. m + 1, a < c, t[c] \in L, t[c] < t[a],
                    NEW e \in 1 .. m + 1
             PROVE  /\ e < a => t[e] \notin L /\ t[e] > t[a]
                    /\ e > a /\ t[e] < t[a] => <<t[e], t[a]>> \notin R
  BY DEF PutInFront
<1> DEFINE i == PlaceBefore(a, q)
           k == PlaceBefore(c, q)
           j == PlaceBefore(e, q)
<1>1. /\ m \in Nat /\ n \in Nat /\ p \in [1 .. m -> 1 .. m]
      /\ PutInFront(p, m, R, L) /\ q \in 1 .. m + 1 /\ t[q] = m + 1
  BY OldPlace DEF Inserting, Sorts, EachOnce
<1>2. ASSUME a # q
      PROVE  /\ i \in 1 .. m /\ t[a] = p[i] /\ p[i] \in 1 .. n /\ p[i] < m + 1
             /\ \A x \in 1 .. m + 1 : x # q => (a < x <=> i < PlaceBefore(x, q))
  BY <1>2, OldPlace
<1>3. c # q
  BY <1>1, <1>2
<1>4. k \in 1 .. m /\ t[c] = p[k] /\ p[k] \in L /\ (k < q <=> c < q)
  BY <1>3, OldPlace
<1>5. ASSUME e # q
      PROVE  /\ j \in 1 .. m /\ t[e] = p[j]
             /\ \A x \in 1 .. m + 1 : x # q => (e < x <=> j < PlaceBefore(x, q))
  BY <1>5, OldPlace
<1>6. q < c => InFront(p, m, q, m + 1, R)
  <2> SUFFICES ASSUME q < c PROVE InFront(p, m, q, m + 1, R)
    OBVIOUS
  <2>1. q <= k
    <3> HIDE DEF k
    <3> QED BY <1>1, <1>4
  <2> QED BY <1>4, <2>1, NonePassed
<1>7. CASE a = q
  <2>1. InFront(p, m, q, m + 1, R) /\ q = 1
    <3>1. q < c
      BY <1>7
    <3> QED BY <1>6, <3>1 DEF InFront
  <2>2. \A x \in 1 .. m : <<p[x], m + 1>> \notin R
    BY <2>1, FirstBeforeAll
  <2>3. ~(e < a)
    BY <1>1, <1>7, <2>1
  <2>4. e > a => e # q /\ <<t[e], t[a]>> \notin R
    <3> SUFFICES ASSUME e > a PROVE e # q /\ <<t[e], t[a]>> \notin R
      OBVIOUS
    <3>1. e # q
      BY <1>7
    <3> QED BY <1>1, <1>5, <1>7, <2>2, <3>1
  <2> QED BY <2>3, <2>4
<1>8. CASE a # q
  <2>1. i < k /\ p[k] < p[i] /\ i \in 1 .. m
    BY <1>2, <1>3, <1>4, <1>8
  <2>2. CASE e = q
    <3>1. e < a => m + 1 \notin L
      <4> SUFFICES ASSUME e < a PROVE m + 1 \notin L
        OBVIOUS
      <4>1. q < c
        BY <1>1, <2>2
      <4> QED BY <1>4, <1>6, <4>1, FirstBeforeAll
    <3>2. t[a] \in Int /\ t[a] < m + 1 /\ t[e] = m + 1
      <4>1. t[a] = p[i] /\ p[i] \in 1 .. n /\ p[i] < m + 1
        BY <1>2, <1>8
      <4> HIDE DEF i
      <4> QED BY <1>1, <2>2, <4>1
    <3>3. t[e] > t[a] /\ ~(t[e] < t[a])
      BY <1>1, <3>2
    <3> QED BY <3>1, <3>2, <3>3
  <2>3. CASE e # q
    <3>1. j \in 1 .. m /\ t[e] = p[j] /\ (e < a <=> j < i)
      BY <1>5, <1>8, <2>3
    <3>2. a < e <=> i < j
      BY <1>2, <1>8, <2>3
    <3>3. /\ j < i => p[j] \notin L /\ p[j] > p[i]
          /\ j > i /\ p[j] < p[i] => <<p[j], p[i]>> \notin R
      BY <1>1, <1>4, <2>1, <3>1 DEF PutInFront
    <3> QED BY <1>2, <1>8, <3>1, <3>2, <3>3
  <2> QED BY <2>2, <2>3
<1> QED BY <1>7, <1>8

(* The one that was first stays before one that was not put in front of it.*)
LEMMA StayBehindFirst ==
  ASSUME NEW t, NEW p, NEW m, NEW q, NEW n, NEW R, NEW L, Inserting(t, p, m, q, n, R, L)
  PROVE  BehindFirst(t, m + 1, R)
<1> SUFFICES ASSUME NEW b \in 1 .. m + 1
             PROVE  \/ \A a \in 1 .. m + 1 : a < b => t[a] > t[b]
                    \/ \E f \in 1 .. m + 1 : /\ f < b /\ t[f] < t[b] /\ <<t[b], t[f]>> \notin R
                                             /\ \A e \in 1 .. m + 1 : e < f => t[e] > t[b]
  BY DEF BehindFirst
<1> DEFINE j == PlaceBefore(b, q)
<1>1. /\ m \in Nat /\ n \in Nat /\ p \in [1 .. m -> 1 .. m]
      /\ BehindFirst(p, m, R) /\ q \in 1 .. m + 1 /\ t[q] = m + 1
  BY OldPlace DEF Inserting, Sorts, EachOnce
<1>2. CASE b = q
  <2>1. CASE InFront(p, m, q, m + 1, R)
    BY <1>2, <2>1 DEF InFront
  <2>2. CASE Behind(p, m, q, m + 1, R)
    <3>1. q \in 2 .. m + 1 /\ <<m + 1, p[1]>> \notin R
      BY <2>2 DEF Behind
    <3>2. 1 \in 1 .. m + 1 /\ 1 # q /\ 1 < q /\ PlaceBefore(1, q) = 1
      BY <1>1, <3>1 DEF PlaceBefore
    <3>3. t[1] = p[1] /\ p[1] < m + 1
      BY <3>2, OldPlace
    <3>4. \A e \in 1 .. m + 1 : ~(e < 1)
      BY <1>1
    <3> QED BY <1>1, <1>2, <3>1, <3>2, <3>3, <3>4
  <2> QED BY <2>1, <2>2 DEF Inserting
<1>3. CASE b # q
  <2>1. j \in 1 .. m /\ t[b] = p[j] /\ p[j] < m + 1
    BY <1>3, OldPlace
  <2>2. ASSUME NEW x \in 1 .. m + 1, x # q
        PROVE  PlaceBefore(x, q) \in 1 .. m /\ t[x] = p[PlaceBefore(x, q)]
               /\ \A y \in 1 .. m + 1 : y # q => (x < y <=> PlaceBefore(x, q) < PlaceBefore(y, q))
    BY <2>2, OldPlace
  <2>3. CASE \A a \in 1 .. m : a < j => p[a] > p[j]
    <3> SUFFICES ASSUME NEW a \in 1 .. m + 1, a < b PROVE t[a] > t[b]
      OBVIOUS
    <3>1. CASE a = q
      BY <1>1, <2>1, <3>1
    <3>2. CASE a # q
      BY <1>3, <2>1, <2>2, <2>3, <3>2
    <3> QED BY <3>1, <3>2
  <2>4. ASSUME NEW g \in 1 .. m, g < j, p[g] < p[j], <<p[j], p[g]>> \notin R,
               \A e \in 1 .. m : e < g => p[e] > p[j]
        PROVE  \E f \in 1 .. m + 1 : /\ f < b /\ t[f] < t[b] /\ <<t[b], t[f]>> \notin R
                                     /\ \A e \in 1 .. m + 1 : e < f => t[e] > t[b]
    <3> DEFINE f == PlaceAfter(g, q)
    <3>1. f \in 1 .. m + 1 /\ f # q /\ t[f] = p[g] /\ PlaceBefore(f, q) = g
      BY OldPlace
    <3>2. f < b
      BY <1>3, <2>2, <2>4, <3>1
    <3>3. ASSUME NEW e \in 1 .. m + 1, e < f PROVE t[e] > t[b]
      <4>1. CASE e = q
        BY <1>1, <2>1, <4>1
      <4>2. CASE e # q
        <5>1. PlaceBefore(e, q) \in 1 .. m /\ t[e] = p[PlaceBefore(e, q)] /\ PlaceBefore(e, q) < g
          BY <2>2, <3>1, <3>3, <4>2
        <5> QED BY <2>1, <2>4, <5>1
      <4> QED BY <4>1, <4>2
    <3> QED BY <2>1, <2>4, <3>1, <3>2, <3>3
  <2> QED BY <1>1, <2>1, <2>3, <2>4 DEF BehindFirst
<1> QED BY <1>2, <1>3

(* A further element is inserted.                                          *)
LEMMA InsertedInTurn ==
  ASSUME NEW m \in Nat, NEW n \in Nat, m + 1 <= n, NEW R, NEW L, WeakOrderBut(R, L, n),
         NEW p \in Seq(Nat), Sorts(p, m, R, L)
  PROVE  LET t == InsertAt(p, PlaceOf(p, m + 1, R), m + 1)
         IN t \in Seq(Nat) /\ DOMAIN t = 1 .. m + 1 /\ Sorts(t, m + 1, R, L)
<1> DEFINE q == PlaceOf(p, m + 1, R)
           t == InsertAt(p, q, m + 1)
<1>1. p \in [1 .. m -> 1 .. m] /\ Len(p) = m
  BY DEF Sorts, EachOnce
<1>2. q \in 1 .. m + 1 /\ (InFront(p, m, q, m + 1, R) \/ Behind(p, m, q, m + 1, R))
  BY <1>1, PlaceIs
<1>3. /\ t \in Seq(Nat) /\ DOMAIN t = 1 .. m + 1
      /\ \A k \in 1 .. m + 1 : t[k] = IF k < q THEN p[k] ELSE IF k = q THEN m + 1 ELSE p[k - 1]
  <2>1. q \in 1 .. Len(p) + 1 /\ m + 1 \in Nat
    BY <1>1, <1>2
  <2> DEFINE S == Nat
  <2>3. p \in Seq(S) /\ m + 1 \in S
    BY <2>1
  <2> HIDE DEF q, S
  <2>2. /\ t \in Seq(S) /\ DOMAIN t = 1 .. Len(p) + 1
        /\ \A k \in 1 .. Len(p) + 1 : t[k] = IF k < q THEN p[k] ELSE IF k = q THEN m + 1 ELSE p[k - 1]
    BY <2>1, <2>3, Inserted
  <2> QED BY <1>1, <2>2 DEF S
<1> HIDE DEF q, t
<1>4. HasAt(t, p, m, q, m + 1)
  BY <1>2, <1>3 DEF HasAt
<1>5. Inserting(t, p, m, q, n, R, L)
  BY <1>2, <1>4 DEF Inserting
<1>6. t \in [1 .. m + 1 -> Nat]
  BY <1>3
<1>7. EachOnce(t, m + 1)
  BY <1>4, <1>6, OnceMore DEF Sorts
<1>8. Sorts(t, m + 1, R, L)
  BY <1>5, <1>7, FirstStaysLeast, LaterStayBehind, StayParted, StayInFront, StayBehindFirst DEF Sorts
<1> QED BY <1>3, <1>8 DEF q, t

(* The order of the elements of a sequence, by their numbers.              *)
OrderOf(seq, B) == {x \in (1 .. Len(seq)) \X (1 .. Len(seq)) : <<seq[x[1]], seq[x[2]]>> \in B}
Arranged(seq, p, m) == [k \in 1 .. m |-> seq[p[k]]]

(* An element goes where its number would.                                 *)
LEMMA ArrangedInTurn ==
  ASSUME NEW V, NEW seq \in Seq(V), NEW B, NEW m \in Nat, m + 1 <= Len(seq),
         NEW p \in Seq(Nat), EachOnce(p, m)
  PROVE  LET R == OrderOf(seq, B)
             d == Arranged(seq, p, m)
             t == InsertAt(p, PlaceOf(p, m + 1, R), m + 1)
         IN InsertAt(d, PlaceOf(d, seq[m + 1], B), seq[m + 1]) = Arranged(seq, t, m + 1)
<1> DEFINE R == OrderOf(seq, B)
           d == Arranged(seq, p, m)
           q == PlaceOf(p, m + 1, R)
           t == InsertAt(p, q, m + 1)
           v == seq[m + 1]
           u == InsertAt(d, q, v)
<1>1. p \in [1 .. m -> 1 .. m] /\ Len(p) = m /\ DOMAIN p = 1 .. m
  BY DEF EachOnce
<1>2. v \in V /\ \A k \in 1 .. m : seq[p[k]] \in V /\ p[k] \in 1 .. Len(seq)
  BY <1>1
<1>3. d \in Seq(V) /\ Len(d) = m /\ DOMAIN d = 1 .. m
  BY <1>2 DEF Arranged
<1>4. \A k \in 1 .. m : <<v, d[k]>> \in B <=> <<m + 1, p[k]>> \in R
  <2> SUFFICES ASSUME NEW k \in 1 .. m PROVE <<v, d[k]>> \in B <=> <<m + 1, p[k]>> \in R
    OBVIOUS
  <2>1. d[k] = seq[p[k]]
    BY DEF Arranged
  <2>2. m + 1 \in 1 .. Len(seq) /\ p[k] \in 1 .. Len(seq)
    BY <1>2
  <2>3. <<m + 1, p[k]>> \in R <=> <<seq[m + 1], seq[p[k]]>> \in B
    BY <2>2 DEF OrderOf
  <2> QED BY <2>1, <2>3
<1>5. PlaceOf(d, v, B) = q
  <2>1. {k \in DOMAIN d : <<v, d[k]>> \notin B} = {k \in DOMAIN p : <<m + 1, p[k]>> \notin R}
    <3> HIDE DEF d, v, R
    <3> QED BY <1>1, <1>3, <1>4
  <2> HIDE DEF d, v, R
  <2> QED BY <2>1 DEF PlaceOf, q
<1>6. q \in 1 .. m + 1
  <2> HIDE DEF R
  <2> QED BY <1>1, PlaceIs
<1>7. /\ DOMAIN t = 1 .. m + 1
      /\ \A k \in 1 .. m + 1 : t[k] = IF k < q THEN p[k] ELSE IF k = q THEN m + 1 ELSE p[k - 1]
  <2> DEFINE S == Nat
  <2>1. p \in Seq(S) /\ m + 1 \in S /\ q \in 1 .. Len(p) + 1
    BY <1>1, <1>6
  <2> HIDE DEF q, S
  <2>2. /\ DOMAIN t = 1 .. Len(p) + 1
        /\ \A k \in 1 .. Len(p) + 1 : t[k] = IF k < q THEN p[k] ELSE IF k = q THEN m + 1 ELSE p[k - 1]
    BY <2>1, Inserted
  <2> QED BY <1>1, <2>2
<1>8. /\ u \in Seq(V) /\ DOMAIN u = 1 .. m + 1
      /\ \A k \in 1 .. m + 1 : u[k] = IF k < q THEN d[k] ELSE IF k = q THEN v ELSE d[k - 1]
  <2>1. q \in 1 .. Len(d) + 1 /\ v \in V /\ d \in Seq(V)
    BY <1>2, <1>3, <1>6
  <2> HIDE DEF q, d, v
  <2>2. /\ u \in Seq(V) /\ DOMAIN u = 1 .. Len(d) + 1
        /\ \A k \in 1 .. Len(d) + 1 : u[k] = IF k < q THEN d[k] ELSE IF k = q THEN v ELSE d[k - 1]
    BY <2>1, Inserted
  <2> QED BY <1>3, <2>2
<1>9. ASSUME NEW k \in 1 .. m + 1 PROVE u[k] = seq[t[k]]
  <2>1. \A j \in 1 .. m : d[j] = seq[p[j]]
    BY DEF Arranged
  <2> HIDE DEF q, t, u, d
  <2>2. CASE k < q
    BY <1>6, <1>7, <1>8, <2>1, <2>2
  <2>3. CASE k = q
    BY <1>7, <1>8, <2>3
  <2>4. CASE q < k
    <3>1. k - 1 \in 1 .. m /\ ~(k < q) /\ k # q
      BY <1>6, <2>4
    <3> QED BY <1>7, <1>8, <2>1, <3>1
  <2> QED BY <1>6, <2>2, <2>3, <2>4
<1>10. u = Arranged(seq, t, m + 1)
  <2>1. u = [k \in 1 .. m + 1 |-> u[k]]
    <3> HIDE DEF u
    <3> QED BY <1>8
  <2> HIDE DEF u, t
  <2> QED BY <1>9, <2>1 DEF Arranged
<1> QED BY <1>5, <1>10

(* d[m] is the first m elements, inserted in turn.                         *)
InsertsAll(d, seq, B) ==
  /\ d[0] = <<>>
  /\ \A m \in 1 .. Len(seq) : d[m] = InsertAt(d[m - 1], PlaceOf(d[m - 1], seq[m], B), seq[m])

(* By whatever relation, each element is there once.                       *)
LEMMA ListedInTurn ==
  ASSUME NEW V, NEW seq \in Seq(V), NEW B, NEW d, InsertsAll(d, seq, B)
  PROVE  \E p \in Seq(Nat) : EachOnce(p, Len(seq)) /\ d[Len(seq)] = Arranged(seq, p, Len(seq))
<1> DEFINE n == Len(seq)
           R == OrderOf(seq, B)
           Good(m) == \E p \in Seq(Nat) : EachOnce(p, m) /\ d[m] = Arranged(seq, p, m)
           T == {m \in 0 .. n : ~Good(m)}
<1>1. /\ n \in Nat /\ d[0] = <<>>
      /\ \A m \in 1 .. n : d[m] = InsertAt(d[m - 1], PlaceOf(d[m - 1], seq[m], B), seq[m])
  BY DEF InsertsAll
<1>2. Good(0)
  <2>1. <<>> \in Seq(Nat) /\ d[0] = Arranged(seq, <<>>, 0)
    BY <1>1 DEF Arranged
  <2>2. EachOnce(<<>>, 0)
    BY DEF EachOnce
  <2> QED BY <2>1, <2>2
<1>3. ASSUME NEW m \in 0 .. n, m + 1 <= n, Good(m) PROVE Good(m + 1)
  <2>1. PICK p \in Seq(Nat) : EachOnce(p, m) /\ d[m] = Arranged(seq, p, m)
    BY <1>3
  <2> DEFINE q == PlaceOf(p, m + 1, R)
             t == InsertAt(p, q, m + 1)
             S == Nat
  <2>2. m \in Nat /\ DOMAIN p = 1 .. m /\ Len(p) = m
    BY <1>1, <2>1 DEF EachOnce
  <2>3. q \in 1 .. m + 1
    <3> HIDE DEF R
    <3> QED BY <2>2, PlaceIs
  <2>4. p \in Seq(S) /\ m + 1 \in S /\ q \in 1 .. Len(p) + 1
    BY <2>2, <2>3
  <2> HIDE DEF S, q
  <2>5. /\ t \in Seq(S) /\ DOMAIN t = 1 .. Len(p) + 1
        /\ \A k \in 1 .. Len(p) + 1 : t[k] = IF k < q THEN p[k] ELSE IF k = q THEN m + 1 ELSE p[k - 1]
    BY <2>4, Inserted
  <2> HIDE DEF t
  <2>6. /\ t \in Seq(Nat) /\ DOMAIN t = 1 .. m + 1
        /\ \A k \in 1 .. m + 1 : t[k] = IF k < q THEN p[k] ELSE IF k = q THEN m + 1 ELSE p[k - 1]
    BY <2>2, <2>5 DEF S
  <2>7. HasAt(t, p, m, q, m + 1)
    <3>1. ASSUME NEW k \in 1 .. m PROVE t[IF k < q THEN k ELSE k + 1] = p[k]
      <4>1. CASE k < q
        BY <2>2, <2>3, <2>6, <4>1
      <4>2. CASE ~(k < q)
        <5>1. k + 1 \in 1 .. m + 1 /\ ~(k + 1 < q) /\ k + 1 # q /\ (k + 1) - 1 = k
          BY <2>2, <2>3, <4>2
        <5>2. t[k + 1] = p[(k + 1) - 1]
          BY <2>6, <5>1
        <5> QED BY <4>2, <5>1, <5>2
      <4> QED BY <4>1, <4>2
    <3>2. t[q] = m + 1
      BY <2>3, <2>6
    <3> QED BY <2>3, <3>1, <3>2 DEF HasAt
  <2>8. t \in [1 .. m + 1 -> Nat]
    BY <2>6
  <2>9. EachOnce(t, m + 1)
    BY <2>1, <2>2, <2>7, <2>8, OnceMore
  <2>10. InsertAt(d[m], PlaceOf(d[m], seq[m + 1], B), seq[m + 1]) = Arranged(seq, t, m + 1)
    BY <1>3, <2>1, <2>2, ArrangedInTurn DEF t, q
  <2>11. d[m + 1] = InsertAt(d[m], PlaceOf(d[m], seq[m + 1], B), seq[m + 1])
    <3>1. m + 1 \in 1 .. n /\ (m + 1) - 1 = m
      BY <1>1, <1>3
    <3> HIDE DEF n
    <3> QED BY <1>1, <3>1
  <2> QED BY <2>6, <2>9, <2>10, <2>11
<1>4. T = {}
  <2> SUFFICES ASSUME T # {} PROVE FALSE
    OBVIOUS
  <2>1. PICK m \in T : \A k \in 0 .. n : k < m => k \notin T
    <3>1. T \subseteq 0 .. n
      OBVIOUS
    <3> HIDE DEF T
    <3> QED BY <1>1, <3>1, LeastOf
  <2>2. m \in 0 .. n /\ ~Good(m)
    OBVIOUS
  <2> HIDE DEF Good
  <2>3. m # 0
    BY <1>2, <2>2
  <2>4. m - 1 \in 0 .. n /\ m - 1 < m /\ (m - 1) + 1 = m /\ (m - 1) + 1 <= n
    BY <1>1, <2>2, <2>3
  <2>5. Good(m - 1)
    BY <2>1, <2>4
  <2>6. Good((m - 1) + 1)
    BY <1>3, <2>4, <2>5
  <2> QED BY <2>2, <2>4, <2>6
<1> HIDE DEF Good
<1>5. Good(n)
  BY <1>1, <1>4
<1> QED BY <1>5 DEF Good

(* The insertion sort arranges the elements as Sorts says.                 *)
LEMMA SortedInTurn ==
  ASSUME NEW V, NEW seq \in Seq(V), NEW B, NEW L, NEW R, R = OrderOf(seq, B),
         WeakOrderBut(R, L, Len(seq)), NEW d, InsertsAll(d, seq, B)
  PROVE  \E p \in Seq(Nat) : Sorts(p, Len(seq), R, L) /\ d[Len(seq)] = Arranged(seq, p, Len(seq))
<1> DEFINE n == Len(seq)
           Good(m) == \E p \in Seq(Nat) : Sorts(p, m, R, L) /\ d[m] = Arranged(seq, p, m)
           T == {m \in 0 .. n : ~Good(m)}
<1>0. /\ n \in Nat /\ d[0] = <<>>
      /\ \A m \in 1 .. n : d[m] = InsertAt(d[m - 1], PlaceOf(d[m - 1], seq[m], B), seq[m])
  BY DEF InsertsAll
<1>1. Good(0)
  <2>1. <<>> \in Seq(Nat) /\ d[0] = Arranged(seq, <<>>, 0)
    BY <1>0 DEF Arranged
  <2>2. Sorts(<<>>, 0, R, L)
    BY DEF Sorts, EachOnce, FirstLeast, LaterBehind, PartedBy, PutInFront, BehindFirst
  <2> QED BY <2>1, <2>2
<1>2. ASSUME NEW m \in 0 .. n, m + 1 <= n, Good(m) PROVE Good(m + 1)
  <2>1. PICK p \in Seq(Nat) : Sorts(p, m, R, L) /\ d[m] = Arranged(seq, p, m)
    BY <1>2
  <2> DEFINE t == InsertAt(p, PlaceOf(p, m + 1, R), m + 1)
  <2>2. t \in Seq(Nat) /\ Sorts(t, m + 1, R, L)
    BY <1>0, <1>2, <2>1, InsertedInTurn
  <2>3. InsertAt(d[m], PlaceOf(d[m], seq[m + 1], B), seq[m + 1]) = Arranged(seq, t, m + 1)
    BY <1>0, <1>2, <2>1, ArrangedInTurn DEF Sorts
  <2>4. d[m + 1] = InsertAt(d[m], PlaceOf(d[m], seq[m + 1], B), seq[m + 1])
    <3>1. m + 1 \in 1 .. n /\ (m + 1) - 1 = m
      BY <1>0, <1>2
    <3> HIDE DEF n
    <3> QED BY <1>0, <3>1
  <2> QED BY <2>2, <2>3, <2>4
<1>3. T = {}
  <2> SUFFICES ASSUME T # {} PROVE FALSE
    OBVIOUS
  <2>1. PICK m \in T : \A k \in 0 .. n : k < m => k \notin T
    <3>1. T \subseteq 0 .. n
      OBVIOUS
    <3> HIDE DEF T
    <3> QED BY <1>0, <3>1, LeastOf
  <2>2. m \in 0 .. n /\ ~Good(m)
    OBVIOUS
  <2> HIDE DEF Good
  <2>3. m # 0
    BY <1>1, <2>2
  <2>4. m - 1 \in 0 .. n /\ m - 1 < m /\ (m - 1) + 1 = m
    BY <1>0, <2>2, <2>3
  <2>5. Good(m - 1)
    BY <2>1, <2>4
  <2>6. Good((m - 1) + 1)
    <3>1. (m - 1) + 1 <= n
      BY <1>0, <2>2
    <3> QED BY <1>2, <2>4, <2>5, <3>1
  <2> QED BY <2>2, <2>4, <2>6
<1> HIDE DEF Good
<1>4. Good(n)
  BY <1>0, <1>3
<1> QED BY <1>4 DEF Good

(* A sum lies between as many times the least and the greatest of what is  *)
(* summed.                                                                 *)
LEMMA SumBounds ==
  ASSUME NEW S, IsFiniteSet(S), NEW f, \A x \in S : f[x] \in Int, NEW m \in Int
  PROVE  /\ (\A x \in S : m <= f[x]) => m * Cardinality(S) <= SumFunctionOnSet(f, S)
         /\ (\A x \in S : f[x] <= m) => SumFunctionOnSet(f, S) <= m * Cardinality(S)
<1> DEFINE Sum(U) == SumFunctionOnSet(f, U)
           Bounded(U) == /\ (\A x \in U : m <= f[x]) => m * Cardinality(U) <= Sum(U)
                         /\ (\A x \in U : f[x] <= m) => Sum(U) <= m * Cardinality(U)
           T == {U \in SUBSET S : ~Bounded(U)}
<1> SUFFICES ASSUME T # {} PROVE FALSE
  OBVIOUS
<1>1. PICK U \in T : \A V \in T : V \subseteq U => V = U
  <2>1. T \subseteq SUBSET S
    OBVIOUS
  <2> HIDE DEF T
  <2> QED BY <2>1, MinimalSubset
<1>2. U \subseteq S /\ IsFiniteSet(U) /\ Cardinality(U) \in Nat
  BY FS_Subset, FS_CardinalityType
<1>3. CASE U = {}
  <2>1. Cardinality(U) = 0 /\ Sum(U) = 0
    BY <1>3, FS_EmptySet, SumType
  <2> HIDE DEF Sum
  <2>2. m * Cardinality(U) = 0
    BY <2>1
  <2>3. Bounded(U)
    BY <2>1, <2>2
  <2> QED BY <2>3
<1>4. CASE U # {}
  <2>1. PICK x : x \in U
    BY <1>4
  <2> DEFINE V == U \ {x}
  <2>2. V \subseteq S /\ V # U /\ V \subseteq U
    BY <1>2, <2>1
  <2>3. Bounded(V)
    BY <1>1, <2>2
  <2>4. IsFiniteSet(V) /\ Cardinality(V) \in Nat /\ Cardinality(U) = Cardinality(V) + 1
    <3>1. IsFiniteSet(V) /\ Cardinality(V) = Cardinality(U) - 1
      BY <1>2, <2>1, FS_RemoveElement
    <3>2. Cardinality(V) \in Nat
      BY <3>1, FS_CardinalityType
    <3> HIDE DEF V
    <3> QED BY <1>2, <3>1, <3>2
  <2>5. Sum(U) = f[x] + Sum(V) /\ f[x] \in Int
    BY <1>2, <2>1, SumStep
  <2>6. Sum(V) \in Int
    BY <2>2, <2>4, SumType
  <2>7. PICK c \in Nat, s \in Int : c = Cardinality(V) /\ s = Sum(V)
    BY <2>4, <2>6
  <2>8. \A y \in V : y \in U
    OBVIOUS
  <2> HIDE DEF V, Sum
  <2>9. m * Cardinality(U) = m * c + m /\ m * c \in Int
    <3>1. Cardinality(U) = c + 1
      BY <2>4, <2>7
    <3>2. m * (c + 1) = m * c + m /\ m * c \in Int
      BY <2>7
    <3> QED BY <3>1, <3>2
  <2>10. Bounded(U)
    BY <2>1, <2>3, <2>5, <2>7, <2>8, <2>9
  <2> QED BY <2>10
<1> QED BY <1>3, <1>4
=============================================================================
