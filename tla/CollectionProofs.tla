-------------------------- MODULE CollectionProofs --------------------------
(***************************************************************************)
(* What rounds of collection promise, for any posts, queries, plans,       *)
(* windows, bands, budgets and numbers of runs: a post that its source     *)
(* lists late is within reach of the next MONITOR, and no round sends,     *)
(* charges or keeps more than the budgets of its run leave.                *)
(*                                                                         *)
(* The inductive invariant CollectionInv says of the first that what is    *)
(* neither stored nor passed over lies no further behind the watermark of  *)
(* its source than the overlap (InReach), which holds because what a       *)
(* source has not listed yet is no older than its delay (ListedInTime) and *)
(* all that a round marks was made before its run began (AnswersFit). It   *)
(* says of the second that the jobs of a round have shared out no more     *)
(* than is left (SharesFit). That is what planning is proved to do for     *)
(* every plan (SharesPlanned): the shares of the first n of n make up the  *)
(* whole (SplitSums), a candidate has its own turn among its rivals        *)
(* (TurnIs, TurnsDiffer, NthIs), a source its own rank (RanksDiffer). The  *)
(* collectors keep to it: no page holds more than its size (PageFits).     *)
(*                                                                         *)
(* The sums are recursive functions. What they compute is proved without   *)
(* induction over an operator: of any counterexamples there is a least one *)
(* (LeastNatural, LeastSubset), by the well-foundedness of < on Nat and of *)
(* the strict subsets of a finite set, and a least one is refuted.         *)
(***************************************************************************)
EXTENDS Collection, FiniteSetTheorems, SequenceTheorems, WellFoundedInduction, TLAPS

-----------------------------------------------------------------------------
(* The least and the greatest.                                             *)

Less == {ss \in Nat \X Nat : ss[1] < ss[2]}

LEMMA LessIsWellFounded == IsWellFoundedOn(Less, Nat)
BY NatLessThanWellFounded DEF Less, OpToRel

LEMMA LeastNatural ==
  ASSUME NEW S, S \subseteq Nat, S # {}
  PROVE  \E n \in S : \A m \in S : n <= m
<1>1. PICK n \in S : \A m \in S : <<m, n>> \notin Less
  BY LessIsWellFounded, WFMin
<1>2. \A m \in S : ~ (m < n)
  BY <1>1 DEF Less
<1> QED BY <1>2

LEMMA MaxIs ==
  ASSUME NEW S, S \subseteq Int, S # {}, NEW bound \in Int, \A x \in S : x <= bound
  PROVE  Max(S) \in S /\ \A x \in S : x <= Max(S)
<1> DEFINE D == {bound - x : x \in S}
<1>1. D \subseteq Nat /\ D # {}
  <2>1. \A x \in S : bound - x \in Nat
    <3> SUFFICES ASSUME NEW x \in S PROVE bound - x \in Nat
      OBVIOUS
    <3>1. x \in Int /\ x <= bound
      OBVIOUS
    <3> QED BY <3>1
  <2> QED BY <2>1
<1>2. PICK d \in D : \A e \in D : d <= e
  BY <1>1, LeastNatural
<1>3. PICK m \in S : d = bound - m
  BY <1>2
<1>4. ASSUME NEW x \in S PROVE m >= x
  <2>1. d <= bound - x
    BY <1>2
  <2>2. m \in Int /\ x \in Int
    OBVIOUS
  <2> QED BY <1>3, <2>1, <2>2
<1>5. \E x \in S : \A y \in S : x >= y
  BY <1>4
<1>6. Max(S) \in S /\ \A y \in S : Max(S) >= y
  BY <1>5 DEF Max
<1> QED BY <1>6

\* The oldest watermark of any sources.
LEMMA LastWatermarkIs ==
  ASSUME NEW table, DOMAIN table \subseteq Site, DOMAIN table # {},
         \A s \in DOMAIN table : table[s].watermark \in Int
  PROVE  /\ LastWatermark(table) \in Int
         /\ \A s \in DOMAIN table : LastWatermark(table) <= table[s].watermark
<1> DEFINE W == {table[s].watermark : s \in DOMAIN table}
<1>1. \E x \in W : \A y \in W : x =< y
  <2> DEFINE Least(s) == s \in DOMAIN table
                         /\ \A t \in DOMAIN table : table[s].watermark =< table[t].watermark
  <2>1. Least("GITHUB") \/ Least("HACKER_NEWS") \/ Least("REDDIT")
    BY DEF Site
  <2>2. PICK s \in DOMAIN table : Least(s)
    BY <2>1
  <2> QED BY <2>2
<1>2. Min(W) \in W /\ \A y \in W : Min(W) =< y
  BY <1>1 DEF Min
<1> QED BY <1>2 DEF LastWatermark

-----------------------------------------------------------------------------
(* Sums of a function over a finite set.                                   *)

LEMMA LeastSubset ==
  ASSUME NEW S, IsFiniteSet(S), NEW B, B \subseteq SUBSET S, B # {}
  PROVE  \E T \in B : \A U \in B : U \subseteq T => U = T
<1>1. B \subseteq FiniteSubsetsOf(S)
  BY FS_FiniteSubsetsOfFinite
<1>2. PICK T \in B : \A U \in B : ~ (<<U, T>> \in StrictSubsetOrdering(S))
  BY <1>1, FS_StrictSubsetOrderingWellFounded, WFMin
<1>3. ASSUME NEW U \in B, U \subseteq T, U # T PROVE FALSE
  <2>1. <<U, T>> \in StrictSubsetOrdering(S)
    BY <1>3 DEF StrictSubsetOrdering
  <2> QED BY <1>2, <2>1
<1> QED BY <1>3

Pick(s) == CHOOSE x \in s : TRUE
Sums(g, f, S) ==
    g = [s \in SUBSET S |-> IF s = {} THEN 0 ELSE f[Pick(s)] + g[s \ {Pick(s)}]]

LEMMA PickIs == ASSUME NEW s, s # {} PROVE Pick(s) \in s
BY DEF Pick

LEMMA SumsAgree ==
  ASSUME NEW f, NEW S, NEW T, NEW g, NEW h, Sums(g, f, S), Sums(h, f, T),
         NEW U, IsFiniteSet(U), U \subseteq S, U \subseteq T
  PROVE  g[U] = h[U]
<1> DEFINE B == {V \in SUBSET U : g[V] # h[V]}
<1>1. SUFFICES ASSUME B # {} PROVE FALSE
  OBVIOUS
<1>2. PICK V \in B : \A W \in B : W \subseteq V => W = V
  <2>1. B \subseteq SUBSET U
    OBVIOUS
  <2> HIDE DEF B
  <2> QED BY <1>1, <2>1, LeastSubset
<1>3. V \in SUBSET S /\ V \in SUBSET T
  OBVIOUS
<1>4. CASE V = {}
  BY <1>2, <1>3, <1>4 DEF Sums
<1>5. CASE V # {}
  <2> DEFINE W == V \ {Pick(V)}
  <2>1. W \subseteq V /\ W # V /\ W \in SUBSET U
    BY <1>5, PickIs
  <2>2. g[W] = h[W]
    BY <1>2, <2>1
  <2>3. g[V] = f[Pick(V)] + g[W] /\ h[V] = f[Pick(V)] + h[W]
    BY <1>3, <1>5 DEF Sums
  <2> QED BY <1>2, <2>2, <2>3
<1> QED BY <1>4, <1>5

LEMMA SumsExist ==
  ASSUME NEW f, NEW S, IsFiniteSet(S)
  PROVE  \E g : Sums(g, f, S)
<1> DEFINE B == {T \in SUBSET S : ~ \E g : Sums(g, f, T)}
<1>1. SUFFICES ASSUME B # {} PROVE FALSE
  OBVIOUS
<1>2. PICK T \in B : \A U \in B : U \subseteq T => U = T
  <2>1. B \subseteq SUBSET S
    OBVIOUS
  <2> HIDE DEF B
  <2> QED BY <1>1, <2>1, LeastSubset
<1> DEFINE H(u) == CHOOSE g : Sums(g, f, u)
           g == [s \in SUBSET T |-> IF s = {} THEN 0
                                    ELSE f[Pick(s)] + H(s \ {Pick(s)})[s \ {Pick(s)}]]
<1>3. ASSUME NEW u \in SUBSET T, u # T PROVE Sums(H(u), f, u)
  BY <1>2, <1>3
<1>4. ASSUME NEW u \in SUBSET T, u # T PROVE H(u)[u] = g[u]
  <2>1. Sums(H(u), f, u)
    BY <1>3, <1>4
  <2> HIDE DEF H
  <2>2. CASE u = {}
    BY <2>1, <2>2 DEF Sums
  <2>3. CASE u # {}
    <3> DEFINE v == u \ {Pick(u)}
    <3>1. v \in SUBSET u /\ v \in SUBSET T /\ v # T /\ IsFiniteSet(v)
      BY <1>2, <1>4, <2>3, PickIs, FS_Subset
    <3>2. Sums(H(v), f, v)
      BY <1>3, <3>1
    <3>3. H(u)[v] = H(v)[v]
      BY <2>1, <3>1, <3>2, SumsAgree
    <3>4. H(u)[u] = f[Pick(u)] + H(u)[v]
      BY <2>1, <2>3 DEF Sums
    <3>5. g[u] = f[Pick(u)] + H(v)[v]
      BY <2>3
    <3> QED BY <3>3, <3>4, <3>5
  <2> QED BY <2>2, <2>3
<1>5. \A s \in SUBSET T : s # {} => s \ {Pick(s)} \in SUBSET T /\ s \ {Pick(s)} # T
  BY PickIs
<1>6. g = [s \in SUBSET T |-> IF s = {} THEN 0 ELSE f[Pick(s)] + g[s \ {Pick(s)}]]
  <2>1. ASSUME NEW s \in SUBSET T, s # {} PROVE g[s] = f[Pick(s)] + g[s \ {Pick(s)}]
    <3>1. H(s \ {Pick(s)})[s \ {Pick(s)}] = g[s \ {Pick(s)}]
      BY <1>4, <1>5, <2>1
    <3>2. g[s] = f[Pick(s)] + H(s \ {Pick(s)})[s \ {Pick(s)}]
      BY <2>1 DEF g
    <3> HIDE DEF g, H
    <3> QED BY <3>1, <3>2
  <2>2. g = [s \in SUBSET T |-> g[s]] /\ g[{}] = 0
    OBVIOUS
  <2> HIDE DEF g
  <2> QED BY <2>1, <2>2
<1>7. Sums(g, f, T)
  BY <1>6 DEF Sums
<1> QED BY <1>2, <1>7

LEMMA SumFunctionIs ==
  ASSUME NEW f, NEW S, IsFiniteSet(S)
  PROVE  \E g : Sums(g, f, S) /\ SumFunctionOnSet(f, S) = g[S]
<1> DEFINE g == CHOOSE g : Sums(g, f, S)
<1>1. Sums(g, f, S)
  BY SumsExist
<1>2. SumFunctionOnSet(f, S) = g[S]
  BY DEF SumFunctionOnSet, FoldFunctionOnSet, MapThenFoldSet, Sums, Pick
<1> QED BY <1>1, <1>2

\* The sum of nothing, and of one thing more: of whichever there is.
LEMMA SumEmpty ==
  ASSUME NEW f
  PROVE  SumFunctionOnSet(f, {}) = 0
<1>1. IsFiniteSet({})
  BY FS_EmptySet
<1>2. PICK g : Sums(g, f, {}) /\ SumFunctionOnSet(f, {}) = g[{}]
  BY <1>1, SumFunctionIs
<1>3. g[{}] = 0
  BY <1>2 DEF Sums
<1> QED BY <1>2, <1>3

LEMMA SumPicks ==
  ASSUME NEW f, NEW S, IsFiniteSet(S), S # {}
  PROVE  SumFunctionOnSet(f, S) = f[Pick(S)] + SumFunctionOnSet(f, S \ {Pick(S)})
<1> DEFINE R == S \ {Pick(S)}
<1>1. R \subseteq S /\ IsFiniteSet(R)
  BY FS_Subset
<1>2. PICK g : Sums(g, f, S) /\ SumFunctionOnSet(f, S) = g[S]
  BY SumFunctionIs
<1>3. PICK h : Sums(h, f, R) /\ SumFunctionOnSet(f, R) = h[R]
  BY <1>1, SumFunctionIs
<1>4. g[R] = h[R]
  BY <1>1, <1>2, <1>3, SumsAgree
<1>5. g[S] = f[Pick(S)] + g[R]
  BY <1>2 DEF Sums
<1> QED BY <1>2, <1>3, <1>4, <1>5

LEMMA SumType ==
  ASSUME NEW f, NEW S, IsFiniteSet(S), \A x \in S : f[x] \in Int
  PROVE  SumFunctionOnSet(f, S) \in Int
<1> DEFINE B == {T \in SUBSET S : SumFunctionOnSet(f, T) \notin Int}
<1>1. SUFFICES ASSUME B # {} PROVE FALSE
  OBVIOUS
<1>2. PICK T \in B : \A U \in B : U \subseteq T => U = T
  <2>1. B \subseteq SUBSET S
    OBVIOUS
  <2> HIDE DEF B
  <2> QED BY <1>1, <2>1, LeastSubset
<1>3. T # {} /\ IsFiniteSet(T) /\ T \subseteq S /\ SumFunctionOnSet(f, T) \notin Int
  <2>1. T \subseteq S /\ SumFunctionOnSet(f, T) \notin Int
    BY <1>2
  <2>2. T # {}
    BY <2>1, SumEmpty
  <2> QED BY <2>1, <2>2, FS_Subset
<1> DEFINE R == T \ {Pick(T)}
<1>4. R \subseteq T /\ R # T /\ R \in SUBSET S /\ Pick(T) \in S
  BY <1>3, PickIs
<1>5. SumFunctionOnSet(f, R) \in Int
  BY <1>2, <1>4
<1>6. SumFunctionOnSet(f, T) = f[Pick(T)] + SumFunctionOnSet(f, R)
  BY <1>3, SumPicks
<1> QED BY <1>3, <1>4, <1>5, <1>6

LEMMA SumTakes ==
  ASSUME NEW f, NEW S, IsFiniteSet(S), \A x \in S : f[x] \in Int, NEW x \in S
  PROVE  SumFunctionOnSet(f, S) = f[x] + SumFunctionOnSet(f, S \ {x})
<1> DEFINE Sum(T) == SumFunctionOnSet(f, T)
           Bad(T) == \E y \in T : Sum(T) # f[y] + Sum(T \ {y})
           B == {T \in SUBSET S : Bad(T)}
<1>1. SUFFICES ASSUME B # {} PROVE FALSE
  OBVIOUS
<1>2. PICK T \in B : \A U \in B : U \subseteq T => U = T
  <2>1. B \subseteq SUBSET S
    OBVIOUS
  <2> HIDE DEF B
  <2> QED BY <1>1, <2>1, LeastSubset
<1>3. PICK y \in T : Sum(T) # f[y] + Sum(T \ {y})
  BY <1>2
<1> DEFINE p == Pick(T)
           R == T \ {p}
           Q == T \ {y}
           N == R \ {y}
<1>4. p \in T /\ T \subseteq S /\ IsFiniteSet(T) /\ T # {}
  BY <1>2, <1>3, PickIs, FS_Subset
<1>5. Sum(T) = f[p] + Sum(R)
  BY <1>4, SumPicks
<1>6. y # p
  BY <1>3, <1>5
<1>7. /\ R \in SUBSET S /\ Q \in SUBSET S /\ R \subseteq T /\ Q \subseteq T /\ R # T /\ Q # T
      /\ y \in R /\ p \in Q /\ Q \ {p} = N
  BY <1>3, <1>4, <1>6
<1>8. Sum(R) = f[y] + Sum(N) /\ Sum(Q) = f[p] + Sum(Q \ {p})
  <2>1. ~ Bad(R) /\ ~ Bad(Q)
    BY <1>2, <1>7
  <2> QED BY <1>7, <2>1
<1>9. Sum(N) \in Int /\ f[p] \in Int /\ f[y] \in Int
  <2>1. IsFiniteSet(N) /\ N \subseteq S
    BY <1>4, FS_Subset
  <2> QED BY <1>3, <1>4, <2>1, SumType
<1> HIDE DEF Sum, p, R, Q, N
<1> QED BY <1>3, <1>5, <1>7, <1>8, <1>9 DEF Q

\* Sums over parts, of smaller and of the same terms.
LEMMA SumAtMost ==
  ASSUME NEW f, NEW g, NEW S, IsFiniteSet(S), \A x \in S : f[x] \in Int /\ g[x] \in Int /\ f[x] <= g[x]
  PROVE  SumFunctionOnSet(f, S) <= SumFunctionOnSet(g, S)
<1> DEFINE F(T) == SumFunctionOnSet(f, T)
           G(T) == SumFunctionOnSet(g, T)
           B == {T \in SUBSET S : ~ (F(T) <= G(T))}
<1>1. SUFFICES ASSUME B # {} PROVE FALSE
  OBVIOUS
<1>2. PICK T \in B : \A U \in B : U \subseteq T => U = T
  <2>1. B \subseteq SUBSET S
    OBVIOUS
  <2> HIDE DEF B
  <2> QED BY <1>1, <2>1, LeastSubset
<1>3. T \subseteq S /\ ~ (F(T) <= G(T)) /\ IsFiniteSet(T)
  BY <1>2, FS_Subset
<1>4. T # {}
  BY <1>3, SumEmpty
<1>5. PICK x \in T : TRUE
  BY <1>4
<1> DEFINE R == T \ {x}
<1>6. R \subseteq T /\ R # T /\ R \in SUBSET S /\ IsFiniteSet(R)
  BY <1>3, FS_Subset
<1>7. F(R) <= G(R)
  BY <1>2, <1>6
<1>8. F(T) = f[x] + F(R) /\ G(T) = g[x] + G(R)
  BY <1>3, SumTakes
<1>9. F(R) \in Int /\ G(R) \in Int /\ f[x] \in Int /\ g[x] \in Int /\ f[x] <= g[x]
  BY <1>3, <1>6, SumType
<1> HIDE DEF F, G, R
<1> QED BY <1>3, <1>7, <1>8, <1>9

LEMMA SumSame ==
  ASSUME NEW f, NEW g, NEW S, IsFiniteSet(S), \A x \in S : f[x] \in Int /\ f[x] = g[x]
  PROVE  SumFunctionOnSet(f, S) = SumFunctionOnSet(g, S)
<1>1. SumFunctionOnSet(f, S) <= SumFunctionOnSet(g, S)
  BY SumAtMost
<1>2. SumFunctionOnSet(g, S) <= SumFunctionOnSet(f, S)
  BY SumAtMost
<1>3. SumFunctionOnSet(f, S) \in Int /\ SumFunctionOnSet(g, S) \in Int
  BY SumType
<1> QED BY <1>1, <1>2, <1>3

LEMMA SumZero ==
  ASSUME NEW f, NEW S, IsFiniteSet(S), \A x \in S : f[x] \in Nat
  PROVE  SumFunctionOnSet(f, S) \in Nat
<1> DEFINE B == {T \in SUBSET S : SumFunctionOnSet(f, T) \notin Nat}
<1>1. SUFFICES ASSUME B # {} PROVE FALSE
  OBVIOUS
<1>2. PICK T \in B : \A U \in B : U \subseteq T => U = T
  <2>1. B \subseteq SUBSET S
    OBVIOUS
  <2> HIDE DEF B
  <2> QED BY <1>1, <2>1, LeastSubset
<1>3. T \subseteq S /\ SumFunctionOnSet(f, T) \notin Nat /\ IsFiniteSet(T)
  BY <1>2, FS_Subset
<1>4. T # {}
  BY <1>3, SumEmpty
<1> DEFINE R == T \ {Pick(T)}
<1>5. R \subseteq T /\ R # T /\ R \in SUBSET S /\ Pick(T) \in S
  BY <1>3, <1>4, PickIs
<1>6. SumFunctionOnSet(f, R) \in Nat
  BY <1>2, <1>5
<1>7. SumFunctionOnSet(f, T) = f[Pick(T)] + SumFunctionOnSet(f, R)
  BY <1>3, <1>4, SumPicks
<1> QED BY <1>3, <1>5, <1>6, <1>7

LEMMA SumOfParts ==
  ASSUME NEW f, NEW S, IsFiniteSet(S), \A x \in S : f[x] \in Int, NEW A \in SUBSET S
  PROVE  SumFunctionOnSet(f, S) = SumFunctionOnSet(f, A) + SumFunctionOnSet(f, S \ A)
<1> DEFINE F(T) == SumFunctionOnSet(f, T)
           B == {T \in SUBSET S : F(T) # F(T \cap A) + F(T \ A)}
<1>0. S \cap A = A
  OBVIOUS
<1>1. SUFFICES ASSUME B # {} PROVE FALSE
  <2>1. S \notin B => F(S) = F(S \cap A) + F(S \ A)
    OBVIOUS
  <2> HIDE DEF F
  <2>2. B = {} => F(S) = F(A) + F(S \ A)
    BY <1>0, <2>1
  <2> QED BY <2>2 DEF F
<1>2. PICK T \in B : \A U \in B : U \subseteq T => U = T
  <2>1. B \subseteq SUBSET S
    OBVIOUS
  <2> HIDE DEF B
  <2> QED BY <1>1, <2>1, LeastSubset
<1>3. T \subseteq S /\ F(T) # F(T \cap A) + F(T \ A) /\ IsFiniteSet(T)
  BY <1>2, FS_Subset
<1>4. T # {}
  <2>1. {} \cap A = {} /\ {} \ A = {}
    OBVIOUS
  <2> QED BY <1>3, <2>1, SumEmpty
<1>5. PICK x \in T : TRUE
  BY <1>4
<1> DEFINE R == T \ {x}
<1>6. R \subseteq T /\ R # T /\ R \in SUBSET S /\ IsFiniteSet(R)
  BY <1>3, FS_Subset
<1>7. F(R) = F(R \cap A) + F(R \ A)
  BY <1>2, <1>6
<1>8. F(T) = f[x] + F(R)
  BY <1>3, SumTakes
<1>9. /\ IsFiniteSet(T \cap A) /\ IsFiniteSet(T \ A) /\ IsFiniteSet(R \cap A) /\ IsFiniteSet(R \ A)
      /\ \A y \in T : f[y] \in Int
  BY <1>3, <1>6, FS_Subset
<1>10. f[x] \in Int /\ F(R \cap A) \in Int /\ F(R \ A) \in Int
  BY <1>6, <1>9, SumType
<1>11. CASE x \in A
  <2>1. (T \cap A) \ {x} = R \cap A /\ T \ A = R \ A /\ x \in T \cap A
    BY <1>11
  <2>2. F(T \cap A) = f[x] + F((T \cap A) \ {x})
    BY <1>9, <2>1, SumTakes
  <2>3. F(T \cap A) = f[x] + F(R \cap A) /\ F(T \ A) = F(R \ A)
    BY <2>1, <2>2
  <2> HIDE DEF F, R
  <2> QED BY <1>3, <1>7, <1>8, <1>10, <2>3
<1>12. CASE x \notin A
  <2>1. (T \ A) \ {x} = R \ A /\ T \cap A = R \cap A /\ x \in T \ A
    BY <1>12
  <2>2. F(T \ A) = f[x] + F((T \ A) \ {x})
    BY <1>9, <2>1, SumTakes
  <2>3. F(T \ A) = f[x] + F(R \ A) /\ F(T \cap A) = F(R \cap A)
    BY <2>1, <2>2
  <2> HIDE DEF F, R
  <2> QED BY <1>3, <1>7, <1>8, <1>10, <2>3
<1> QED BY <1>11, <1>12

\* Terms that are those of different others sum up to no more than all of the others.
LEMMA SumOfOthers ==
  ASSUME NEW f, NEW S, IsFiniteSet(S), NEW g, NEW T, IsFiniteSet(T), NEW to \in [S -> T],
         \A x, y \in S : to[x] = to[y] => x = y,
         \A x \in S : f[x] = g[to[x]], \A y \in T : g[y] \in Nat
  PROVE  SumFunctionOnSet(f, S) <= SumFunctionOnSet(g, T)
<1> DEFINE F(X) == SumFunctionOnSet(f, X)
           G(Y) == SumFunctionOnSet(g, Y)
           Image(X) == {to[x] : x \in X}
           B == {X \in SUBSET S : F(X) # G(Image(X))}
<1>0. ASSUME B # {} PROVE FALSE
  <2>1. B # {}
    BY <1>0
  <2>2. PICK X \in B : \A U \in B : U \subseteq X => U = X
    <3>1. B \subseteq SUBSET S
      OBVIOUS
    <3> HIDE DEF B
    <3> QED BY <2>1, <3>1, LeastSubset
  <2>3. X \subseteq S /\ F(X) # G(Image(X)) /\ IsFiniteSet(X)
    BY <2>2, FS_Subset
  <2>4. X # {}
    <3>1. Image({}) = {}
      OBVIOUS
    <3> QED BY <2>3, <3>1, SumEmpty
  <2>5. PICK x \in X : TRUE
    BY <2>4
  <2> DEFINE R == X \ {x}
  <2>6. R \subseteq X /\ R # X /\ R \in SUBSET S
    BY <2>3
  <2>7. F(R) = G(Image(R))
    BY <2>2, <2>6
  <2>8. F(X) = f[x] + F(R)
    <3>1. \A y \in X : f[y] \in Int
      BY <2>3
    <3> QED BY <2>3, <3>1, SumTakes
  <2>9. Image(X) \ {to[x]} = Image(R) /\ to[x] \in Image(X) /\ Image(X) \subseteq T
    BY <2>3
  <2>10. G(Image(X)) = g[to[x]] + G(Image(X) \ {to[x]})
    <3>1. IsFiniteSet(Image(X)) /\ \A y \in Image(X) : g[y] \in Int
      <4>1. Image(X) \in SUBSET T
        BY <2>9
      <4> HIDE DEF Image
      <4> QED BY <4>1, FS_Subset
    <3> HIDE DEF Image
    <3> QED BY <2>9, <3>1, SumTakes
  <2>11. f[x] = g[to[x]]
    BY <2>3
  <2> HIDE DEF F, G, Image, R
  <2> QED BY <2>3, <2>7, <2>8, <2>9, <2>10, <2>11
<1>1. F(S) = G(Image(S))
  <2>1. S \notin B => F(S) = G(Image(S))
    OBVIOUS
  <2> HIDE DEF F, G, Image
  <2> QED BY <1>0, <2>1
<1>2. Image(S) \in SUBSET T
  OBVIOUS
<1> HIDE DEF Image
<1>3. /\ IsFiniteSet(Image(S)) /\ IsFiniteSet(T \ Image(S))
      /\ \A y \in T : g[y] \in Int
  BY <1>2, FS_Subset
<1>4. G(T) = G(Image(S)) + G(T \ Image(S))
  BY <1>2, <1>3, SumOfParts
<1>5. G(T \ Image(S)) \in Nat
  BY <1>3, SumZero
<1>6. G(Image(S)) \in Nat
  BY <1>2, <1>3, SumZero
<1> HIDE DEF F, G
<1>7. F(S) <= G(T)
  BY <1>1, <1>4, <1>5, <1>6
<1> QED BY <1>7 DEF F, G

\* A sum over a set is that of the sums over the parts a key divides it into.
LEMMA SumByKey ==
  ASSUME NEW f, NEW S, IsFiniteSet(S), \A x \in S : f[x] \in Int,
         NEW K, IsFiniteSet(K), NEW key \in [S -> K]
  PROVE  SumFunctionOnSet(f, S)
            = SumFunctionOnSet([k \in K |-> SumFunctionOnSet(f, {x \in S : key[x] = k})], K)
<1> DEFINE F(X) == SumFunctionOnSet(f, X)
           Of(J) == {x \in S : key[x] \in J}
           h == [k \in K |-> F({x \in S : key[x] = k})]
           H(J) == SumFunctionOnSet(h, J)
           B == {J \in SUBSET K : F(Of(J)) # H(J)}
<1>1. Of(K) = S
  OBVIOUS
<1>2. SUFFICES ASSUME B # {} PROVE FALSE
  <2>1. K \notin B => F(Of(K)) = H(K)
    OBVIOUS
  <2> HIDE DEF F, H, Of
  <2>2. F(S) = H(K)
    BY <1>1, <2>1
  <2> QED BY <2>2 DEF F, H
<1>3. PICK J \in B : \A U \in B : U \subseteq J => U = J
  <2>1. B \subseteq SUBSET K
    OBVIOUS
  <2> HIDE DEF B
  <2> QED BY <1>2, <2>1, LeastSubset
<1>4. J \subseteq K /\ F(Of(J)) # H(J) /\ IsFiniteSet(J)
  BY <1>3, FS_Subset
<1>5. J # {}
  <2>1. Of({}) = {}
    OBVIOUS
  <2> QED BY <1>4, <2>1, SumEmpty
<1>6. PICK k \in J : TRUE
  BY <1>5
<1> DEFINE R == J \ {k}
           A == {x \in S : key[x] = k}
<1>7. R \subseteq J /\ R # J /\ R \in SUBSET K
  BY <1>4
<1>8. F(Of(R)) = H(R)
  BY <1>3, <1>7
<1>9. \A j \in K : h[j] \in Int
  <2> SUFFICES ASSUME NEW j \in K PROVE F({x \in S : key[x] = j}) \in Int
    OBVIOUS
  <2> DEFINE P == {x \in S : key[x] = j}
  <2>1. IsFiniteSet(P) /\ \A x \in P : f[x] \in Int
    BY FS_Subset
  <2> HIDE DEF P
  <2>2. F(P) \in Int
    BY <2>1, SumType
  <2> QED BY <2>2 DEF P
<1>10. H(J) = h[k] + H(R)
  <2>1. \A j \in J : h[j] \in Int
    BY <1>4, <1>9
  <2> HIDE DEF h
  <2> QED BY <1>4, <2>1, SumTakes
<1>11. h[k] = F(A)
  BY <1>4
<1>12. A \in SUBSET Of(J) /\ Of(J) \ A = Of(R)
  OBVIOUS
<1>13. IsFiniteSet(Of(J)) /\ \A x \in Of(J) : f[x] \in Int
  BY FS_Subset
<1>14. F(Of(J)) = F(A) + F(Of(J) \ A)
  <2> HIDE DEF Of, A
  <2> QED BY <1>12, <1>13, SumOfParts
<1> HIDE DEF F, H, Of, A, h, R
<1> QED BY <1>4, <1>8, <1>10, <1>11, <1>12, <1>14

-----------------------------------------------------------------------------
(* The candidates have their turns: each number up to their number is one's. *)

Triples == Nat \X Nat \X Nat
Upto(c, S) == {d \in S : ~ Before(c, d)}

LEMMA BeforeOrders ==
  ASSUME NEW c \in Triples, NEW d \in Triples, NEW e \in Triples
  PROVE  /\ ~ Before(c, c)
         /\ c # d => Before(c, d) \/ Before(d, c)
         /\ Before(c, d) /\ Before(d, e) => Before(c, e)
<1>1. /\ c[1] \in Nat /\ c[2] \in Nat /\ c[3] \in Nat /\ c = <<c[1], c[2], c[3]>>
      /\ d[1] \in Nat /\ d[2] \in Nat /\ d[3] \in Nat /\ d = <<d[1], d[2], d[3]>>
      /\ e[1] \in Nat /\ e[2] \in Nat /\ e[3] \in Nat
  BY DEF Triples
<1>2. ~ Before(c, c)
  BY <1>1 DEF Before
<1>3. c # d => Before(c, d) \/ Before(d, c)
  <2>1. c # d => c[1] # d[1] \/ c[2] # d[2] \/ c[3] # d[3]
    BY <1>1
  <2> QED BY <1>1, <2>1 DEF Before
<1>4. Before(c, d) /\ Before(d, e) => Before(c, e)
  BY <1>1 DEF Before
<1> QED BY <1>2, <1>3, <1>4

LEMMA TurnsDiffer ==
  ASSUME NEW S, S \subseteq Triples, IsFiniteSet(S), NEW c \in S, NEW d \in S, Before(c, d)
  PROVE  Turn(c, S) < Turn(d, S)
<1>1. Upto(c, S) \subseteq Upto(d, S)
  <2> SUFFICES ASSUME NEW x \in S, ~ Before(c, x), Before(d, x) PROVE FALSE
    BY DEF Upto
  <2> QED BY BeforeOrders
<1>2. d \in Upto(d, S) /\ d \notin Upto(c, S)
  BY BeforeOrders DEF Upto
<1>3. IsFiniteSet(Upto(d, S))
  BY FS_Subset DEF Upto
<1>4. /\ Cardinality(Upto(c, S)) <= Cardinality(Upto(d, S))
      /\ Cardinality(Upto(c, S)) # Cardinality(Upto(d, S))
      /\ IsFiniteSet(Upto(c, S))
  BY <1>1, <1>2, <1>3, FS_Subset
<1>5. Cardinality(Upto(c, S)) \in Nat /\ Cardinality(Upto(d, S)) \in Nat
  BY <1>3, <1>4, FS_CardinalityType
<1> QED BY <1>4, <1>5 DEF Turn, Upto

LEMMA TurnIs ==
  ASSUME NEW S, S \subseteq Triples, IsFiniteSet(S), NEW c \in S
  PROVE  Turn(c, S) \in 1 .. Cardinality(S)
<1>1. c \in Upto(c, S) /\ Upto(c, S) \subseteq S
  BY BeforeOrders DEF Upto
<1>2. /\ IsFiniteSet(Upto(c, S)) /\ Cardinality(Upto(c, S)) <= Cardinality(S)
      /\ Cardinality(Upto(c, S)) \in Nat /\ Cardinality(S) \in Nat
  BY <1>1, FS_Subset, FS_CardinalityType
<1>3. Cardinality(Upto(c, S)) # 0
  BY <1>1, <1>2, FS_EmptySet
<1> QED BY <1>2, <1>3 DEF Turn, Upto

LEMMA NthIs ==
  ASSUME NEW S, S \subseteq Triples, IsFiniteSet(S), NEW n \in 1 .. Cardinality(S)
  PROVE  Nth(n, S) \in S /\ Turn(Nth(n, S), S) = n
<1> DEFINE f == [c \in S |-> Turn(c, S)]
           N == Cardinality(S)
<1>1. N \in Nat
  BY FS_CardinalityType
<1>2. f \in [S -> 1 .. N]
  BY TurnIs
<1>3. ASSUME NEW c \in S, NEW d \in S, f[c] = f[d] PROVE c = d
  <2>1. Turn(c, S) = Turn(d, S) /\ Turn(c, S) \in Nat
    BY <1>1, <1>3, TurnIs
  <2>2. Before(c, d) => Turn(c, S) < Turn(d, S)
    BY TurnsDiffer
  <2>3. Before(d, c) => Turn(d, S) < Turn(c, S)
    BY TurnsDiffer
  <2> QED BY <2>1, <2>2, <2>3, BeforeOrders
<1>4. f \in Injection(S, 1 .. N)
  BY <1>2, <1>3 DEF Injection, IsInjective
<1>5. IsFiniteSet(1 .. N) /\ Cardinality(1 .. N) = N
  BY <1>1, FS_Interval
<1>6. f \in Surjection(S, 1 .. N)
  BY <1>4, <1>5, FS_Injection
<1>7. \E c \in S : f[c] = n
  BY <1>6 DEF Surjection
<1>8. \E c \in S : Turn(c, S) = n
  BY <1>7
<1> QED BY <1>8 DEF Nth

-----------------------------------------------------------------------------
(* Shares and limits.                                                      *)

LEMMA UptoFinite == ASSUME NEW n \in Nat PROVE IsFiniteSet(1 .. n)
BY FS_Interval

LEMMA Divided ==
  ASSUME NEW t \in Nat, NEW n \in Nat \ {0}
  PROVE  t \div n \in Nat /\ t % n \in 0 .. (n - 1) /\ t = n * (t \div n) + (t % n)
OBVIOUS

LEMMA SplitIs ==
  ASSUME NEW t \in Nat, NEW n \in Nat \ {0}, NEW i \in Nat
  PROVE  /\ Split(t, n, i) \in Nat
         /\ n <= t => Split(t, n, i) > 0
<1>1. t \div n \in Nat /\ t % n \in 0 .. (n - 1) /\ t = n * (t \div n) + (t % n)
  BY Divided
<1>2. Split(t, n, i) = (t \div n) + (IF i <= (t % n) THEN 1 ELSE 0)
  BY DEF Split
<1>3. n <= t => t \div n # 0
  <2> SUFFICES ASSUME t \div n = 0 PROVE ~ (n <= t)
    OBVIOUS
  <2>1. n * (t \div n) = 0
    OBVIOUS
  <2> QED BY <1>1, <2>1
<1> QED BY <1>1, <1>2, <1>3

\* The shares of the first of N make up the whole.
LEMMA SplitSums ==
  ASSUME NEW t \in Nat, NEW N \in Nat \ {0}, NEW f, \A n \in 1 .. N : f[n] = Split(t, N, n)
  PROVE  SumFunctionOnSet(f, 1 .. N) = t
<1> DEFINE F(m) == SumFunctionOnSet(f, 1 .. m)
           Q == t \div N
           R == t % N
           Bad == {m \in 0 .. N : F(m) # m * Q + Lower(m, R)}
<1>1. Q \in Nat /\ R \in 0 .. (N - 1) /\ t = N * Q + R
  BY Divided
<1>2. \A n \in 1 .. N : f[n] = Q + (IF n <= R THEN 1 ELSE 0) /\ f[n] \in Int
  BY <1>1 DEF Split
<1> HIDE DEF Q, R
<1>3. ASSUME Bad # {} PROVE FALSE
  <2>1. Bad \subseteq Nat
    OBVIOUS
  <2>2. PICK m \in Bad : \A l \in Bad : m <= l
    <3> HIDE DEF Bad
    <3> QED BY <1>3, <2>1, LeastNatural
  <2>3. m \in 0 .. N /\ F(m) # m * Q + Lower(m, R)
    OBVIOUS
  <2>4. m # 0
    <3>1. 1 .. 0 = {} /\ 0 * Q = 0 /\ Lower(0, R) = 0
      BY <1>1 DEF Lower
    <3>2. SumFunctionOnSet(f, {}) = 0
      BY SumEmpty
    <3> QED BY <2>3, <3>1, <3>2
  <2>5. m \in 1 .. N /\ m - 1 \in 0 .. N
    BY <2>3, <2>4
  <2>6. F(m - 1) = (m - 1) * Q + Lower(m - 1, R)
    <3>1. m - 1 \notin Bad
      BY <2>2, <2>5
    <3> QED BY <2>5, <3>1
  <2>7. F(m) = f[m] + F(m - 1)
    <3>1. IsFiniteSet(1 .. m)
      BY <2>5, UptoFinite
    <3>4. (1 .. m) \ {m} = 1 .. (m - 1) /\ m \in 1 .. m
      BY <2>5
    <3>2. \A n \in 1 .. m : f[n] \in Int
      BY <1>2, <2>5
    <3>3. SumFunctionOnSet(f, 1 .. m) = f[m] + SumFunctionOnSet(f, (1 .. m) \ {m})
      BY <3>1, <3>2, <3>4, SumTakes
    <3> QED BY <3>3, <3>4
  <2>8. m * Q = (m - 1) * Q + Q
    BY <1>1, <2>5
  <2>9. (m - 1) * Q \in Int
    BY <1>1, <2>5
  <2>10. f[m] = Q + (IF m <= R THEN 1 ELSE 0)
    BY <1>2, <2>5
  <2>11. Lower(m, R) = Lower(m - 1, R) + (IF m <= R THEN 1 ELSE 0)
    BY <1>1, <2>5 DEF Lower
  <2>12. Lower(m - 1, R) \in Int
    BY <1>1, <2>5 DEF Lower
  <2> DEFINE p == (m - 1) * Q
             d == IF m <= R THEN 1 ELSE 0
  <2>13. p \in Int /\ d \in Int /\ f[m] = Q + d /\ Lower(m, R) = Lower(m - 1, R) + d
         /\ m * Q = p + Q /\ F(m - 1) = p + Lower(m - 1, R)
    BY <2>6, <2>8, <2>9, <2>10, <2>11
  <2> HIDE DEF F, p, d
  <2> QED BY <1>1, <2>3, <2>7, <2>12, <2>13
<1>4. F(N) = N * Q + Lower(N, R)
  <2>1. N \in 0 .. N
    OBVIOUS
  <2> QED BY <1>3, <2>1
<1>5. Lower(N, R) = R
  BY <1>1 DEF Lower
<1> HIDE DEF F
<1>6. F(N) = t
  BY <1>1, <1>4, <1>5
<1> QED BY <1>6 DEF F

LEMMA SumOfFunction ==
  ASSUME NEW f
  PROVE  SumFunction(f) = SumFunctionOnSet(f, DOMAIN f)
BY DEF SumFunction, SumFunctionOnSet, FoldFunction, FoldFunctionOnSet

-----------------------------------------------------------------------------
(* What is planned for a round.                                            *)

Checkpoint == [cursor : Cursor, watermark : Int]

\* Checkpoints of sources, marked before the time t.
MarkedBefore(table, t) ==
    /\ DOMAIN table \subseteq Site
    /\ table \in [DOMAIN table -> Checkpoint]
    /\ \A s \in DOMAIN table : table[s].watermark < t

WindowFits(w, until) == /\ w.since \in Int /\ w.until \in Int
                        /\ w.since < until /\ w.until <= until

LEMMA WindowsFit ==
  ASSUME NEW mode \in {"HUNT", "MONITOR"}, NEW until \in Nat, NEW context, NEW t, MarkedBefore(context, t),
         mode = "MONITOR" => /\ context # <<>>
                             /\ LastWatermark(context) - Overlap < until,
         NEW windows, windows = Windows(mode, until, context)
  PROVE  /\ DOMAIN windows \subseteq Nat /\ IsFiniteSet(DOMAIN windows)
         /\ \A b \in DOMAIN windows : WindowFits(windows[b], until)
<1>1. CASE mode = "HUNT"
  <2>1. windows = Strata(until)
    BY <1>1 DEF Windows
  <2>2. DOMAIN windows \subseteq DOMAIN Bands
    BY <2>1 DEF Strata
  <2>3. DOMAIN Bands = 1 .. Len(Bands) /\ Len(Bands) \in Nat
    BY CollectionAssumption
  <2>4. IsFiniteSet(DOMAIN windows)
    <3>1. IsFiniteSet(DOMAIN Bands)
      BY <2>3, UptoFinite
    <3> QED BY <2>2, <3>1, FS_Subset
  <2>5. ASSUME NEW b \in DOMAIN windows PROVE WindowFits(windows[b], until)
    <3>1. /\ Bands[b][1] < Lookback /\ b \in DOMAIN Bands
          /\ windows[b] = Window(until - Lower(Bands[b][2], Lookback), until - Bands[b][1])
      BY <2>1 DEF Strata
    <3>2. Bands[b][1] \in Nat /\ Bands[b][2] \in Nat /\ Bands[b][1] < Bands[b][2] /\ Lookback \in Nat
      BY <3>1, CollectionAssumption
    <3> QED BY <3>1, <3>2 DEF WindowFits, Window, Lower
  <2> QED BY <2>2, <2>3, <2>4, <2>5
<1>2. CASE mode = "MONITOR"
  <2>1. windows = <<Window(LastWatermark(context) - Overlap, until)>>
    BY <1>2 DEF Windows
  <2>2. DOMAIN windows = {1} /\ windows[1] = Window(LastWatermark(context) - Overlap, until)
    BY <2>1
  <2>3. DOMAIN context # {}
    <3>1. context = [s \in DOMAIN context |-> context[s]]
      BY DEF MarkedBefore
    <3>2. DOMAIN context = {} => context = <<>>
      BY <3>1
    <3> QED BY <1>2, <3>2
  <2>4. LastWatermark(context) \in Int
    BY <2>3, LastWatermarkIs DEF MarkedBefore, Checkpoint
  <2>5. Overlap \in Nat
    BY CollectionAssumption
  <2>6. WindowFits(windows[1], until)
    BY <1>2, <2>2, <2>4, <2>5 DEF WindowFits, Window
  <2>7. IsFiniteSet({1})
    BY FS_Singleton
  <2> QED BY <2>2, <2>6, <2>7
<1> QED BY <1>1, <1>2

\* The sources chosen for a round have their ranks, each its own.
LEMMA RanksDiffer ==
  ASSUME NEW plan, NEW signals, NEW chosen, chosen = ChosenSources(plan, signals)
  PROVE  /\ chosen \subseteq 1 .. 3 /\ IsFiniteSet(chosen) /\ Cardinality(chosen) \in Nat
         /\ \A i \in chosen : Rank(i, chosen) \in 1 .. Cardinality(chosen)
         /\ \A i, j \in chosen : Rank(i, chosen) = Rank(j, chosen) => i = j
<1> DEFINE Of(i) == {j \in chosen : j <= i}
<1>1. DOMAIN SourceOrder = 1 .. 3
  BY DEF SourceOrder
<1>2. chosen \subseteq 1 .. 3
  BY <1>1 DEF AskedSources, ChosenSources
<1>3. IsFiniteSet(1 .. 3)
  BY UptoFinite
<1>4. IsFiniteSet(chosen) /\ Cardinality(chosen) \in Nat
  BY <1>2, <1>3, FS_Subset, FS_CardinalityType
<1>5. \A i \in chosen : Rank(i, chosen) = Cardinality(Of(i)) /\ i \in Of(i)
  BY <1>2 DEF Rank
<1>6. \A i \in chosen : Of(i) \in SUBSET chosen
  OBVIOUS
<1>7. ASSUME NEW i \in chosen
      PROVE  /\ Cardinality(Of(i)) \in Nat /\ IsFiniteSet(Of(i))
             /\ Cardinality(Of(i)) <= Cardinality(chosen) /\ Cardinality(Of(i)) # 0
  <2>1. i \in Of(i) /\ Of(i) \in SUBSET chosen
    BY <1>5, <1>6
  <2> HIDE DEF Of
  <2> QED BY <1>4, <2>1, FS_Subset, FS_CardinalityType, FS_EmptySet
<1>8. ASSUME NEW i \in chosen, NEW j \in chosen, i < j PROVE Rank(i, chosen) < Rank(j, chosen)
  <2>1. i \in Int /\ j \in Int /\ \A x \in chosen : x \in Int
    BY <1>2
  <2>2. Of(i) \in SUBSET Of(j) /\ j \in Of(j) /\ j \notin Of(i)
    <3>1. \A x \in chosen : x <= i => x <= j
      BY <1>8, <2>1
    <3>2. j <= j /\ ~ (j <= i)
      BY <1>8, <2>1
    <3> QED BY <3>1, <3>2
  <2>3. Cardinality(Of(i)) <= Cardinality(Of(j)) /\ Cardinality(Of(i)) # Cardinality(Of(j))
    <3> HIDE DEF Of
    <3> QED BY <1>7, <2>2, FS_Subset
  <2> HIDE DEF Of
  <2>4. Cardinality(Of(i)) \in Nat /\ Cardinality(Of(j)) \in Nat
    BY <1>7
  <2>5. Cardinality(Of(i)) < Cardinality(Of(j))
    BY <2>3, <2>4
  <2> QED BY <1>5, <2>5
<1> HIDE DEF Of
<1>9. \A i \in chosen : Rank(i, chosen) \in 1 .. Cardinality(chosen)
  <2> TAKE i \in chosen
  <2>1. PICK n \in Nat : n = Cardinality(chosen)
    BY <1>4
  <2>2. PICK r \in Nat : r = Cardinality(Of(i))
    BY <1>7
  <2>3. r <= n /\ r # 0
    BY <1>7, <2>1, <2>2
  <2>4. r \in 1 .. n
    BY <2>3
  <2> QED BY <1>5, <2>1, <2>2, <2>4
<1>10. \A i, j \in chosen : Rank(i, chosen) = Rank(j, chosen) => i = j
  <2> SUFFICES ASSUME NEW i \in chosen, NEW j \in chosen, Rank(i, chosen) = Rank(j, chosen)
               PROVE  i = j
    OBVIOUS
  <2>1. Rank(i, chosen) \in Int
    BY <1>4, <1>9
  <2>2. i < j \/ j < i \/ i = j
    BY <1>2
  <2>3. ~ (Rank(i, chosen) < Rank(j, chosen)) /\ ~ (Rank(j, chosen) < Rank(i, chosen))
    BY <2>1
  <2> QED BY <1>8, <2>2, <2>3
<1> QED BY <1>2, <1>4, <1>9, <1>10

LEMMA CandidatesFinite ==
  ASSUME NEW plan, NEW chosen, chosen \subseteq 1 .. 3,
         NEW windows, DOMAIN windows \subseteq Nat, IsFiniteSet(DOMAIN windows)
  PROVE  /\ Candidates(plan, chosen, windows) \subseteq Triples
         /\ IsFiniteSet(Candidates(plan, chosen, windows))
         /\ \A c \in Candidates(plan, chosen, windows) : c[1] \in chosen /\ c[3] \in DOMAIN windows
<1> DEFINE C == Candidates(plan, chosen, windows)
           D == DOMAIN QueryOrder
           P == (1 .. 3) \X D
           pair == [c \in C |-> <<<<c[1], c[2]>>, c[3]>>]
<1>1. D = 1 .. Len(QueryOrder) /\ Len(QueryOrder) \in Nat
  BY CollectionAssumption
<1>2. IsFiniteSet(D) /\ IsFiniteSet(1 .. 3)
  BY <1>1, UptoFinite
<1>3. \A a \in Asks(plan, chosen) : a[1] \in chosen /\ a[2] \in D
  BY DEF Asks
<1>4. \A c \in C : /\ c[1] \in chosen /\ c[1] \in 1 .. 3
                   /\ c[2] \in D /\ c[3] \in DOMAIN windows /\ c = <<c[1], c[2], c[3]>>
  BY <1>3 DEF Candidates
<1>5. C \subseteq Triples
  <2> SUFFICES ASSUME NEW c \in C PROVE c \in Triples
    OBVIOUS
  <2>1. c[1] \in Nat /\ c[2] \in Nat /\ c[3] \in Nat /\ c = <<c[1], c[2], c[3]>>
    <3> HIDE DEF C
    <3> QED BY <1>1, <1>4
  <2> HIDE DEF C
  <2> QED BY <2>1 DEF Triples
<1>6. IsFiniteSet(P)
  BY <1>2, FS_Product
<1>7. IsFiniteSet(P \X DOMAIN windows)
  <2> HIDE DEF P
  <2> QED BY <1>6, FS_Product
<1> HIDE DEF C, D
<1>8. pair \in Injection(C, P \X DOMAIN windows)
  <2>1. pair \in [C -> P \X DOMAIN windows]
    BY <1>4
  <2>2. \A c, d \in C : pair[c] = pair[d] => c = d
    BY <1>4
  <2> QED BY <2>1, <2>2 DEF Injection, IsInjective
<1>9. IsFiniteSet(C)
  <2> HIDE DEF pair, P
  <2> QED BY <1>7, <1>8, FS_Injection
<1> QED BY <1>4, <1>5, <1>9 DEF C

\* The jobs are those of the first candidates with signals, in their turns.
LEMMA JobsAre ==
  ASSUME NEW plan, NEW windows, NEW signals, DOMAIN windows \subseteq Nat, IsFiniteSet(DOMAIN windows),
         NEW context, NEW requests \in Nat,
         NEW chosen, chosen = ChosenSources(plan, signals),
         NEW candidates, candidates = Candidates(plan, chosen, windows),
         NEW offered, offered = Offered(candidates, chosen, signals),
         NEW made, made = Jobs(plan, windows, context, requests, signals)
  PROVE  \E admitted \in Nat :
            /\ admitted <= requests /\ admitted <= Cardinality(offered)
            /\ offered \subseteq candidates /\ IsFiniteSet(offered)
            /\ offered \subseteq Triples
            /\ DOMAIN made = 1 .. admitted
            /\ \A n \in 1 .. admitted :
                  /\ Nth(n, offered) \in offered
                  /\ Turn(Nth(n, offered), offered) = n
                  /\ made[n].source = SourceOrder[Nth(n, offered)[1]]
                  /\ made[n].since = windows[Nth(n, offered)[3]].since
                  /\ made[n].until = windows[Nth(n, offered)[3]].until
                  /\ made[n].signals = SignalLimit(Nth(n, offered), candidates, chosen, signals)
                  /\ made[n].requests = Split(requests, admitted, n)
                  /\ made[n].cursor = IF made[n].source \in DOMAIN context
                                      THEN context[made[n].source].cursor ELSE None
<1> DEFINE admitted == Lower(Cardinality(offered), requests)
<1>1. offered \subseteq candidates
  BY DEF Offered
<1>2. IsFiniteSet(offered) /\ offered \subseteq Triples
  <2>1. chosen \subseteq 1 .. 3
    BY RanksDiffer
  <2>2. candidates \subseteq Triples /\ IsFiniteSet(candidates)
    BY <2>1, CandidatesFinite
  <2> QED BY <1>1, <2>2, FS_Subset
<1>3. Cardinality(offered) \in Nat
  BY <1>2, FS_CardinalityType
<1>4. admitted \in Nat /\ admitted <= requests /\ admitted <= Cardinality(offered)
  BY <1>3 DEF Lower
<1>5. \A n \in 1 .. admitted : Nth(n, offered) \in offered /\ Turn(Nth(n, offered), offered) = n
  <2> SUFFICES ASSUME NEW n \in 1 .. admitted
               PROVE  Nth(n, offered) \in offered /\ Turn(Nth(n, offered), offered) = n
    OBVIOUS
  <2>1. n \in 1 .. Cardinality(offered)
    <3> HIDE DEF admitted
    <3> QED BY <1>3, <1>4
  <2> QED BY <1>2, <2>1, NthIs
<1>6. made = [n \in 1 .. admitted |->
           [source |-> SourceOrder[Nth(n, offered)[1]], query |-> QueryOrder[Nth(n, offered)[2]],
            since |-> windows[Nth(n, offered)[3]].since, until |-> windows[Nth(n, offered)[3]].until,
            signals |-> SignalLimit(Nth(n, offered), candidates, chosen, signals),
            requests |-> Split(requests, admitted, n),
            cursor |-> IF SourceOrder[Nth(n, offered)[1]] \in DOMAIN context
                       THEN context[SourceOrder[Nth(n, offered)[1]]].cursor ELSE None]]
  BY DEF Jobs
<1> HIDE DEF admitted
<1>7. \A n \in 1 .. admitted :
         made[n] = [source |-> SourceOrder[Nth(n, offered)[1]], query |-> QueryOrder[Nth(n, offered)[2]],
            since |-> windows[Nth(n, offered)[3]].since, until |-> windows[Nth(n, offered)[3]].until,
            signals |-> SignalLimit(Nth(n, offered), candidates, chosen, signals),
            requests |-> Split(requests, admitted, n),
            cursor |-> IF SourceOrder[Nth(n, offered)[1]] \in DOMAIN context
                       THEN context[SourceOrder[Nth(n, offered)[1]]].cursor ELSE None]
  BY <1>6
<1>8. DOMAIN made = 1 .. admitted
  BY <1>6
<1>9. \A n \in 1 .. admitted :
         /\ made[n].source = SourceOrder[Nth(n, offered)[1]]
         /\ made[n].since = windows[Nth(n, offered)[3]].since
         /\ made[n].until = windows[Nth(n, offered)[3]].until
         /\ made[n].signals = SignalLimit(Nth(n, offered), candidates, chosen, signals)
         /\ made[n].requests = Split(requests, admitted, n)
         /\ made[n].cursor = IF made[n].source \in DOMAIN context
                             THEN context[made[n].source].cursor ELSE None
  <2> TAKE n \in 1 .. admitted
  <2>1. PICK c : c = Nth(n, offered)
    OBVIOUS
  <2>2. PICK limit : limit = SignalLimit(c, candidates, chosen, signals)
    OBVIOUS
  <2>3. PICK place : place = IF SourceOrder[c[1]] \in DOMAIN context
                             THEN context[SourceOrder[c[1]]].cursor ELSE None
    OBVIOUS
  <2>4. made[n] = [source |-> SourceOrder[c[1]], query |-> QueryOrder[c[2]],
                   since |-> windows[c[3]].since, until |-> windows[c[3]].until,
                   signals |-> limit, requests |-> Split(requests, admitted, n), cursor |-> place]
    BY <1>7, <2>1, <2>2, <2>3
  <2>5. /\ made[n].source = SourceOrder[c[1]]
        /\ made[n].since = windows[c[3]].since
        /\ made[n].until = windows[c[3]].until
        /\ made[n].signals = limit
        /\ made[n].requests = Split(requests, admitted, n)
        /\ made[n].cursor = place
    BY <2>4
  <2> QED BY <2>1, <2>2, <2>3, <2>5
<1> QED BY <1>1, <1>2, <1>4, <1>5, <1>8, <1>9

-----------------------------------------------------------------------------
(* What collectors send and reply.                                         *)

LEMMA SendsFit ==
  ASSUME NEW source \in Site, NEW limit \in Nat \ {0}, NEW o \in Sends(source, limit)
  PROVE  o.sent \in 0 .. limit
<1>1. \A l \in Nat : Tries(l) \subseteq 1 .. l
  BY DEF Tries, Lower
<1>2. CASE source = "GITHUB"
  <2>1. o \in GitHubRequests(limit)
    BY <1>2 DEF Sends
  <2> QED BY <2>1 DEF GitHubRequests, Outcome
<1>3. CASE source = "HACKER_NEWS"
  <2>1. o \in HackerNewsRequests(limit)
    BY <1>3 DEF Sends
  <2>2. \E t \in Tries(limit) : o.sent = t
    BY <2>1 DEF HackerNewsRequests, Outcome
  <2> QED BY <1>1, <2>2
<1>4. CASE source = "REDDIT"
  <2>1. o \in RedditRequests(limit)
    BY <1>4 DEF Sends
  <2>2. \/ o.sent = 0
        \/ \E t \in Tries(limit) : o.sent = t
        \/ \E t \in Tries(limit) \ {limit} : \E u \in Tries(limit - t) : o.sent = t + u
    BY <2>1 DEF RedditRequests, Outcome
  <2>3. ASSUME NEW t \in Tries(limit) \ {limit}, NEW u \in Tries(limit - t) PROVE t + u \in 0 .. limit
    <3>1. t \in 1 .. limit /\ t # limit
      BY <1>1
    <3>2. limit - t \in Nat
      BY <3>1
    <3>3. u \in 1 .. (limit - t)
      BY <1>1, <3>2
    <3> QED BY <3>1, <3>3
  <2> QED BY <1>1, <2>2, <2>3
<1> QED BY <1>2, <1>3, <1>4 DEF Site

\* Posts newest first.
Over(p, S) == {q \in S : NewerThan(q, p)}

Dated(S) == S \subseteq Nat /\ (\A p \in S : created[p] \in Nat) /\ IsFiniteSet(S)

LEMMA OverShrinks ==
  ASSUME NEW S, Dated(S), NEW p \in S, NEW q \in S, NewerThan(q, p)
  PROVE  Cardinality(Over(q, S)) < Cardinality(Over(p, S))
<1>1. Over(q, S) \subseteq Over(p, S)
  <2> SUFFICES ASSUME NEW x \in S, NewerThan(x, q) PROVE NewerThan(x, p)
    BY DEF Over
  <2>1. x \in Nat /\ q \in Nat /\ p \in Nat
        /\ created[x] \in Nat /\ created[q] \in Nat /\ created[p] \in Nat
    BY DEF Dated
  <2> QED BY <2>1 DEF NewerThan
<1>2. q \in Over(p, S) /\ q \notin Over(q, S)
  <2>1. q \in Nat /\ created[q] \in Nat
    BY DEF Dated
  <2> QED BY <2>1 DEF Over, NewerThan
<1>3. IsFiniteSet(Over(p, S))
  BY FS_Subset DEF Over, Dated
<1>4. /\ Cardinality(Over(q, S)) <= Cardinality(Over(p, S))
      /\ Cardinality(Over(q, S)) # Cardinality(Over(p, S))
      /\ IsFiniteSet(Over(q, S))
  BY <1>1, <1>2, <1>3, FS_Subset
<1>5. Cardinality(Over(q, S)) \in Nat /\ Cardinality(Over(p, S)) \in Nat
  BY <1>3, <1>4, FS_CardinalityType
<1> QED BY <1>4, <1>5

LEMMA OverIs ==
  ASSUME NEW S, Dated(S), NEW p \in S
  PROVE  Cardinality(Over(p, S)) \in Nat
<1>1. IsFiniteSet(Over(p, S))
  BY FS_Subset DEF Over, Dated
<1> QED BY <1>1, FS_CardinalityType

LEMMA OversDiffer ==
  ASSUME NEW S, Dated(S), NEW p \in S, NEW q \in S, Cardinality(Over(p, S)) = Cardinality(Over(q, S))
  PROVE  p = q
<1>1. Cardinality(Over(p, S)) \in Nat /\ Cardinality(Over(q, S)) \in Nat
  BY OverIs
<1>2. ~ NewerThan(p, q) /\ ~ NewerThan(q, p)
  <2>1. NewerThan(p, q) => Cardinality(Over(p, S)) < Cardinality(Over(q, S))
    BY OverShrinks
  <2>2. NewerThan(q, p) => Cardinality(Over(q, S)) < Cardinality(Over(p, S))
    BY OverShrinks
  <2> QED BY <1>1, <2>1, <2>2
<1>3. p \in Nat /\ q \in Nat /\ created[p] \in Nat /\ created[q] \in Nat
  BY DEF Dated
<1> QED BY <1>2, <1>3 DEF NewerThan

LEMMA NewestIs ==
  ASSUME NEW S, Dated(S), S # {}
  PROVE  \E p \in S : Cardinality(Over(p, S)) = 0
<1> DEFINE K == {Cardinality(Over(p, S)) : p \in S}
<1>1. K \subseteq Nat /\ K # {}
  BY OverIs
<1>2. PICK k \in K : \A l \in K : k <= l
  BY <1>1, LeastNatural
<1>3. PICK p \in S : k = Cardinality(Over(p, S))
  BY <1>2
<1>4. Over(p, S) = {}
  <2> SUFFICES ASSUME NEW q \in Over(p, S) PROVE FALSE
    OBVIOUS
  <2>1. q \in S /\ NewerThan(q, p)
    BY DEF Over
  <2>2. Cardinality(Over(q, S)) < Cardinality(Over(p, S))
    BY <2>1, OverShrinks
  <2>3. k <= Cardinality(Over(q, S))
    BY <1>2, <2>1
  <2>4. Cardinality(Over(q, S)) \in Nat /\ k \in Nat
    BY <1>1, <2>1, OverIs
  <2> QED BY <1>3, <2>2, <2>3, <2>4
<1> QED BY <1>4, FS_EmptySet

LEMMA OldestIs ==
  ASSUME NEW S, Dated(S), S # {}
  PROVE  \E p \in S : \A q \in S : ~ NewerThan(p, q)
<1> DEFINE C == {created[p] : p \in S}
<1>1. C \subseteq Nat /\ C # {}
  BY DEF Dated
<1>2. PICK c \in C : \A d \in C : c <= d
  BY <1>1, LeastNatural
<1> DEFINE P == {p \in S : created[p] = c}
<1>3. P \subseteq Nat /\ P # {}
  BY <1>2 DEF Dated
<1>4. PICK p \in P : \A q \in P : p <= q
  <2> HIDE DEF P
  <2> QED BY <1>3, LeastNatural
<1>5. ASSUME NEW q \in S PROVE ~ NewerThan(p, q)
  <2>1. p \in S /\ created[p] = c /\ p \in Nat /\ q \in Nat /\ created[q] \in Nat /\ c \in Nat
    BY <1>1, <1>3 DEF Dated
  <2>2. c <= created[q]
    BY <1>2
  <2>3. created[q] = c => p <= q
    BY <1>4
  <2> QED BY <2>1, <2>2, <2>3 DEF NewerThan
<1> QED BY <1>5

\* No page holds more than its size.
LEMMA PageFits ==
  ASSUME NEW S, Dated(S), NEW n \in Nat, NEW size \in Nat \ {0}
  PROVE  /\ IsFiniteSet(Page(S, n, size)) /\ Page(S, n, size) \subseteq S
         /\ Cardinality(Page(S, n, size)) <= size
<1> DEFINE X == Page(S, n, size)
           f == [p \in X |-> Cardinality(Over(p, S))]
           a == n * size
<1>1. X \subseteq S
  BY DEF Page
<1>2. a \in Nat
  OBVIOUS
<1>3. \A p \in X : Cardinality(Over(p, S)) \in a .. (a + size - 1)
  <2> SUFFICES ASSUME NEW p \in X PROVE Cardinality(Over(p, S)) \in a .. (a + size - 1)
    OBVIOUS
  <2>1. PICK k \in Nat : k = Cardinality(Over(p, S))
    BY <1>1, OverIs
  <2>2. k \div size = n
    BY <2>1 DEF Page, Over
  <2>3. k % size \in 0 .. (size - 1) /\ k = size * (k \div size) + (k % size)
    BY Divided
  <2>4. size * n = a
    OBVIOUS
  <2>5. PICK m \in 0 .. (size - 1) : k = a + m
    BY <2>2, <2>3, <2>4
  <2> HIDE DEF a
  <2>6. k \in a .. (a + size - 1)
    BY <1>2, <2>5
  <2> QED BY <2>1, <2>6
<1> HIDE DEF X, a
<1>4. f \in Injection(X, a .. (a + size - 1))
  <2>1. \A p, q \in X : f[p] = f[q] => p = q
    BY <1>1, OversDiffer
  <2>2. f \in [X -> a .. (a + size - 1)]
    BY <1>3
  <2> QED BY <2>1, <2>2 DEF Injection, IsInjective
<1>5. IsFiniteSet(a .. (a + size - 1)) /\ Cardinality(a .. (a + size - 1)) = size
  <2>1. PICK b \in Int : b = a + size - 1
    BY <1>2
  <2>2. IsFiniteSet(a .. b) /\ Cardinality(a .. b) = IF a > b THEN 0 ELSE b - a + 1
    BY <1>2, FS_Interval
  <2> QED BY <1>2, <2>1, <2>2
<1>6. IsFiniteSet(X) /\ Cardinality(X) <= size
  <2> HIDE DEF f
  <2> QED BY <1>4, <1>5, FS_Injection
<1> QED BY <1>1, <1>6 DEF X

\* A collector brings posts its source lists, of the window, no more than it got signals for.
LEMMA RepliesFit ==
  ASSUME NEW job, job.source \in Site, job.cursor \in Cursor, job.signals \in Nat \ {0},
         IsFiniteSet(listed), listed \subseteq Nat, \A p \in listed : created[p] \in Nat,
         NEW r \in Replies(job)
  PROVE  /\ r.items \subseteq listed /\ \A p \in r.items : InWindow(p, job)
         /\ IsFiniteSet(r.items) /\ Cardinality(r.items) <= job.signals
         /\ r.cursor \in Cursor
<1>1. \A S \in SUBSET listed : Dated(S) /\ Cardinality(S) \in Nat
  <2> SUFFICES ASSUME NEW S \in SUBSET listed PROVE Dated(S) /\ Cardinality(S) \in Nat
    OBVIOUS
  <2>1. IsFiniteSet(S)
    BY FS_Subset
  <2> QED BY <2>1, FS_CardinalityType DEF Dated
<1>2. Found(job) \subseteq listed
  BY DEF Found
<1>3. CASE job.source = "HACKER_NEWS"
  <2> DEFINE hits == {p \in Found(job) : InWindow(p, job)}
             page == IF job.cursor = None THEN 0 ELSE job.cursor
  <2>1. r = Reply(Page(hits, page, job.signals),
                  IF (page + 1) * job.signals >= Cardinality(hits) THEN None ELSE page + 1)
    BY <1>3 DEF Replies, HackerNewsReplies
  <2>2. page \in Nat
    BY DEF Cursor
  <2>3. hits \in SUBSET listed
    BY <1>2
  <2>4. \A p \in hits : InWindow(p, job)
    OBVIOUS
  <2> HIDE DEF hits, page
  <2>5. r.items = Page(hits, page, job.signals) /\ r.cursor \in {None, page + 1}
    BY <2>1 DEF Reply
  <2>6. Dated(hits)
    BY <1>1, <2>3
  <2>7. /\ IsFiniteSet(r.items) /\ r.items \subseteq hits
        /\ Cardinality(r.items) <= job.signals
    BY <2>2, <2>5, <2>6, PageFits
  <2>8. r.cursor \in Cursor
    BY <2>2, <2>5 DEF Cursor
  <2> QED BY <2>3, <2>4, <2>7, <2>8
<1>4. CASE job.source = "GITHUB"
  <2> DEFINE issues == {p \in Found(job) : /\ job.since \div Day <= created[p] \div Day
                                           /\ created[p] \div Day <= job.until \div Day}
             page == IF job.cursor = None THEN 1 ELSE job.cursor
             size == Lower(job.signals, Higher(0, Cardinality(issues) - (page - 1) * job.signals))
  <2>1. PICK T \in SUBSET issues :
           /\ Cardinality(T) = size
           /\ r = Reply({p \in T : InWindow(p, job)}, IF T = {} THEN None ELSE page + 1)
    BY <1>4 DEF Replies, GitHubReplies
  <2>2. page \in Nat
    BY DEF Cursor
  <2>3. issues \in SUBSET listed
    BY <1>2
  <2> HIDE DEF issues, page
  <2>4. Cardinality(issues) \in Nat
    BY <1>1, <2>3
  <2>5. size <= job.signals /\ size \in Int
    <3>1. PICK x : x = Cardinality(issues) - (page - 1) * job.signals
      OBVIOUS
    <3>2. x \in Int
      BY <2>2, <2>4, <3>1
    <3> QED BY <3>1, <3>2 DEF Lower, Higher
  <2> HIDE DEF size
  <2>6. /\ r.items = {p \in T : InWindow(p, job)}
        /\ r.cursor \in {None, page + 1}
    BY <2>1 DEF Reply
  <2>7. T \in SUBSET listed
    BY <2>1, <2>3
  <2>8. IsFiniteSet(T) /\ Cardinality(T) <= job.signals
    BY <1>1, <2>1, <2>5, <2>7 DEF Dated
  <2>9. r.items \in SUBSET T
    BY <2>6
  <2>10. IsFiniteSet(r.items) /\ Cardinality(r.items) <= Cardinality(T) /\ Cardinality(r.items) \in Nat
    BY <1>1, <2>7, <2>8, <2>9, FS_Subset
  <2>11. Cardinality(r.items) <= job.signals
    BY <1>1, <2>7, <2>8, <2>10
  <2>12. r.cursor \in Cursor
    BY <2>2, <2>6 DEF Cursor
  <2> QED BY <2>6, <2>7, <2>10, <2>11, <2>12
<1>5. CASE job.source = "REDDIT"
  <2> DEFINE rest == {p \in Found(job) : job.cursor = None \/ NewerThan(job.cursor, p)}
             page == Page(rest, 0, job.signals)
             last == CHOOSE p \in page : \A q \in page : ~ NewerThan(p, q)
  <2>1. r = Reply({p \in page : InWindow(p, job)}, IF page # rest THEN last ELSE None)
    BY <1>5 DEF Replies, RedditReplies
  <2>2. rest \in SUBSET listed
    BY <1>2
  <2>3. Dated(rest)
    BY <1>1, <2>2
  <2> HIDE DEF rest
  <2>4. IsFiniteSet(page) /\ page \subseteq rest /\ Cardinality(page) <= job.signals
    BY <2>3, PageFits
  <2>5. page # rest => page # {}
    <3> SUFFICES ASSUME page # rest PROVE page # {}
      OBVIOUS
    <3>1. rest # {}
      BY <2>4
    <3>2. PICK p \in rest : Cardinality(Over(p, rest)) = 0
      BY <2>3, <3>1, NewestIs
    <3>3. 0 \div job.signals = 0
      OBVIOUS
    <3>4. p \in Page(rest, 0, job.signals)
      BY <3>2, <3>3 DEF Page, Over
    <3> QED BY <3>4
  <2>6. page \in SUBSET listed
    BY <2>2, <2>4
  <2> HIDE DEF page
  <2>7. page # rest => last \in page
    <3> SUFFICES ASSUME page # rest PROVE last \in page
      OBVIOUS
    <3>1. Dated(page)
      BY <1>1, <2>6
    <3>2. \E p \in page : \A q \in page : ~ NewerThan(p, q)
      BY <2>5, <3>1, OldestIs
    <3> QED BY <3>2
  <2> HIDE DEF last
  <2>8. r.items = {p \in page : InWindow(p, job)} /\ r.cursor = IF page # rest THEN last ELSE None
    BY <2>1 DEF Reply
  <2>9. r.cursor \in Cursor
    <3>1. last \in page => last \in Nat
      BY <2>6
    <3> QED BY <2>7, <2>8, <3>1 DEF Cursor
  <2>10. r.items \in SUBSET page
    BY <2>8
  <2>11. /\ IsFiniteSet(r.items) /\ Cardinality(r.items) <= Cardinality(page)
    BY <2>4, <2>10, FS_Subset
  <2>12. Cardinality(r.items) \in Nat /\ Cardinality(page) \in Nat
    BY <1>1, <2>6, <2>10
  <2>13. Cardinality(r.items) <= job.signals
    BY <2>4, <2>11, <2>12
  <2> QED BY <2>6, <2>8, <2>9, <2>11, <2>13
<1> QED BY <1>3, <1>4, <1>5 DEF Site

-----------------------------------------------------------------------------
(* The jobs share the requests and the signals out.                        *)

LEMMA ShareIs ==
  ASSUME NEW t \in Nat, NEW n \in Nat \ {0}, NEW i \in Nat
  PROVE  /\ SourceShare(t, n, i) \in Nat
         /\ SourceShare(t, n, i) <= Split(t, n, i)
         /\ SourceShare(t, n, i) <= Higher(1, t \div 2)
<1>1. PICK x \in Nat : x = Split(t, n, i)
  BY SplitIs
<1>2. PICK y \in Nat : y = Higher(1, t \div 2)
  BY DEF Higher
<1>3. SourceCap \in Nat
  BY CollectionAssumption
<1>4. SourceShare(t, n, i) = Lower(Lower(x, SourceCap), y)
  BY <1>1, <1>2 DEF SourceShare
<1>5. /\ Lower(Lower(x, SourceCap), y) \in Nat
      /\ Lower(Lower(x, SourceCap), y) <= x
      /\ Lower(Lower(x, SourceCap), y) <= y
  BY <1>3 DEF Lower
<1> QED BY <1>1, <1>2, <1>4, <1>5

\* What jobs take of the requests and of the signals, and what those of a source take.
AllRequests(made) == SumFunction([n \in DOMAIN made |-> made[n].requests])
AllSignals(made) == SumFunction([n \in DOMAIN made |-> made[n].signals])
SignalsOf(made, s) ==
    SumFunction([n \in {n \in DOMAIN made : made[n].source = s} |-> made[n].signals])

\* The jobs of a round share its requests and its signals out: no more of them than there are,
\* and to no source more than its share.
LEMMA SharesPlanned ==
  ASSUME NEW plan, NEW windows, DOMAIN windows \subseteq Nat, IsFiniteSet(DOMAIN windows),
         NEW context, NEW requests \in Nat, NEW signals \in Nat \ {0},
         NEW made, made = Jobs(plan, windows, context, requests, signals)
  PROVE  /\ \A n \in DOMAIN made : made[n].signals \in Nat \ {0} /\ made[n].requests \in Nat \ {0}
         /\ AllRequests(made) <= requests /\ AllSignals(made) <= signals
         /\ \A s \in Site : SignalsOf(made, s) <= Higher(1, signals \div 2)
<1> DEFINE Ch == ChosenSources(plan, signals)
           Cs == Candidates(plan, Ch, windows)
           offered == Offered(Cs, Ch, signals)
           M == Cardinality(Ch)
           Ri(k) == {d \in Cs : d[1] = k}
           Share(k) == SourceShare(signals, M, Rank(k, Ch))
           At(n) == Nth(n, offered)
           Of(k) == {n \in DOMAIN made : At(n)[1] = k}
           Sig(c) == SignalLimit(c, Cs, Ch, signals)
<1>1. PICK admitted \in Nat :
            /\ admitted <= requests /\ admitted <= Cardinality(offered)
            /\ offered \subseteq Cs /\ IsFiniteSet(offered)
            /\ DOMAIN made = 1 .. admitted
            /\ \A n \in 1 .. admitted :
                  /\ At(n) \in offered
                  /\ Turn(At(n), offered) = n
                  /\ made[n].source = SourceOrder[At(n)[1]]
                  /\ made[n].signals = Sig(At(n))
                  /\ made[n].requests = Split(requests, admitted, n)
  <2>1. Ch = ChosenSources(plan, signals)
    OBVIOUS
  <2> HIDE DEF Ch
  <2>2. Cs = Candidates(plan, Ch, windows)
    OBVIOUS
  <2> HIDE DEF Cs
  <2>3. offered = Offered(Cs, Ch, signals)
    OBVIOUS
  <2> HIDE DEF offered
  <2> QED BY <2>1, <2>2, <2>3, JobsAre
<1>2. IsFiniteSet(DOMAIN made)
  BY <1>1, UptoFinite
<1>3. /\ Ch \subseteq 1 .. 3 /\ IsFiniteSet(Ch) /\ M \in Nat
      /\ \A i \in Ch : Rank(i, Ch) \in 1 .. M
      /\ \A i, j \in Ch : Rank(i, Ch) = Rank(j, Ch) => i = j
  <2>1. Ch = ChosenSources(plan, signals)
    OBVIOUS
  <2> HIDE DEF Ch
  <2> QED BY <2>1, RanksDiffer
<1>4. /\ Cs \subseteq Triples /\ IsFiniteSet(Cs)
      /\ \A c \in Cs : c[1] \in Ch
  <2> HIDE DEF Ch
  <2> QED BY <1>3, CandidatesFinite
<1>5. \A c \in Cs : Sig(c) = Split(Share(c[1]), Cardinality(Ri(c[1])), Turn(c, Ri(c[1])))
  BY DEF SignalLimit
<1>6. \A c \in offered : c \in Cs /\ Sig(c) # 0
  BY DEF Offered
<1>7. ASSUME NEW k \in Ch
      PROVE  /\ Share(k) \in Nat /\ Share(k) <= Split(signals, M, Rank(k, Ch))
             /\ Share(k) <= Higher(1, signals \div 2)
             /\ Split(signals, M, Rank(k, Ch)) \in Nat
  <2>1. Rank(k, Ch) \in Nat /\ M \in Nat \ {0}
    BY <1>3
  <2> QED BY <2>1, ShareIs, SplitIs
<1> HIDE DEF offered, Cs, Ch, M, Share
<1>8. \A k \in Ch : Ri(k) \subseteq Triples /\ IsFiniteSet(Ri(k)) /\ Cardinality(Ri(k)) \in Nat
  <2> SUFFICES ASSUME NEW k \in Ch
               PROVE  Ri(k) \subseteq Triples /\ IsFiniteSet(Ri(k)) /\ Cardinality(Ri(k)) \in Nat
    OBVIOUS
  <2>1. Ri(k) \in SUBSET Cs
    OBVIOUS
  <2> HIDE DEF Ri
  <2>2. IsFiniteSet(Ri(k))
    BY <1>4, <2>1, FS_Subset
  <2> QED BY <1>4, <2>1, <2>2, FS_CardinalityType
<1>9. ASSUME NEW c \in Cs
      PROVE  /\ Turn(c, Ri(c[1])) \in 1 .. Cardinality(Ri(c[1])) /\ c \in Ri(c[1]) /\ c[1] \in Ch
             /\ Sig(c) \in Nat
  <2>1. c \in Ri(c[1]) /\ c[1] \in Ch
    BY <1>4
  <2>2. Turn(c, Ri(c[1])) \in 1 .. Cardinality(Ri(c[1]))
    <3>1. PICK R : R = Ri(c[1])
      OBVIOUS
    <3>2. R \subseteq Triples /\ IsFiniteSet(R) /\ c \in R
      BY <1>8, <2>1, <3>1
    <3>3. Turn(c, R) \in 1 .. Cardinality(R)
      BY <3>2, TurnIs
    <3> QED BY <3>1, <3>3
  <2>3. Sig(c) \in Nat
    <3>1. PICK N \in Nat : N = Cardinality(Ri(c[1]))
      BY <1>8, <2>1
    <3>2. PICK t \in Nat : t = Share(c[1])
      BY <1>7, <2>1
    <3>3. PICK i \in 1 .. N : i = Turn(c, Ri(c[1]))
      BY <2>2, <3>1
    <3>4. Sig(c) = Split(t, N, i)
      BY <1>5, <3>1, <3>2, <3>3
    <3>5. N \in Nat \ {0} /\ i \in Nat
      BY <3>3
    <3>6. Split(t, N, i) \in Nat
      BY <3>5, SplitIs
    <3> QED BY <3>4, <3>6
  <2> QED BY <2>1, <2>2, <2>3
<1> HIDE DEF Sig
<1>10. ASSUME NEW n \in DOMAIN made
       PROVE  At(n) \in Cs /\ At(n)[1] \in Ch /\ made[n].signals \in Nat \ {0}
  <2>1. PICK c : c = At(n)
    OBVIOUS
  <2>2. c \in offered /\ made[n].signals = Sig(c)
    BY <1>1, <2>1
  <2>3. c \in Cs /\ Sig(c) # 0 /\ Sig(c) \in Nat /\ c[1] \in Ch
    BY <1>6, <1>9, <2>2
  <2>4. made[n].signals \in Nat \ {0}
    BY <2>2, <2>3
  <2> QED BY <2>1, <2>3, <2>4
<1> HIDE DEF Ri, At
<1>11. ASSUME NEW n \in DOMAIN made PROVE made[n].requests \in Nat \ {0}
  <2>1. n \in 1 .. admitted /\ admitted \in Nat \ {0} /\ admitted <= requests
    BY <1>1
  <2>2. Split(requests, admitted, n) \in Nat /\ Split(requests, admitted, n) > 0
    BY <2>1, SplitIs
  <2> QED BY <1>1, <2>1, <2>2
<1>12. AllRequests(made) <= requests
  <2> DEFINE f == [n \in DOMAIN made |-> made[n].requests]
  <2>1. DOMAIN f = 1 .. admitted /\ \A n \in 1 .. admitted : f[n] = Split(requests, admitted, n)
    BY <1>1
  <2> HIDE DEF f
  <2>2. SumFunction(f) = SumFunctionOnSet(f, 1 .. admitted)
    BY <2>1, SumOfFunction
  <2>3. CASE admitted = 0
    <3>1. 1 .. admitted = {}
      BY <2>3
    <3>2. SumFunctionOnSet(f, {}) = 0
      BY SumEmpty
    <3>3. SumFunction(f) <= requests
      BY <2>2, <3>1, <3>2
    <3> QED BY <3>3 DEF f, AllRequests
  <2>4. CASE admitted # 0
    <3>1. SumFunctionOnSet(f, 1 .. admitted) = requests
      BY <2>1, <2>4, SplitSums
    <3>2. SumFunction(f) <= requests
      BY <2>2, <3>1
    <3> QED BY <3>2 DEF f, AllRequests
  <2> QED BY <2>3, <2>4
<1>13. ASSUME NEW k \in Ch, NEW f, \A n \in Of(k) : f[n] = made[n].signals
       PROVE  SumFunctionOnSet(f, Of(k)) <= Share(k) /\ SumFunctionOnSet(f, Of(k)) \in Int
  <2> DEFINE J == Of(k)
  <2>1. J \subseteq DOMAIN made /\ IsFiniteSet(J)
    <3>1. J \in SUBSET DOMAIN made
      OBVIOUS
    <3> HIDE DEF J
    <3> QED BY <1>2, <3>1, FS_Subset
  <2>2. PICK N \in Nat : N = Cardinality(Ri(k))
    BY <1>8
  <2>3. PICK t \in Nat : t = Share(k)
    BY <1>7
  <2> DEFINE to == [n \in J |-> Turn(At(n), Ri(k))]
             g == [i \in 1 .. N |-> Split(t, N, i)]
  <2>4. \A n \in J : /\ to[n] \in 1 .. N /\ f[n] = Split(t, N, to[n]) /\ At(n) \in Ri(k)
                     /\ f[n] \in Nat
    <3> SUFFICES ASSUME NEW n \in J
                 PROVE  /\ to[n] \in 1 .. N /\ f[n] = Split(t, N, to[n]) /\ At(n) \in Ri(k)
                        /\ f[n] \in Nat
      OBVIOUS
    <3>1. n \in DOMAIN made /\ At(n) \in Cs /\ At(n)[1] = k
      BY <1>10
    <3>2. to[n] \in 1 .. N /\ At(n) \in Ri(k)
      BY <1>9, <2>2, <3>1
    <3>3. made[n].signals = Split(t, N, to[n])
      BY <1>1, <1>5, <2>2, <2>3, <3>1
    <3>4. f[n] = made[n].signals
      BY <1>13
    <3> QED BY <1>10, <3>1, <3>2, <3>3, <3>4
  <2>5. \A m, n \in J : to[m] = to[n] => m = n
    <3> SUFFICES ASSUME NEW m \in J, NEW n \in J, to[m] = to[n] PROVE m = n
      OBVIOUS
    <3>1. Turn(At(m), Ri(k)) = Turn(At(n), Ri(k)) /\ At(m) \in Ri(k) /\ At(n) \in Ri(k)
      BY <2>4
    <3>2. Ri(k) \subseteq Triples /\ IsFiniteSet(Ri(k))
      BY <1>8
    <3>3. At(m) = At(n)
      <4>1. At(m) \in Triples /\ At(n) \in Triples
        BY <3>1, <3>2
      <4>2. Turn(At(m), Ri(k)) \in 1 .. Cardinality(Ri(k))
        BY <3>1, <3>2, TurnIs
      <4>3. Before(At(m), At(n)) => Turn(At(m), Ri(k)) < Turn(At(n), Ri(k))
        BY <3>1, <3>2, TurnsDiffer
      <4>4. Before(At(n), At(m)) => Turn(At(n), Ri(k)) < Turn(At(m), Ri(k))
        BY <3>1, <3>2, TurnsDiffer
      <4>5. Cardinality(Ri(k)) \in Nat
        BY <1>8
      <4>6. ~ Before(At(m), At(n)) /\ ~ Before(At(n), At(m))
        BY <3>1, <4>2, <4>3, <4>4, <4>5
      <4> QED BY <4>1, <4>6, BeforeOrders
    <3> QED BY <1>1, <2>1, <3>3
  <2> HIDE DEF J
  <2>6. CASE J = {}
    <3>1. SumFunctionOnSet(f, J) = 0
      BY <2>6, SumEmpty
    <3> QED BY <2>3, <3>1 DEF J
  <2>7. CASE J # {}
    <3>1. N \in Nat \ {0}
      BY <2>4, <2>7
    <3>2. /\ \A i \in 1 .. N : g[i] = Split(t, N, i) /\ g[i] \in Nat
          /\ to \in [J -> 1 .. N]
          /\ \A n \in J : f[n] = g[to[n]]
      <4>1. \A i \in Nat : Split(t, N, i) \in Nat
        BY <3>1, SplitIs
      <4>2. \A i \in 1 .. N : g[i] = Split(t, N, i) /\ g[i] \in Nat
        BY <4>1
      <4>3. DOMAIN to = J /\ to = [n \in J |-> to[n]]
        OBVIOUS
      <4> HIDE DEF to, g
      <4>4. to \in [J -> 1 .. N]
        BY <2>4, <4>3
      <4> QED BY <2>4, <4>2, <4>4
    <3> HIDE DEF to, g
    <3>3. IsFiniteSet(1 .. N)
      BY UptoFinite
    <3>4. SumFunctionOnSet(f, J) <= SumFunctionOnSet(g, 1 .. N)
      BY <2>1, <2>5, <3>2, <3>3, SumOfOthers
    <3>5. SumFunctionOnSet(g, 1 .. N) = t
      BY <3>1, <3>2, SplitSums
    <3>6. SumFunctionOnSet(f, J) \in Int
      <4>1. \A n \in J : f[n] \in Int
        BY <2>4
      <4> QED BY <2>1, <4>1, SumType
    <3> QED BY <2>3, <3>4, <3>5, <3>6 DEF J
  <2> QED BY <2>6, <2>7
<1>14. AllSignals(made) <= signals
  <2> DEFINE f == [n \in DOMAIN made |-> made[n].signals]
             key == [n \in DOMAIN made |-> At(n)[1]]
             h == [k \in Ch |-> SumFunctionOnSet(f, {n \in DOMAIN made : key[n] = k})]
             g == [k \in Ch |-> Split(signals, M, Rank(k, Ch))]
             w == [i \in 1 .. M |-> Split(signals, M, i)]
             to == [k \in Ch |-> Rank(k, Ch)]
  <2>1. key \in [DOMAIN made -> Ch] /\ DOMAIN f = DOMAIN made
        /\ \A n \in DOMAIN made : f[n] = made[n].signals /\ f[n] \in Int
    BY <1>10
  <2>2. \A k \in Ch : {n \in DOMAIN made : key[n] = k} = Of(k)
    OBVIOUS
  <2> HIDE DEF f, key
  <2>3. SumFunctionOnSet(f, DOMAIN made) = SumFunctionOnSet(h, Ch)
    <3>1. IsFiniteSet(Ch)
      BY <1>3
    <3>2. \A n \in DOMAIN made : f[n] \in Int
      BY <2>1
    <3>3. key \in [DOMAIN made -> Ch]
      BY <2>1
    <3>4. SumFunctionOnSet(f, DOMAIN made)
            = SumFunctionOnSet([k \in Ch |-> SumFunctionOnSet(f, {n \in DOMAIN made : key[n] = k})], Ch)
      BY <1>2, <3>1, <3>2, <3>3, SumByKey
    <3> QED BY <3>4
  <2>4. \A k \in Ch : h[k] = SumFunctionOnSet(f, Of(k))
    BY <2>2
  <2> HIDE DEF h
  <2>5. \A k \in Ch : h[k] \in Int /\ g[k] \in Int /\ h[k] <= g[k] /\ g[k] \in Nat
    <3> SUFFICES ASSUME NEW k \in Ch PROVE h[k] \in Int /\ g[k] \in Int /\ h[k] <= g[k] /\ g[k] \in Nat
      OBVIOUS
    <3>1. \A n \in Of(k) : f[n] = made[n].signals
      BY <2>1
    <3> HIDE DEF Of
    <3>2. h[k] <= Share(k) /\ h[k] \in Int
      BY <1>13, <2>4, <3>1
    <3>3. g[k] = Split(signals, M, Rank(k, Ch))
      OBVIOUS
    <3> HIDE DEF g
    <3> QED BY <1>7, <3>2, <3>3
  <2>6. SumFunctionOnSet(h, Ch) <= SumFunctionOnSet(g, Ch)
    <3> HIDE DEF g
    <3> QED BY <1>3, <2>5, SumAtMost
  <2>7. SumFunctionOnSet(h, Ch) \in Int /\ SumFunctionOnSet(g, Ch) \in Int
    <3> HIDE DEF g
    <3> QED BY <1>3, <2>5, SumType
  <2>8. CASE Ch = {}
    <3>1. SumFunctionOnSet(h, Ch) = 0
      BY <2>8, SumEmpty
    <3>2. SumFunction(f) = 0
      BY <2>1, <2>3, <3>1, SumOfFunction
    <3>3. SumFunction(f) <= signals
      BY <3>2
    <3> QED BY <3>3 DEF f, AllSignals
  <2>9. CASE Ch # {}
    <3>1. M \in Nat \ {0}
      <4>1. PICK i \in Ch : Rank(i, Ch) \in 1 .. M
        BY <1>3, <2>9
      <4> QED BY <1>3, <4>1
    <3>2. /\ \A i \in 1 .. M : w[i] = Split(signals, M, i) /\ w[i] \in Nat
          /\ to \in [Ch -> 1 .. M]
          /\ \A k \in Ch : g[k] = w[to[k]]
          /\ \A i, j \in Ch : to[i] = to[j] => i = j
      <4>1. \A i \in Nat : Split(signals, M, i) \in Nat
        BY <3>1, SplitIs
      <4>2. \A i \in 1 .. M : w[i] = Split(signals, M, i) /\ w[i] \in Nat
        BY <4>1
      <4>3. \A k \in Ch : to[k] = Rank(k, Ch) /\ to[k] \in 1 .. M
        BY <1>3
      <4>4. to = [k \in Ch |-> to[k]]
        OBVIOUS
      <4>5. \A k \in Ch : g[k] = Split(signals, M, to[k])
        OBVIOUS
      <4> HIDE DEF w, g, to
      <4>6. to \in [Ch -> 1 .. M]
        BY <4>3, <4>4
      <4> QED BY <1>3, <4>2, <4>3, <4>5, <4>6
    <3> HIDE DEF w, g, to
    <3>3. IsFiniteSet(1 .. M)
      BY <1>3, UptoFinite
    <3>4. SumFunctionOnSet(g, Ch) <= SumFunctionOnSet(w, 1 .. M)
      BY <1>3, <3>2, <3>3, SumOfOthers
    <3>5. SumFunctionOnSet(w, 1 .. M) = signals
      BY <3>1, <3>2, SplitSums
    <3>6. SumFunction(f) = SumFunctionOnSet(h, Ch)
      BY <2>1, <2>3, SumOfFunction
    <3>7. SumFunction(f) <= signals
      BY <2>6, <2>7, <3>4, <3>5, <3>6
    <3> QED BY <3>7 DEF f, AllSignals
  <2> QED BY <2>8, <2>9
<1>15. ASSUME NEW s \in Site
       PROVE  SignalsOf(made, s) <= Higher(1, signals \div 2)
  <2> DEFINE S == {n \in DOMAIN made : made[n].source = s}
             f == [n \in S |-> made[n].signals]
  <2>1. PICK k \in 1 .. 3 : \A i \in 1 .. 3 : SourceOrder[i] = s <=> i = k
    <3>1. SourceOrder[1] = "GITHUB" /\ SourceOrder[2] = "HACKER_NEWS" /\ SourceOrder[3] = "REDDIT"
      BY DEF SourceOrder
    <3>2. \A i \in 1 .. 3 : i = 1 \/ i = 2 \/ i = 3
      OBVIOUS
    <3>3. CASE s = "GITHUB"
      <4>1. \A i \in 1 .. 3 : SourceOrder[i] = s <=> i = 1
        BY <3>1, <3>2, <3>3
      <4> QED BY <4>1
    <3>4. CASE s = "HACKER_NEWS"
      <4>1. \A i \in 1 .. 3 : SourceOrder[i] = s <=> i = 2
        BY <3>1, <3>2, <3>4
      <4> QED BY <4>1
    <3>5. CASE s = "REDDIT"
      <4>1. \A i \in 1 .. 3 : SourceOrder[i] = s <=> i = 3
        BY <3>1, <3>2, <3>5
      <4> QED BY <4>1
    <3> QED BY <3>3, <3>4, <3>5 DEF Site
  <2>2. S = Of(k)
    <3>1. \A n \in DOMAIN made : At(n)[1] \in 1 .. 3 /\ made[n].source = SourceOrder[At(n)[1]]
      BY <1>1, <1>3, <1>10
    <3> QED BY <2>1, <3>1
  <2>3. DOMAIN f = S /\ \A n \in S : f[n] = made[n].signals
    OBVIOUS
  <2> HIDE DEF f
  <2>4. SumFunction(f) = SumFunctionOnSet(f, S)
    BY <2>3, SumOfFunction
  <2>5. CASE k \in Ch
    <3>1. \A n \in Of(k) : f[n] = made[n].signals
      BY <2>2, <2>3
    <3> HIDE DEF Of, S
    <3>2. SumFunctionOnSet(f, S) <= Share(k) /\ SumFunctionOnSet(f, S) \in Int
      BY <1>13, <2>2, <2>5, <3>1
    <3>3. PICK y \in Nat : y = Higher(1, signals \div 2)
      BY DEF Higher
    <3>4. Share(k) \in Nat /\ Share(k) <= y
      BY <1>7, <2>5, <3>3
    <3>5. SumFunction(f) <= y
      BY <2>4, <3>2, <3>4
    <3> QED BY <3>3, <3>5 DEF f, S, SignalsOf
  <2>6. CASE k \notin Ch
    <3>1. S = {}
      BY <1>10, <2>2, <2>6
    <3>2. SumFunctionOnSet(f, {}) = 0
      BY SumEmpty
    <3> HIDE DEF S
    <3>3. PICK y \in Nat : y = Higher(1, signals \div 2)
      BY DEF Higher
    <3>4. SumFunction(f) <= y
      BY <2>4, <3>1, <3>2, <3>3
    <3> QED BY <3>3, <3>4 DEF f, S, SignalsOf
  <2> QED BY <2>5, <2>6
<1> QED BY <1>10, <1>11, <1>12, <1>14, <1>15

-----------------------------------------------------------------------------
(* The inductive invariant.                                                *)

WorldTyped ==
    /\ now \in 0 .. Horizon /\ home \in Homes
    /\ created \in [Posts -> -1 .. now]
    /\ listed \subseteq {p \in Posts : created[p] >= 0} /\ IsFiniteSet(listed)
    /\ stored \subseteq listed /\ passed \subseteq listed
    /\ runs \in 0 .. Runs

RunTyped ==
    /\ DOMAIN active = DOMAIN NoRun
    /\ active.phase \in {"idle", "ready", "collecting"}
    /\ active.mode \in {"HUNT", "MONITOR"}
    /\ active.until \in 0 .. now
    /\ MarkedBefore(active.context, now)
    /\ active.requests \in Int /\ active.requests <= Requests
    /\ active.kept \in [Site -> Nat]

\* A job brings what its source made before the run has begun.
JobFits(job) == /\ job.source \in Site /\ job.cursor \in Cursor
                /\ job.signals \in Nat \ {0} /\ job.requests \in Nat \ {0}
                /\ WindowFits(job, active.until)
JobsFit == /\ \E n \in Nat : DOMAIN jobs = 1 .. n
           /\ active.phase # "collecting" => DOMAIN jobs = {}
           /\ \A i \in DOMAIN jobs : JobFits(jobs[i])

AnswerFits(answer, job) ==
    /\ answer.items \subseteq listed
    /\ \A p \in answer.items : created[p] < job.until
    /\ answer.cursor \in Cursor
    /\ answer.sent \in 0 .. job.requests
    /\ Cardinality(answer.items) \in 0 .. job.signals
AnswersFit == /\ DOMAIN answers \subseteq DOMAIN jobs
              /\ \A i \in DOMAIN answers : AnswerFits(answers[i], jobs[i])

\* A round has shared out no more signals than its run has left.
SharesFit ==
    active.phase = "collecting" =>
        /\ LeftSignals > 0
        /\ AllSignals(jobs) <= LeftSignals
        /\ \A s \in Site : SignalsOf(jobs, s) <= Higher(1, LeftSignals \div 2)

ListedInTime == \A p \in Posts \ listed : created[p] >= 0 => now <= created[p] + Delay

\* What is neither stored nor passed over lies behind no watermark of its source by more
\* than the overlap.
InReach ==
    \A p \in Posts \ (stored \cup passed) :
        created[p] >= 0 /\ home[p] \in DOMAIN rows => rows[home[p]].watermark - Overlap <= created[p]

CollectionInv == /\ WorldTyped /\ MarkedBefore(rows, now) /\ RunTyped /\ JobsFit /\ AnswersFit
                 /\ SharesFit /\ ListedInTime /\ InReach

LEMMA PostsAre == Posts \subseteq Nat /\ {Overlap, Delay, Rounds, Runs, Horizon} \subseteq Nat /\ Delay <= Overlap
                  /\ Requests \in Nat /\ Homes \subseteq [Posts -> Site]
BY CollectionAssumption

LEMMA SitesFinite == IsFiniteSet(Site)
<1>1. IsFiniteSet({"GITHUB"})
  BY FS_Singleton
<1>2. IsFiniteSet({"GITHUB"} \cup {"HACKER_NEWS"})
  BY <1>1, FS_AddElement
<1>3. IsFiniteSet(({"GITHUB"} \cup {"HACKER_NEWS"}) \cup {"REDDIT"})
  BY <1>2, FS_AddElement
<1>4. Site = ({"GITHUB"} \cup {"HACKER_NEWS"}) \cup {"REDDIT"}
  BY DEF Site
<1> QED BY <1>3, <1>4

\* What is marked before a time is marked before each later one.
LEMMA MarkedLater ==
  ASSUME NEW table, NEW t \in Int, NEW u \in Int, t <= u, MarkedBefore(table, t)
  PROVE  MarkedBefore(table, u)
<1> SUFFICES ASSUME NEW s \in DOMAIN table PROVE table[s].watermark < u
  BY DEF MarkedBefore
<1>1. table[s].watermark \in Int /\ table[s].watermark < t
  BY DEF MarkedBefore, Checkpoint
<1> QED BY <1>1

LEMMA SharesSame ==
  ASSUME SharesFit, UNCHANGED jobs, active'.phase = active.phase, active'.kept = active.kept
  PROVE  SharesFit'
<1>1. KeptSignals' = KeptSignals
  BY DEF KeptSignals
<1>2. LeftSignals' = LeftSignals
  BY <1>1 DEF LeftSignals, Higher
<1> QED BY <1>2 DEF SharesFit, Higher

LEMMA InitHolds == CollectionInit => CollectionInv
<1> SUFFICES ASSUME CollectionInit PROVE CollectionInv
  OBVIOUS
<1> USE DEF CollectionInit
<1>1. WorldTyped
  BY PostsAre, FS_EmptySet DEF WorldTyped
<1>2. MarkedBefore(<<>>, now)
  BY DEF MarkedBefore
<1>3. RunTyped
  BY <1>2, PostsAre DEF RunTyped, NoRun
<1>4. JobsFit
  <2>1. DOMAIN jobs = 1 .. 0
    OBVIOUS
  <2> QED BY <2>1 DEF JobsFit
<1>5. AnswersFit
  BY DEF AnswersFit
<1>6. SharesFit
  BY DEF SharesFit, NoRun
<1>7. ListedInTime /\ InReach
  BY DEF ListedInTime, InReach
<1> QED BY <1>1, <1>2, <1>3, <1>4, <1>5, <1>6, <1>7 DEF CollectionInv

LEMMA PostKeeps ==
  ASSUME CollectionInv, NEW p \in Posts, Post(p)
  PROVE  CollectionInv'
<1> USE DEF Post
<1>1. /\ now \in 0 .. Horizon /\ created \in [Posts -> -1 .. now] /\ p \notin listed
      /\ created' \in [Posts -> -1 .. now] /\ created'[p] = now
      /\ \A q \in Posts : q # p => created'[q] = created[q]
  BY PostsAre DEF CollectionInv, WorldTyped
<1>2. WorldTyped'
  BY <1>1 DEF CollectionInv, WorldTyped
<1>3. MarkedBefore(rows, now)' /\ RunTyped' /\ JobsFit'
  BY DEF CollectionInv, MarkedBefore, RunTyped, JobsFit, JobFits
<1>4. AnswersFit'
  <2>1. \A i \in DOMAIN answers : answers[i].items \subseteq listed /\ p \notin answers[i].items
    BY <1>1 DEF CollectionInv, AnswersFit, AnswerFits
  <2>2. \A i \in DOMAIN answers : \A q \in answers[i].items : created'[q] = created[q]
    BY <1>1, <2>1 DEF CollectionInv, WorldTyped
  <2> QED BY <2>1, <2>2 DEF CollectionInv, AnswersFit, AnswerFits
<1>5. SharesFit'
  BY SharesSame DEF CollectionInv
<1>6. ListedInTime'
  BY <1>1, PostsAre DEF CollectionInv, ListedInTime
<1>7. InReach'
  <2> SUFFICES ASSUME NEW q \in Posts \ (stored \cup passed), created'[q] >= 0, home[q] \in DOMAIN rows
               PROVE  rows[home[q]].watermark - Overlap <= created'[q]
    BY DEF InReach
  <2>1. CASE q = p
    <3>1. rows[home[q]].watermark \in Int /\ rows[home[q]].watermark < now
      BY DEF CollectionInv, MarkedBefore, Checkpoint
    <3> QED BY <1>1, <2>1, <3>1, PostsAre
  <2>2. CASE q # p
    BY <1>1, <2>2 DEF CollectionInv, InReach
  <2> QED BY <2>1, <2>2
<1> QED BY <1>2, <1>3, <1>4, <1>5, <1>6, <1>7 DEF CollectionInv

LEMMA ListKeeps ==
  ASSUME CollectionInv, NEW p \in Posts, List(p)
  PROVE  CollectionInv'
<1> USE DEF List
<1>1. WorldTyped'
  BY FS_AddElement DEF CollectionInv, WorldTyped
<1>2. MarkedBefore(rows, now)' /\ RunTyped' /\ JobsFit'
  BY DEF CollectionInv, MarkedBefore, RunTyped, JobsFit, JobFits
<1>3. AnswersFit'
  BY DEF CollectionInv, AnswersFit, AnswerFits
<1>4. SharesFit'
  BY SharesSame DEF CollectionInv
<1>5. ListedInTime' /\ InReach'
  BY DEF CollectionInv, ListedInTime, InReach
<1> QED BY <1>1, <1>2, <1>3, <1>4, <1>5 DEF CollectionInv

LEMMA TickKeeps ==
  ASSUME CollectionInv, Tick
  PROVE  CollectionInv'
<1> USE DEF Tick
<1>1. now \in Nat /\ now + 1 \in 0 .. Horizon /\ now <= now + 1
  BY PostsAre DEF CollectionInv, WorldTyped
<1>2. WorldTyped'
  <2>1. created \in [Posts -> -1 .. (now + 1)]
    <3>1. \A q \in Posts : created[q] \in -1 .. now
      BY DEF CollectionInv, WorldTyped
    <3>2. \A q \in Posts : created[q] \in -1 .. (now + 1)
      BY <1>1, <3>1
    <3> QED BY <3>2 DEF CollectionInv, WorldTyped
  <2> QED BY <1>1, <2>1 DEF CollectionInv, WorldTyped
<1>3. MarkedBefore(rows, now + 1) /\ MarkedBefore(active.context, now + 1)
  BY <1>1, MarkedLater DEF CollectionInv, RunTyped
<1>4. MarkedBefore(rows, now)' /\ RunTyped'
  BY <1>1, <1>3 DEF CollectionInv, MarkedBefore, RunTyped
<1>5. JobsFit' /\ AnswersFit'
  BY DEF CollectionInv, JobsFit, JobFits, AnswersFit, AnswerFits
<1>6. SharesFit'
  BY SharesSame DEF CollectionInv
<1>7. ListedInTime'
  <2> SUFFICES ASSUME NEW q \in Posts \ listed, created[q] >= 0 PROVE now + 1 <= created[q] + Delay
    BY DEF ListedInTime
  <2>1. created[q] \in Int /\ now < created[q] + Delay
    BY DEF CollectionInv, WorldTyped
  <2> QED BY <1>1, <2>1, PostsAre
<1>8. InReach'
  BY DEF CollectionInv, InReach
<1> QED BY <1>2, <1>4, <1>5, <1>6, <1>7, <1>8 DEF CollectionInv

LEMMA StartRunKeeps ==
  ASSUME CollectionInv, NEW mode \in {"HUNT", "MONITOR"}, StartRun(mode)
  PROVE  CollectionInv'
<1>1. /\ active.phase = "idle" /\ now \in 0 .. Horizon /\ runs' \in 0 .. Runs
      /\ UNCHANGED <<world, ledger, jobs, answers>>
  BY PostsAre DEF CollectionInv, WorldTyped, StartRun
<1>2. /\ DOMAIN active' = DOMAIN NoRun /\ active'.phase = "ready" /\ active'.mode = mode
      /\ active'.until = now /\ active'.context = rows
      /\ active'.requests = 0 /\ active'.kept = [s \in Site |-> 0]
  BY DEF StartRun, NoRun
<1>3. WorldTyped' /\ MarkedBefore(rows, now)'
  BY <1>1 DEF CollectionInv, WorldTyped, MarkedBefore, world, ledger
<1>4. RunTyped'
  <2>1. now' = now /\ MarkedBefore(rows, now)
    BY <1>1 DEF CollectionInv, world
  <2>2. MarkedBefore(active'.context, now')
    BY <1>2, <2>1
  <2>3. 0 <= Requests /\ now \in 0 .. now /\ [s \in Site |-> 0] \in [Site -> Nat]
    BY <1>1, PostsAre
  <2> QED BY <1>2, <2>1, <2>2, <2>3 DEF RunTyped
<1>5. SharesFit'
  BY <1>2 DEF SharesFit
<1>6. JobsFit' /\ AnswersFit'
  BY <1>1 DEF CollectionInv, JobsFit, AnswersFit
<1>7. ListedInTime' /\ InReach'
  BY <1>1 DEF CollectionInv, ListedInTime, InReach, world, ledger
<1> QED BY <1>3, <1>4, <1>5, <1>6, <1>7 DEF CollectionInv

LEMMA ResumeKeeps ==
  ASSUME CollectionInv, Resume
  PROVE  CollectionInv'
<1> USE DEF Resume, world, ledger
<1>1. active.phase = "ready" /\ active' = [active EXCEPT !.context = rows]
  OBVIOUS
<1>2. DOMAIN active = {"phase", "mode", "until", "round", "context", "requests", "kept"}
  BY DEF CollectionInv, RunTyped, NoRun
<1>3. /\ DOMAIN active' = DOMAIN active /\ active'.phase = active.phase /\ active'.mode = active.mode
      /\ active'.until = active.until /\ active'.context = rows
      /\ active'.requests = active.requests /\ active'.kept = active.kept
  BY <1>1, <1>2
<1>4. WorldTyped' /\ MarkedBefore(rows, now)'
  BY DEF CollectionInv, WorldTyped, MarkedBefore
<1>5. RunTyped'
  <2>1. MarkedBefore(active'.context, now')
    BY <1>3 DEF CollectionInv
  <2> QED BY <1>3, <2>1 DEF CollectionInv, RunTyped
<1>6. JobsFit' /\ AnswersFit'
  BY <1>1, <1>3 DEF CollectionInv, JobsFit, AnswersFit
<1>7. SharesFit'
  BY <1>3, SharesSame DEF CollectionInv
<1>8. ListedInTime' /\ InReach'
  BY DEF CollectionInv, ListedInTime, InReach
<1> QED BY <1>4, <1>5, <1>6, <1>7, <1>8 DEF CollectionInv

LEMMA EndRunKeeps ==
  ASSUME CollectionInv, EndRun
  PROVE  CollectionInv'
<1> USE DEF EndRun, world, ledger
<1>1. WorldTyped' /\ MarkedBefore(rows, now)'
  BY DEF CollectionInv, WorldTyped, MarkedBefore
<1>2. /\ DOMAIN active' = DOMAIN NoRun /\ active'.phase = "idle" /\ active'.mode = "HUNT"
      /\ active'.until = 0 /\ active'.context = <<>> /\ active'.requests = 0
      /\ active'.kept = [s \in Site |-> 0]
  BY DEF NoRun
<1>3. RunTyped'
  <2>1. MarkedBefore(<<>>, now')
    BY DEF MarkedBefore
  <2>2. 0 \in 0 .. now' /\ 0 <= Requests /\ [s \in Site |-> 0] \in [Site -> Nat]
    BY PostsAre DEF CollectionInv, WorldTyped
  <2> QED BY <1>2, <2>1, <2>2 DEF RunTyped
<1>4. JobsFit' /\ AnswersFit'
  <2>1. DOMAIN jobs' = 1 .. 0 /\ DOMAIN answers' = {} /\ DOMAIN jobs' = {}
    OBVIOUS
  <2> QED BY <2>1 DEF JobsFit, AnswersFit
<1>5. SharesFit'
  BY <1>2 DEF SharesFit
<1>6. ListedInTime' /\ InReach'
  BY DEF CollectionInv, ListedInTime, InReach
<1> QED BY <1>1, <1>3, <1>4, <1>5, <1>6 DEF CollectionInv

LEMMA CollectKeeps ==
  ASSUME CollectionInv, NEW plan \in Plans, Collect(plan)
  PROVE  CollectionInv'
<1>1. PICK windows : windows = Windows(active.mode, active.until, active.context)
  OBVIOUS
<1>2. PICK requests : requests = LeftRequests
  OBVIOUS
<1>3. PICK signals : signals = LeftSignals
  OBVIOUS
<1>4. PICK context : context = active.context
  OBVIOUS
<1>5. PICK made : made = Jobs(plan, windows, context, requests, signals)
  OBVIOUS
<1>6. /\ jobs' = made /\ answers' = <<>>
      /\ active' = [active EXCEPT !.phase = "collecting", !.round = @ + 1,
                       !.requests = @ + SumFunction([i \in DOMAIN made |-> made[i].requests])]
      /\ signals > 0
      /\ UNCHANGED <<now, home, created, listed, stored, rows, passed, runs>>
  BY <1>1, <1>2, <1>3, <1>4, <1>5 DEF Collect, world, ledger
<1>7. PICK sum : sum = SumFunction([i \in DOMAIN made |-> made[i].requests]) /\ sum = AllRequests(made)
  BY DEF AllRequests
<1>8. DOMAIN active = {"phase", "mode", "until", "round", "context", "requests", "kept"}
  BY DEF CollectionInv, RunTyped, NoRun
<1>9. /\ DOMAIN active' = DOMAIN active /\ active'.phase = "collecting" /\ active'.mode = active.mode
      /\ active'.until = active.until /\ active'.context = active.context
      /\ active'.requests = active.requests + sum /\ active'.kept = active.kept
  BY <1>6, <1>7, <1>8
<1>10. requests \in Nat /\ active.requests \in Int
       /\ (requests = Requests - active.requests \/ (requests = 0 /\ active.requests <= Requests))
  BY <1>2, PostsAre DEF LeftRequests, Higher, CollectionInv, RunTyped
<1>11. signals \in Nat \ {0}
  <2>1. IsFiniteSet(Site)
    BY SitesFinite
  <2>2. DOMAIN active.kept = Site /\ \A s \in Site : active.kept[s] \in Nat
    BY DEF CollectionInv, RunTyped
  <2>3. KeptSignals \in Nat
    BY <2>1, <2>2, SumZero, SumOfFunction DEF KeptSignals
  <2>4. Signals \in Nat
    BY CollectionAssumption
  <2> QED BY <1>3, <1>6, <2>3, <2>4 DEF LeftSignals, Higher
<1>12. /\ MarkedBefore(context, now) /\ now \in Nat /\ active.until \in Nat
       /\ active.mode \in {"HUNT", "MONITOR"}
       /\ active.mode = "MONITOR" => context # <<>> /\ LastWatermark(context) - Overlap < active.until
  BY <1>4, PostsAre DEF CollectionInv, WorldTyped, RunTyped, Collect
<1>13. /\ DOMAIN windows \subseteq Nat /\ IsFiniteSet(DOMAIN windows)
       /\ \A b \in DOMAIN windows : WindowFits(windows[b], active.until)
  <2>1. PICK mode \in {"HUNT", "MONITOR"} : mode = active.mode
    BY <1>12
  <2>2. PICK until \in Nat : until = active.until
    BY <1>12
  <2>3. windows = Windows(mode, until, context)
    BY <1>1, <1>4, <2>1, <2>2
  <2>4. mode = "MONITOR" => context # <<>> /\ LastWatermark(context) - Overlap < until
    BY <1>12, <2>1, <2>2
  <2>5. /\ DOMAIN windows \subseteq Nat /\ IsFiniteSet(DOMAIN windows)
        /\ \A b \in DOMAIN windows : WindowFits(windows[b], until)
    BY <1>12, <2>3, <2>4, WindowsFit
  <2> QED BY <2>2, <2>5
<1>14. /\ \A n \in DOMAIN made : made[n].signals \in Nat \ {0} /\ made[n].requests \in Nat \ {0}
       /\ sum <= requests
       /\ AllSignals(made) <= signals
       /\ \A s \in Site : SignalsOf(made, s) <= Higher(1, signals \div 2)
  <2>1. DOMAIN windows \subseteq Nat /\ IsFiniteSet(DOMAIN windows)
    BY <1>13
  <2>2. requests \in Nat
    BY <1>10
  <2>3. /\ \A n \in DOMAIN made : made[n].signals \in Nat \ {0} /\ made[n].requests \in Nat \ {0}
        /\ AllRequests(made) <= requests /\ AllSignals(made) <= signals
        /\ \A s \in Site : SignalsOf(made, s) <= Higher(1, signals \div 2)
    BY <1>5, <1>11, <2>1, <2>2, SharesPlanned
  <2> QED BY <1>7, <2>3
<1>15. /\ \E n \in Nat : DOMAIN made = 1 .. n
       /\ \A n \in DOMAIN made : JobFits(made[n])
  <2>1. PICK chosen, candidates, offered :
            /\ chosen = ChosenSources(plan, signals)
            /\ candidates = Candidates(plan, chosen, windows)
            /\ offered = Offered(candidates, chosen, signals)
    OBVIOUS
  <2>2. PICK admitted \in Nat :
            /\ offered \subseteq candidates
            /\ DOMAIN made = 1 .. admitted
            /\ \A n \in 1 .. admitted :
                  /\ Nth(n, offered) \in offered
                  /\ made[n].source = SourceOrder[Nth(n, offered)[1]]
                  /\ made[n].since = windows[Nth(n, offered)[3]].since
                  /\ made[n].until = windows[Nth(n, offered)[3]].until
                  /\ made[n].cursor = IF made[n].source \in DOMAIN context
                                      THEN context[made[n].source].cursor ELSE None
    <3>1. DOMAIN windows \subseteq Nat /\ IsFiniteSet(DOMAIN windows)
      BY <1>13
    <3>2. requests \in Nat
      BY <1>10
    <3> QED BY <1>5, <2>1, <3>1, <3>2, JobsAre
  <2>3. ASSUME NEW n \in DOMAIN made PROVE JobFits(made[n])
    <3>1. PICK c : c = Nth(n, offered)
      OBVIOUS
    <3>2. c \in Candidates(plan, chosen, windows) /\ made[n].source = SourceOrder[c[1]]
          /\ made[n].since = windows[c[3]].since /\ made[n].until = windows[c[3]].until
          /\ made[n].cursor = IF made[n].source \in DOMAIN context
                              THEN context[made[n].source].cursor ELSE None
      BY <2>1, <2>2, <3>1
    <3>3. chosen \subseteq 1 .. 3
      BY <2>1, RanksDiffer
    <3>4. c[1] \in 1 .. 3 /\ c[3] \in DOMAIN windows
      BY <1>13, <3>2, <3>3, CandidatesFinite
    <3>5. made[n].source \in Site
      BY <3>2, <3>4 DEF SourceOrder, Site
    <3>6. made[n].cursor \in Cursor
      <4>1. \A s \in DOMAIN context : context[s] \in Checkpoint
        BY <1>12 DEF MarkedBefore
      <4>2. \A s \in DOMAIN context : context[s].cursor \in Cursor
        BY <4>1 DEF Checkpoint
      <4>3. None \in Cursor
        BY DEF Cursor
      <4> QED BY <3>2, <4>2, <4>3
    <3>7. WindowFits(made[n], active.until)
      BY <1>13, <3>2, <3>4 DEF WindowFits
    <3> QED BY <1>14, <3>5, <3>6, <3>7 DEF JobFits
  <2> QED BY <2>2, <2>3
<1>16. JobsFit'
  <2>1. \A n \in DOMAIN made : JobFits(made[n])'
    <3> SUFFICES ASSUME NEW n \in DOMAIN made PROVE JobFits(made[n])'
      OBVIOUS
    <3>1. JobFits(made[n])
      BY <1>15
    <3> QED BY <1>9, <3>1 DEF JobFits
  <2> QED BY <1>6, <1>9, <1>15, <2>1 DEF JobsFit
<1>17. AnswersFit'
  BY <1>6 DEF AnswersFit
<1>18. WorldTyped' /\ MarkedBefore(rows, now)'
  BY <1>6 DEF CollectionInv, WorldTyped, MarkedBefore
<1>19. RunTyped'
  <2>1. sum \in Int
    <3>1. PICK f : f = [i \in DOMAIN made |-> made[i].requests]
      OBVIOUS
    <3>2. DOMAIN f = DOMAIN made /\ \A i \in DOMAIN made : f[i] \in Int
      BY <1>14, <3>1
    <3>3. IsFiniteSet(DOMAIN made)
      BY <1>15, UptoFinite
    <3> QED BY <1>7, <3>1, <3>2, <3>3, SumType, SumOfFunction
  <2>2. active'.requests \in Int /\ active'.requests <= Requests
    <3>1. requests = 0 /\ active.requests <= Requests => active.requests + sum <= Requests
      BY <1>10, <1>14, <2>1, PostsAre
    <3>2. requests = Requests - active.requests => active.requests + sum <= Requests
      BY <1>10, <1>14, <2>1, PostsAre
    <3> QED BY <1>9, <1>10, <2>1, <3>1, <3>2
  <2>3. MarkedBefore(active'.context, now')
    <3>1. active'.context = context /\ now' = now
      BY <1>4, <1>6, <1>9
    <3>2. MarkedBefore(context, now)
      BY <1>12
    <3> QED BY <3>1, <3>2
  <2> QED BY <1>6, <1>9, <2>2, <2>3 DEF CollectionInv, RunTyped
<1>20. SharesFit'
  <2>1. KeptSignals' = KeptSignals
    BY <1>9 DEF KeptSignals
  <2>2. LeftSignals' = signals
    BY <1>3, <2>1 DEF LeftSignals, Higher
  <2> QED BY <1>6, <1>14, <2>2 DEF SharesFit, Higher
<1>21. ListedInTime' /\ InReach'
  BY <1>6 DEF CollectionInv, ListedInTime, InReach
<1> QED BY <1>16, <1>17, <1>18, <1>19, <1>20, <1>21 DEF CollectionInv

LEMMA AnswerKeeps ==
  ASSUME CollectionInv, NEW i \in DOMAIN jobs, Answer(i)
  PROVE  CollectionInv'
<1>1. /\ active.phase = "collecting" /\ i \in DOMAIN jobs \ DOMAIN answers
      /\ UNCHANGED <<world, ledger, active, jobs, runs>>
  BY DEF Answer
<1>2. PICK o \in Sends(jobs[i].source, jobs[i].requests), r \in Replies(jobs[i]) :
          answers' = [k \in DOMAIN answers \cup {i} |->
              IF k = i THEN [how |-> o.how, sent |-> o.sent,
                             items |-> IF o.how = "answered" THEN r.items ELSE {},
                             cursor |-> IF o.how = "answered" THEN r.cursor ELSE None]
              ELSE answers[k]]
  BY DEF Answer
<1>3. PICK job : job = jobs[i]
  OBVIOUS
<1>4. JobFits(job)
  BY <1>3 DEF CollectionInv, JobsFit
<1>5. PICK items : items = IF o.how = "answered" THEN r.items ELSE {}
  OBVIOUS
<1>6. PICK cursor : cursor = IF o.how = "answered" THEN r.cursor ELSE None
  OBVIOUS
<1>7. PICK answer : answer = [how |-> o.how, sent |-> o.sent, items |-> items, cursor |-> cursor]
  OBVIOUS
<1>8. /\ DOMAIN answers' = DOMAIN answers \cup {i} /\ answers'[i] = answer
      /\ \A k \in DOMAIN answers : answers'[k] = answers[k]
  BY <1>1, <1>2, <1>5, <1>6, <1>7
<1>9. /\ answer.sent = o.sent /\ answer.items = items /\ answer.cursor = cursor
  BY <1>7
<1>10. /\ IsFiniteSet(listed) /\ listed \subseteq Nat /\ \A p \in listed : created[p] \in Nat
  <2>1. IsFiniteSet(listed) /\ listed \subseteq Posts
    BY DEF CollectionInv, WorldTyped
  <2>2. ASSUME NEW p \in listed PROVE created[p] \in Nat
    <3>1. created[p] \in -1 .. now /\ created[p] >= 0
      BY DEF CollectionInv, WorldTyped
    <3> QED BY <3>1
  <2> QED BY <2>1, <2>2, PostsAre
<1>11. /\ r.items \subseteq listed /\ \A p \in r.items : InWindow(p, job)
       /\ IsFiniteSet(r.items) /\ Cardinality(r.items) <= job.signals
       /\ r.cursor \in Cursor
  <2>1. r \in Replies(job) /\ job.source \in Site /\ job.cursor \in Cursor /\ job.signals \in Nat \ {0}
    BY <1>3, <1>4 DEF JobFits
  <2> QED BY <1>10, <2>1, RepliesFit
<1>12. o.sent \in 0 .. job.requests
  <2>1. o \in Sends(job.source, job.requests) /\ job.source \in Site /\ job.requests \in Nat \ {0}
    BY <1>3, <1>4 DEF JobFits
  <2> QED BY <2>1, SendsFit
<1>13. AnswerFits(answer, job)
  <2>1. items \subseteq r.items /\ (items = r.items \/ items = {})
    BY <1>5
  <2>2. \A p \in items : created[p] < job.until
    BY <1>11, <2>1 DEF InWindow
  <2>3. Cardinality(items) \in 0 .. job.signals
    <3>1. Cardinality({}) = 0 /\ Cardinality(r.items) \in Nat
      BY <1>11, FS_EmptySet, FS_CardinalityType
    <3>2. job.signals \in Nat
      BY <1>4 DEF JobFits
    <3> QED BY <1>11, <2>1, <3>1, <3>2
  <2>4. cursor \in Cursor
    BY <1>6, <1>11 DEF Cursor
  <2> QED BY <1>9, <1>11, <1>12, <2>1, <2>2, <2>3, <2>4 DEF AnswerFits
<1>14. AnswersFit'
  <2>1. \A k \in DOMAIN answers \cup {i} : AnswerFits(answers'[k], jobs[k])
    <3> SUFFICES ASSUME NEW k \in DOMAIN answers \cup {i} PROVE AnswerFits(answers'[k], jobs[k])
      OBVIOUS
    <3>1. CASE k = i
      <4>1. answers'[k] = answer /\ jobs[k] = job
        BY <1>3, <1>8, <3>1
      <4> QED BY <1>13, <4>1
    <3>2. CASE k # i
      <4>1. k \in DOMAIN answers /\ answers'[k] = answers[k]
        BY <1>8, <3>2
      <4>2. AnswerFits(answers[k], jobs[k])
        BY <4>1 DEF CollectionInv, AnswersFit
      <4> QED BY <4>1, <4>2
    <3> QED BY <3>1, <3>2
  <2>2. \A k \in DOMAIN answers' : AnswerFits(answers'[k], jobs[k])
    BY <1>8, <2>1
  <2>3. jobs' = jobs /\ listed' = listed /\ created' = created
    BY <1>1 DEF world
  <2>4. DOMAIN answers' \subseteq DOMAIN jobs
    BY <1>1, <1>8 DEF CollectionInv, AnswersFit
  <2> QED BY <2>2, <2>3, <2>4 DEF AnswersFit, AnswerFits
<1>15. WorldTyped' /\ MarkedBefore(rows, now)' /\ RunTyped'
  BY <1>1 DEF CollectionInv, WorldTyped, MarkedBefore, RunTyped, world, ledger
<1>16. JobsFit' /\ SharesFit'
  <2>1. JobsFit'
    BY <1>1 DEF CollectionInv, JobsFit, JobFits
  <2>2. SharesFit'
    BY <1>1, SharesSame DEF CollectionInv
  <2> QED BY <2>1, <2>2
<1>17. ListedInTime' /\ InReach'
  BY <1>1 DEF CollectionInv, ListedInTime, InReach, world, ledger
<1> QED BY <1>14, <1>15, <1>16, <1>17 DEF CollectionInv

\* A collector marks its source before the end of the window it has asked for.
LEMMA MarkIs ==
  ASSUME NEW job, NEW items, NEW until \in Int, WindowFits(job, until),
         \A p \in items : created[p] \in Int /\ created[p] < job.until
  PROVE  Mark(items, job) \in Int /\ Mark(items, job) < until
<1>1. job.since \in Int /\ job.until \in Int /\ job.since < until /\ job.until <= until
  BY DEF WindowFits
<1>2. CASE items = {}
  BY <1>1, <1>2 DEF Mark
<1>3. CASE items # {}
  <2> DEFINE C == {created[p] : p \in items}
  <2>1. C \subseteq Int /\ C # {} /\ \A c \in C : c <= job.until
    BY <1>1, <1>3
  <2>2. \A c \in C : c < job.until
    OBVIOUS
  <2> HIDE DEF C
  <2>3. Max(C) \in C
    BY <1>1, <2>1, MaxIs
  <2>4. Max(C) \in Int /\ Max(C) < until
    <3>1. PICK m \in C : m = Max(C)
      BY <2>3
    <3>2. m \in Int /\ m < job.until
      BY <2>1, <2>2
    <3> QED BY <1>1, <3>1, <3>2
  <2> QED BY <1>3, <2>4 DEF Mark, C
<1> QED BY <1>2, <1>3

\* What is checkpointed is marked before the end of the run's window.
LEMMA CheckpointsAre ==
  ASSUME CollectionInv, NEW table, table = Checkpoints
  PROVE  /\ DOMAIN table = DOMAIN rows \cup {s \in Site : Answered(s) # {}}
         /\ \A s \in DOMAIN table :
               /\ Answered(s) = {} => s \in DOMAIN rows /\ table[s] = rows[s]
               /\ Answered(s) # {} => table[s] \in Checkpoint /\ table[s].watermark < active.until
<1>1. DOMAIN table = DOMAIN rows \cup {s \in Site : Answered(s) # {}}
  BY DEF Checkpoints
<1>2. ASSUME NEW s \in DOMAIN table, Answered(s) = {} PROVE s \in DOMAIN rows /\ table[s] = rows[s]
  BY <1>1, <1>2 DEF Checkpoints
<1>3. ASSUME NEW s \in DOMAIN table, Answered(s) # {}
      PROVE  table[s] \in Checkpoint /\ table[s].watermark < active.until
  <2>1. PICK last : last = Max(Answered(s))
    OBVIOUS
  <2>2. PICK n \in Nat : DOMAIN jobs = 1 .. n
    BY DEF CollectionInv, JobsFit
  <2>3. last \in Answered(s)
    <3>1. PICK A : A = Answered(s)
      OBVIOUS
    <3>2. A \subseteq 1 .. n /\ A # {}
      BY <1>3, <2>2, <3>1 DEF Answered, CollectionInv, AnswersFit
    <3>3. A \subseteq Int /\ A # {} /\ n \in Int /\ \A x \in A : x <= n
      BY <3>2
    <3>4. Max(A) \in A
      BY <3>3, MaxIs
    <3> QED BY <2>1, <3>1, <3>4
  <2>4. last \in DOMAIN answers /\ last \in DOMAIN jobs
    BY <2>3 DEF Answered, CollectionInv, AnswersFit
  <2>5. PICK job : job = jobs[last]
    OBVIOUS
  <2>6. PICK answer : answer = answers[last]
    OBVIOUS
  <2>7. JobFits(job) /\ AnswerFits(answer, job)
    BY <2>4, <2>5, <2>6 DEF CollectionInv, JobsFit, AnswersFit
  <2>8. table[s] = [cursor |-> answer.cursor, watermark |-> Mark(answer.items, job)]
    BY <1>1, <1>3, <2>1, <2>5, <2>6 DEF Checkpoints
  <2>9. active.until \in Int
    BY DEF CollectionInv, RunTyped
  <2>10. \A p \in answer.items : created[p] \in Int /\ created[p] < job.until
    BY <2>7 DEF AnswerFits, CollectionInv, WorldTyped
  <2>11. Mark(answer.items, job) \in Int /\ Mark(answer.items, job) < active.until
    <3>1. WindowFits(job, active.until)
      BY <2>7 DEF JobFits
    <3>2. PICK until \in Int : until = active.until
      BY <2>9
    <3>3. Mark(answer.items, job) \in Int /\ Mark(answer.items, job) < until
      BY <2>10, <3>1, <3>2, MarkIs
    <3> QED BY <3>2, <3>3
  <2>12. answer.cursor \in Cursor
    BY <2>7 DEF AnswerFits
  <2>13. PICK mark : mark = Mark(answer.items, job)
    OBVIOUS
  <2> QED BY <2>8, <2>11, <2>12, <2>13 DEF Checkpoint
<1> QED BY <1>1, <1>2, <1>3

\* What the collectors bring is no more than what the round has shared out.
LEMMA BroughtFits ==
  ASSUME CollectionInv
  PROVE  /\ \A i \in DOMAIN answers : Brought(i) \in Nat /\ Brought(i) <= jobs[i].signals
         /\ IsFiniteSet(DOMAIN answers) /\ IsFiniteSet(DOMAIN jobs)
         /\ SignalsBrought \in Nat /\ KeptSignals \in Nat
         /\ DOMAIN answers = DOMAIN jobs => SignalsBrought <= AllSignals(jobs)
         /\ AllSignals(jobs) \in Int
<1>1. IsFiniteSet(DOMAIN jobs)
  BY UptoFinite DEF CollectionInv, JobsFit
<1>2. IsFiniteSet(DOMAIN answers)
  <2>1. DOMAIN answers \in SUBSET DOMAIN jobs
    BY DEF CollectionInv, AnswersFit
  <2> QED BY <1>1, <2>1, FS_Subset
<1>3. \A i \in DOMAIN jobs : jobs[i].signals \in Nat
  BY DEF CollectionInv, JobsFit, JobFits
<1>4. \A i \in DOMAIN answers : Brought(i) \in Nat /\ Brought(i) <= jobs[i].signals
  <2> SUFFICES ASSUME NEW i \in DOMAIN answers PROVE Brought(i) \in Nat /\ Brought(i) <= jobs[i].signals
    OBVIOUS
  <2>1. i \in DOMAIN jobs /\ Brought(i) \in 0 .. jobs[i].signals
    BY DEF CollectionInv, AnswersFit, AnswerFits, Brought
  <2> QED BY <1>3, <2>1
<1> DEFINE f == [i \in DOMAIN answers |-> Brought(i)]
           g == [n \in DOMAIN jobs |-> jobs[n].signals]
<1>5. DOMAIN f = DOMAIN answers /\ \A i \in DOMAIN answers : f[i] \in Nat
  BY <1>4
<1>6. DOMAIN g = DOMAIN jobs /\ \A i \in DOMAIN jobs : g[i] \in Int
  BY <1>3
<1>7. \A i \in DOMAIN answers : f[i] <= jobs[i].signals
  BY <1>4
<1>8. \A i \in DOMAIN jobs : g[i] = jobs[i].signals
  OBVIOUS
<1>9. SignalsBrought = SumFunction(f) /\ AllSignals(jobs) = SumFunction(g)
  BY DEF SignalsBrought, AllSignals
<1> HIDE DEF f, g
<1>10. SignalsBrought \in Nat
  <2>1. SumFunctionOnSet(f, DOMAIN answers) \in Nat
    BY <1>2, <1>5, SumZero
  <2> QED BY <1>5, <1>9, <2>1, SumOfFunction
<1>11. AllSignals(jobs) \in Int
  <2>1. SumFunctionOnSet(g, DOMAIN jobs) \in Int
    BY <1>1, <1>6, SumType
  <2> QED BY <1>6, <1>9, <2>1, SumOfFunction
<1>12. DOMAIN answers = DOMAIN jobs => SignalsBrought <= AllSignals(jobs)
  <2> SUFFICES ASSUME DOMAIN answers = DOMAIN jobs PROVE SignalsBrought <= AllSignals(jobs)
    OBVIOUS
  <2>1. \A i \in DOMAIN jobs : f[i] \in Int /\ g[i] \in Int /\ f[i] <= g[i]
    BY <1>5, <1>6, <1>7, <1>8
  <2>2. SumFunctionOnSet(f, DOMAIN jobs) <= SumFunctionOnSet(g, DOMAIN jobs)
    BY <1>1, <2>1, SumAtMost
  <2> QED BY <1>5, <1>6, <1>9, <2>2, SumOfFunction
<1>13. KeptSignals \in Nat
  <2>2. DOMAIN active.kept = Site /\ \A s \in Site : active.kept[s] \in Nat
    BY DEF CollectionInv, RunTyped
  <2>3. PICK kept : kept = active.kept
    OBVIOUS
  <2>4. SumFunctionOnSet(kept, Site) \in Nat
    BY <2>2, <2>3, SitesFinite, SumZero
  <2> QED BY <2>2, <2>3, <2>4, SumOfFunction DEF KeptSignals
<1> QED BY <1>1, <1>2, <1>4, <1>10, <1>11, <1>12, <1>13

LEMMA CommitKeeps ==
  ASSUME CollectionInv, Commit
  PROVE  CollectionInv'
<1>1. /\ active.phase = "collecting" /\ DOMAIN answers = DOMAIN jobs
      /\ stored' = stored \cup Items /\ rows' = Checkpoints
      /\ passed' = (passed \cup Missed) \ stored'
      /\ jobs' = <<>> /\ answers' = <<>>
      /\ UNCHANGED <<now, home, created, listed, runs>>
  BY DEF Commit, world
<1>2. PICK unspent : unspent = Unspent
  OBVIOUS
<1>3. PICK brought : brought = [s \in Site |->
          SumFunction([i \in {i \in DOMAIN answers : jobs[i].source = s} |-> Brought(i)])]
  OBVIOUS
<1>4. active' = [active EXCEPT !.phase = "ready", !.requests = @ - unspent,
                   !.kept = [s \in Site |-> @[s] + brought[s]]]
  <2>1. active' = [active EXCEPT !.phase = "ready", !.requests = @ - Unspent,
                   !.kept = [s \in Site |-> @[s] +
                       SumFunction([i \in {i \in DOMAIN answers : jobs[i].source = s} |-> Brought(i)])]]
    BY DEF Commit
  <2>2. [s \in Site |-> active.kept[s] + brought[s]] = [s \in Site |-> active.kept[s] +
                       SumFunction([i \in {i \in DOMAIN answers : jobs[i].source = s} |-> Brought(i)])]
    BY <1>3
  <2> QED BY <1>2, <2>1, <2>2
<1>5. DOMAIN active = {"phase", "mode", "until", "round", "context", "requests", "kept"}
  BY DEF CollectionInv, RunTyped, NoRun
<1>6. /\ DOMAIN active' = DOMAIN active /\ active'.phase = "ready" /\ active'.mode = active.mode
      /\ active'.until = active.until /\ active'.context = active.context
      /\ active'.requests = active.requests - unspent
      /\ active'.kept = [s \in Site |-> active.kept[s] + brought[s]]
  BY <1>4, <1>5
<1>7. Items \subseteq listed /\ Missed \subseteq listed
  BY DEF Items, Missed, CollectionInv, AnswersFit, AnswerFits
<1>8. WorldTyped'
  BY <1>1, <1>7 DEF CollectionInv, WorldTyped
<1>9. PICK table : table = Checkpoints
  OBVIOUS
<1>10. /\ DOMAIN table = DOMAIN rows \cup {s \in Site : Answered(s) # {}}
       /\ \A s \in DOMAIN table :
             /\ Answered(s) = {} => s \in DOMAIN rows /\ table[s] = rows[s]
             /\ Answered(s) # {} => table[s] \in Checkpoint /\ table[s].watermark < active.until
  BY <1>9, CheckpointsAre
<1>11. now \in Nat /\ active.until \in Nat /\ active.until <= now
  BY PostsAre DEF CollectionInv, WorldTyped, RunTyped
<1>12. MarkedBefore(rows, now)'
  <2>1. \A s \in DOMAIN table : table[s] \in Checkpoint /\ table[s].watermark < now
    <3> SUFFICES ASSUME NEW s \in DOMAIN table PROVE table[s] \in Checkpoint /\ table[s].watermark < now
      OBVIOUS
    <3>1. CASE Answered(s) = {}
      BY <1>10, <3>1 DEF CollectionInv, MarkedBefore
    <3>2. CASE Answered(s) # {}
      <4>1. table[s] \in Checkpoint /\ table[s].watermark < active.until
        BY <1>10, <3>2
      <4>2. table[s].watermark \in Int
        BY <4>1 DEF Checkpoint
      <4> QED BY <1>11, <4>1, <4>2
    <3> QED BY <3>1, <3>2
  <2>2. DOMAIN table \subseteq Site
    BY <1>10 DEF CollectionInv, MarkedBefore
  <2>3. table = [s \in DOMAIN table |-> table[s]]
    BY <1>9 DEF Checkpoints
  <2>4. table \in [DOMAIN table -> Checkpoint]
    BY <2>1, <2>3
  <2>5. MarkedBefore(table, now)
    BY <2>1, <2>2, <2>4 DEF MarkedBefore
  <2>6. rows' = table /\ now' = now
    BY <1>1, <1>9
  <2> QED BY <2>5, <2>6 DEF MarkedBefore
<1>13. RunTyped'
  <2>1. unspent \in Nat
    <3> DEFINE f == [i \in DOMAIN jobs |-> jobs[i].requests - Charged(i)]
    <3>1. DOMAIN f = DOMAIN jobs /\ \A i \in DOMAIN jobs : f[i] \in Nat
      <4> SUFFICES ASSUME NEW i \in DOMAIN jobs PROVE jobs[i].requests - Charged(i) \in Nat
        OBVIOUS
      <4>1. answers[i].sent \in 0 .. jobs[i].requests /\ jobs[i].requests \in Nat
        BY <1>1 DEF CollectionInv, AnswersFit, AnswerFits, JobsFit, JobFits
      <4> QED BY <4>1 DEF Charged
    <3>2. unspent = SumFunction(f)
      BY <1>2 DEF Unspent
    <3> HIDE DEF f
    <3>3. SumFunctionOnSet(f, DOMAIN jobs) \in Nat
      BY <3>1, BroughtFits, SumZero
    <3> QED BY <3>1, <3>2, <3>3, SumOfFunction
  <2>2. active'.requests \in Int /\ active'.requests <= Requests
    BY <1>6, <2>1, PostsAre DEF CollectionInv, RunTyped
  <2>3. \A s \in Site : brought[s] \in Nat
    <3> SUFFICES ASSUME NEW s \in Site PROVE brought[s] \in Nat
      OBVIOUS
    <3> DEFINE S == {i \in DOMAIN answers : jobs[i].source = s}
               f == [i \in S |-> Brought(i)]
    <3>1. brought[s] = SumFunction(f)
      BY <1>3
    <3>2. IsFiniteSet(S)
      <4>1. S \in SUBSET DOMAIN answers
        OBVIOUS
      <4> HIDE DEF S
      <4> QED BY <4>1, BroughtFits, FS_Subset
    <3>3. DOMAIN f = S /\ \A i \in S : f[i] \in Nat
      BY BroughtFits
    <3> HIDE DEF S, f
    <3>4. SumFunctionOnSet(f, S) \in Nat
      BY <3>2, <3>3, SumZero
    <3> QED BY <3>1, <3>3, <3>4, SumOfFunction
  <2>4. active'.kept \in [Site -> Nat]
    <3>1. \A s \in Site : active.kept[s] + brought[s] \in Nat
      BY <2>3 DEF CollectionInv, RunTyped
    <3> QED BY <1>6, <3>1
  <2>5. MarkedBefore(active'.context, now')
    <3>1. PICK context : context = active.context
      OBVIOUS
    <3>2. MarkedBefore(context, now) /\ active'.context = context /\ now' = now
      BY <1>1, <1>6, <3>1 DEF CollectionInv, RunTyped
    <3> QED BY <3>2
  <2> QED BY <1>1, <1>6, <2>2, <2>4, <2>5 DEF CollectionInv, RunTyped
<1>14. JobsFit' /\ AnswersFit'
  <2>1. DOMAIN jobs' = 1 .. 0 /\ DOMAIN answers' = {} /\ DOMAIN jobs' = {}
    BY <1>1
  <2> QED BY <2>1 DEF JobsFit, AnswersFit
<1>15. SharesFit'
  BY <1>6 DEF SharesFit
<1>16. ListedInTime'
  BY <1>1 DEF CollectionInv, ListedInTime
<1>17. InReach'
  <2> SUFFICES ASSUME NEW p \in Posts \ (stored' \cup passed'), created[p] >= 0, home[p] \in DOMAIN table
               PROVE  table[home[p]].watermark - Overlap <= created[p]
    BY <1>1, <1>9 DEF InReach
  <2>1. p \notin stored /\ p \notin Items /\ p \notin passed /\ p \notin Missed
    BY <1>1
  <2>2. created[p] \in Int
    BY DEF CollectionInv, WorldTyped
  <2>3. CASE Answered(home[p]) = {}
    BY <1>10, <2>1, <2>3 DEF CollectionInv, InReach
  <2>4. CASE Answered(home[p]) # {}
    <3>1. table[home[p]].watermark \in Int /\ table[home[p]].watermark < active.until
      BY <1>10, <2>4 DEF Checkpoint
    <3>2. CASE p \notin listed
      <4>1. now <= created[p] + Delay
        BY <3>2 DEF CollectionInv, ListedInTime
      <4> QED BY <1>11, <2>2, <3>1, <4>1, PostsAre
    <3>3. CASE p \in listed
      <4>1. ~ (created[p] < active.until)
        BY <2>1, <2>4, <3>3 DEF Missed
      <4> QED BY <1>11, <2>2, <3>1, <4>1, PostsAre
    <3> QED BY <3>2, <3>3
  <2> QED BY <2>3, <2>4
<1> QED BY <1>8, <1>12, <1>13, <1>14, <1>15, <1>16, <1>17 DEF CollectionInv

LEMMA StutterKeeps ==
  ASSUME CollectionInv, UNCHANGED collectionVars
  PROVE  CollectionInv'
<1> USE DEF collectionVars
<1>1. SharesFit'
  BY SharesSame DEF CollectionInv
<1>2. WorldTyped' /\ MarkedBefore(rows, now)' /\ RunTyped' /\ JobsFit' /\ AnswersFit'
  BY DEF CollectionInv, WorldTyped, MarkedBefore, RunTyped, JobsFit, JobFits, AnswersFit, AnswerFits
<1>3. ListedInTime' /\ InReach'
  BY DEF CollectionInv, ListedInTime, InReach
<1> QED BY <1>1, <1>2, <1>3 DEF CollectionInv

THEOREM CollectionInvAlways == CollectionSpec => []CollectionInv
<1>1. CollectionInit => CollectionInv
  BY InitHolds
<1>2. CollectionInv /\ [CollectionNext]_collectionVars => CollectionInv'
  <2> SUFFICES ASSUME CollectionInv, [CollectionNext]_collectionVars PROVE CollectionInv'
    OBVIOUS
  <2>1. ASSUME NEW p \in Posts, Post(p) \/ List(p) PROVE CollectionInv'
    BY <2>1, PostKeeps, ListKeeps
  <2>2. CASE Tick
    BY <2>2, TickKeeps
  <2>3. CASE Resume
    BY <2>3, ResumeKeeps
  <2>4. CASE Commit
    BY <2>4, CommitKeeps
  <2>5. CASE EndRun
    BY <2>5, EndRunKeeps
  <2>6. ASSUME NEW mode \in {"HUNT", "MONITOR"}, StartRun(mode) PROVE CollectionInv'
    BY <2>6, StartRunKeeps
  <2>7. ASSUME NEW plan \in Plans, Collect(plan) PROVE CollectionInv'
    BY <2>7, CollectKeeps
  <2>8. ASSUME NEW i \in DOMAIN jobs, Answer(i) PROVE CollectionInv'
    BY <2>8, AnswerKeeps
  <2>9. CASE UNCHANGED collectionVars
    BY <2>9, StutterKeeps
  <2> QED BY <2>1, <2>2, <2>3, <2>4, <2>5, <2>6, <2>7, <2>8, <2>9 DEF CollectionNext
<1> QED BY <1>1, <1>2, PTL DEF CollectionSpec

THEOREM CollectionTypeOKAlways == CollectionSpec => []CollectionTypeOK
<1>1. CollectionInv => CollectionTypeOK
  <2> SUFFICES ASSUME CollectionInv PROVE CollectionTypeOK
    OBVIOUS
  <2>1. \A s \in DOMAIN rows : rows[s].cursor \in Cursor /\ rows[s].watermark < now
    BY DEF CollectionInv, MarkedBefore, Checkpoint
  <2> QED BY <2>1 DEF CollectionInv, CollectionTypeOK, WorldTyped, RunTyped, AnswersFit, MarkedBefore
<1> QED BY <1>1, CollectionInvAlways, PTL

THEOREM LateArrivalsCoveredAlways == CollectionSpec => []LateArrivalsCovered
<1>1. CollectionInv => LateArrivalsCovered
  <2> SUFFICES ASSUME CollectionInv, NEW p \in Posts \ (stored \cup passed),
                      created[p] >= 0, home[p] \in DOMAIN rows
               PROVE  Windows("MONITOR", now, rows)[1].since <= created[p]
    BY DEF LateArrivalsCovered
  <2>1. Windows("MONITOR", now, rows)[1].since = LastWatermark(rows) - Overlap
    BY DEF Windows, Window
  <2>2. \A s \in DOMAIN rows : rows[s].watermark \in Int
    BY DEF CollectionInv, MarkedBefore, Checkpoint
  <2>3. LastWatermark(rows) \in Int /\ LastWatermark(rows) <= rows[home[p]].watermark
    BY <2>2, LastWatermarkIs DEF CollectionInv, MarkedBefore
  <2>4. rows[home[p]].watermark - Overlap <= created[p]
    BY DEF CollectionInv, InReach
  <2>5. created[p] \in Int
    BY DEF CollectionInv, WorldTyped
  <2> QED BY <2>1, <2>2, <2>3, <2>4, <2>5, PostsAre
<1> QED BY <1>1, CollectionInvAlways, PTL

THEOREM RoundsFitAlways == CollectionSpec => []RoundsFit
<1>1. CollectionInv => RoundsFit
  <2> SUFFICES ASSUME CollectionInv PROVE RoundsFit
    OBVIOUS
  <2>1. active.requests <= Requests
    BY DEF CollectionInv, RunTyped
  <2>2. ASSUME NEW i \in DOMAIN answers PROVE answers[i].sent <= jobs[i].requests
    <3>1. answers[i].sent \in 0 .. jobs[i].requests
      BY DEF CollectionInv, AnswersFit, AnswerFits
    <3> QED BY <3>1
  <2>3. ASSUME active.phase = "collecting", DOMAIN answers = DOMAIN jobs
        PROVE  KeptSignals + SignalsBrought <= Signals
    <3>1. LeftSignals > 0 /\ AllSignals(jobs) <= LeftSignals
      BY <2>3 DEF CollectionInv, SharesFit
    <3>2. KeptSignals \in Nat /\ SignalsBrought \in Nat /\ SignalsBrought <= AllSignals(jobs)
          /\ AllSignals(jobs) \in Int
      BY <2>3, BroughtFits
    <3>3. Signals \in Nat
      BY CollectionAssumption
    <3>4. LeftSignals = Signals - KeptSignals
      BY <3>1, <3>2, <3>3 DEF LeftSignals, Higher
    <3> QED BY <3>1, <3>2, <3>3, <3>4
  <2>4. ASSUME active.phase = "collecting", NEW s \in {jobs[i].source : i \in DOMAIN jobs}
        PROVE  SumFunction([n \in {n \in DOMAIN jobs : jobs[n].source = s} |-> jobs[n].signals])
                  <= Higher(1, LeftSignals \div 2)
    <3>1. s \in Site
      BY <2>4 DEF CollectionInv, JobsFit, JobFits
    <3> QED BY <2>4, <3>1 DEF CollectionInv, SharesFit, SignalsOf
  <2>5. \A i \in DOMAIN jobs : jobs[i].signals > 0 /\ jobs[i].requests > 0
    BY DEF CollectionInv, JobsFit, JobFits
  <2> QED BY <2>1, <2>2, <2>3, <2>4, <2>5 DEF RoundsFit
<1> QED BY <1>1, CollectionInvAlways, PTL
=============================================================================
