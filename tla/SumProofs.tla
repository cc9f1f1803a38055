------------------------------ MODULE SumProofs ------------------------------
(***************************************************************************)
(* Four components whose safety rests on what is added up: a re-embedding  *)
(* for any number of workers, batches, attempts and events, where a fold   *)
(* over the queue counts the jobs to come; the usage reported to Stripe,   *)
(* for any processes, periods, costs and failures; the limits on requests, *)
(* for any requests at once; and the cap on what a trial may cost, for any *)
(* processes, calls and periods.  Sums over finite sets come first.        *)
(***************************************************************************)
EXTENDS ReEmbedding, UsageReporting, RateLimits, BillingState, FiniteSetTheorems, TLAPS

(***************************************************************************)
(* Of some subsets of a finite set there is one that contains no other:    *)
(* what induction over finite sets comes to.                               *)
(***************************************************************************)
LEMMA MinimalSubset ==
  ASSUME NEW S, IsFiniteSet(S), NEW T \in SUBSET SUBSET S, T # {}
  PROVE  \E U \in T : \A V \in T : V \subseteq U => V = U
<1>1. IsWellFoundedOn(StrictSubsetOrdering(S), SUBSET S)
  BY FS_StrictSubsetOrderingWellFounded, FS_FiniteSubsetsOfFinite
<1>2. \E U \in T : \A V \in T : ~(<<V, U>> \in StrictSubsetOrdering(S))
  BY <1>1, WFMin
<1> QED BY <1>2 DEF StrictSubsetOrdering

\* Of a finite set of numbers there is a least.
LEMMA LeastNumber ==
  ASSUME NEW n \in Nat, NEW T \in SUBSET (1..n), T # {}
  PROVE  Min(T) \in T /\ \A k \in T : Min(T) <= k
<1> DEFINE upTo == {1..k : k \in T}
<1>1. upTo \in SUBSET SUBSET (1..n) /\ upTo # {}
  <2>1. \A k \in T : 1..k \in SUBSET (1..n)
    OBVIOUS
  <2> QED BY <2>1
<1>2. IsFiniteSet(1..n)
  BY FS_Interval
<1>3. PICK U \in upTo : \A V \in upTo : V \subseteq U => V = U
  <2> DEFINE all == 1..n
  <2>1. upTo \in SUBSET SUBSET all /\ IsFiniteSet(all) /\ upTo # {}
    BY <1>1, <1>2
  <2> HIDE DEF upTo, all
  <2> QED BY <2>1, MinimalSubset
<1>4. PICK m \in T : U = 1..m
  OBVIOUS
<1>5. ASSUME NEW k \in T PROVE m <= k
  <2>1. k <= m => 1..k \subseteq 1..m
    OBVIOUS
  <2>2. k <= m => 1..k = 1..m
    BY <1>3, <1>4, <2>1
  <2>3. k < m => m \in 1..m /\ m \notin 1..k
    OBVIOUS
  <2> QED BY <2>2, <2>3
<1> QED BY <1>5 DEF Min

(***************************************************************************)
(* The function by which MapThenSumSet adds up F over the subsets of S.    *)
(***************************************************************************)
Pick(s) == CHOOSE x \in s : TRUE

Sums(g, F, S) ==
  g = [s \in SUBSET S |-> IF s = {} THEN 0 ELSE F[Pick(s)] + g[s \ {Pick(s)}]]

LEMMA Picked == ASSUME NEW s, s # {} PROVE Pick(s) \in s
BY DEF Pick

LEMMA SumStep ==
  ASSUME NEW S, NEW F, NEW g, Sums(g, F, S), NEW s \in SUBSET S
  PROVE  g[s] = IF s = {} THEN 0 ELSE F[Pick(s)] + g[s \ {Pick(s)}]
BY DEF Sums

\* There is only one.
LEMMA SumUnique ==
  ASSUME NEW S, IsFiniteSet(S), NEW F, NEW g, NEW h, Sums(g, F, S), Sums(h, F, S)
  PROVE  g = h
<1> DEFINE T == {s \in SUBSET S : g[s] # h[s]}
<1>1. CASE T = {}
  BY <1>1 DEF Sums
<1>2. CASE T # {}
  <2>1. PICK U \in T : \A V \in T : V \subseteq U => V = U
    <3> HIDE DEF T
    <3>1. T \in SUBSET SUBSET S
      BY DEF T
    <3> QED BY <3>1, <1>2, MinimalSubset
  <2>2. U \in SUBSET S /\ g[U] # h[U]
    OBVIOUS
  <2>3. U # {}
    BY <2>2, SumStep
  <2>4. Pick(U) \in U
    BY <2>3, Picked
  <2>5. U \ {Pick(U)} \notin T
    BY <2>1, <2>4
  <2>6. g[U \ {Pick(U)}] = h[U \ {Pick(U)}]
    BY <2>2, <2>5
  <2> QED BY <2>2, <2>3, <2>6, SumStep
<1> QED BY <1>1, <1>2

LEMMA SumRestricts ==
  ASSUME NEW S, NEW F, NEW g, Sums(g, F, S), NEW U \in SUBSET S
  PROVE  Sums([s \in SUBSET U |-> g[s]], F, U)
<1> DEFINE h == [s \in SUBSET U |-> g[s]]
<1>1. ASSUME NEW s \in SUBSET U
      PROVE  h[s] = IF s = {} THEN 0 ELSE F[Pick(s)] + h[s \ {Pick(s)}]
  <2>1. s \in SUBSET S /\ s \ {Pick(s)} \in SUBSET U
    OBVIOUS
  <2>2. g[s] = IF s = {} THEN 0 ELSE F[Pick(s)] + g[s \ {Pick(s)}]
    BY <2>1, SumStep
  <2> QED BY <2>1, <2>2
<1> HIDE DEF h
<1>2. h = [s \in SUBSET U |-> h[s]]
  BY DEF h
<1>3. h = [s \in SUBSET U |-> IF s = {} THEN 0 ELSE F[Pick(s)] + h[s \ {Pick(s)}]]
  BY <1>1, <1>2
<1> QED BY <1>3 DEF Sums, h

LEMMA SumsAgree ==
  ASSUME NEW S, NEW F, NEW G, \A x \in S : F[x] = G[x], NEW g, Sums(g, F, S)
  PROVE  Sums(g, G, S)
<1>1. \A s \in SUBSET S : s # {} => F[Pick(s)] = G[Pick(s)]
  BY Picked
<1>2. [s \in SUBSET S |-> IF s = {} THEN 0 ELSE F[Pick(s)] + g[s \ {Pick(s)}]]
       = [s \in SUBSET S |-> IF s = {} THEN 0 ELSE G[Pick(s)] + g[s \ {Pick(s)}]]
  BY <1>1
<1> QED BY <1>2 DEF Sums

\* And there is one.
LEMMA SumExists ==
  ASSUME NEW S, IsFiniteSet(S), NEW F
  PROVE  \E g : Sums(g, F, S)
<1> DEFINE T == {s \in SUBSET S : ~ \E g : Sums(g, F, s)}
<1> SUFFICES ASSUME T # {} PROVE FALSE
  OBVIOUS
<1>1. PICK U \in T : \A V \in T : V \subseteq U => V = U
  <2> HIDE DEF T
  <2>1. T \in SUBSET SUBSET S
    BY DEF T
  <2> QED BY <2>1, MinimalSubset
<1>2. U \in SUBSET S /\ ~ \E g : Sums(g, F, U)
  OBVIOUS
<1>3. \A s \in SUBSET U : s # U => \E g : Sums(g, F, s)
  BY <1>1, <1>2
<1> HIDE DEF T
<1> DEFINE of(s) == CHOOSE g : Sums(g, F, s)
           value(s) == of(s)[s]
           f == [s \in SUBSET U |-> IF s = {} THEN 0 ELSE F[Pick(s)] + value(s \ {Pick(s)})]
<1>4. ASSUME NEW s \in SUBSET U, s # U PROVE Sums(of(s), F, s)
  BY <1>3, <1>4
<1> HIDE DEF of
<1>5. ASSUME NEW s \in SUBSET U, s # U, s # {}
      PROVE  value(s) = F[Pick(s)] + value(s \ {Pick(s)})
  <2> DEFINE r == s \ {Pick(s)}
             h == [t \in SUBSET r |-> of(s)[t]]
  <2>1. Sums(of(s), F, s)
    BY <1>4, <1>5
  <2>2. r \in SUBSET s /\ s \in SUBSET s /\ Pick(s) \in s
    BY <1>5, Picked
  <2>3. of(s)[s] = F[Pick(s)] + of(s)[r]
    BY <2>1, <2>2, <1>5, SumStep
  <2>4. Sums(h, F, r)
    <3> HIDE DEF r
    <3> QED BY <2>1, <2>2, SumRestricts
  <2>5. r \in SUBSET U /\ r # U
    BY <2>2, <1>5
  <2>6. Sums(of(r), F, r)
    <3> HIDE DEF r
    <3> QED BY <2>5, <1>4
  <2>7. IsFiniteSet(r)
    <3>1. r \in SUBSET S
      BY <2>5, <1>2
    <3> HIDE DEF r
    <3> QED BY <3>1, FS_Subset
  <2>8. h = of(r)
    <3> HIDE DEF r, h
    <3> QED BY <2>4, <2>6, <2>7, SumUnique
  <2>9. of(s)[r] = of(r)[r]
    <3>1. h[r] = of(s)[r]
      OBVIOUS
    <3> HIDE DEF r, h
    <3> QED BY <3>1, <2>8
  <2> QED BY <2>3, <2>9
<1>6. value({}) = 0 \/ U = {}
  BY <1>4, SumStep
<1>7. ASSUME NEW s \in SUBSET U
      PROVE  f[s] = IF s = {} THEN 0 ELSE F[Pick(s)] + f[s \ {Pick(s)}]
  <2>1. CASE s = {}
    BY <2>1
  <2>2. CASE s # {}
    <3> DEFINE r == s \ {Pick(s)}
    <3>1. r \in SUBSET U /\ r # U /\ Pick(s) \in s
      BY <2>2, Picked
    <3>2. f[r] = value(r)
      <4> HIDE DEF r, value
      <4>1. CASE r = {}
        BY <4>1, <1>6, <3>1
      <4>2. CASE r # {}
        BY <4>2, <1>5, <3>1
      <4> QED BY <4>1, <4>2
    <3>3. f[s] = F[Pick(s)] + value(r)
      BY <2>2
    <3> QED BY <2>2, <3>2, <3>3
  <2> QED BY <2>1, <2>2
<1>8. f = [s \in SUBSET U |-> f[s]]
  OBVIOUS
<1> HIDE DEF f
<1>9. f = [s \in SUBSET U |-> IF s = {} THEN 0 ELSE F[Pick(s)] + f[s \ {Pick(s)}]]
  BY <1>7, <1>8
<1> QED BY <1>2, <1>9 DEF Sums

\* Its values are numbers, and it does not matter which element is added last.
LEMMA SumTyped ==
  ASSUME NEW S, IsFiniteSet(S), NEW F, NEW g, Sums(g, F, S), \A x \in S : F[x] \in Int
  PROVE  \A s \in SUBSET S : g[s] \in Int
<1>s. \A s \in SUBSET S : g[s] = IF s = {} THEN 0 ELSE F[Pick(s)] + g[s \ {Pick(s)}]
  BY SumStep
<1> DEFINE T == {s \in SUBSET S : g[s] \notin Int}
<1> SUFFICES ASSUME T # {} PROVE FALSE
  OBVIOUS
<1>1. PICK U \in T : \A V \in T : V \subseteq U => V = U
  <2> HIDE DEF T
  <2>1. T \in SUBSET SUBSET S
    BY DEF T
  <2> QED BY <2>1, MinimalSubset
<1>2. U \in SUBSET S /\ g[U] \notin Int
  OBVIOUS
<1>3. U # {} /\ Pick(U) \in U
  <2>0. {} \in SUBSET S
    OBVIOUS
  <2>1. g[{}] = 0
    BY <2>0, <1>s
  <2>2. U # {}
    BY <1>2, <2>1
  <2> QED BY <2>2, Picked
<1>4. g[U \ {Pick(U)}] \in Int
  BY <1>1, <1>2, <1>3
<1> HIDE DEF T
<1>5. g[U] = F[Pick(U)] + g[U \ {Pick(U)}]
  BY <1>2, <1>3, <1>s
<1>6. F[Pick(U)] \in Int
  BY <1>2, <1>3
<1> QED BY <1>2, <1>4, <1>5, <1>6

LEMMA SumTakes ==
  ASSUME NEW S, IsFiniteSet(S), NEW F, NEW g, Sums(g, F, S), \A x \in S : F[x] \in Int
  PROVE  \A s \in SUBSET S : \A x \in s : g[s] = F[x] + g[s \ {x}]
<1>s. \A s \in SUBSET S : g[s] = IF s = {} THEN 0 ELSE F[Pick(s)] + g[s \ {Pick(s)}]
  BY SumStep
<1> DEFINE T == {s \in SUBSET S : \E x \in s : g[s] # F[x] + g[s \ {x}]}
<1> SUFFICES ASSUME T # {} PROVE FALSE
  OBVIOUS
<1>1. PICK U \in T : \A V \in T : V \subseteq U => V = U
  <2> HIDE DEF T
  <2>1. T \in SUBSET SUBSET S
    BY DEF T
  <2> QED BY <2>1, MinimalSubset
<1>2. PICK x \in U : g[U] # F[x] + g[U \ {x}]
  OBVIOUS
<1>3. U \in SUBSET S /\ U # {} /\ Pick(U) \in U
  BY Picked
<1> HIDE DEF T
<1> DEFINE c == Pick(U)
<1>4. g[U] = F[c] + g[U \ {c}] /\ c # x
  BY <1>2, <1>3, <1>s
<1>5. \A V \in SUBSET U : V # U => \A y \in V : g[V] = F[y] + g[V \ {y}]
  BY <1>1, <1>3 DEF T
<1> HIDE DEF c
<1>6. g[U \ {c}] = F[x] + g[(U \ {c}) \ {x}]
  <2>1. U \ {c} \in SUBSET U /\ U \ {c} # U /\ x \in U \ {c}
    BY <1>2, <1>3, <1>4 DEF c
  <2> QED BY <2>1, <1>5
<1>7. g[U \ {x}] = F[c] + g[(U \ {x}) \ {c}]
  <2>1. U \ {x} \in SUBSET U /\ U \ {x} # U /\ c \in U \ {x}
    BY <1>2, <1>3, <1>4 DEF c
  <2> QED BY <2>1, <1>5
<1>8. (U \ {x}) \ {c} = (U \ {c}) \ {x}
  OBVIOUS
<1>9. F[x] \in Int /\ F[c] \in Int /\ g[(U \ {c}) \ {x}] \in Int
  <2>1. (U \ {c}) \ {x} \in SUBSET S /\ c \in S /\ x \in S
    BY <1>2, <1>3 DEF c
  <2> QED BY <2>1, SumTyped
<1>10. g[U \ {x}] = F[c] + g[(U \ {c}) \ {x}]
  BY <1>7, <1>8
<1>11. g[U] = F[c] + (F[x] + g[(U \ {c}) \ {x}])
  BY <1>4, <1>6
<1>12. F[x] + (F[c] + g[(U \ {c}) \ {x}]) = F[c] + (F[x] + g[(U \ {c}) \ {x}])
  BY <1>9
<1> QED BY <1>2, <1>10, <1>11, <1>12

(***************************************************************************)
(* The sum of the numbers F assigns to the elements of a finite set.       *)
(***************************************************************************)
Total(F, S) == MapThenSumSet(LAMBDA x : F[x], S)

LEMMA TotalSums ==
  ASSUME NEW F, NEW S, IsFiniteSet(S)
  PROVE  \E g : Sums(g, F, S) /\ Total(F, S) = g[S]
<1>1. Total(F, S) = (CHOOSE g : Sums(g, F, S))[S]
  BY DEF Total, MapThenSumSet, MapThenFoldSet, Sums, Pick
<1> QED BY <1>1, SumExists

\* One element, and the others.
LEMMA TotalTakes ==
  ASSUME NEW F, NEW S, IsFiniteSet(S), \A y \in S : F[y] \in Int, NEW x \in S
  PROVE  Total(F, S) = F[x] + Total(F, S \ {x}) /\ Total(F, S \ {x}) \in Int
<1> DEFINE R == S \ {x}
<1>1. PICK g : Sums(g, F, S) /\ Total(F, S) = g[S]
  BY TotalSums
<1>2. IsFiniteSet(R) /\ R \in SUBSET S /\ S \in SUBSET S
  BY FS_RemoveElement
<1> DEFINE r == [s \in SUBSET R |-> g[s]]
<1>3. r[R] = g[R]
  OBVIOUS
<1> HIDE DEF R
<1>4. PICK h : Sums(h, F, R) /\ Total(F, R) = h[R]
  BY <1>2, TotalSums
<1>5. Sums(r, F, R)
  BY <1>1, <1>2, SumRestricts
<1> HIDE DEF r
<1>6. r = h
  BY <1>2, <1>4, <1>5, SumUnique
<1>7. g[S] = F[x] + g[S \ {x}] /\ g[R] \in Int
  BY <1>1, <1>2, SumTakes, SumTyped
<1> QED BY <1>1, <1>3, <1>4, <1>6, <1>7 DEF R

LEMMA TotalAgrees ==
  ASSUME NEW F, NEW G, NEW S, IsFiniteSet(S), \A x \in S : F[x] = G[x]
  PROVE  Total(F, S) = Total(G, S)
<1>1. PICK g : Sums(g, F, S) /\ Total(F, S) = g[S]
  BY TotalSums
<1>2. PICK h : Sums(h, G, S) /\ Total(G, S) = h[S]
  BY TotalSums
<1>3. Sums(g, G, S)
  BY <1>1, SumsAgree
<1> QED BY <1>1, <1>2, <1>3, SumUnique

LEMMA TotalOfNone == \A F : Total(F, {}) = 0
<1> SUFFICES ASSUME NEW F PROVE Total(F, {}) = 0
  OBVIOUS
<1>1. IsFiniteSet({})
  BY FS_EmptySet
<1>2. PICK g : Sums(g, F, {}) /\ Total(F, {}) = g[{}]
  BY <1>1, TotalSums
<1>3. {} \in SUBSET {}
  OBVIOUS
<1> QED BY <1>2, <1>3, SumStep

\* All the same but for one element, which is added or counts for more.
LEMMA TotalGrows ==
  ASSUME NEW F, NEW G, NEW S, NEW x, IsFiniteSet(S),
         \A y \in S : F[y] \in Int, \A y \in S \cup {x} : G[y] \in Int,
         \A y \in S \ {x} : F[y] = G[y]
  PROVE  Total(G, S \cup {x}) = Total(F, S) + G[x] - (IF x \in S THEN F[x] ELSE 0)
           /\ Total(F, S) \in Int
<1> DEFINE R == S \ {x}
<1>1. IsFiniteSet(S \cup {x}) /\ (S \cup {x}) \ {x} = R
  BY FS_AddElement
<1>2. Total(G, S \cup {x}) = G[x] + Total(G, R) /\ Total(G, R) \in Int
  <2> DEFINE W == S \cup {x}
  <2>1. x \in W /\ IsFiniteSet(W) /\ W \ {x} = R /\ \A y \in W : G[y] \in Int
    BY <1>1
  <2>2. Total(G, W) = G[x] + Total(G, W \ {x}) /\ Total(G, W \ {x}) \in Int
    <3> HIDE DEF W, R
    <3> QED BY <2>1, TotalTakes
  <2> QED BY <2>1, <2>2
<1>3. Total(G, R) = Total(F, R)
  <2>1. IsFiniteSet(R)
    BY FS_RemoveElement
  <2> HIDE DEF R
  <2>2. \A y \in R : F[y] = G[y]
    BY DEF R
  <2> QED BY <2>1, <2>2, TotalAgrees
<1>4. x \in S => Total(F, S) = F[x] + Total(F, R)
  BY TotalTakes
<1>5. x \notin S => R = S
  OBVIOUS
<1>6. G[x] \in Int /\ (x \in S => F[x] \in Int)
  OBVIOUS
<1> HIDE DEF R
<1> QED BY <1>2, <1>3, <1>4, <1>5, <1>6

\* Of two sums over one set that is the smaller whose numbers are.
LEMMA TotalLess ==
  ASSUME NEW F, NEW G, NEW S, IsFiniteSet(S), \A x \in S : F[x] \in Int /\ G[x] \in Int /\ F[x] <= G[x]
  PROVE  Total(F, S) <= Total(G, S) /\ Total(F, S) \in Int /\ Total(G, S) \in Int
<1> DEFINE Holds(s) == Total(F, s) <= Total(G, s) /\ Total(F, s) \in Int /\ Total(G, s) \in Int
           T == {s \in SUBSET S : ~Holds(s)}
<1> SUFFICES ASSUME T # {} PROVE FALSE
  OBVIOUS
<1>1. PICK U \in T : \A V \in T : V \subseteq U => V = U
  <2> HIDE DEF T
  <2>1. T \in SUBSET SUBSET S
    BY DEF T
  <2> QED BY <2>1, MinimalSubset
<1>2. U \in SUBSET S /\ ~Holds(U)
  OBVIOUS
<1>3. U # {}
  BY <1>2, TotalOfNone
<1>4. PICK x \in U : TRUE
  BY <1>3
<1>5. Holds(U \ {x})
  <2>1. U \ {x} \in SUBSET S /\ U \ {x} \subseteq U /\ U \ {x} # U
    BY <1>2
  <2> HIDE DEF Holds
  <2> QED BY <1>1, <2>1
<1>6. IsFiniteSet(U)
  BY <1>2, FS_Subset
<1>7. Total(F, U) = F[x] + Total(F, U \ {x}) /\ Total(G, U) = G[x] + Total(G, U \ {x})
  BY <1>2, <1>6, TotalTakes
<1>8. F[x] \in Int /\ G[x] \in Int /\ F[x] <= G[x]
  BY <1>2
<1>9. Total(F, U \ {x}) \in Int /\ Total(G, U \ {x}) \in Int /\ Total(F, U \ {x}) <= Total(G, U \ {x})
  BY <1>5
<1> QED BY <1>2, <1>7, <1>8, <1>9

LEMMA TotalUnion ==
  ASSUME NEW F, NEW R, NEW S, IsFiniteSet(R), IsFiniteSet(S), R \cap S = {},
         \A x \in R \cup S : F[x] \in Int
  PROVE  Total(F, R \cup S) = Total(F, R) + Total(F, S) /\ Total(F, R) \in Int /\ Total(F, S) \in Int
<1> DEFINE Holds(s) == Total(F, R \cup s) = Total(F, R) + Total(F, s)
           T == {s \in SUBSET S : ~Holds(s)}
<1>0. Total(F, R) \in Int /\ Total(F, S) \in Int
  BY TotalLess
<1> SUFFICES ASSUME T # {} PROVE FALSE
  BY <1>0
<1>1. PICK U \in T : \A V \in T : V \subseteq U => V = U
  <2> HIDE DEF T
  <2>1. T \in SUBSET SUBSET S
    BY DEF T
  <2> QED BY <2>1, MinimalSubset
<1>2. U \in SUBSET S /\ ~Holds(U)
  OBVIOUS
<1>3. U # {}
  <2>1. Total(F, R) = Total(F, R) + 0
    BY <1>0
  <2>2. R \cup {} = R
    OBVIOUS
  <2> QED BY <1>2, <2>1, <2>2, TotalOfNone
<1>4. PICK x \in U : TRUE
  BY <1>3
<1>5. Holds(U \ {x})
  <2>1. U \ {x} \in SUBSET S /\ U \ {x} \subseteq U /\ U \ {x} # U
    BY <1>2
  <2> HIDE DEF Holds
  <2> QED BY <1>1, <2>1
<1> DEFINE W == R \cup U
<1>6. IsFiniteSet(U) /\ IsFiniteSet(W) /\ x \in W /\ W \ {x} = R \cup (U \ {x})
  BY <1>2, FS_Subset, FS_Union
<1>7. Total(F, U) = F[x] + Total(F, U \ {x}) /\ Total(F, U \ {x}) \in Int
  BY <1>2, <1>6, TotalTakes
<1>8. Total(F, W) = F[x] + Total(F, W \ {x})
  <2>1. \A y \in W : F[y] \in Int
    BY <1>2
  <2> HIDE DEF W
  <2> QED BY <1>6, <2>1, TotalTakes
<1>9. Total(F, W) = F[x] + (Total(F, R) + Total(F, U \ {x}))
  BY <1>5, <1>6, <1>8
<1>10. F[x] \in Int
  BY <1>2
<1>11. F[x] + (Total(F, R) + Total(F, U \ {x})) = Total(F, R) + (F[x] + Total(F, U \ {x}))
  BY <1>0, <1>7, <1>10
<1> QED BY <1>2, <1>7, <1>9, <1>11

LEMMA TotalOfZeros ==
  ASSUME NEW F, NEW S, IsFiniteSet(S), \A x \in S : F[x] = 0
  PROVE  Total(F, S) = 0
<1> DEFINE T == {s \in SUBSET S : Total(F, s) # 0}
<1> SUFFICES ASSUME T # {} PROVE FALSE
  OBVIOUS
<1>1. PICK U \in T : \A V \in T : V \subseteq U => V = U
  <2> HIDE DEF T
  <2>1. T \in SUBSET SUBSET S
    BY DEF T
  <2> QED BY <2>1, MinimalSubset
<1>2. U \in SUBSET S /\ Total(F, U) # 0
  OBVIOUS
<1>3. U # {}
  BY <1>2, TotalOfNone
<1>4. PICK x \in U : TRUE
  BY <1>3
<1>5. Total(F, U \ {x}) = 0
  <2>1. U \ {x} \in SUBSET S /\ U \ {x} \subseteq U /\ U \ {x} # U
    BY <1>2
  <2> QED BY <1>1, <2>1
<1>6. Total(F, U) = F[x] + Total(F, U \ {x})
  <2>1. IsFiniteSet(U) /\ \A y \in U : F[y] \in Int
    BY <1>2, FS_Subset
  <2> QED BY <2>1, TotalTakes
<1> QED BY <1>2, <1>5, <1>6

------------------------------------------------------------------------------
(***************************************************************************)
(* A re-embedding.  The parts of the type invariant that steps disturb     *)
(* apart from each other, and what the control points mean.                *)
(***************************************************************************)
Row      == /\ status \in {"stale", "re_embedding", "current", "error"}
            /\ progress \in Progress \cup {None}
            /\ status = "re_embedding" => progress # None
Chunks   == done \subseteq Batches
Queue    == IsABag(queued) /\ BagToSet(queued) \subseteq Job /\ IsFiniteSet(BagToSet(queued))
Steps    == Working \cup {"idle", "stuck", "enqueue", "enqueue exhausted", "ack", "reject"}
Hands    == /\ held \in [Workers -> Job \cup {None}]
            /\ pc \in [Workers -> Steps]
            /\ \A w \in Workers : held[w] = None <=> pc[w] = "idle"
            /\ lapsed \subseteq Workers
Locks    == /\ batch \in [Workers -> Batches \cup {None}]
            /\ \A v, w \in Workers : v # w /\ batch[v] # None => batch[v] # batch[w]
            /\ \A w \in Workers : pc[w] = "embed" => batch[w] # None
Memory   == /\ memory \in [Workers -> Progress \cup {None}]
            /\ \A w \in Workers : pc[w] = "phases" => memory[w] # None
Starts   == /\ caller \in Call \cup {None}
            /\ caller # None /\ caller.status = "re_embedding" => caller.progress # None
            /\ recovery \in Recovery \cup {None}
Flags    == extra \in BOOLEAN /\ lost \in BOOLEAN

ChunkSteps == {"loop", "embed", "finish", "count", "enqueue", "enqueue exhausted", "stuck"}
FinalSteps == {"phases", "complete", "give up"}

Control == \A w \in Workers :
  /\ pc[w] \in ChunkSteps => held[w].action = "re_embed_chunks"
  /\ pc[w] \in FinalSteps => held[w].action = "re_embed_finalize"
  /\ pc[w] \in {"count", "enqueue exhausted"} => Exhausted(w)
  /\ pc[w] = "idle" => w \notin lapsed

Typed == Row /\ Chunks /\ Queue /\ Hands /\ Locks /\ Memory /\ Starts /\ Flags /\ Control

LEMMA TypedIsType == Typed => TypeOK
BY DEF Typed, TypeOK, Row, Chunks, Queue, Steps, Hands, Locks, Memory, Starts, Flags

LEMMA BagPut ==
  ASSUME NEW B, IsABag(B), IsFiniteSet(BagToSet(B)), NEW x
  PROVE  LET C == B (+) SetToBag({x})
         IN  /\ IsABag(C) /\ IsFiniteSet(BagToSet(C)) /\ BagToSet(C) = BagToSet(B) \cup {x}
             /\ \A y \in BagToSet(B) \ {x} : C[y] = B[y]
             /\ C[x] = (IF x \in BagToSet(B) THEN B[x] ELSE 0) + 1
<1> DEFINE C == B (+) SetToBag({x})
<1>1. BagToSet(C) = BagToSet(B) \cup {x}
  BY DEF BagToSet, SetToBag, (+)
<1>2. \A y \in BagToSet(B) \ {x} : C[y] = B[y]
  BY DEF IsABag, BagToSet, SetToBag, (+)
<1>3. C[x] = (IF x \in BagToSet(B) THEN B[x] ELSE 0) + 1
  BY DEF IsABag, BagToSet, SetToBag, (+)
<1>4. IsABag(C)
  BY DEF IsABag, BagToSet, SetToBag, (+)
<1>5. IsFiniteSet(BagToSet(C))
  <2> HIDE DEF C
  <2> QED BY <1>1, FS_AddElement
<1> QED BY <1>1, <1>2, <1>3, <1>4, <1>5

LEMMA BagTake ==
  ASSUME NEW B, IsABag(B), IsFiniteSet(BagToSet(B)), NEW x \in BagToSet(B)
  PROVE  LET C == B (-) SetToBag({x})
         IN  /\ IsABag(C) /\ IsFiniteSet(BagToSet(C))
             /\ BagToSet(C) = IF B[x] = 1 THEN BagToSet(B) \ {x} ELSE BagToSet(B)
             /\ \A y \in BagToSet(B) \ {x} : C[y] = B[y]
             /\ B[x] # 1 => C[x] = B[x] - 1
             /\ B[x] \in Nat \ {0}
<1> DEFINE C == B (-) SetToBag({x})
<1>1. B[x] \in Nat \ {0}
  BY DEF IsABag, BagToSet
<1>2. BagToSet(C) = IF B[x] = 1 THEN BagToSet(B) \ {x} ELSE BagToSet(B)
  BY DEF IsABag, BagToSet, SetToBag, (-)
<1>3. \A y \in BagToSet(B) \ {x} : C[y] = B[y]
  BY DEF IsABag, BagToSet, SetToBag, (-)
<1>4. B[x] # 1 => C[x] = B[x] - 1
  BY DEF IsABag, BagToSet, SetToBag, (-)
<1>5. IsABag(C)
  BY DEF IsABag, BagToSet, SetToBag, (-)
<1>6. IsFiniteSet(BagToSet(C))
  <2>1. BagToSet(C) \in SUBSET BagToSet(B)
    BY <1>2
  <2> HIDE DEF C
  <2> QED BY <2>1, FS_Subset
<1> QED BY <1>1, <1>2, <1>3, <1>4, <1>5, <1>6

LEMMA BagEmpty == IsABag(EmptyBag) /\ BagToSet(EmptyBag) = {} /\ IsFiniteSet(BagToSet(EmptyBag))
<1>1. IsABag(EmptyBag) /\ BagToSet(EmptyBag) = {}
  BY DEF IsABag, BagToSet, SetToBag, EmptyBag
<1> QED BY <1>1, FS_EmptySet

LEMMA PutType ==
  ASSUME Queue, NEW job \in Job, Put(job)
  PROVE  Queue' /\ BagToSet(queued') = BagToSet(queued) \cup {job}
<1>1. IsABag(queued) /\ IsFiniteSet(BagToSet(queued)) /\ queued' = queued (+) SetToBag({job})
  BY DEF Queue, Put
<1>2. IsABag(queued') /\ IsFiniteSet(BagToSet(queued')) /\ BagToSet(queued') = BagToSet(queued) \cup {job}
  BY <1>1, BagPut
<1> QED BY <1>2 DEF Queue

LEMMA HeldJob ==
  ASSUME Hands, NEW w \in Workers, pc[w] # "idle"
  PROVE  held[w] \in Job /\ held[w] # None
BY DEF Hands

LEMMA NewJobs == \A action \in Action : NewJob(action) \in Job
BY DEF NewJob, Job

LEMMA MaxOfTwo == \A n \in Int : Max({1, n}) \in Nat \ {0}
<1> SUFFICES ASSUME NEW n \in Int PROVE Max({1, n}) \in Nat \ {0}
  OBVIOUS
<1>1. \E x \in {1, n} : \A y \in {1, n} : x >= y
  OBVIOUS
<1>2. Max({1, n}) \in {1, n} /\ Max({1, n}) >= 1
  BY <1>1 DEF Max
<1> QED BY <1>2

LEMMA WorkersToStart == NumWorkers \in Nat \ {0}
<1>1. Max({1, NumBatches}) \in Nat \ {0}
  BY MaxOfTwo, ReEmbeddingAssumption
<1> DEFINE m == Max({1, NumBatches})
<1> HIDE DEF m
<1>2. m \in Nat \ {0} /\ Concurrency \in Nat \ {0}
  BY <1>1, ReEmbeddingAssumption DEF m
<1>3. \E x \in {Concurrency, m} : \A y \in {Concurrency, m} : x =< y
  BY <1>2
<1>4. Min({Concurrency, m}) \in {Concurrency, m}
  BY <1>3 DEF Min
<1> QED BY <1>2, <1>4 DEF NumWorkers, m

LEMMA ToRecover == \A p \in Progress : RemainingWorkers(p) \in Nat \ {0}
BY MaxOfTwo DEF RemainingWorkers, Progress

\* What happens outside the workers.
Starting ==
  \/ Trigger \/ EnqueueChunks \/ Revert \/ CallerDies
  \/ Recover \/ EnqueueRecovered \/ CommitRecovered \/ RecoveryFails

LEMMA StartingType == ASSUME Typed, Starting PROVE Typed'
<1> USE DEF Typed
<1>u. UNCHANGED <<done, worker>>
  BY DEF Starting, Trigger, EnqueueChunks, Revert, CallerDies, Recover, EnqueueRecovered, CommitRecovered,
         RecoveryFails
<1>h. Chunks' /\ Hands' /\ Locks' /\ Memory' /\ Control'
  BY <1>u DEF worker, Chunks, Hands, Locks, Memory, Control, Exhausted
<1>q. ASSUME UNCHANGED queued PROVE Queue'
  BY <1>q DEF Queue
<1>1. CASE Trigger
  <2>0. Started(NumWorkers) \in Progress
    BY WorkersToStart DEF Started, Progress
  <2>1. Row'
    BY <1>1, <2>0, ReEmbeddingAssumption DEF Trigger, Row
  <2>2. [left |-> NumWorkers, status |-> status, progress |-> progress] \in Call
    BY <1>1, WorkersToStart DEF Trigger, Row, Call
  <2>3. Starts'
    BY <1>1, <2>2 DEF Trigger, Row, Starts
  <2>4. Flags'
    BY <1>1, Zenon DEF Trigger, Flags
  <2> QED BY <1>1, <1>h, <1>q, <2>1, <2>3, <2>4 DEF Trigger
<1>2. CASE EnqueueChunks
  <2>1. Queue'
    BY <1>2, PutType, NewJobs DEF EnqueueChunks, Action
  <2>2. Starts'
    BY <1>2 DEF EnqueueChunks, Starts, Call
  <2> QED BY <1>2, <1>h, <2>1, <2>2 DEF EnqueueChunks, kb, blame, Row, Flags
<1>3. CASE Revert
  <2>1. caller \in Call /\ (caller.status = "re_embedding" => caller.progress # None)
    BY <1>3 DEF Revert, Starts
  <2>2. Row'
    BY <1>3, <2>1 DEF Revert, Row, Call
  <2>3. Flags'
    BY <1>3, Zenon DEF Revert, Flags
  <2> QED BY <1>3, <1>h, <1>q, <2>2, <2>3 DEF Revert, Starts
<1>4. CASE CallerDies
  BY <1>4, <1>h, <1>q DEF CallerDies, kb, Row, Starts, Flags
<1>5. CASE Recover
  <2>1. progress \in Progress
    BY <1>5 DEF Recover, Row
  <2>2. Starts'
    BY <1>5, <2>1, ToRecover DEF Recover, Starts, Recovery
  <2>3. Flags'
    BY <1>5, Zenon DEF Recover, Flags
  <2> QED BY <1>5, <1>h, <1>q, <2>2, <2>3 DEF Recover, kb, Row
<1>6. CASE EnqueueRecovered
  <2>1. Queue'
    BY <1>6, PutType, NewJobs DEF EnqueueRecovered, Action
  <2>2. Starts'
    BY <1>6 DEF EnqueueRecovered, Starts, Recovery
  <2> QED BY <1>6, <1>h, <2>1, <2>2 DEF EnqueueRecovered, kb, blame, Row, Flags
<1>7. CASE CommitRecovered
  <2>1. recovery.read \in Progress
    BY <1>7 DEF CommitRecovered, Starts, Recovery
  <2>2. Recovered(recovery.read) \in Progress
    BY <2>1, ToRecover DEF Recovered, Progress
  <2>3. progress' \in {progress, Recovered(recovery.read)} /\ status' = status
    BY <1>7 DEF CommitRecovered
  <2>4. Row'
    BY <2>2, <2>3, ReEmbeddingAssumption DEF Row
  <2>5. Flags'
    BY <1>7, Zenon DEF CommitRecovered, Flags
  <2> QED BY <1>7, <1>h, <1>q, <2>4, <2>5 DEF CommitRecovered, Starts
<1>8. CASE RecoveryFails
  BY <1>8, <1>h, <1>q DEF RecoveryFails, kb, Row, Starts, Flags
<1> QED
  BY <1>1, <1>2, <1>3, <1>4, <1>5, <1>6, <1>7, <1>8 DEF Starting

(***************************************************************************)
(* What a handler does with its job in hand, and what ends it.             *)
(***************************************************************************)
Step(w) ==
  \/ LockBatch(w) \/ StopLoop(w) \/ StoreBatch(w) \/ EmbedRaises(w)
  \/ Finish(w) \/ FinishRaises(w) \/ EnqueueFinalize(w) \/ CountExhausted(w)
  \/ UpdatePhase(w) \/ Complete(w) \/ FinalizeRaises(w) \/ GiveUp(w)
  \/ EnqueueRaises(w) \/ EnqueueExhaustedFails(w)

LEMMA StepMoves ==
  ASSUME Typed, NEW w \in Workers, Step(w)
  PROVE  /\ UNCHANGED <<held, lapsed, start>> /\ pc[w] # "idle"
         /\ EnqueueFinalize(w) \/ UNCHANGED queued
         /\ \E t \in Steps \ {"idle", "phases"} :
              /\ pc' = [pc EXCEPT ![w] = t]
              /\ t \in ChunkSteps => pc[w] \in ChunkSteps
              /\ t \in FinalSteps => pc[w] \in FinalSteps
              /\ t \in {"count", "enqueue exhausted"} => Exhausted(w)
<1> USE DEF Typed, Goto, ChunkSteps, FinalSteps, Steps, Working
<1>1. CASE LockBatch(w) \/ StopLoop(w) \/ StoreBatch(w)
  BY <1>1 DEF LockBatch, StopLoop, StoreBatch
<1>2. CASE EmbedRaises(w) \/ EnqueueRaises(w)
  <2>1. AfterRaise(w) \in {"count", "reject"} /\ (AfterRaise(w) = "count" => Exhausted(w))
    BY DEF AfterRaise
  <2>2. pc' = [pc EXCEPT ![w] = AfterRaise(w)] /\ pc[w] \in {"embed", "enqueue"}
        /\ UNCHANGED <<queued, held, lapsed, start>>
    BY <1>2 DEF EmbedRaises, EnqueueRaises, Raise
  <2> QED BY <2>1, <2>2
<1>3. CASE Finish(w)
  <2>1. \E t \in {"enqueue", "ack"} : pc' = [pc EXCEPT ![w] = t]
    BY <1>3 DEF Finish, CountWorker
  <2>2. pc[w] = "finish" /\ UNCHANGED <<queued, held, lapsed, start>>
    BY <1>3 DEF Finish
  <2> QED BY <2>1, <2>2
<1>4. CASE FinishRaises(w) \/ EnqueueFinalize(w)
  BY <1>4 DEF FinishRaises, EnqueueFinalize
<1>5. CASE CountExhausted(w)
  <2>1. Exhausted(w) /\ pc[w] = "count"
    BY <1>5 DEF CountExhausted, Control
  <2>2. \E t \in {"enqueue exhausted", "reject"} : pc' = [pc EXCEPT ![w] = t]
    BY <1>5 DEF CountExhausted, CountWorker
  <2>3. UNCHANGED <<queued, held, lapsed, start>>
    BY <1>5 DEF CountExhausted
  <2> QED BY <2>1, <2>2, <2>3
<1>6. CASE UpdatePhase(w) \/ Complete(w) \/ GiveUp(w) \/ EnqueueExhaustedFails(w)
  <2>1. \E t \in {"complete", "ack", "reject"} :
          pc' = [pc EXCEPT ![w] = t] /\ (t = "complete" => pc[w] = "phases")
    BY <1>6 DEF UpdatePhase, Complete, GiveUp, EnqueueExhaustedFails
  <2>2. pc[w] # "idle" /\ UNCHANGED <<queued, held, lapsed, start>>
    BY <1>6 DEF UpdatePhase, Complete, GiveUp, EnqueueExhaustedFails
  <2> QED BY <2>1, <2>2
<1>7. CASE FinalizeRaises(w)
  <2>1. \E t \in {"give up", "reject"} : pc' = [pc EXCEPT ![w] = t]
    BY <1>7 DEF FinalizeRaises
  <2>2. pc[w] = "complete" /\ UNCHANGED <<queued, held, lapsed, start>>
    BY <1>7 DEF FinalizeRaises
  <2> QED BY <2>1, <2>2
<1> QED
  BY <1>1, <1>2, <1>3, <1>4, <1>5, <1>6, <1>7 DEF Step

\* The row and the batches done.
LEMMA CountsRow ==
  ASSUME Row, NEW w \in Workers, NEW more, NEW last, progress # None, CountWorker(w, more, last)
  PROVE  /\ Row' /\ progress' \in Progress /\ progress'.phase = progress.phase
         /\ progress'.completed = progress.completed + 1 /\ progress'.total = progress.total
         /\ status' \in {status, "error"}
<1>1. progress \in Progress
  BY DEF Row
<1>2. progress' = [progress EXCEPT !.completed = @ + 1] /\ status' \in {status, "error"}
  BY Zenon DEF CountWorker
<1>3. progress' \in Progress /\ progress'.phase = progress.phase
      /\ progress'.completed = progress.completed + 1 /\ progress'.total = progress.total
  BY <1>1, <1>2 DEF Progress
<1> QED BY <1>2, <1>3, ReEmbeddingAssumption DEF Row

LEMMA StepRow ==
  ASSUME Typed, NEW w \in Workers, Step(w)
  PROVE  /\ Row' /\ Chunks' /\ Flags' /\ done \subseteq done'
         /\ done' = done \/ StoreBatch(w)
<1> USE DEF Typed
<1>1. CASE LockBatch(w) \/ StopLoop(w) \/ EmbedRaises(w) \/ FinishRaises(w) \/ EnqueueFinalize(w) \/ FinalizeRaises(w)
  <2>1. UNCHANGED <<kb, done, blame>>
    BY <1>1 DEF LockBatch, StopLoop, EmbedRaises, Raise, FinishRaises, EnqueueFinalize, FinalizeRaises
  <2> QED BY <2>1 DEF kb, blame, Row, Chunks, Flags
<1>2. CASE StoreBatch(w)
  <2>1. batch[w] \in Batches
    BY <1>2 DEF StoreBatch, Locks
  <2> QED BY <1>2, <2>1 DEF StoreBatch, kb, blame, Row, Chunks, Flags
<1>3. CASE Finish(w)
  BY <1>3, CountsRow DEF Finish, blame, Chunks, Flags
<1>4. CASE CountExhausted(w)
  <2>1. Row'
    BY <1>4, CountsRow DEF CountExhausted, kb, Row
  <2> QED BY <1>4, <2>1 DEF CountExhausted, blame, Chunks, Flags
<1>5. CASE UpdatePhase(w)
  <2>1. memory[w] \in Progress
    BY <1>5 DEF UpdatePhase, Memory
  <2>2. [memory[w] EXCEPT !.phase = "later"] \in Progress
    BY <2>1 DEF Progress
  <2>3. Row'
    BY <1>5, <2>2, ReEmbeddingAssumption DEF UpdatePhase, Row
  <2> QED BY <1>5, <2>3 DEF UpdatePhase, blame, Chunks, Flags
<1>6. CASE Complete(w)
  BY <1>6 DEF Complete, CompleteStatus, blame, Row, Chunks, Flags
<1>7. CASE GiveUp(w)
  <2>1. Started(1) \in Progress
    BY DEF Started, Progress
  <2> QED BY <1>7, <2>1 DEF GiveUp, blame, Row, Chunks, Flags
<1>8. CASE EnqueueRaises(w) \/ EnqueueExhaustedFails(w)
  BY <1>8 DEF EnqueueRaises, Raise, EnqueueExhaustedFails, kb, Row, Chunks, Flags
<1> QED
  BY <1>1, <1>2, <1>3, <1>4, <1>5, <1>6, <1>7, <1>8 DEF Step

\* A lock is of one worker: who selects skips what others have locked.
LEMMA StepLocks ==
  ASSUME Typed, NEW w \in Workers, Step(w)
  PROVE  Locks' /\ Memory'
<1> USE DEF Typed
<1>1. PICK t \in Steps \ {"idle", "phases"} : pc' = [pc EXCEPT ![w] = t]
  BY StepMoves
<1>2. \A v \in Workers : v # w => pc'[v] = pc[v]
  BY <1>1
<1>3. pc'[w] = t
  BY <1>1 DEF Hands
<1>4. CASE LockBatch(w)
  <2>1. Claimable \in SUBSET (1..NumBatches) /\ NumBatches \in Nat
    BY ReEmbeddingAssumption DEF Claimable, Remaining, Batches
  <2>2. Min(Claimable) \in Claimable
    BY <1>4, <2>1, LeastNumber DEF LockBatch
  <2>3. batch' = [batch EXCEPT ![w] = Min(Claimable)]
    BY <1>4 DEF LockBatch
  <2> DEFINE b == Min(Claimable)
  <2>4. b \in Batches /\ \A v \in Workers : batch[v] # b
    BY <2>1, <2>2 DEF Batches, Claimable
  <2> HIDE DEF b
  <2>5. batch' = [batch EXCEPT ![w] = b]
    BY <2>3 DEF b
  <2>6. b # None
    BY <2>4, ReEmbeddingAssumption DEF Batches
  <2>7. Locks'
    BY <1>2, <2>4, <2>5, <2>6 DEF Locks
  <2> QED BY <1>2, <1>3, <1>4, <2>7 DEF LockBatch, Memory
<1>5. ASSUME t # "embed", batch' = batch \/ batch' = [batch EXCEPT ![w] = None] PROVE Locks'
  BY <1>2, <1>3, <1>5 DEF Locks
<1>6. CASE ~LockBatch(w)
  <2>1. pc'[w] # "embed"
    BY <1>6 DEF Step, StopLoop, StoreBatch, EmbedRaises, Raise, AfterRaise, Finish, FinishRaises, EnqueueFinalize,
       CountExhausted, CountWorker, UpdatePhase, Complete, FinalizeRaises, GiveUp, EnqueueRaises,
       EnqueueExhaustedFails, Goto, Hands
  <2>2. batch' = batch \/ batch' = [batch EXCEPT ![w] = None]
    BY <1>6 DEF Step, StopLoop, StoreBatch, EmbedRaises, Raise, Finish, FinishRaises, EnqueueFinalize,
       CountExhausted, UpdatePhase, Complete, FinalizeRaises, GiveUp, EnqueueRaises, EnqueueExhaustedFails, Locks
  <2>3. memory' = memory \/ memory' = [memory EXCEPT ![w] = None]
    BY <1>6 DEF Step, StopLoop, StoreBatch, EmbedRaises, Raise, Finish, FinishRaises, EnqueueFinalize,
       CountExhausted, UpdatePhase, Complete, FinalizeRaises, GiveUp, EnqueueRaises, EnqueueExhaustedFails
  <2> QED BY <1>2, <1>3, <1>5, <2>1, <2>2, <2>3 DEF Memory
<1> QED BY <1>4, <1>6

LEMMA StepType ==
  ASSUME Typed, NEW w \in Workers, Step(w)
  PROVE  Typed'
<1> USE DEF Typed
<1>1. UNCHANGED <<held, lapsed, start>> /\ pc[w] # "idle"
  BY StepMoves
<1>2. PICK t \in Steps \ {"idle", "phases"} :
        /\ pc' = [pc EXCEPT ![w] = t]
        /\ t \in ChunkSteps => pc[w] \in ChunkSteps
        /\ t \in FinalSteps => pc[w] \in FinalSteps
        /\ t \in {"count", "enqueue exhausted"} => Exhausted(w)
  BY StepMoves
<1>3. Hands' /\ Control' /\ Starts'
  BY <1>1, <1>2 DEF start, Hands, Control, Exhausted, Starts
<1>4. Queue'
  <2>1. CASE UNCHANGED queued
    BY <2>1 DEF Queue
  <2>2. CASE EnqueueFinalize(w)
    BY <2>2, PutType, NewJobs DEF EnqueueFinalize, Action
  <2> QED BY <2>1, <2>2, StepMoves
<1> QED BY <1>3, <1>4, StepRow, StepLocks

LEMMA TakeType ==
  ASSUME Typed, NEW w \in Workers, Take(w)
  PROVE  Typed' /\ pc[w] = "idle"
         /\ \E job \in BagToSet(queued) :
              /\ queued' = queued (-) SetToBag({job}) /\ BagToSet(queued') \subseteq BagToSet(queued)
              /\ held' = [held EXCEPT ![w] = [job EXCEPT !.attempts = @ + 1]]
              /\ held'[w].action = job.action
              /\ pc' = [pc EXCEPT ![w] = IF status = "re_embedding" THEN Entry(job.action) ELSE "ack"]
<1> USE DEF Typed
<1>1. PICK job \in BagToSet(queued) :
        /\ queued' = queued (-) SetToBag({job})
        /\ held' = [held EXCEPT ![w] = [job EXCEPT !.attempts = @ + 1]]
        /\ Goto(w, IF status = "re_embedding" THEN Entry(job.action) ELSE "ack")
        /\ memory' = [memory EXCEPT ![w] =
                        IF status = "re_embedding" /\ job.action = "re_embed_finalize"
                          THEN progress ELSE None]
  BY DEF Take
<1>2. /\ pc[w] = "idle" /\ UNCHANGED <<kb, done, batch, lapsed, start, blame>>
      /\ job \in Job
  BY DEF Take, Queue
<1>3. Queue' /\ BagToSet(queued') \subseteq BagToSet(queued)
  <2>1. IsABag(queued) /\ IsFiniteSet(BagToSet(queued))
    BY DEF Queue
  <2>2. IsABag(queued') /\ IsFiniteSet(BagToSet(queued')) /\ BagToSet(queued') \subseteq BagToSet(queued)
    BY <1>1, <2>1, BagTake
  <2> QED BY <2>2 DEF Queue
<1>4. held'[w] = [job EXCEPT !.attempts = @ + 1]
  BY <1>1 DEF Hands
<1>5. held'[w] \in Job /\ held'[w].action = job.action
  BY <1>2, <1>4 DEF Job
<1> DEFINE t == IF status = "re_embedding" THEN Entry(job.action) ELSE "ack"
<1>6. pc' = [pc EXCEPT ![w] = t] /\ pc'[w] = t
  BY <1>1 DEF Goto, Hands
<1>7. t \in {"loop", "phases", "ack"} /\ (t = "loop" => job.action = "re_embed_chunks")
      /\ (t = "phases" => job.action = "re_embed_finalize" /\ status = "re_embedding")
  BY <1>2 DEF Entry, Job, Action
<1> HIDE DEF t
<1>8. \A v \in Workers : v # w => held'[v] = held[v] /\ pc'[v] = pc[v] /\ memory'[v] = memory[v]
  BY <1>1, <1>6
<1>9. Hands'
  BY <1>1, <1>2, <1>5, <1>6, <1>7, <1>8, ReEmbeddingAssumption DEF Hands, Steps, Working
<1>10. Locks' /\ Control'
  BY <1>2, <1>5, <1>6, <1>7, <1>8 DEF Locks, Control, ChunkSteps, FinalSteps, Exhausted
<1>11. Memory'
  <2>1. memory'[w] = IF status = "re_embedding" /\ job.action = "re_embed_finalize" THEN progress ELSE None
    BY <1>1 DEF Memory
  <2>2. memory'[w] \in Progress \cup {None} /\ (t = "phases" => memory'[w] # None)
    BY <1>7, <2>1 DEF Row
  <2>3. memory' = [memory EXCEPT ![w] = memory'[w]]
    BY <1>1, <2>1
  <2> QED BY <1>6, <1>8, <2>2, <2>3 DEF Memory
<1>12. Row' /\ Chunks' /\ Starts' /\ Flags'
  BY <1>2 DEF kb, start, blame, Row, Chunks, Starts, Flags
<1> QED BY <1>1, <1>2, <1>3, <1>5, <1>6, <1>9, <1>10, <1>11, <1>12 DEF t

\* A worker that answers, or dies: it may put its job back.
Ends(w) == Acknowledge(w) \/ Reject(w) \/ Crash(w)

LEMMA EndsType ==
  ASSUME Typed, NEW w \in Workers, Ends(w)
  PROVE  /\ Typed' /\ pc[w] # "idle" /\ pc' = [pc EXCEPT ![w] = "idle"] /\ held' = [held EXCEPT ![w] = None]
         /\ UNCHANGED <<kb, done, start>> /\ lost' = lost
         /\ UNCHANGED queued \/ Put(held[w])
<1> USE DEF Typed
<1>1. Leave(w) /\ pc[w] # "idle" /\ UNCHANGED <<kb, done, start>> /\ lost' = lost
      /\ (UNCHANGED queued \/ Put(held[w]))
  BY DEF Ends, Acknowledge, Reject, Crash, blame
<1>2. extra' \in BOOLEAN
  BY DEF Ends, Acknowledge, Reject, Crash, blame, Flags
<1>3. Row' /\ Chunks' /\ Starts' /\ Flags'
  BY <1>1, <1>2 DEF kb, start, Row, Chunks, Starts, Flags
<1>4. Queue'
  <2>1. CASE UNCHANGED queued
    BY <2>1 DEF Queue
  <2>2. CASE Put(held[w])
    BY <1>1, <2>2, PutType, HeldJob
  <2> QED BY <1>1, <2>1, <2>2
<1>5. Hands' /\ Locks' /\ Memory' /\ Control'
  <2>1. /\ held' = [held EXCEPT ![w] = None] /\ pc' = [pc EXCEPT ![w] = "idle"]
        /\ batch' = [batch EXCEPT ![w] = None] /\ memory' = [memory EXCEPT ![w] = None]
        /\ lapsed' = lapsed \ {w}
    BY <1>1 DEF Leave, Goto
  <2>2. Hands'
    BY <2>1 DEF Hands, Steps
  <2>3. Locks' /\ Memory'
    BY <2>1 DEF Locks, Memory, Hands
  <2>4. Control'
    BY <2>1 DEF Hands, Control, ChunkSteps, FinalSteps, Exhausted
  <2> QED BY <2>2, <2>3, <2>4
<1> QED BY <1>1, <1>3, <1>4, <1>5 DEF Leave, Goto

LEMMA LapseType ==
  ASSUME Typed, NEW w \in Workers, Lapse(w)
  PROVE  Typed'
<1> USE DEF Typed
<1>1. Queue'
  BY PutType, HeldJob DEF Lapse
<1>2. Hands' /\ Locks' /\ Memory' /\ Control'
  BY DEF Lapse, Hands, Locks, Memory, Control, Exhausted
<1> QED BY <1>1, <1>2 DEF Lapse, kb, start, Row, Chunks, Starts, Flags

LEMMA TypeInit == Init => Typed
<1> SUFFICES ASSUME Init PROVE Typed
  OBVIOUS
<1> USE DEF Init
<1>1. Row /\ Chunks /\ Starts /\ Flags
  BY DEF Row, Chunks, Starts, Flags
<1>2. Queue
  BY BagEmpty DEF Queue
<1>3. Hands /\ Locks /\ Memory /\ Control
  BY DEF Hands, Steps, Locks, Memory, Control, ChunkSteps, FinalSteps
<1> QED BY <1>1, <1>2, <1>3 DEF Typed

LEMMA TypeStep == Typed /\ [Next]_vars => Typed'
<1> SUFFICES ASSUME Typed, [Next]_vars PROVE Typed'
  OBVIOUS
<1>1. CASE Starting
  BY <1>1, StartingType
<1>2. ASSUME NEW w \in Workers, Take(w) \/ Step(w) \/ Ends(w) \/ Lapse(w) PROVE Typed'
  BY <1>2, TakeType, StepType, EndsType, LapseType
<1>3. CASE UNCHANGED vars
  BY <1>3 DEF vars, kb, worker, start, blame, Typed, Row, Chunks, Queue, Hands, Locks, Memory, Starts, Flags,
              Control, Exhausted
<1> QED
  BY <1>1, <1>2, <1>3 DEF Next, Handle, Starting, Step, Ends

------------------------------------------------------------------------------
(***************************************************************************)
(* CurrentMeansEmbedded.  Whatever comes after the last chunk - the job    *)
(* that finalizes, the worker about to enqueue it, the phase in the row or *)
(* in what a caller or a recovery has read of it - was set when all chunks *)
(* were embedded, and chunks stay so.                                      *)
(***************************************************************************)
FinalQueued == \E job \in BagToSet(queued) : job.action = "re_embed_finalize"
FinalHeld(w) == pc[w] # "idle" /\ held[w].action = "re_embed_finalize"
Handing(w)  == pc[w] \in {"enqueue", "enqueue exhausted"}

Later ==
  \/ status = "current"
  \/ progress # None /\ progress.phase = "later"
  \/ caller # None /\ caller.progress # None /\ caller.progress.phase = "later"
  \/ recovery # None /\ recovery.read.phase = "later"
  \/ FinalQueued
  \/ \E w \in Workers : FinalHeld(w) \/ Handing(w)

Embedded == Later => done = Batches

LEMMA PutLater ==
  ASSUME Queue, NEW job \in Job, Put(job), FinalQueued'
  PROVE  FinalQueued \/ job.action = "re_embed_finalize"
BY PutType DEF FinalQueued

LEMMA StartingEmbedded ==
  ASSUME Typed, Embedded, Starting PROVE Embedded'
<1> SUFFICES ASSUME Later' PROVE Later
  <2>1. done' = done
    BY DEF Starting, Trigger, EnqueueChunks, Revert, CallerDies, Recover, EnqueueRecovered, CommitRecovered,
           RecoveryFails
  <2> QED BY <2>1 DEF Embedded
<1> USE DEF Typed
<1>w. UNCHANGED worker
  BY DEF Starting, Trigger, EnqueueChunks, Revert, CallerDies, Recover, EnqueueRecovered, CommitRecovered,
         RecoveryFails
<1>h. \A w \in Workers : (FinalHeld(w) <=> FinalHeld(w)') /\ (Handing(w) <=> Handing(w)')
  BY <1>w DEF worker, FinalHeld, Handing
<1>q. UNCHANGED queued => (FinalQueued <=> FinalQueued')
  BY DEF FinalQueued
<1>1. CASE Trigger
  BY <1>1, <1>h, <1>q DEF Trigger, Later, Started
<1>2. CASE EnqueueChunks
  <2>1. NewJob("re_embed_chunks") \in Job /\ NewJob("re_embed_chunks").action # "re_embed_finalize"
    BY NewJobs DEF Action, NewJob
  <2>2. FinalQueued' => FinalQueued
    BY <1>2, <2>1, PutLater DEF EnqueueChunks
  <2>3. caller' = None \/ caller'.progress = caller.progress
    BY <1>2 DEF EnqueueChunks, Starts, Call
  <2> QED BY <1>2, <1>h, <2>2, <2>3 DEF EnqueueChunks, kb, Later
<1>3. CASE Revert
  <2>1. caller.status # "current"
    BY <1>3 DEF Revert, Starts, Call
  <2>2. status' = "current" => status = "current"
    BY <1>3, <2>1 DEF Revert
  <2> QED BY <1>3, <1>h, <1>q, <2>2 DEF Revert, Later
<1>4. CASE CallerDies \/ RecoveryFails
  BY <1>4, <1>h, <1>q DEF CallerDies, RecoveryFails, kb, Later
<1>5. CASE Recover
  <2>1. recovery'.read = progress /\ progress # None
    BY <1>5 DEF Recover, Row
  <2> QED BY <1>5, <1>h, <1>q, <2>1 DEF Recover, kb, Later
<1>6. CASE EnqueueRecovered
  <2>1. recovery' = None \/ recovery'.read = recovery.read
    BY <1>6 DEF EnqueueRecovered, Starts, Recovery
  <2>2. FinalQueued' => Later
    <3> DEFINE action == IF recovery.read.phase = "chunks" THEN "re_embed_chunks" ELSE "re_embed_finalize"
    <3>1. Put(NewJob(action)) /\ action \in Action /\ recovery # None
      BY <1>6 DEF EnqueueRecovered, Action
    <3>2. action = "re_embed_finalize" => recovery.read.phase = "later"
      BY <1>6 DEF EnqueueRecovered, Starts, Recovery, Progress
    <3> HIDE DEF action
    <3>3. NewJob(action) \in Job /\ NewJob(action).action = action
      BY <3>1, NewJobs DEF NewJob
    <3> QED BY <3>1, <3>2, <3>3, PutLater DEF Later
  <2> QED BY <1>6, <1>h, <2>1, <2>2 DEF EnqueueRecovered, kb, Later
<1>7. CASE CommitRecovered
  <2>1. progress' # progress => progress'.phase = "chunks"
    BY <1>7, ToRecover DEF CommitRecovered, Recovered, Starts, Recovery, Progress
  <2> QED BY <1>7, <1>h, <1>q, <2>1 DEF CommitRecovered, Later
<1> QED
  BY <1>1, <1>2, <1>3, <1>4, <1>5, <1>6, <1>7 DEF Starting

LEMMA StepEmbedded ==
  ASSUME Typed, Embedded, NEW w \in Workers, Step(w) PROVE Embedded'
<1> USE DEF Typed
<1>1. done \subseteq done' /\ done' \subseteq Batches
  BY StepRow DEF Chunks
<1>2. /\ UNCHANGED <<held, lapsed, start>> /\ pc[w] # "idle"
      /\ EnqueueFinalize(w) \/ UNCHANGED queued
  BY StepMoves
<1>3. PICK t \in Steps \ {"idle", "phases"} : pc' = [pc EXCEPT ![w] = t] /\ (t \in FinalSteps => pc[w] \in FinalSteps)
  BY StepMoves
<1>4. \A v \in Workers : FinalHeld(v)' => FinalHeld(v)
  BY <1>2, <1>3 DEF FinalHeld, Hands
<1>5. FinalQueued' => Later
  <2>1. CASE UNCHANGED queued
    BY <2>1 DEF FinalQueued, Later
  <2>2. CASE EnqueueFinalize(w)
    BY <2>2 DEF EnqueueFinalize, Later, Handing
  <2> QED BY <1>2, <2>1, <2>2
<1>6. \A v \in Workers : Handing(v)' => Handing(v) \/ v = w
  BY <1>3 DEF Handing, Hands
<1>7. Remaining = {} => done = Batches
  BY DEF Remaining, Chunks
<1>8. Handing(w)' => done = Batches
  <2>1. CASE Finish(w)
    BY <2>1, <1>7 DEF Finish, CountWorker, Goto, Handing, Hands
  <2>2. CASE CountExhausted(w)
    BY <2>2, <1>7 DEF CountExhausted, CountWorker, Goto, Handing, Hands
  <2>3. CASE ~Finish(w) /\ ~CountExhausted(w)
    BY <2>3 DEF Step, LockBatch, StopLoop, StoreBatch, EmbedRaises, Raise, AfterRaise, FinishRaises,
       EnqueueFinalize, UpdatePhase, Complete, FinalizeRaises, GiveUp, EnqueueRaises,
       EnqueueExhaustedFails, Goto, Handing, Hands
  <2> QED BY <2>1, <2>2, <2>3
<1>9. status' = "current" \/ (progress' # None /\ progress'.phase = "later") => Later
  <2>1. CASE LockBatch(w) \/ StopLoop(w) \/ StoreBatch(w) \/ EmbedRaises(w) \/ FinishRaises(w)
              \/ EnqueueFinalize(w) \/ FinalizeRaises(w) \/ EnqueueRaises(w) \/ EnqueueExhaustedFails(w)
    BY <2>1 DEF LockBatch, StopLoop, StoreBatch, EmbedRaises, Raise, FinishRaises, EnqueueFinalize,
                FinalizeRaises, EnqueueRaises, EnqueueExhaustedFails, kb, Later
  <2>2. CASE Finish(w)
    BY <2>2, CountsRow DEF Finish, Later
  <2>3. CASE CountExhausted(w)
    <3>1. CASE UNCHANGED kb
      BY <3>1 DEF kb, Later
    <3>2. CASE status = "re_embedding"
      BY <2>3, <3>2, CountsRow DEF CountExhausted, Row, Later
    <3> QED BY <2>3, <3>1, <3>2 DEF CountExhausted
  <2>4. CASE UpdatePhase(w) \/ Complete(w)
    BY <2>4 DEF UpdatePhase, Complete, Later, FinalHeld, Control, FinalSteps
  <2>5. CASE GiveUp(w)
    BY <2>5 DEF GiveUp, Started, Later
  <2> QED BY <2>1, <2>2, <2>3, <2>4, <2>5 DEF Step
<1>10. Later' => Later \/ done = Batches
  BY <1>2, <1>4, <1>5, <1>6, <1>8, <1>9 DEF start, Later
<1> QED BY <1>1, <1>10 DEF Embedded

LEMMA OthersEmbedded ==
  ASSUME Typed, Embedded, NEW w \in Workers, Take(w) \/ Ends(w) \/ Lapse(w) PROVE Embedded'
<1> SUFFICES ASSUME Later' PROVE Later
  <2>1. done' = done
    BY DEF Take, Ends, Acknowledge, Reject, Crash, Lapse
  <2> QED BY <2>1 DEF Embedded
<1> USE DEF Typed
<1>1. CASE Take(w)
  <2>1. PICK job \in BagToSet(queued) :
          /\ BagToSet(queued') \subseteq BagToSet(queued)
          /\ held' = [held EXCEPT ![w] = [job EXCEPT !.attempts = @ + 1]]
          /\ held'[w].action = job.action
          /\ pc' = [pc EXCEPT ![w] = IF status = "re_embedding" THEN Entry(job.action) ELSE "ack"]
    BY <1>1, TakeType
  <2>2. FinalQueued' => FinalQueued
    BY <2>1 DEF FinalQueued
  <2>3. FinalHeld(w)' => FinalQueued
    BY <2>1 DEF FinalHeld, FinalQueued
  <2>4. \A v \in Workers : v # w => (FinalHeld(v)' <=> FinalHeld(v)) /\ (Handing(v)' <=> Handing(v))
    BY <2>1 DEF FinalHeld, Handing
  <2>5. ~Handing(w)'
    BY <2>1 DEF Handing, Hands, Entry
  <2> QED BY <1>1, <2>2, <2>3, <2>4, <2>5 DEF Take, kb, start, Later
<1>2. ASSUME pc[w] # "idle", UNCHANGED queued \/ Put(held[w]) PROVE FinalQueued' => FinalQueued \/ FinalHeld(w)
  BY <1>2, PutLater, HeldJob DEF FinalQueued, FinalHeld
<1>3. CASE Ends(w)
  <2>1. /\ pc[w] # "idle" /\ pc' = [pc EXCEPT ![w] = "idle"] /\ held' = [held EXCEPT ![w] = None]
        /\ UNCHANGED <<kb, start>> /\ (UNCHANGED queued \/ Put(held[w]))
    BY <1>3, EndsType
  <2>2. \A v \in Workers : (FinalHeld(v)' => FinalHeld(v)) /\ (Handing(v)' => Handing(v))
    BY <2>1 DEF FinalHeld, Handing, Hands
  <2> QED BY <1>2, <2>1, <2>2 DEF kb, start, Later
<1>4. CASE Lapse(w)
  <2>1. pc[w] # "idle" /\ UNCHANGED <<kb, start, held, pc>> /\ Put(held[w])
    BY <1>4 DEF Lapse
  <2>2. \A v \in Workers : (FinalHeld(v)' => FinalHeld(v)) /\ (Handing(v)' => Handing(v))
    BY <2>1 DEF FinalHeld, Handing
  <2> QED BY <1>2, <2>1, <2>2 DEF kb, start, Later
<1> QED BY <1>1, <1>3, <1>4

LEMMA EmbeddedInit == Init => Embedded
<1> SUFFICES ASSUME Init PROVE ~Later
  BY DEF Embedded
<1>1. ~FinalQueued
  BY BagEmpty DEF Init, FinalQueued
<1>2. \A w \in Workers : ~FinalHeld(w) /\ ~Handing(w)
  BY DEF Init, FinalHeld, Handing
<1> QED BY <1>1, <1>2 DEF Init, Later

LEMMA EmbeddedStep == Typed /\ Embedded /\ [Next]_vars => Embedded'
<1> SUFFICES ASSUME Typed, Embedded, [Next]_vars PROVE Embedded'
  OBVIOUS
<1>1. CASE Starting
  BY <1>1, StartingEmbedded
<1>2. ASSUME NEW w \in Workers, Take(w) \/ Step(w) \/ Ends(w) \/ Lapse(w) PROVE Embedded'
  BY <1>2, StepEmbedded, OthersEmbedded
<1>3. CASE UNCHANGED vars
  <2>1. \A w \in Workers : (FinalHeld(w)' <=> FinalHeld(w)) /\ (Handing(w)' <=> Handing(w))
    BY <1>3 DEF vars, worker, FinalHeld, Handing
  <2>2. FinalQueued' <=> FinalQueued
    BY <1>3 DEF vars, FinalQueued
  <2> QED BY <1>3, <2>1, <2>2 DEF vars, kb, start, Later, Embedded
<1> QED
  BY <1>1, <1>2, <1>3 DEF Next, Handle, Starting, Step, Ends

LEMMA EmbeddedHolds == Spec => [](Typed /\ Embedded)
<1>1. Init => Typed /\ Embedded
  BY TypeInit, EmbeddedInit
<1>2. Typed /\ Embedded /\ [Next]_vars => (Typed /\ Embedded)'
  BY TypeStep, EmbeddedStep
<1> QED BY <1>1, <1>2, PTL DEF Spec

(***************************************************************************)
(* Type correctness; with it, no chunk is embedded by two workers at once. *)
(***************************************************************************)
THEOREM TypeCorrect == Spec => []TypeOK
BY EmbeddedHolds, TypedIsType, PTL

(***************************************************************************)
(* A knowledge base reads "current" only when all its chunks are embedded  *)
(* with the target model.                                                  *)
(***************************************************************************)
THEOREM CurrentIsEmbedded == Spec => []CurrentMeansEmbedded
<1>1. Typed /\ Embedded => CurrentMeansEmbedded
  BY DEF Embedded, Later, CurrentMeansEmbedded
<1> QED BY <1>1, EmbeddedHolds, PTL

------------------------------------------------------------------------------
(***************************************************************************)
(* WorkersAddUp.  The chunk jobs in the queue and the workers yet to be    *)
(* counted, and how steps move jobs between the two.                       *)
(***************************************************************************)
ChunkJobs  == {job \in BagToSet(queued) : job.action = "re_embed_chunks"}
ChunkTotal == Total(queued, ChunkJobs)
Counts(w)  == Does(w, "re_embed_chunks") /\ Uncounted(w)
Counting   == {w \in Workers : Counts(w)}

LEMMA OutstandingIs == Outstanding = ChunkTotal + Cardinality(Counting)
BY DEF Outstanding, QueuedFor, ChunkTotal, ChunkJobs, Counting, Counts, Total

LEMMA OutstandingLater == (Outstanding = ChunkTotal + Cardinality(Counting))'
BY OutstandingIs, PTL

LEMMA ChunksQueued ==
  ASSUME Queue
  PROVE  /\ IsFiniteSet(ChunkJobs) /\ ChunkTotal \in Int
         /\ \A job \in ChunkJobs : queued[job] \in Int
<1>1. IsFiniteSet(ChunkJobs)
  <2>1. ChunkJobs \in SUBSET BagToSet(queued) /\ IsFiniteSet(BagToSet(queued))
    BY DEF ChunkJobs, Queue
  <2> QED BY <2>1, FS_Subset
<1>2. \A job \in ChunkJobs : queued[job] \in Int
  BY DEF ChunkJobs, Queue, IsABag, BagToSet
<1>3. Total(queued, ChunkJobs) \in Int
  <2>1. CASE ChunkJobs = {}
    BY <2>1, TotalOfNone
  <2>2. CASE ChunkJobs # {}
    <3>1. PICK x \in ChunkJobs : TRUE
      BY <2>2
    <3>2. Total(queued, ChunkJobs) = queued[x] + Total(queued, ChunkJobs \ {x})
            /\ Total(queued, ChunkJobs \ {x}) \in Int
      BY <1>1, <1>2, TotalTakes
    <3> QED BY <1>2, <3>2
  <2> QED BY <2>1, <2>2
<1> QED BY <1>1, <1>2, <1>3 DEF ChunkTotal

LEMMA PutTotal ==
  ASSUME Queue, NEW job \in Job, Put(job)
  PROVE  ChunkTotal' = ChunkTotal + (IF job.action = "re_embed_chunks" THEN 1 ELSE 0)
<1>1. IsABag(queued) /\ IsFiniteSet(BagToSet(queued)) /\ queued' = queued (+) SetToBag({job})
  BY DEF Queue, Put
<1>2. /\ BagToSet(queued') = BagToSet(queued) \cup {job}
      /\ \A y \in BagToSet(queued) \ {job} : queued'[y] = queued[y]
      /\ queued'[job] = (IF job \in BagToSet(queued) THEN queued[job] ELSE 0) + 1
  BY <1>1, BagPut
<1>3. IsFiniteSet(ChunkJobs) /\ ChunkTotal \in Int /\ \A y \in ChunkJobs : queued[y] \in Int
  BY ChunksQueued
<1>4. CASE job.action = "re_embed_chunks"
  <2>1. ChunkJobs' = ChunkJobs \cup {job} /\ (job \in BagToSet(queued) <=> job \in ChunkJobs)
    BY <1>2, <1>4 DEF ChunkJobs
  <2>2. \A y \in ChunkJobs \ {job} : queued[y] = queued'[y]
    BY <1>2 DEF ChunkJobs
  <2>3. queued'[job] = (IF job \in ChunkJobs THEN queued[job] ELSE 0) + 1 /\ queued'[job] \in Int
    BY <1>2, <1>3, <2>1
  <2>4. \A y \in ChunkJobs \cup {job} : queued'[y] \in Int
    BY <1>3, <2>2, <2>3
  <2>5. Total(queued', ChunkJobs \cup {job})
          = Total(queued, ChunkJobs) + queued'[job] - (IF job \in ChunkJobs THEN queued[job] ELSE 0)
    <3> DEFINE after == queued'
    <3>1. /\ \A y \in ChunkJobs \ {job} : queued[y] = after[y]
          /\ \A y \in ChunkJobs \cup {job} : after[y] \in Int
      BY <2>2, <2>4
    <3> HIDE DEF after
    <3>2. Total(after, ChunkJobs \cup {job})
          = Total(queued, ChunkJobs) + after[job] - (IF job \in ChunkJobs THEN queued[job] ELSE 0)
      BY <1>3, <3>1, TotalGrows
    <3> QED BY <3>2 DEF after
  <2>6. ChunkTotal' = ChunkTotal + queued'[job] - (IF job \in ChunkJobs THEN queued[job] ELSE 0)
    BY <2>1, <2>5 DEF ChunkTotal
  <2> QED BY <1>3, <1>4, <2>3, <2>6
<1>5. CASE job.action # "re_embed_chunks"
  <2>1. ChunkJobs' = ChunkJobs
    BY <1>2, <1>5 DEF ChunkJobs
  <2>2. \A y \in ChunkJobs : queued[y] = queued'[y]
    BY <1>2, <1>5 DEF ChunkJobs
  <2>3. Total(queued, ChunkJobs) = Total(queued', ChunkJobs)
    <3> DEFINE after == queued'
    <3>1. \A y \in ChunkJobs : queued[y] = after[y]
      BY <2>2
    <3> HIDE DEF after
    <3>2. Total(queued, ChunkJobs) = Total(after, ChunkJobs)
      BY <1>3, <3>1, TotalAgrees
    <3> QED BY <3>2 DEF after
  <2> QED BY <1>3, <1>5, <2>1, <2>3 DEF ChunkTotal
<1> QED BY <1>4, <1>5

LEMMA TakeTotal ==
  ASSUME Queue, NEW job \in BagToSet(queued), queued' = queued (-) SetToBag({job})
  PROVE  ChunkTotal' = ChunkTotal - (IF job.action = "re_embed_chunks" THEN 1 ELSE 0)
<1>1. IsABag(queued) /\ IsFiniteSet(BagToSet(queued)) /\ BagToSet(queued) \subseteq Job
  BY DEF Queue
<1>2. /\ BagToSet(queued') = IF queued[job] = 1 THEN BagToSet(queued) \ {job} ELSE BagToSet(queued)
      /\ \A y \in BagToSet(queued) \ {job} : queued'[y] = queued[y]
      /\ queued[job] # 1 => queued'[job] = queued[job] - 1
      /\ queued[job] \in Nat \ {0}
  BY <1>1, BagTake
<1>3. IsFiniteSet(ChunkJobs) /\ ChunkTotal \in Int /\ \A y \in ChunkJobs : queued[y] \in Int
  BY ChunksQueued
<1> DEFINE after == queued'
           others == ChunkJobs \ {job}
<1>4. \A y \in others : queued[y] = after[y]
  BY <1>2 DEF ChunkJobs
<1>5. IsFiniteSet(others)
  BY <1>3, FS_RemoveElement
<1> HIDE DEF after
<1>6. Total(queued, others) = Total(after, others)
  <2> HIDE DEF others
  <2> QED BY <1>4, <1>5, TotalAgrees
<1>7. CASE job.action = "re_embed_chunks"
  <2>1. job \in ChunkJobs
    BY <1>7 DEF ChunkJobs
  <2>2. Total(queued, ChunkJobs) = queued[job] + Total(queued, others) /\ Total(queued, others) \in Int
    BY <1>3, <2>1, TotalTakes
  <2>3. CASE queued[job] = 1
    <3>1. ChunkJobs' = others
      BY <1>2, <1>7, <2>3 DEF ChunkJobs
    <3>2. ChunkTotal' = Total(after, others)
      BY <3>1 DEF ChunkTotal, after
    <3> HIDE DEF others
    <3> QED BY <1>6, <1>7, <2>2, <2>3, <3>2 DEF ChunkTotal
  <2>4. CASE queued[job] # 1
    <3>1. ChunkJobs' = ChunkJobs
      BY <1>2, <1>7, <2>4 DEF ChunkJobs
    <3>2. ChunkTotal' = Total(after, ChunkJobs)
      BY <3>1 DEF ChunkTotal, after
    <3>3. after[job] = queued[job] - 1
      BY <1>2, <2>4 DEF after
    <3>4. \A y \in ChunkJobs : after[y] \in Int
      BY <1>2, <1>3, <1>4, <3>3
    <3>5. Total(after, ChunkJobs) = after[job] + Total(after, others)
      BY <1>3, <2>1, <3>4, TotalTakes
    <3> HIDE DEF others
    <3> QED BY <1>2, <1>6, <1>7, <2>2, <3>2, <3>3, <3>5 DEF ChunkTotal
  <2> QED BY <2>3, <2>4
<1>8. CASE job.action # "re_embed_chunks"
  <2>1. ChunkJobs' = ChunkJobs /\ others = ChunkJobs
    BY <1>2, <1>8 DEF ChunkJobs
  <2>2. ChunkTotal' = Total(after, ChunkJobs)
    BY <2>1 DEF ChunkTotal, after
  <2>3. Total(queued, ChunkJobs) = Total(after, ChunkJobs)
    <3> HIDE DEF others
    <3> QED BY <1>6, <2>1
  <2> QED BY <1>3, <1>8, <2>2, <2>3 DEF ChunkTotal
<1> QED BY <1>7, <1>8

LEMMA OutstandingTyped ==
  ASSUME Queue PROVE Outstanding \in Int /\ ChunkTotal \in Int /\ Cardinality(Counting) \in Nat
<1>1. IsFiniteSet(Counting)
  <2>1. Counting \in SUBSET Workers
    BY DEF Counting
  <2> QED BY <2>1, FS_Subset, ReEmbeddingAssumption
<1>2. Cardinality(Counting) \in Nat
  BY <1>1, FS_CardinalityType
<1> QED BY <1>2, OutstandingIs, ChunksQueued

LEMMA SameOutstanding ==
  ASSUME UNCHANGED <<queued, held, pc>> PROVE Outstanding' = Outstanding
<1>1. ChunkTotal' = ChunkTotal
  BY DEF ChunkTotal, ChunkJobs
<1>2. Counting' = Counting
  BY DEF Counting, Counts, Does, Uncounted, Exhausted
<1>3. Outstanding' = ChunkTotal' + Cardinality(Counting')
  BY OutstandingLater
<1> QED BY <1>1, <1>2, <1>3, OutstandingIs

LEMMA SomePut ==
  ASSUME Queue, NEW job \in Job, Put(job), UNCHANGED <<held, pc>>
  PROVE  Outstanding' = Outstanding + (IF job.action = "re_embed_chunks" THEN 1 ELSE 0)
<1>1. ChunkTotal' = ChunkTotal + (IF job.action = "re_embed_chunks" THEN 1 ELSE 0)
  BY PutTotal
<1>2. Counting' = Counting
  BY DEF Counting, Counts, Does, Uncounted, Exhausted
<1>3. Outstanding' = ChunkTotal' + Cardinality(Counting')
  BY OutstandingLater
<1>4. Outstanding = ChunkTotal + Cardinality(Counting) /\ ChunkTotal \in Int /\ Cardinality(Counting) \in Nat
  BY OutstandingIs, OutstandingTyped
<1> QED BY <1>1, <1>2, <1>3, <1>4

LEMMA NoneOutstanding ==
  ASSUME Hands, ~Waiting, ~Busy PROVE Outstanding = 0
<1>1. ChunkJobs = {}
  BY DEF Waiting, ChunkJobs
<1>2. ChunkTotal = 0
  BY <1>1, TotalOfNone DEF ChunkTotal
<1>3. Counting = {}
  BY DEF Busy, Hands, Counting, Counts, Does
<1> QED BY <1>2, <1>3, OutstandingIs, FS_EmptySet

\* A step of one worker.
LEMMA OneMoves ==
  ASSUME Queue, NEW w \in Workers, \A v \in Workers \ {w} : held'[v] = held[v] /\ pc'[v] = pc[v]
  PROVE  Outstanding' = Outstanding + (ChunkTotal' - ChunkTotal)
                          + (IF Counts(w)' THEN 1 ELSE 0) - (IF Counts(w) THEN 1 ELSE 0)
         \/ ChunkTotal' \notin Int
<1> SUFFICES ASSUME ChunkTotal' \in Int
    PROVE  Outstanding' = Outstanding + (ChunkTotal' - ChunkTotal)
                            + (IF Counts(w)' THEN 1 ELSE 0) - (IF Counts(w) THEN 1 ELSE 0)
  OBVIOUS
<1> DEFINE others == Counting \ {w}
<1>1. IsFiniteSet(others) /\ w \notin others
  <2>1. others \in SUBSET Workers
    BY DEF Counting
  <2> HIDE DEF others
  <2>2. IsFiniteSet(others)
    BY <2>1, FS_Subset, ReEmbeddingAssumption
  <2> QED BY <2>2 DEF others
<1>2. Counting = IF Counts(w) THEN others \cup {w} ELSE others
  BY DEF Counting
<1>3. \A v \in Workers \ {w} : Counts(v)' <=> Counts(v)
  BY DEF Counts, Does, Uncounted, Exhausted
<1>4. Counting' = IF Counts(w)' THEN others \cup {w} ELSE others
  BY <1>3 DEF Counting
<1> HIDE DEF others
<1>5. Cardinality(others) \in Nat /\ Cardinality(others \cup {w}) = Cardinality(others) + 1
  BY <1>1, FS_CardinalityType, FS_AddElement
<1>6. Outstanding' = ChunkTotal' + Cardinality(Counting')
  BY OutstandingLater
<1>7. Outstanding = ChunkTotal + Cardinality(Counting) /\ ChunkTotal \in Int
  BY OutstandingIs, OutstandingTyped
<1> DEFINE before == Counts(w)
           after == Counts(w)'
<1>8. Cardinality(Counting) = Cardinality(others) + (IF before THEN 1 ELSE 0)
  BY <1>2, <1>5
<1>9. Cardinality(Counting') = Cardinality(others) + (IF after THEN 1 ELSE 0)
  BY <1>4, <1>5
<1>10. (before \in BOOLEAN) /\ (after \in BOOLEAN)
  BY DEF Counts, Does, Uncounted
<1> HIDE DEF before, after
<1>11. Outstanding' = Outstanding + (ChunkTotal' - ChunkTotal)
                        + (IF after THEN 1 ELSE 0) - (IF before THEN 1 ELSE 0)
  BY <1>5, <1>6, <1>7, <1>8, <1>9
<1> QED BY <1>11 DEF before, after

(***************************************************************************)
(* Who starts and who recovers at the same time, or delivers again, says   *)
(* so; and what a recovery is about to enqueue makes up for what was lost. *)
(***************************************************************************)
Apart == /\ recovery # None /\ caller # None => extra
         /\ lapsed # {} => extra

Recovering ==
  recovery # None /\ ~extra /\ status = "re_embedding" =>
    /\ recovery.read.phase = "later" => progress.phase = "later"
    /\ recovery.read.phase = "chunks" /\ progress.phase = "chunks" =>
         progress.completed + Outstanding + recovery.left
           = RemainingWorkers(recovery.read) + recovery.read.completed

Added == Apart /\ WorkersAddUp /\ Recovering

LEMMA RowPhase ==
  ASSUME Row, status = "re_embedding"
  PROVE  progress \in Progress /\ progress.phase \in {"chunks", "later"}
BY DEF Row, Progress

\* A worker's step of which nothing is delivered again or lost keeps the sum.
Balanced ==
  status' = "re_embedding" /\ ~extra' =>
    /\ status = "re_embedding" /\ ~extra
    /\ progress.phase = "later" => progress'.phase = "later"
    /\ progress'.phase = "chunks" =>
         /\ progress'.total = progress.total
         /\ progress'.completed + Outstanding' = progress.completed + Outstanding

LEMMA SameBalance ==
  ASSUME Typed, NEW w \in Workers, UNCHANGED <<kb, extra, queued, held>>,
         \A v \in Workers \ {w} : pc'[v] = pc[v], Counts(w)' <=> Counts(w)
  PROVE  Balanced
<1> USE DEF Typed
<1>1. ChunkTotal' = ChunkTotal
  BY DEF ChunkTotal, ChunkJobs
<1>2. ChunkTotal \in Int /\ Outstanding \in Int
  BY OutstandingTyped
<1>3. Outstanding' = Outstanding + (ChunkTotal' - ChunkTotal)
                       + (IF Counts(w)' THEN 1 ELSE 0) - (IF Counts(w) THEN 1 ELSE 0)
  <2>1. \A v \in Workers \ {w} : held'[v] = held[v] /\ pc'[v] = pc[v]
    OBVIOUS
  <2> QED BY <1>1, <1>2, <2>1, OneMoves
<1> DEFINE before == Counts(w)
           after == Counts(w)'
<1>4. after = before
  BY DEF Counts, Does, Uncounted
<1> HIDE DEF before, after
<1>5. Outstanding' = Outstanding + (ChunkTotal' - ChunkTotal)
                       + (IF after THEN 1 ELSE 0) - (IF before THEN 1 ELSE 0)
  BY <1>3 DEF before, after
<1>6. Outstanding' = Outstanding
  BY <1>1, <1>2, <1>4, <1>5
<1> QED BY <1>6 DEF kb, Balanced

LEMMA CountedBalance ==
  ASSUME Typed, NEW w \in Workers, UNCHANGED <<extra, queued, held>>,
         \A v \in Workers \ {w} : pc'[v] = pc[v], Counts(w), ~Counts(w)',
         status' = "re_embedding" => status = "re_embedding",
         progress # None, progress' = [progress EXCEPT !.completed = @ + 1]
  PROVE  Balanced
<1> USE DEF Typed
<1>1. ChunkTotal' = ChunkTotal
  BY DEF ChunkTotal, ChunkJobs
<1>2. ChunkTotal \in Int /\ Outstanding \in Int
  BY OutstandingTyped
<1>3. \A v \in Workers \ {w} : held'[v] = held[v] /\ pc'[v] = pc[v]
  OBVIOUS
<1>4. Outstanding' = Outstanding - 1
  <2>1. Outstanding' = Outstanding + (ChunkTotal' - ChunkTotal)
                         + (IF Counts(w)' THEN 1 ELSE 0) - (IF Counts(w) THEN 1 ELSE 0)
    BY <1>1, <1>2, <1>3, OneMoves
  <2>2. Outstanding' = Outstanding + (ChunkTotal' - ChunkTotal) + 0 - 1
    BY <2>1
  <2> QED BY <1>1, <1>2, <2>2
<1>5. progress \in Progress
  BY DEF Row
<1>6. /\ progress'.completed = progress.completed + 1 /\ progress.completed \in Int
      /\ progress'.total = progress.total /\ progress'.phase = progress.phase
  BY <1>5 DEF Progress
<1>7. progress'.completed + Outstanding' = progress.completed + Outstanding
  BY <1>2, <1>4, <1>6
<1> QED BY <1>6, <1>7 DEF Balanced

LEMMA StepBalanced ==
  ASSUME Typed, NEW w \in Workers, Step(w)
  PROVE  Balanced
<1> USE DEF Typed
<1>1. UNCHANGED <<held, lapsed, start>> /\ pc[w] # "idle"
  BY StepMoves
<1>2. PICK t \in Steps \ {"idle", "phases"} : pc' = [pc EXCEPT ![w] = t]
  BY StepMoves
<1>3. pc'[w] = t /\ \A v \in Workers \ {w} : pc'[v] = pc[v]
  BY <1>2 DEF Hands
<1>4. held[w] # None /\ (pc[w] \in ChunkSteps => held[w].action = "re_embed_chunks")
      /\ (pc[w] \in FinalSteps => held[w].action = "re_embed_finalize")
  BY <1>1, HeldJob DEF Control
<1>5. Exhausted(w)' <=> Exhausted(w)
  BY <1>1 DEF Exhausted
<1>6. \A s \in ChunkSteps : pc[w] = s => (Counts(w) <=> s \in Working)
  BY <1>4 DEF Counts, Does, Uncounted, ChunkSteps
<1>7. \A s \in FinalSteps : pc[w] = s => ~Counts(w) /\ ~Counts(w)'
  BY <1>1, <1>4 DEF Counts, Does, FinalSteps
<1>8. pc[w] \in ChunkSteps => (Counts(w)' <=> t \in Working \/ (t = "reject" /\ ~Exhausted(w)))
  BY <1>1, <1>3, <1>4, <1>5 DEF Counts, Does, Uncounted
<1> DEFINE same == UNCHANGED <<kb, extra, queued, held>> /\ (Counts(w)' <=> Counts(w))
<1>s. ASSUME same PROVE Balanced
  BY <1>s, <1>3, SameBalance
<1>9. CASE LockBatch(w) \/ StopLoop(w) \/ StoreBatch(w)
  <2>1. pc[w] \in {"loop", "embed"} /\ t \in {"loop", "embed", "finish"} /\ UNCHANGED <<kb, extra, queued, held>>
    BY <1>3, <1>9 DEF LockBatch, StopLoop, StoreBatch, Goto, Hands, blame
  <2>2. Counts(w) /\ Counts(w)'
    BY <1>6, <1>8, <2>1 DEF ChunkSteps, Working
  <2> QED BY <1>s, <2>1, <2>2
<1>10. CASE EmbedRaises(w)
  <2>1. pc[w] = "embed" /\ t = AfterRaise(w) /\ UNCHANGED <<kb, extra, queued, held>>
    BY <1>3, <1>10 DEF EmbedRaises, Raise, Goto, Hands, blame
  <2>2. Counts(w) /\ Counts(w)'
    BY <1>6, <1>8, <2>1 DEF AfterRaise, ChunkSteps, Working
  <2> QED BY <1>s, <2>1, <2>2
<1>11. CASE Finish(w)
  <2>1. /\ pc[w] = "finish" /\ progress # None /\ UNCHANGED <<extra, queued, held>>
        /\ progress' = [progress EXCEPT !.completed = @ + 1]
    BY <1>11 DEF Finish, CountWorker, blame
  <2>2. status' = "re_embedding" => status = "re_embedding"
    BY <1>11 DEF Finish, CountWorker
  <2>3. t \in {"enqueue", "ack"}
    BY <1>3, <1>11 DEF Finish, CountWorker, Goto, Hands
  <2>4. Counts(w) /\ ~Counts(w)'
    BY <1>6, <1>8, <2>1, <2>3 DEF ChunkSteps, Working
  <2> QED BY <1>3, <2>1, <2>2, <2>4, CountedBalance
<1>12. CASE FinishRaises(w)
  BY <1>12 DEF FinishRaises, kb, Row, Balanced
<1>13. CASE EnqueueFinalize(w)
  <2>1. pc[w] \in {"enqueue", "enqueue exhausted"} /\ t = (IF pc[w] = "enqueue" THEN "ack" ELSE "reject")
        /\ UNCHANGED <<kb, extra>> /\ Put(NewJob("re_embed_finalize"))
    BY <1>3, <1>13 DEF EnqueueFinalize, Goto, Hands, blame
  <2>2. pc[w] = "enqueue exhausted" => Exhausted(w)
    BY DEF Control
  <2>3. ~Counts(w) /\ ~Counts(w)'
    BY <1>6, <1>8, <2>1, <2>2 DEF ChunkSteps, Working
  <2>4. NewJob("re_embed_finalize") \in Job /\ NewJob("re_embed_finalize").action # "re_embed_chunks"
    BY NewJobs DEF Action, NewJob
  <2>5. ChunkTotal' = ChunkTotal
    <3>1. ChunkTotal' = ChunkTotal + 0
      BY <2>1, <2>4, PutTotal
    <3> QED BY <3>1, OutstandingTyped
  <2>6. \A v \in Workers \ {w} : held'[v] = held[v] /\ pc'[v] = pc[v]
    BY <1>1, <1>3
  <2>7. Outstanding' = Outstanding
    <3>1. ChunkTotal \in Int /\ Outstanding \in Int
      BY OutstandingTyped
    <3>2. Outstanding' = Outstanding + (ChunkTotal' - ChunkTotal)
                           + (IF Counts(w)' THEN 1 ELSE 0) - (IF Counts(w) THEN 1 ELSE 0)
      BY <2>5, <2>6, <3>1, OneMoves
    <3>3. Outstanding' = Outstanding + (ChunkTotal' - ChunkTotal) + 0 - 0
      BY <2>3, <3>2
    <3> QED BY <2>5, <3>1, <3>3
  <2> QED BY <2>1, <2>7 DEF kb, Balanced
<1>14. CASE CountExhausted(w)
  <2>1. pc[w] = "count" /\ Exhausted(w) /\ UNCHANGED <<extra, queued, held>>
    BY <1>14 DEF CountExhausted, Control, blame
  <2>2. CASE status # "re_embedding"
    BY <1>14, <2>2 DEF CountExhausted, kb, Balanced
  <2>3. CASE status = "re_embedding"
    <3>1. progress' = [progress EXCEPT !.completed = @ + 1] /\ progress # None
      BY <1>14, <2>3 DEF CountExhausted, CountWorker, Row
    <3>2. t \in {"enqueue exhausted", "reject"}
      BY <1>3, <1>14 DEF CountExhausted, CountWorker, Goto, Hands
    <3>3. Counts(w) /\ ~Counts(w)'
      BY <1>6, <1>8, <2>1, <3>2 DEF ChunkSteps, Working
    <3> QED BY <1>3, <2>1, <2>3, <3>1, <3>3, CountedBalance
  <2> QED BY <2>2, <2>3
<1>15. CASE UpdatePhase(w)
  <2>1. memory[w] \in Progress
    BY <1>15 DEF UpdatePhase, Memory
  <2>2. progress'.phase = "later" /\ status' = status /\ extra' = extra
    BY <1>15, <2>1 DEF UpdatePhase, Progress, blame
  <2> QED BY <2>2 DEF Balanced
<1>16. CASE Complete(w) \/ GiveUp(w)
  BY <1>16 DEF Complete, CompleteStatus, GiveUp, Balanced
<1>17. CASE FinalizeRaises(w)
  <2>1. pc[w] = "complete" /\ UNCHANGED <<kb, extra, queued, held>>
    BY <1>17 DEF FinalizeRaises, blame
  <2>2. ~Counts(w) /\ ~Counts(w)'
    BY <1>7, <2>1 DEF FinalSteps
  <2> QED BY <1>s, <2>1, <2>2
<1>18. CASE EnqueueRaises(w)
  BY <1>18 DEF EnqueueRaises, Balanced
<1>19. CASE EnqueueExhaustedFails(w)
  <2>1. pc[w] = "enqueue exhausted" /\ t = "reject" /\ UNCHANGED <<kb, extra, queued, held>>
    BY <1>3, <1>19 DEF EnqueueExhaustedFails, Goto, Hands
  <2>2. Exhausted(w)
    BY <2>1 DEF Control
  <2>3. ~Counts(w) /\ ~Counts(w)'
    BY <1>6, <1>8, <2>1, <2>2 DEF ChunkSteps, Working
  <2> QED BY <1>s, <2>1, <2>3
<1> QED
  BY <1>9, <1>10, <1>11, <1>12, <1>13, <1>14, <1>15, <1>16, <1>17, <1>18, <1>19 DEF Step

\* A job that changes hands is counted once, before and after.
LEMMA HandedBalance ==
  ASSUME Typed, NEW w \in Workers, UNCHANGED <<kb, extra>>,
         \A v \in Workers \ {w} : held'[v] = held[v] /\ pc'[v] = pc[v],
         ChunkTotal' + (IF Counts(w)' THEN 1 ELSE 0) = ChunkTotal + (IF Counts(w) THEN 1 ELSE 0),
         ChunkTotal' \in Int
  PROVE  Balanced
<1> USE DEF Typed
<1>1. ChunkTotal \in Int /\ Outstanding \in Int
  BY OutstandingTyped
<1>2. Outstanding' = Outstanding + (ChunkTotal' - ChunkTotal)
                       + (IF Counts(w)' THEN 1 ELSE 0) - (IF Counts(w) THEN 1 ELSE 0)
  BY OneMoves
<1> DEFINE b == IF Counts(w) THEN 1 ELSE 0
           a == IF Counts(w)' THEN 1 ELSE 0
<1>3. a \in Int /\ b \in Int
  OBVIOUS
<1>4. ChunkTotal' + a = ChunkTotal + b /\ Outstanding' = Outstanding + (ChunkTotal' - ChunkTotal) + a - b
  BY <1>2
<1> HIDE DEF a, b
<1> DEFINE c == ChunkTotal'
<1>5. c \in Int /\ c + a = ChunkTotal + b /\ Outstanding' = Outstanding + (c - ChunkTotal) + a - b
  BY <1>4
<1> HIDE DEF c
<1>6. Outstanding' = Outstanding
  BY <1>1, <1>3, <1>5
<1> QED BY <1>6 DEF kb, Balanced

LEMMA TakeBalanced ==
  ASSUME Typed, NEW w \in Workers, Take(w) PROVE Balanced
<1> USE DEF Typed
<1>1. PICK job \in BagToSet(queued) :
        /\ queued' = queued (-) SetToBag({job})
        /\ held' = [held EXCEPT ![w] = [job EXCEPT !.attempts = @ + 1]]
        /\ held'[w].action = job.action
        /\ pc' = [pc EXCEPT ![w] = IF status = "re_embedding" THEN Entry(job.action) ELSE "ack"]
  BY TakeType
<1>2. pc[w] = "idle" /\ UNCHANGED <<kb, extra>>
  BY DEF Take, blame
<1>3. CASE status # "re_embedding"
  BY <1>2, <1>3 DEF kb, Balanced
<1>4. CASE status = "re_embedding"
  <2>1. ChunkTotal' = ChunkTotal - (IF job.action = "re_embed_chunks" THEN 1 ELSE 0)
    BY <1>1, TakeTotal
  <2>2. ChunkTotal \in Int
    BY OutstandingTyped
  <2>3. ~Counts(w)
    BY <1>2 DEF Counts, Does, Hands
  <2>4. Typed'
    BY TakeType
  <2>5. pc'[w] = Entry(job.action)
    BY <1>1, <1>4 DEF Hands
  <2>6. pc'[w] \in Working
    BY <2>5 DEF Entry, Working
  <2>7. held'[w] # None
    BY <2>4, <2>6 DEF Hands, Working
  <2>8. Counts(w)' <=> job.action = "re_embed_chunks"
    BY <1>1, <2>6, <2>7 DEF Counts, Does, Uncounted
  <2>9. ChunkTotal' + (IF Counts(w)' THEN 1 ELSE 0) = ChunkTotal + (IF Counts(w) THEN 1 ELSE 0)
    <3>1. CASE job.action = "re_embed_chunks"
      <4>1. ChunkTotal' = ChunkTotal - 1
        BY <2>1, <3>1
      <4>2. (ChunkTotal - 1) + 1 = ChunkTotal + 0
        BY <2>2
      <4> QED BY <2>3, <2>8, <3>1, <4>1, <4>2
    <3>2. CASE job.action # "re_embed_chunks"
      <4>1. ChunkTotal' = ChunkTotal - 0
        BY <2>1, <3>2
      <4>2. (ChunkTotal - 0) + 0 = ChunkTotal + 0
        BY <2>2
      <4> QED BY <2>3, <2>8, <3>2, <4>1, <4>2
    <3> QED BY <3>1, <3>2
  <2>10. ChunkTotal' \in Int
    BY <2>1, <2>2
  <2>11. \A v \in Workers \ {w} : held'[v] = held[v] /\ pc'[v] = pc[v]
    BY <1>1
  <2> QED BY <1>2, <2>9, <2>10, <2>11, HandedBalance
<1> QED BY <1>3, <1>4

LEMMA EndsBalanced ==
  ASSUME Typed, Apart, NEW w \in Workers, Ends(w) PROVE Balanced
<1> USE DEF Typed
<1>1. /\ pc[w] # "idle" /\ pc' = [pc EXCEPT ![w] = "idle"] /\ held' = [held EXCEPT ![w] = None]
      /\ UNCHANGED kb
  BY EndsType
<1>2. \A v \in Workers \ {w} : held'[v] = held[v] /\ pc'[v] = pc[v]
  BY <1>1
<1>3. held'[w] = None
  BY <1>1 DEF Hands
<1>4. ~Counts(w)'
  BY <1>3 DEF Counts, Does
<1>5. ChunkTotal \in Int
  BY OutstandingTyped
<1>6. ASSUME UNCHANGED <<queued, extra>>, ~Uncounted(w) PROVE Balanced
  <2>1. ChunkTotal' = ChunkTotal
    BY <1>6 DEF ChunkTotal, ChunkJobs
  <2>2. ~Counts(w)
    BY <1>6 DEF Counts
  <2>3. ChunkTotal' + (IF Counts(w)' THEN 1 ELSE 0) = ChunkTotal + (IF Counts(w) THEN 1 ELSE 0)
    BY <1>4, <2>1, <2>2
  <2> QED BY <1>1, <1>2, <1>5, <1>6, <2>1, <2>3, HandedBalance
<1>7. ASSUME Put(held[w]), UNCHANGED extra, Uncounted(w) PROVE Balanced
  <2>1. held[w] \in Job /\ held[w] # None
    BY <1>1, HeldJob
  <2>2. ChunkTotal' = ChunkTotal + (IF held[w].action = "re_embed_chunks" THEN 1 ELSE 0)
    BY <1>7, <2>1, PutTotal
  <2>3. Counts(w) <=> held[w].action = "re_embed_chunks"
    BY <1>7, <2>1 DEF Counts, Does
  <2>4. ChunkTotal' = ChunkTotal + (IF Counts(w) THEN 1 ELSE 0)
    BY <2>2, <2>3
  <2>5. ChunkTotal' \in Int
    BY <1>5, <2>4
  <2>6. ChunkTotal' + (IF Counts(w)' THEN 1 ELSE 0) = ChunkTotal + (IF Counts(w) THEN 1 ELSE 0)
    BY <1>4, <2>4, <2>5
  <2> QED BY <1>1, <1>2, <1>7, <2>5, <2>6, HandedBalance
<1>8. CASE Acknowledge(w)
  BY <1>6, <1>8 DEF Acknowledge, Uncounted, Working, blame
<1>9. CASE Reject(w)
  <2>1. CASE Exhausted(w)
    BY <1>6, <1>9, <2>1 DEF Reject, Uncounted, Working, blame
  <2>2. CASE ~Exhausted(w)
    BY <1>7, <1>9, <2>2 DEF Reject, Uncounted, blame
  <2> QED BY <2>1, <2>2
<1>10. CASE Crash(w)
  <2>1. CASE extra'
    BY <2>1 DEF Balanced
  <2>2. CASE ~extra'
    <3>1. ~extra /\ Uncounted(w)
      BY <1>10, <2>2 DEF Crash
    <3>2. extra' = extra
      BY <1>10, <3>1 DEF Crash, Flags
    <3>3. Put(held[w])
      BY <1>10, <3>1 DEF Crash, Apart
    <3> QED BY <1>7, <3>1, <3>2, <3>3
  <2> QED BY <2>1, <2>2
<1> QED BY <1>8, <1>9, <1>10 DEF Ends

LEMMA WorkersAdded ==
  ASSUME Typed, Added, NEW w \in Workers, Take(w) \/ Step(w) \/ Ends(w) \/ Lapse(w)
  PROVE  Added'
<1> USE DEF Typed, Added
<1>1. Balanced
  <2>1. CASE Lapse(w)
    BY <2>1 DEF Lapse, Balanced
  <2> QED BY <2>1, TakeBalanced, StepBalanced, EndsBalanced
<1>2. UNCHANGED start
  BY StepMoves, EndsType DEF Take, Lapse, start
<1>3. (extra => extra') /\ (lapsed' \subseteq lapsed \/ extra')
  <2>1. CASE Step(w)
    <3>1. lapsed' = lapsed
      BY <2>1, StepMoves
    <3>2. extra => extra'
      BY <2>1 DEF Step, LockBatch, StopLoop, StoreBatch, EmbedRaises, Raise, Finish, FinishRaises, EnqueueFinalize,
         CountExhausted, UpdatePhase, Complete, FinalizeRaises, GiveUp, EnqueueRaises, EnqueueExhaustedFails, blame
    <3> QED BY <3>1, <3>2
  <2>2. CASE Take(w) \/ Lapse(w)
    BY <2>2 DEF Take, Lapse, blame
  <2>3. CASE Ends(w)
    <3>1. lapsed' \subseteq lapsed
      BY <2>3 DEF Ends, Acknowledge, Reject, Crash, Leave
    <3>2. extra => extra'
      BY <2>3 DEF Ends, Acknowledge, Reject, Crash, blame
    <3> QED BY <3>1, <3>2
  <2> QED BY <2>1, <2>2, <2>3
<1>4. ~lost' => ~lost
  <2>1. CASE Step(w)
    BY <2>1 DEF Step, LockBatch, StopLoop, StoreBatch, EmbedRaises, Raise, Finish, FinishRaises, EnqueueFinalize,
       CountExhausted, UpdatePhase, Complete, FinalizeRaises, GiveUp, EnqueueRaises, EnqueueExhaustedFails, blame
  <2>2. CASE Take(w) \/ Lapse(w) \/ Ends(w)
    BY <2>2, EndsType DEF Take, Lapse, blame
  <2> QED BY <2>1, <2>2
<1>5. Apart'
  BY <1>2, <1>3 DEF Apart, start
<1>6. Typed'
  BY TakeType, StepType, EndsType, LapseType
<1>7. ASSUME status' = "re_embedding", ~extra', progress'.phase = "chunks"
      PROVE  /\ status = "re_embedding" /\ ~extra /\ progress.phase = "chunks"
             /\ progress'.total = progress.total
             /\ progress'.completed + Outstanding' = progress.completed + Outstanding
  <2>1. status = "re_embedding" /\ (progress.phase = "later" => progress'.phase = "later")
    BY <1>1, <1>7 DEF Balanced
  <2>2. progress.phase = "chunks"
    BY <1>7, <2>1, RowPhase
  <2> QED BY <1>1, <1>7, <2>1, <2>2 DEF Balanced
<1>8. WorkersAddUp'
  BY <1>2, <1>4, <1>7 DEF WorkersAddUp, start
<1>9. Recovering'
  <2> SUFFICES ASSUME recovery' # None, ~extra', status' = "re_embedding"
      PROVE /\ recovery'.read.phase = "later" => progress'.phase = "later"
            /\ recovery'.read.phase = "chunks" /\ progress'.phase = "chunks" =>
                 progress'.completed + Outstanding' + recovery'.left
                   = RemainingWorkers(recovery'.read) + recovery'.read.completed
    BY DEF Recovering, RemainingWorkers
  <2>1. recovery' = recovery /\ status = "re_embedding" /\ ~extra
    BY <1>1, <1>2 DEF Balanced, start
  <2>2. recovery.read.phase = "later" => progress'.phase = "later"
    BY <1>1, <2>1 DEF Recovering, Balanced
  <2>3. recovery.read.phase = "chunks" /\ progress'.phase = "chunks" =>
          progress'.completed + Outstanding' + recovery.left
            = RemainingWorkers(recovery.read) + recovery.read.completed
    BY <1>7, <2>1 DEF Recovering
  <2> QED BY <2>1, <2>2, <2>3
<1> QED BY <1>5, <1>8, <1>9

LEMMA StartingAdded ==
  ASSUME Typed, Added, Starting PROVE Added'
<1> USE DEF Typed, Added
<1>w. UNCHANGED worker
  BY DEF Starting, Trigger, EnqueueChunks, Revert, CallerDies, Recover, EnqueueRecovered, CommitRecovered,
         RecoveryFails
<1>s. ASSUME UNCHANGED queued PROVE Outstanding' = Outstanding
  BY <1>s, <1>w, SameOutstanding DEF worker
<1>o. Outstanding \in Int
  BY OutstandingTyped
<1>b. ~Busy => lapsed = {}
  BY DEF Busy, Hands, Control
<1>1. CASE Trigger
  <2>1. /\ recovery' = recovery /\ UNCHANGED queued /\ progress' = Started(NumWorkers)
        /\ caller' = [left |-> NumWorkers, status |-> status, progress |-> progress]
        /\ extra' = (Waiting \/ Busy \/ recovery # None)
    BY <1>1 DEF Trigger
  <2>2. lapsed' = lapsed
    BY <1>w DEF worker
  <2>3. Apart'
    BY <1>b, <2>1, <2>2 DEF Apart
  <2>4. Recovering'
    BY <2>1 DEF Recovering
  <2>5. WorkersAddUp'
    <3> SUFFICES ASSUME ~extra' PROVE WorkersAddUp'
      BY DEF WorkersAddUp
    <3>1. Outstanding' = 0
      BY <1>s, <2>1, NoneOutstanding
    <3>2. caller'.left = NumWorkers /\ progress'.completed = 0 /\ progress'.total = NumWorkers
      BY <2>1 DEF Started
    <3>3. caller' # None
      <4>1. caller' \in Call
        BY <1>1, <2>1, WorkersToStart DEF Trigger, Row, Call
      <4> QED BY <4>1, ReEmbeddingAssumption
    <3>4. NumWorkers \in Int
      BY WorkersToStart
    <3> QED BY <3>1, <3>2, <3>3, <3>4 DEF WorkersAddUp
  <2> QED BY <2>3, <2>4, <2>5
<1>2. CASE EnqueueChunks
  <2>1. /\ caller # None /\ UNCHANGED <<kb, recovery, extra, lost>> /\ Put(NewJob("re_embed_chunks"))
        /\ caller' = IF caller.left = 1 THEN None ELSE [caller EXCEPT !.left = @ - 1]
    BY <1>2 DEF EnqueueChunks, blame
  <2>2. UNCHANGED <<held, pc, lapsed>>
    BY <1>w DEF worker
  <2>3. NewJob("re_embed_chunks") \in Job /\ NewJob("re_embed_chunks").action = "re_embed_chunks"
    BY NewJobs DEF Action, NewJob
  <2>4. Outstanding' = Outstanding + 1
    BY <2>1, <2>2, <2>3, SomePut
  <2>5. Apart'
    BY <2>1, <2>2 DEF Apart
  <2>6. Recovering'
    BY <2>1 DEF Apart, Recovering
  <2>7. caller.left \in Nat \ {0}
    BY <2>1 DEF Starts, Call
  <2>8. (IF caller' = None THEN 0 ELSE caller'.left) = caller.left - 1
    <3>1. CASE caller.left = 1
      BY <2>1, <3>1
    <3>2. CASE caller.left # 1
      <4>1. caller' = [caller EXCEPT !.left = caller.left - 1] /\ caller \in Call
        BY <2>1, <3>2 DEF Starts
      <4>2. caller' \in Call /\ caller'.left = caller.left - 1
        BY <2>7, <3>2, <4>1 DEF Call
      <4> QED BY <4>2, ReEmbeddingAssumption
    <3> QED BY <3>1, <3>2
  <2>9. WorkersAddUp'
    <3> SUFFICES ASSUME status' = "re_embedding", progress'.phase = "chunks", ~extra', ~lost', recovery' = None
        PROVE progress'.completed + Outstanding' + (caller.left - 1) = progress'.total
      BY <2>8 DEF WorkersAddUp
    <3>1. progress' = progress /\ status = "re_embedding" /\ ~extra /\ ~lost /\ recovery = None
      BY <2>1 DEF kb
    <3>2. progress.completed + Outstanding + caller.left = progress.total
      BY <2>1, <3>1 DEF WorkersAddUp
    <3>3. progress.completed \in Int /\ progress.total \in Int
      BY <3>1, RowPhase DEF Progress
    <3>4. progress.completed + (Outstanding + 1) + (caller.left - 1) = progress.total
      BY <1>o, <2>7, <3>2, <3>3
    <3> QED BY <2>4, <3>1, <3>4
  <2> QED BY <2>5, <2>6, <2>9
<1>3. CASE Revert \/ RecoveryFails
  BY <1>3 DEF Revert, RecoveryFails, Apart, WorkersAddUp, Recovering
<1>4. CASE CallerDies
  <2>1. Outstanding' = Outstanding /\ UNCHANGED <<kb, recovery, extra>> /\ lost' /\ caller' = None
    BY <1>4, <1>s DEF CallerDies
  <2>2. Recovering'
    BY <2>1 DEF Recovering, RemainingWorkers, kb
  <2> QED BY <1>w, <2>1, <2>2 DEF worker, Apart, WorkersAddUp
<1>5. CASE Recover
  <2>1. /\ caller = None /\ UNCHANGED <<kb, queued, caller>> /\ extra' = (Waiting \/ Busy)
        /\ status = "re_embedding"
        /\ recovery' # None => recovery'.read = progress
        /\ recovery'.left = (IF progress.phase = "chunks" THEN RemainingWorkers(progress) ELSE 1)
    BY <1>5 DEF Recover
  <2>2. Apart'
    BY <1>b, <1>w, <2>1 DEF Apart, worker
  <2>3. recovery' # None
    <3>1. PICK locked \in BOOLEAN :
            recovery' = [left |-> IF progress.phase = "chunks" THEN RemainingWorkers(progress) ELSE 1,
                         locked |-> locked, read |-> progress]
      BY <1>5 DEF Recover
    <3>2. progress \in Progress
      BY <2>1, RowPhase
    <3>3. recovery' \in Recovery
      BY <3>1, <3>2, ToRecover DEF Recovery
    <3> QED BY <3>3, ReEmbeddingAssumption
  <2>4. WorkersAddUp'
    BY <2>3 DEF WorkersAddUp
  <2>5. Recovering'
    <3> SUFFICES ASSUME ~extra', progress.phase = "chunks"
        PROVE progress.completed + Outstanding' + recovery'.left
                = RemainingWorkers(progress) + progress.completed
      BY <2>1, <2>3 DEF Recovering, kb, RemainingWorkers
    <3>1. Outstanding' = 0
      BY <1>s, <2>1, NoneOutstanding
    <3>2. progress.completed \in Int /\ RemainingWorkers(progress) \in Int
      BY <2>1, RowPhase, ToRecover DEF Progress
    <3>3. recovery'.left = RemainingWorkers(progress)
      BY <2>1
    <3> QED BY <3>1, <3>2, <3>3
  <2> QED BY <2>2, <2>4, <2>5
<1>6. CASE EnqueueRecovered
  <2> DEFINE action == IF recovery.read.phase = "chunks" THEN "re_embed_chunks" ELSE "re_embed_finalize"
  <2>1. /\ recovery # None /\ UNCHANGED <<kb, caller, extra, lost>> /\ Put(NewJob(action))
        /\ recovery' = [recovery EXCEPT !.left = recovery.left - 1] /\ recovery.left > 0
    BY <1>6 DEF EnqueueRecovered, blame
  <2>2. UNCHANGED <<held, pc, lapsed>>
    BY <1>w DEF worker
  <2>3. recovery \in Recovery
    BY <2>1 DEF Starts
  <2>4. recovery'.read = recovery.read /\ recovery'.left = recovery.left - 1 /\ recovery.left \in Nat
    BY <2>1, <2>3 DEF Recovery
  <2>5. recovery' # None
    <3>1. recovery' \in Recovery
      BY <2>1, <2>3 DEF Recovery
    <3> QED BY <3>1, ReEmbeddingAssumption
  <2>6. recovery.read.phase = "chunks" => Outstanding' = Outstanding + 1
    <3> SUFFICES ASSUME recovery.read.phase = "chunks" PROVE Outstanding' = Outstanding + 1
      OBVIOUS
    <3>1. NewJob("re_embed_chunks") \in Job /\ NewJob("re_embed_chunks").action = "re_embed_chunks"
      BY NewJobs DEF Action, NewJob
    <3>2. Put(NewJob("re_embed_chunks"))
      BY <2>1
    <3> QED BY <2>2, <3>1, <3>2, SomePut
  <2>7. Apart'
    BY <2>1, <2>2 DEF Apart
  <2>8. WorkersAddUp'
    BY <2>5 DEF WorkersAddUp
  <2>9. Recovering'
    <3> SUFFICES ASSUME ~extra', status' = "re_embedding"
        PROVE /\ recovery'.read.phase = "later" => progress'.phase = "later"
              /\ recovery'.read.phase = "chunks" /\ progress'.phase = "chunks" =>
                   progress'.completed + Outstanding' + recovery'.left
                     = RemainingWorkers(recovery'.read) + recovery'.read.completed
      BY DEF Recovering, RemainingWorkers
    <3>1. progress' = progress /\ status = "re_embedding" /\ ~extra
      BY <2>1 DEF kb
    <3>2. recovery.read.phase = "later" => progress.phase = "later"
      BY <2>1, <3>1 DEF Recovering
    <3>3. ASSUME recovery.read.phase = "chunks", progress.phase = "chunks"
          PROVE progress.completed + Outstanding' + (recovery.left - 1)
                  = RemainingWorkers(recovery.read) + recovery.read.completed
      <4>1. progress.completed + Outstanding + recovery.left
              = RemainingWorkers(recovery.read) + recovery.read.completed
        BY <2>1, <3>1, <3>3 DEF Recovering
      <4>2. progress.completed \in Int
        BY <3>1, RowPhase DEF Progress
      <4>3. progress.completed + (Outstanding + 1) + (recovery.left - 1)
              = progress.completed + Outstanding + recovery.left
        BY <1>o, <2>4, <4>2
      <4> QED BY <2>6, <3>3, <4>1, <4>3
    <3> QED BY <2>4, <3>1, <3>2, <3>3
  <2> QED BY <2>7, <2>8, <2>9
<1>7. CASE CommitRecovered
  <2>1. /\ recovery # None /\ recovery.left = 0 /\ recovery' = None
        /\ UNCHANGED <<status, queued, caller, extra>>
        /\ IF recovery.read.phase = "chunks"
             THEN progress' = Recovered(recovery.read) /\ lost' = (progress # recovery.read)
             ELSE lost' = FALSE /\ UNCHANGED progress
    BY <1>7 DEF CommitRecovered
  <2>2. Apart' /\ Recovering'
    BY <1>w, <2>1 DEF worker, Apart, Recovering
  <2>3. WorkersAddUp'
    <3> SUFFICES ASSUME status' = "re_embedding", progress'.phase = "chunks", ~extra', ~lost'
        PROVE progress'.completed + Outstanding' + 0 = progress'.total /\ caller' = None
      BY DEF WorkersAddUp
    <3>1. status = "re_embedding" /\ ~extra /\ caller = None
      BY <2>1 DEF Apart
    <3>2. recovery.read \in Progress
      BY <2>1 DEF Starts, Recovery
    <3>3. recovery.read.phase = "chunks"
      <4>1. CASE recovery.read.phase = "later"
        BY <2>1, <3>1, <4>1 DEF Recovering
      <4> QED BY <3>2, <4>1 DEF Progress
    <3>4. progress' = Recovered(recovery.read) /\ progress = recovery.read
      BY <2>1, <3>3
    <3>5. progress'.completed = 0 /\ progress'.total = RemainingWorkers(recovery.read)
      BY <3>2, <3>4 DEF Recovered, Progress
    <3>6. recovery.read.completed + Outstanding + 0 = RemainingWorkers(recovery.read) + recovery.read.completed
      BY <2>1, <3>1, <3>3, <3>4 DEF Recovering
    <3>7. recovery.read.completed \in Int /\ RemainingWorkers(recovery.read) \in Int
      BY <3>2, ToRecover DEF Progress
    <3>8. Outstanding = RemainingWorkers(recovery.read)
      <4>1. \A a, b, c \in Int : a + b + 0 = c + a => b = c
        OBVIOUS
      <4> QED BY <1>o, <3>6, <3>7, <4>1, Zenon
    <3>9. Outstanding' = Outstanding
      BY <1>s, <2>1
    <3> QED BY <2>1, <3>1, <3>5, <3>7, <3>8, <3>9
  <2> QED BY <2>2, <2>3
<1> QED
  BY <1>1, <1>2, <1>3, <1>4, <1>5, <1>6, <1>7 DEF Starting

LEMMA AddedStep == Typed /\ Added /\ [Next]_vars => Added'
<1> SUFFICES ASSUME Typed, Added, [Next]_vars PROVE Added'
  OBVIOUS
<1>1. CASE Starting
  BY <1>1, StartingAdded
<1>2. ASSUME NEW w \in Workers, Take(w) \/ Step(w) \/ Ends(w) \/ Lapse(w) PROVE Added'
  BY <1>2, WorkersAdded
<1>3. CASE UNCHANGED vars
  <2>1. Outstanding' = Outstanding
    BY <1>3, SameOutstanding DEF vars, worker
  <2> QED BY <1>3, <2>1 DEF vars, kb, worker, start, blame, Added, Apart, WorkersAddUp, Recovering, RemainingWorkers
<1> QED
  BY <1>1, <1>2, <1>3 DEF Next, Handle, Starting, Step, Ends

(***************************************************************************)
(* The progress is neither ahead of the chunks nor of the workers: while a *)
(* knowledge base is re-embedded the workers to come and those completed   *)
(* are workers_total, unless jobs were delivered again or lost.            *)
(***************************************************************************)
THEOREM ProgressIsTrue == Spec => []ProgressHolds
<1>1. Init => Typed /\ Embedded /\ Added
  <2>1. Init => Added
    BY DEF Init, Added, Apart, WorkersAddUp, Recovering
  <2> QED BY <2>1, TypeInit, EmbeddedInit
<1>2. Typed /\ Embedded /\ Added /\ [Next]_vars => (Typed /\ Embedded /\ Added)'
  BY TypeStep, EmbeddedStep, AddedStep
<1>3. Typed /\ Embedded /\ Added => ProgressHolds
  BY DEF Embedded, Later, CurrentMeansEmbedded, Added, ProgressHolds
<1> QED BY <1>1, <1>2, <1>3, PTL DEF Spec

------------------------------------------------------------------------------
(***************************************************************************)
(* Usage reports.  While runs do not overlap, the meter has received no    *)
(* more than what the reports written down speak for, what may be sent     *)
(* twice, and what the run under way has sent and not yet written down;    *)
(* and those speak for usage that is there.                                *)
(***************************************************************************)
Numbers == [Months -> Nat]

RunState == [pc : {"idle", "catchup", "reset", "report", "save"}, month : Int \cup {NoPeriod},
             last : Nat, lastMonth : Int \cup {NoPeriod}, total : Nat, delta : Int]

\* The usage of the periods before one.
Upto(f, k) == SumOver(f, 1, k)

MeterTyped ==
  /\ usage \in Numbers /\ sent \in Numbers /\ seen \in Numbers
  /\ month \in Months /\ covered \in Int /\ doubled \in Int
  /\ lastTotal \in Nat /\ lastMonth \in (1..month) \cup {NoPeriod}
  /\ lastMonth = NoPeriod => lastTotal = 0
  /\ report \in [Reporters -> RunState]
  /\ \A r \in Reporters : report[r].pc # "idle" => report[r].month \in 1..month
  /\ \A r \in Reporters : report[r].pc = "catchup" => report[r].lastMonth \in 1..month

\* What is written down.
Settled == /\ covered <= InAll(usage)
           /\ lastMonth # NoPeriod => covered = Upto(usage, lastMonth) + lastTotal

\* What the meter has received; pending was sent and is not written down.
Bounded(pending) == InAll(sent) <= covered + doubled + pending

\* What a run starts from, and what it is about to write down.
Knows(p) ==
  /\ Bounded(p.delta)
  /\ p.pc = "report" => p.delta = 0 /\ covered = Upto(usage, p.month) + p.last
  /\ p.pc = "catchup" => p.delta = 0 /\ covered = Upto(usage, p.lastMonth) + p.last
  /\ p.pc = "save" => /\ covered + p.delta <= Upto(usage, p.month) + p.total
                      /\ Upto(usage, p.month) + p.total <= InAll(usage)
  /\ p.pc = "reset" => p.delta = 0 \/ covered + p.delta <= Upto(usage, p.month)

Alone == \A q, r \in Reporters : report[q].pc # "idle" /\ report[r].pc # "idle" => q = r

MeterInv ==
  /\ MeterTyped
  /\ ~overlapped => /\ Alone /\ Settled
                    /\ \A r \in Reporters : report[r].pc # "idle" => Knows(report[r])
                    /\ (\A r \in Reporters : report[r].pc = "idle") => Bounded(0)

(***************************************************************************)
(* Sums over periods.                                                      *)
(***************************************************************************)
Between(i, j) == {k \in Months : i <= k /\ k < j}

LEMMA SumOverIs == \A f, i, j : SumOver(f, i, j) = Total(f, Between(i, j))
BY DEF SumOver, Total, Between

LEMMA TotalNat ==
  ASSUME NEW F, NEW S, IsFiniteSet(S), \A x \in S : F[x] \in Nat
  PROVE  Total(F, S) \in Nat
<1> DEFINE zero == [x \in S |-> 0]
<1>1. \A x \in S : zero[x] = 0
  OBVIOUS
<1> HIDE DEF zero
<1>2. Total(zero, S) = 0
  BY <1>1, TotalOfZeros
<1>3. \A x \in S : zero[x] \in Int /\ F[x] \in Int /\ zero[x] <= F[x]
  BY <1>1
<1>4. Total(zero, S) <= Total(F, S) /\ Total(F, S) \in Int
  BY <1>3, TotalLess
<1> QED BY <1>2, <1>4

LEMMA SomeMonths ==
  ASSUME NEW n \in Nat, Months = 1..n, NEW f \in Numbers, NEW S \in SUBSET Months
  PROVE  IsFiniteSet(S) /\ (\A k \in S : f[k] \in Nat) /\ Total(f, S) \in Nat
<1>1. IsFiniteSet(Months)
  BY FS_Interval
<1>2. IsFiniteSet(S)
  BY <1>1, FS_Subset
<1>3. \A k \in S : f[k] \in Nat
  BY DEF Numbers
<1> QED BY <1>2, <1>3, TotalNat

LEMMA MonthsSplit ==
  ASSUME NEW n \in Nat, Months = 1..n, NEW f \in Numbers,
         NEW R \in SUBSET Months, NEW S \in SUBSET Months, R \cap S = {}
  PROVE  Total(f, R \cup S) = Total(f, R) + Total(f, S)
<1>1. IsFiniteSet(R) /\ IsFiniteSet(S) /\ (\A k \in R : f[k] \in Nat) /\ (\A k \in S : f[k] \in Nat)
  BY SomeMonths
<1>2. \A k \in R \cup S : f[k] \in Int
  BY <1>1
<1> QED BY <1>1, <1>2, TotalUnion

LEMMA SumsAreNumbers ==
  ASSUME NEW n \in Nat, Months = 1..n, NEW f \in Numbers
  PROVE  /\ InAll(f) \in Nat
         /\ \A i, j \in Int : SumOver(f, i, j) \in Nat
         /\ \A j \in Int : Upto(f, j) \in Nat
<1>1. InAll(f) = Total(f, Months)
  BY DEF InAll, Total
<1>2. \A i, j : Between(i, j) \in SUBSET Months
  BY DEF Between
<1>3. Months \in SUBSET Months
  OBVIOUS
<1>4. \A S \in SUBSET Months : Total(f, S) \in Nat
  BY SomeMonths
<1>5. InAll(f) \in Nat
  BY <1>1, <1>3, <1>4
<1>6. ASSUME NEW i \in Int, NEW j \in Int PROVE SumOver(f, i, j) \in Nat
  <2>1. Total(f, Between(i, j)) \in Nat
    BY <1>2, <1>4
  <2> QED BY <2>1, SumOverIs
<1>7. ASSUME NEW j \in Int PROVE Upto(f, j) \in Nat
  <2>1. 1 \in Int
    OBVIOUS
  <2>2. SumOver(f, 1, j) \in Nat
    BY <1>6, <2>1
  <2> QED BY <2>2 DEF Upto
<1> QED BY <1>5, <1>6, <1>7

LEMMA UptoAll ==
  ASSUME NEW n \in Nat, Months = 1..n, NEW f \in Numbers, NEW j \in Int
  PROVE  Upto(f, j) <= InAll(f)
<1> DEFINE R == Between(1, j)
           S == Months \ R
<1>1. R \in SUBSET Months /\ S \in SUBSET Months /\ R \cap S = {} /\ R \cup S = Months
  BY DEF Between
<1>2. Upto(f, j) = Total(f, R)
  BY SumOverIs DEF Upto
<1> HIDE DEF R, S
<1>3. Total(f, R \cup S) = Total(f, R) + Total(f, S)
  BY <1>1, MonthsSplit
<1>4. Total(f, R) \in Nat /\ Total(f, S) \in Nat
  BY <1>1, SomeMonths
<1>5. Total(f, Months) = Total(f, R) + Total(f, S)
  BY <1>1, <1>3
<1>6. InAll(f) = Total(f, Months)
  BY DEF InAll, Total
<1> QED BY <1>2, <1>4, <1>5, <1>6

LEMMA UptoAdds ==
  ASSUME NEW n \in Nat, Months = 1..n, NEW f \in Numbers, NEW i \in Int, NEW j \in Int, 1 <= i, i <= j
  PROVE  Upto(f, j) = Upto(f, i) + SumOver(f, i, j)
<1> DEFINE R == Between(1, i)
           S == Between(i, j)
<1>1. R \in SUBSET Months /\ S \in SUBSET Months /\ R \cap S = {} /\ R \cup S = Between(1, j)
  BY DEF Between
<1> HIDE DEF R, S
<1>2. Total(f, R \cup S) = Total(f, R) + Total(f, S)
  BY <1>1, MonthsSplit
<1>3. Total(f, Between(1, j)) = Total(f, R) + Total(f, S)
  BY <1>1, <1>2
<1> QED BY <1>3, SumOverIs DEF Upto, R, S

LEMMA NothingBetween ==
  ASSUME NEW n \in Nat, Months = 1..n, NEW f \in Numbers, NEW i \in Int, NEW j \in Int, j <= i
  PROVE  SumOver(f, i, j) = 0
<1>1. Between(i, j) = {}
  BY DEF Between
<1> QED BY <1>1, SumOverIs, TotalOfNone

LEMMA OneMore ==
  ASSUME NEW F, NEW G, NEW S, IsFiniteSet(S), NEW m \in S, NEW d \in Int,
         \A y \in S : F[y] \in Int, G[m] = F[m] + d, \A y \in S \ {m} : F[y] = G[y]
  PROVE  Total(G, S) = Total(F, S) + d
<1>0. F[m] \in Int /\ G[m] \in Int
  OBVIOUS
<1>1. \A y \in S \cup {m} : G[y] \in Int
  <2>1. \A y \in S \ {m} : G[y] \in Int
    OBVIOUS
  <2> QED BY <1>0, <2>1
<1>2. /\ IsFiniteSet(S) /\ (\A y \in S : F[y] \in Int) /\ (\A y \in S \cup {m} : G[y] \in Int)
      /\ \A y \in S \ {m} : F[y] = G[y]
  BY <1>1
<1>3. /\ Total(G, S \cup {m}) = Total(F, S) + G[m] - (IF m \in S THEN F[m] ELSE 0)
      /\ Total(F, S) \in Int
  BY ONLY <1>2, TotalGrows
<1>4. S \cup {m} = S
  OBVIOUS
<1>5. Total(G, S) = Total(F, S) + G[m] - F[m]
  BY <1>3, <1>4
<1> QED BY <1>0, <1>3, <1>5

LEMMA MoreInAll ==
  ASSUME IsFiniteSet(Months), NEW f, NEW g, NEW m \in Months, NEW d \in Int,
         \A y \in Months : f[y] \in Int, g[m] = f[m] + d, \A y \in Months \ {m} : f[y] = g[y]
  PROVE  InAll(g) = InAll(f) + d
<1>1. Total(g, Months) = Total(f, Months) + d
  BY OneMore
<1> QED BY <1>1 DEF InAll, Total

\* More of one period changes nothing of those before it.
LEMMA SameUpto ==
  ASSUME IsFiniteSet(Months), Months \in SUBSET Int, NEW f, NEW g, NEW m \in Months, NEW k \in Int, k <= m,
         \A y \in Months \ {m} : f[y] = g[y]
  PROVE  Upto(g, k) = Upto(f, k)
<1> DEFINE S == Between(1, k)
<1>1. S \in SUBSET Months /\ m \notin S
  BY DEF Between
<1>2. Upto(g, k) = Total(g, S) /\ Upto(f, k) = Total(f, S)
  BY SumOverIs DEF Upto
<1> HIDE DEF S
<1>3. IsFiniteSet(S) /\ \A i \in S : g[i] = f[i]
  BY <1>1, FS_Subset
<1>4. Total(g, S) = Total(f, S)
  BY <1>3, TotalAgrees
<1> QED BY <1>2, <1>4

(***************************************************************************)
(* The steps around the runs.                                              *)
(***************************************************************************)
LEMMA UseHolds ==
  ASSUME NEW n \in Nat, Months = 1..n, NoPeriod \notin Int, MeterInv, Use PROVE MeterInv'
<1>1. MeterTyped
  BY DEF MeterInv
<1>2. /\ usage' = [usage EXCEPT ![month] = @ + 1] /\ usage \in Numbers /\ month \in Months
      /\ UNCHANGED <<month, sent, seen, lastTotal, lastMonth, report, overlapped, covered, doubled>>
  BY <1>1 DEF MeterTyped, Use, tally
<1> DEFINE u == usage'
<1>0. IsFiniteSet(Months) /\ Months \in SUBSET Int
  BY FS_Interval
<1>3. /\ u \in Numbers /\ InAll(u) = InAll(usage) + 1 /\ InAll(usage) \in Nat
      /\ \A k \in 1..month : Upto(u, k) = Upto(usage, k) /\ Upto(usage, k) \in Nat
  <2>1. u = [usage EXCEPT ![month] = @ + 1] /\ 1 \in Nat
    BY <1>2
  <2> HIDE DEF u
  <2>2. /\ u \in Numbers /\ InAll(u) = InAll(usage) + 1
        /\ \A k \in Int : k <= month => Upto(u, k) = Upto(usage, k)
    <3>1. PICK f, g, m, d : f = usage /\ g = u /\ m = month /\ d = 1
      OBVIOUS
    <3>2. f \in Numbers /\ m \in Months /\ d \in Nat
      BY <1>2, <2>1, <3>1
    <3>3. g = [f EXCEPT ![m] = @ + d]
      BY <2>1, <3>1
    <3>4. /\ g \in Numbers /\ d \in Int /\ (\A k \in Months : f[k] \in Int) /\ g[m] = f[m] + d
          /\ \A k \in Months \ {m} : f[k] = g[k]
      BY <3>2, <3>3 DEF Numbers
    <3>5. InAll(g) = InAll(f) + d
      BY <1>0, <3>2, <3>4, MoreInAll
    <3>6. \A k \in Int : k <= m => Upto(g, k) = Upto(f, k)
      BY <1>0, <3>2, <3>4, SameUpto
    <3> QED BY <3>1, <3>4, <3>5, <3>6
  <2>3. InAll(usage) \in Nat /\ \A k \in Int : Upto(usage, k) \in Nat
    BY <1>2, SumsAreNumbers
  <2>4. \A k \in 1..month : k \in Int /\ k <= month
    BY <1>2
  <2> QED BY <2>2, <2>3, <2>4
<1>4. MeterTyped'
  BY <1>1, <1>2, <1>3 DEF MeterTyped, Numbers
<1> HIDE DEF u
<1>5. ASSUME ~overlapped, Settled PROVE Settled'
  <2>1. covered \in Int /\ lastMonth \in (1..month) \cup {NoPeriod}
    BY <1>1 DEF MeterTyped
  <2>2. covered <= InAll(u) /\ (lastMonth # NoPeriod => covered = Upto(u, lastMonth) + lastTotal)
    BY <1>3, <1>5, <2>1 DEF Settled
  <2> QED BY <1>2, <2>2 DEF Settled, u
<1>6. ASSUME NEW r \in Reporters, report[r].pc # "idle", Knows(report[r]) PROVE Knows(report[r])'
  <2>0. PICK p : p = report[r]
    OBVIOUS
  <2>1. p \in RunState /\ p.month \in 1..month /\ (p.pc = "catchup" => p.lastMonth \in 1..month)
    BY <1>1, <1>6, <2>0 DEF MeterTyped
  <2>2. p.total \in Nat /\ Knows(p)
    BY <1>6, <2>0, <2>1 DEF RunState
  <2>3. /\ p.pc = "report" => p.delta = 0 /\ covered = Upto(u, p.month) + p.last
        /\ p.pc = "catchup" => p.delta = 0 /\ covered = Upto(u, p.lastMonth) + p.last
        /\ p.pc = "reset" => p.delta = 0 \/ covered + p.delta <= Upto(u, p.month)
        /\ InAll(sent) <= covered + doubled + p.delta
    BY <1>3, <2>1, <2>2 DEF Knows, Bounded
  <2>4. p.pc = "save" => /\ covered + p.delta <= Upto(u, p.month) + p.total
                         /\ Upto(u, p.month) + p.total <= InAll(u)
    <3> SUFFICES ASSUME p.pc = "save"
                 PROVE  covered + p.delta <= Upto(u, p.month) + p.total /\ Upto(u, p.month) + p.total <= InAll(u)
      OBVIOUS
    <3>1. Upto(u, p.month) = Upto(usage, p.month) /\ Upto(usage, p.month) \in Nat
      BY <1>3, <2>1
    <3>2. covered + p.delta <= Upto(usage, p.month) + p.total /\ Upto(usage, p.month) + p.total <= InAll(usage)
      BY <2>2 DEF Knows
    <3> QED BY <1>3, <2>2, <3>1, <3>2
  <2>5. usage' = u /\ covered' = covered /\ doubled' = doubled /\ sent' = sent /\ report'[r] = p
    BY <1>2, <2>0 DEF u
  <2>6. Knows(p)'
    BY <2>3, <2>4, <2>5 DEF Knows, Bounded
  <2> QED BY <2>5, <2>6 DEF Knows, Bounded
<1>7. Bounded(0) => Bounded(0)'
  BY <1>2 DEF Bounded
<1>8. Alone => Alone'
  BY <1>2 DEF Alone
<1>9. report' = report /\ overlapped' = overlapped
  BY <1>2
<1> QED BY <1>4, <1>5, <1>6, <1>7, <1>8, <1>9 DEF MeterInv

\* What a step leaves of what is known, when it changes neither the sums nor what
\* is written down.
LEMMA Remembered ==
  ASSUME UNCHANGED <<usage, sent, lastTotal, lastMonth, covered, doubled>>
  PROVE  (Settled => Settled') /\ \A p : (Knows(p) => Knows(p)') /\ (Bounded(p) => Bounded(p)')
BY DEF Settled, Knows, Bounded

LEMMA AroundRuns ==
  ASSUME MeterInv, MeterTyped', UNCHANGED <<usage, sent, lastTotal, lastMonth, report, overlapped, covered, doubled>>
  PROVE  MeterInv'
<1>1. (Settled => Settled') /\ \A p : (Knows(p) => Knows(p)') /\ (Bounded(p) => Bounded(p)')
  BY Remembered
<1>2. report' = report /\ overlapped' = overlapped
  OBVIOUS
<1>3. Bounded(0) => Bounded(0)'
  BY <1>1
<1>4. Alone => Alone'
  BY <1>2 DEF Alone
<1>5. ASSUME NEW r \in Reporters, Knows(report[r]) PROVE Knows(report[r])'
  BY <1>2, <1>5 DEF Knows, Bounded
<1> QED BY <1>1, <1>2, <1>3, <1>4, <1>5 DEF MeterInv

LEMMA NextMonthHolds ==
  ASSUME NEW n \in Nat, Months = 1..n, NoPeriod \notin Int, MeterInv, NextMonth PROVE MeterInv'
<1>1. MeterTyped
  BY DEF MeterInv
<1>2. month' = month + 1 /\ month' \in Months
      /\ UNCHANGED <<usage, sent, seen, lastTotal, lastMonth, report, overlapped, covered, doubled>>
  BY DEF NextMonth, tally
<1>3. month \in Int /\ 1..month \subseteq 1..(month + 1)
  BY <1>1 DEF MeterTyped
<1>4. MeterTyped'
  BY <1>1, <1>2, <1>3 DEF MeterTyped
<1> QED BY <1>2, <1>4, AroundRuns

LEMMA ProcessedHolds ==
  ASSUME NEW k \in Months, MeterInv, Processed(k) PROVE MeterInv'
<1>1. MeterTyped
  BY DEF MeterInv
<1>2. seen' = [seen EXCEPT ![k] = sent[k]]
      /\ UNCHANGED <<usage, month, sent, lastTotal, lastMonth, report, overlapped, covered, doubled>>
  BY DEF Processed, tally
<1>3. MeterTyped'
  BY <1>1, <1>2 DEF MeterTyped, Numbers
<1> QED BY <1>2, <1>3, AroundRuns

(***************************************************************************)
(* The steps of a run.                                                     *)
(***************************************************************************)
LEMMA OneUnderWay ==
  ASSUME MeterInv, ~overlapped, NEW r \in Reporters, report[r].pc # "idle"
  PROVE  Settled /\ Knows(report[r]) /\ \A q \in Reporters : q # r => report[q].pc = "idle"
BY DEF MeterInv, Alone

LEMMA RunChanges ==
  ASSUME MeterTyped', NEW r \in Reporters, \A q \in Reporters : q # r => report'[q] = report[q],
         ~overlapped' => /\ Settled' /\ \A q \in Reporters : q # r => report[q].pc = "idle"
                         /\ report'[r].pc # "idle" => Knows(report[r])'
                         /\ report'[r].pc = "idle" => Bounded(0)'
  PROVE  MeterInv'
<1> SUFFICES ASSUME ~overlapped'
    PROVE /\ Alone' /\ Settled'
          /\ \A q \in Reporters : report'[q].pc # "idle" => Knows(report[q])'
          /\ (\A q \in Reporters : report'[q].pc = "idle") => Bounded(0)'
  BY DEF MeterInv
<1>1. \A q \in Reporters : q # r => report'[q].pc = "idle"
  OBVIOUS
<1>2. Alone'
  BY <1>1 DEF Alone
<1> QED BY <1>1, <1>2

LEMMA RunTyped ==
  ASSUME MeterTyped, NEW r \in Reporters, NEW p, report' = [report EXCEPT ![r] = p], p \in RunState,
         p.pc # "idle" => p.month \in 1..month, p.pc = "catchup" => p.lastMonth \in 1..month,
         usage' = usage, seen' = seen, month' = month, sent' \in Numbers,
         covered' \in Int, doubled' \in Int,
         lastTotal' \in Nat, lastMonth' \in (1..month) \cup {NoPeriod}, lastMonth' = NoPeriod => lastTotal' = 0
  PROVE  /\ MeterTyped'
         /\ report'[r] = p /\ \A q \in Reporters : q # r => report'[q] = report[q]
<1>1. report' \in [Reporters -> RunState]
  BY DEF MeterTyped
<1>2. report'[r] = p /\ \A q \in Reporters : q # r => report'[q] = report[q]
  BY DEF MeterTyped
<1>3. \A q \in Reporters : report'[q].pc # "idle" => report'[q].month \in 1..month
  BY <1>2 DEF MeterTyped
<1>4. \A q \in Reporters : report'[q].pc = "catchup" => report'[q].lastMonth \in 1..month
  BY <1>2 DEF MeterTyped
<1> QED BY <1>1, <1>2, <1>3, <1>4 DEF MeterTyped

LEMMA IdleTyped == Idle \in RunState /\ Idle.pc = "idle" /\ Idle.delta = 0
BY DEF Idle, RunState

LEMMA DieHolds ==
  ASSUME NEW r \in Reporters, MeterInv, Die(r) PROVE MeterInv'
<1> DEFINE p == report[r]
<1>1. MeterTyped
  BY DEF MeterInv
<1>2. /\ p.pc # "idle" /\ doubled' = doubled + p.delta /\ report' = [report EXCEPT ![r] = Idle]
      /\ UNCHANGED <<usage, month, sent, seen, lastTotal, lastMonth, overlapped, covered>>
  BY DEF Die
<1>3. p \in RunState /\ covered \in Int /\ doubled \in Int
  BY <1>1 DEF MeterTyped
<1>4. p.delta \in Int
  BY <1>3 DEF RunState
<1> HIDE DEF p
<1>5. MeterTyped' /\ report'[r] = Idle /\ \A q \in Reporters : q # r => report'[q] = report[q]
  <2>1. sent' \in Numbers /\ covered' \in Int /\ doubled' \in Int /\ lastTotal' \in Nat
        /\ lastMonth' \in (1..month) \cup {NoPeriod} /\ (lastMonth' = NoPeriod => lastTotal' = 0)
    BY <1>1, <1>2, <1>3, <1>4 DEF MeterTyped
  <2> QED BY <1>1, <1>2, <2>1, IdleTyped, RunTyped
<1>6. ASSUME ~overlapped'
      PROVE  Settled' /\ Bounded(0)' /\ \A q \in Reporters : q # r => report[q].pc = "idle"
  <2>1. Settled /\ Knows(p) /\ \A q \in Reporters : q # r => report[q].pc = "idle"
    BY <1>2, <1>6, OneUnderWay DEF p
  <2>2. Settled'
    BY <1>2, <2>1 DEF Settled
  <2>3. InAll(sent) <= covered + doubled + p.delta
    BY <2>1 DEF Knows, Bounded
  <2>4. InAll(sent) <= covered + (doubled + p.delta) + 0
    BY <1>3, <1>4, <2>3
  <2> QED BY <1>2, <2>1, <2>2, <2>4 DEF Bounded
<1> QED BY <1>5, <1>6, IdleTyped, RunChanges

LEMMA SaveHolds ==
  ASSUME NEW n \in Nat, Months = 1..n, NoPeriod \notin Int, NEW r \in Reporters, MeterInv, Save(r)
  PROVE  MeterInv'
<1> DEFINE p == report[r]
           b == Upto(usage, p.month) + p.total
<1>1. MeterTyped
  BY DEF MeterInv
<1>2. /\ p.pc = "save" /\ lastTotal' = p.total /\ lastMonth' = p.month /\ covered' = b
      /\ report' = [report EXCEPT ![r] = Idle]
      /\ UNCHANGED <<usage, month, sent, seen, overlapped, doubled>>
  BY DEF Save, Upto
<1>3. p \in RunState /\ p.month \in 1..month /\ covered \in Int /\ doubled \in Int /\ sent \in Numbers
      /\ usage \in Numbers /\ month \in Int
  BY <1>1, <1>2 DEF MeterTyped
<1>4. p.total \in Nat /\ p.delta \in Int
  BY <1>3 DEF RunState
<1>5. b \in Int /\ InAll(usage) \in Nat /\ InAll(sent) \in Nat
  <2>1. p.month \in Int
    BY <1>3
  <2>2. Upto(usage, p.month) \in Nat /\ InAll(usage) \in Nat /\ InAll(sent) \in Nat
    <3> HIDE DEF p
    <3> QED BY <1>3, <2>1, SumsAreNumbers
  <2> QED BY <1>4, <2>2
<1> HIDE DEF p, b
<1>6. MeterTyped' /\ report'[r] = Idle /\ \A q \in Reporters : q # r => report'[q] = report[q]
  <2>1. sent' \in Numbers /\ covered' \in Int /\ doubled' \in Int /\ lastTotal' \in Nat
        /\ lastMonth' \in (1..month) \cup {NoPeriod} /\ (lastMonth' = NoPeriod => lastTotal' = 0)
    BY <1>2, <1>3, <1>4, <1>5
  <2> QED BY <1>1, <1>2, <2>1, IdleTyped, RunTyped
<1>7. ASSUME ~overlapped'
      PROVE  Settled' /\ Bounded(0)' /\ \A q \in Reporters : q # r => report[q].pc = "idle"
  <2>1. Knows(p) /\ \A q \in Reporters : q # r => report[q].pc = "idle"
    BY <1>2, <1>7, OneUnderWay DEF p
  <2>2. covered + p.delta <= b /\ b <= InAll(usage) /\ InAll(sent) <= covered + doubled + p.delta
    BY <1>2, <2>1 DEF Knows, Bounded, b
  <2>3. InAll(sent) <= b + doubled + 0
    BY <1>3, <1>4, <1>5, <2>2
  <2>4. Bounded(0)'
    BY <1>2, <2>3 DEF Bounded
  <2>5. Settled'
    BY <1>2, <2>2 DEF Settled, b
  <2> QED BY <2>1, <2>4, <2>5
<1> QED BY <1>6, <1>7, IdleTyped, RunChanges

\* Starting from less than is covered adds the difference to what may go twice.
LEMMA Restarts ==
  ASSUME NEW b \in Int, StartsFrom(b), covered \in Int, doubled \in Int
  PROVE  /\ covered' = b /\ doubled' \in Int
         /\ covered + doubled <= covered' + doubled' /\ doubled <= doubled'
BY DEF StartsFrom

LEMMA ResetHolds ==
  ASSUME NEW n \in Nat, Months = 1..n, NoPeriod \notin Int, NEW r \in Reporters, MeterInv, Reset(r)
  PROVE  MeterInv'
<1> DEFINE p == report[r]
           b == Upto(usage, p.month)
<1>1. MeterTyped
  BY DEF MeterInv
<1>2. /\ p.pc = "reset" /\ lastTotal' = 0 /\ lastMonth' = NoPeriod /\ StartsFrom(b)
      /\ report' = [report EXCEPT ![r].pc = "report", ![r].last = 0, ![r].delta = 0]
      /\ UNCHANGED <<usage, month, sent, seen, overlapped>>
  BY DEF Reset, Upto
<1>3. p \in RunState /\ p.month \in 1..month /\ covered \in Int /\ doubled \in Int /\ sent \in Numbers
      /\ usage \in Numbers /\ month \in Int
  BY <1>1, <1>2 DEF MeterTyped
<1>4. b \in Nat /\ b <= InAll(usage) /\ InAll(sent) \in Nat
  <2>1. p.month \in Int
    BY <1>3
  <2> HIDE DEF p
  <2>2. Upto(usage, p.month) \in Nat /\ InAll(sent) \in Nat
    BY <1>3, <2>1, SumsAreNumbers
  <2>3. Upto(usage, p.month) <= InAll(usage)
    BY <1>3, <2>1, UptoAll
  <2> QED BY <2>2, <2>3
<1>5. covered' = b /\ doubled' \in Int /\ covered + doubled <= b + doubled' /\ doubled <= doubled'
  <2> HIDE DEF b
  <2>1. b \in Int
    BY <1>4
  <2> QED BY <1>2, <1>3, <2>1, Restarts
<1>6. PICK o : o = [pc |-> "report", month |-> p.month, last |-> 0, lastMonth |-> p.lastMonth,
                    total |-> p.total, delta |-> 0]
  OBVIOUS
<1>7. report' = [report EXCEPT ![r] = o]
  <2>1. o = [p EXCEPT !.pc = "report", !.last = 0, !.delta = 0]
    <3>1. PICK a : a = [p EXCEPT !.pc = "report"]
      OBVIOUS
    <3>2. a = [pc |-> "report", month |-> p.month, last |-> p.last, lastMonth |-> p.lastMonth,
               total |-> p.total, delta |-> p.delta]
      BY <1>3, <3>1 DEF RunState
    <3>3. PICK e : e = [a EXCEPT !.last = 0]
      OBVIOUS
    <3>4. e = [pc |-> "report", month |-> p.month, last |-> 0, lastMonth |-> p.lastMonth,
               total |-> p.total, delta |-> p.delta]
      BY <3>2, <3>3
    <3>5. o = [e EXCEPT !.delta = 0]
      BY <1>6, <3>4
    <3> QED BY <3>1, <3>3, <3>5
  <2> QED BY <1>1, <1>2, <2>1 DEF MeterTyped
<1>8. o \in RunState /\ o.pc = "report" /\ o.month = p.month /\ o.last = 0 /\ o.delta = 0
  BY <1>3, <1>6 DEF RunState
<1>9. MeterTyped' /\ report'[r] = o /\ \A q \in Reporters : q # r => report'[q] = report[q]
  <2>1. sent' \in Numbers /\ covered' \in Int /\ doubled' \in Int /\ lastTotal' \in Nat
        /\ lastMonth' \in (1..month) \cup {NoPeriod} /\ (lastMonth' = NoPeriod => lastTotal' = 0)
    <3> HIDE DEF b
    <3> QED BY <1>2, <1>3, <1>4, <1>5
  <2>2. o.pc # "idle" /\ o.pc # "catchup" /\ o.month \in 1..month
    BY <1>3, <1>8
  <2> HIDE DEF p, b
  <2> QED BY <1>1, <1>2, <1>7, <1>8, <2>1, <2>2, RunTyped
<1>10. ASSUME ~overlapped'
       PROVE  Settled' /\ Knows(o)' /\ \A q \in Reporters : q # r => report[q].pc = "idle"
  <2>1. Knows(p) /\ \A q \in Reporters : q # r => report[q].pc = "idle"
    BY <1>2, <1>10, OneUnderWay
  <2>2. p.delta \in Int /\ (p.delta = 0 \/ covered + p.delta <= b) /\ InAll(sent) <= covered + doubled + p.delta
    BY <1>2, <1>3, <2>1 DEF Knows, Bounded, RunState
  <2>3. Upto(usage, o.month) = b
    BY <1>8
  <2> HIDE DEF p, b
  <2>4. InAll(sent) <= b + doubled' + 0
    <3>0. PICK c, e, d, x, y : c = b /\ e = p.delta /\ d = doubled' /\ x = InAll(sent) /\ y = doubled
      OBVIOUS
    <3>1. c \in Nat /\ e \in Int /\ d \in Int /\ x \in Nat /\ covered \in Int /\ y \in Int
      BY <1>3, <1>4, <1>5, <2>2, <3>0
    <3>2. (e = 0 \/ covered + e <= c) /\ x <= covered + y + e /\ covered + y <= c + d /\ y <= d
      BY <1>5, <2>2, <3>0
    <3>3. x <= c + d + 0
      BY <3>1, <3>2
    <3> QED BY <3>0, <3>3
  <2>5. Settled'
    BY <1>2, <1>4, <1>5 DEF Settled
  <2>6. Bounded(o.delta)'
    BY <1>2, <1>5, <1>8, <2>4 DEF Bounded
  <2>7. covered' = Upto(usage', o.month) + o.last
    BY <1>2, <1>4, <1>5, <1>8, <2>3
  <2> QED BY <1>8, <2>1, <2>5, <2>6, <2>7 DEF Knows
<1>11. report'[r].pc # "idle"
  BY <1>8, <1>9
<1>12. ~overlapped' => Knows(report[r])'
  BY <1>9, <1>10 DEF Knows, Bounded
<1> QED BY <1>9, <1>10, <1>11, <1>12, RunChanges

LEMMA BeginReportHolds ==
  ASSUME NEW n \in Nat, Months = 1..n, NoPeriod \notin Int, NEW r \in Reporters, NEW period \in Months,
         MeterInv, BeginReport(r, period)
  PROVE  MeterInv'
<1> DEFINE rolled == lastMonth \notin {NoPeriod, period}
           b == Upto(usage, period) + lastTotal
<1>1. MeterTyped
  BY DEF MeterInv
<1>2. PICK o : o = [pc |-> IF rolled THEN "catchup" ELSE "report", month |-> period, last |-> lastTotal,
                    lastMonth |-> lastMonth, total |-> 0, delta |-> 0]
  OBVIOUS
<1>3. /\ report[r].pc = "idle" /\ period <= month /\ report' = [report EXCEPT ![r] = o]
      /\ rolled => covered' = covered /\ doubled' = doubled
      /\ ~rolled => StartsFrom(b)
      /\ overlapped' = (overlapped \/ \E q \in Reporters : report[q].pc # "idle")
      /\ UNCHANGED <<usage, month, sent, seen, lastTotal, lastMonth>>
  BY <1>2 DEF BeginReport, Upto
<1>4. period \in 1..month /\ month \in Int /\ covered \in Int /\ doubled \in Int /\ sent \in Numbers
      /\ usage \in Numbers /\ lastTotal \in Nat /\ lastMonth \in (1..month) \cup {NoPeriod}
      /\ (lastMonth = NoPeriod => lastTotal = 0) /\ (rolled => lastMonth \in 1..month)
  BY <1>1, <1>3 DEF MeterTyped
<1>5. o \in RunState /\ o.pc = (IF rolled THEN "catchup" ELSE "report") /\ o.month = period
      /\ o.last = lastTotal /\ o.lastMonth = lastMonth /\ o.delta = 0 /\ o.pc # "idle"
  BY <1>2, <1>4 DEF RunState
<1>6. Upto(usage, period) \in Nat /\ Upto(usage, period) <= InAll(usage) /\ InAll(sent) \in Nat
      /\ InAll(usage) \in Nat
  <2>1. period \in Int
    OBVIOUS
  <2>2. Upto(usage, period) \in Nat /\ InAll(sent) \in Nat /\ InAll(usage) \in Nat
    BY <1>4, <2>1, SumsAreNumbers
  <2>3. Upto(usage, period) <= InAll(usage)
    BY <1>4, <2>1, UptoAll
  <2> QED BY <2>2, <2>3
<1>7. b \in Int
  BY <1>4, <1>6
<1>8. ~rolled => covered' = b /\ doubled' \in Int /\ covered + doubled <= b + doubled'
  <2> HIDE DEF b, rolled
  <2> QED BY <1>3, <1>4, <1>7, Restarts
<1>9. MeterTyped' /\ report'[r] = o /\ \A q \in Reporters : q # r => report'[q] = report[q]
  <2>1. covered' \in Int /\ doubled' \in Int
    <3> HIDE DEF b, rolled
    <3> QED BY <1>3, <1>4, <1>7, <1>8
  <2>2. o.month \in 1..month /\ (o.pc = "catchup" => o.lastMonth \in 1..month)
    BY <1>4, <1>5
  <2>3. sent' \in Numbers /\ lastTotal' \in Nat
        /\ lastMonth' \in (1..month) \cup {NoPeriod} /\ (lastMonth' = NoPeriod => lastTotal' = 0)
    BY <1>3, <1>4
  <2> HIDE DEF b, rolled
  <2> QED BY <1>1, <1>3, <1>5, <2>1, <2>2, <2>3, RunTyped
<1>10. ASSUME ~overlapped'
       PROVE  Settled' /\ Knows(o)' /\ \A q \in Reporters : q # r => report[q].pc = "idle"
  <2>1. ~overlapped /\ \A q \in Reporters : report[q].pc = "idle"
    BY <1>3, <1>10
  <2>2. Settled /\ Bounded(0)
    BY <2>1 DEF MeterInv
  <2>3. covered <= InAll(usage) /\ (lastMonth # NoPeriod => covered = Upto(usage, lastMonth) + lastTotal)
        /\ InAll(sent) <= covered + doubled
    <3>1. InAll(sent) <= covered + doubled + 0
      BY <2>2 DEF Bounded
    <3> QED BY <1>4, <2>2, <3>1 DEF Settled
  <2>4. CASE rolled
    <3>1. Settled'
      BY <1>3, <2>2, <2>4 DEF Settled
    <3>2. Bounded(o.delta)'
      BY <1>3, <1>5, <2>2, <2>4 DEF Bounded
    <3>3. covered' = Upto(usage', o.lastMonth) + o.last
      BY <1>3, <1>4, <1>5, <2>3, <2>4
    <3> QED BY <1>5, <2>1, <2>4, <3>1, <3>2, <3>3 DEF Knows
  <2>5. CASE ~rolled
    <3>1. b <= InAll(usage) /\ (lastMonth # NoPeriod => b = Upto(usage, lastMonth) + lastTotal)
      <4>1. CASE lastMonth = NoPeriod
        BY <1>4, <1>6, <4>1
      <4>2. CASE lastMonth = period
        BY <2>3, <4>2
      <4> QED BY <2>5, <4>1, <4>2
    <3>2. covered' = Upto(usage', o.month) + o.last /\ o.pc = "report"
      BY <1>3, <1>5, <1>8, <2>5
    <3> HIDE DEF b, rolled
    <3>3. InAll(sent) <= b + doubled' + 0
      BY <1>4, <1>6, <1>7, <1>8, <2>3, <2>5
    <3>4. Bounded(o.delta)'
      BY <1>3, <1>5, <1>8, <2>5, <3>3 DEF Bounded
    <3>5. Settled'
      BY <1>3, <1>8, <2>5, <3>1 DEF Settled
    <3> QED BY <1>5, <2>1, <3>2, <3>4, <3>5 DEF Knows
  <2> QED BY <2>4, <2>5
<1>11. ~overlapped' => Knows(report[r])'
  BY <1>9, <1>10 DEF Knows, Bounded
<1>12. report'[r].pc # "idle"
  BY <1>5, <1>9
<1> QED BY <1>9, <1>10, <1>11, <1>12, RunChanges

\* A run that ends without having sent anything.
LEMMA Stops ==
  ASSUME NEW r \in Reporters, MeterInv, report[r].pc \in {"catchup", "report"},
         report' = [report EXCEPT ![r] = Idle],
         UNCHANGED <<usage, month, sent, seen, lastTotal, lastMonth, overlapped, covered, doubled>>
  PROVE  MeterInv'
<1>1. MeterTyped
  BY DEF MeterInv
<1>2. MeterTyped' /\ report'[r] = Idle /\ \A q \in Reporters : q # r => report'[q] = report[q]
  <2>1. sent' \in Numbers /\ covered' \in Int /\ doubled' \in Int /\ lastTotal' \in Nat
        /\ lastMonth' \in (1..month) \cup {NoPeriod} /\ (lastMonth' = NoPeriod => lastTotal' = 0)
    BY <1>1 DEF MeterTyped
  <2> QED BY <1>1, <2>1, IdleTyped, RunTyped
<1>3. ASSUME ~overlapped'
      PROVE  Settled' /\ Bounded(0)' /\ \A q \in Reporters : q # r => report[q].pc = "idle"
  <2>1. Settled /\ Knows(report[r]) /\ \A q \in Reporters : q # r => report[q].pc = "idle"
    BY <1>3, OneUnderWay
  <2>2. Bounded(0)
    BY <2>1 DEF Knows
  <2> QED BY <2>1, <2>2, Remembered
<1> QED BY <1>2, <1>3, IdleTyped, RunChanges

\* An event is sent: what it adds is pending, or lost and may go twice.
LEMMA Sends ==
  ASSUME NEW n \in Nat, Months = 1..n, NEW r \in Reporters, MeterInv, report[r].pc \in {"catchup", "report"},
         NEW opens, NEW stamp \in Months, NEW delta \in Nat, NEW total \in Nat,
         NEW outcome \in {"taken", "lost", "refused"},
         NEW after \in {"save", "reset"}, Report(r, opens, stamp, delta, total, outcome, after),
         UNCHANGED <<usage, month, seen, lastTotal, lastMonth>>,
         ~overlapped /\ after = "save" => /\ covered + delta <= Upto(usage, report[r].month) + total
                                       /\ Upto(usage, report[r].month) + total <= InAll(usage),
         ~overlapped /\ after = "reset" => covered + delta <= Upto(usage, report[r].month)
  PROVE  MeterInv'
<1> DEFINE p == report[r]
           counts == <<opens, total>> \notin ids /\ outcome # "refused"
<1>1. MeterTyped
  BY DEF MeterInv
<1>2. /\ sent' = IF counts THEN [sent EXCEPT ![stamp] = @ + delta] ELSE sent
      /\ report' = [report EXCEPT ![r] = IF counts /\ outcome = "taken"
                                         THEN [p EXCEPT !.pc = after, !.total = total, !.delta = delta] ELSE Idle]
      /\ doubled' = IF counts /\ outcome = "lost" THEN doubled + delta ELSE doubled
      /\ UNCHANGED <<overlapped, covered>>
  BY <1>1 DEF Report, MeterTyped
<1>3. p \in RunState /\ p.month \in 1..month /\ covered \in Int /\ doubled \in Int /\ sent \in Numbers
      /\ month \in Int /\ lastTotal \in Nat /\ lastMonth \in (1..month) \cup {NoPeriod}
      /\ (lastMonth = NoPeriod => lastTotal = 0)
  BY <1>1 DEF MeterTyped
<1>4. ~overlapped => Settled /\ Knows(p) /\ \A q \in Reporters : q # r => report[q].pc = "idle"
  BY OneUnderWay
<1>5. ~overlapped => InAll(sent) <= covered + doubled + 0
  BY <1>4 DEF Knows, Bounded
<1>0. IsFiniteSet(Months) /\ Months \in SUBSET Int
  BY FS_Interval
<1>6. counts => sent' \in Numbers /\ InAll(sent') = InAll(sent) + delta
  <2> DEFINE g == [sent EXCEPT ![stamp] = @ + delta]
  <2>1. PICK s : s = g
    OBVIOUS
  <2> HIDE DEF counts
  <2>2. s \in Numbers /\ InAll(s) = InAll(sent) + delta
    <3>1. PICK t : t = sent
      OBVIOUS
    <3>2. t \in Numbers
      BY <1>3, <3>1
    <3>3. s = [t EXCEPT ![stamp] = @ + delta]
      BY <2>1, <3>1
    <3> HIDE DEF p
    <3>4. /\ s \in Numbers /\ delta \in Int /\ (\A k \in Months : t[k] \in Int)
          /\ s[stamp] = t[stamp] + delta /\ \A k \in Months \ {stamp} : t[k] = s[k]
      BY <3>2, <3>3 DEF Numbers
    <3>5. InAll(s) = InAll(t) + delta
      BY <1>0, <3>2, <3>4, MoreInAll
    <3> QED BY <3>1, <3>4, <3>5
  <2>3. counts => sent' = s
    BY <1>2, <2>1
  <2> QED BY <2>2, <2>3
<1>7. InAll(sent) \in Nat
  BY <1>3, SumsAreNumbers
<1> HIDE DEF counts
<1>8. CASE ~counts
  <2>1. report' = [report EXCEPT ![r] = Idle] /\ sent' = sent /\ doubled' = doubled
    BY <1>2, <1>8
  <2> QED BY <1>2, <2>1, Stops
<1>9. CASE counts /\ outcome = "taken"
  <2>1. PICK o : o = [pc |-> after, month |-> p.month, last |-> p.last, lastMonth |-> p.lastMonth,
                      total |-> total, delta |-> delta]
    OBVIOUS
  <2>2. o \in RunState /\ o.pc = after /\ o.month = p.month /\ o.total = total /\ o.delta = delta
    BY <1>3, <2>1 DEF RunState
  <2>3. report' = [report EXCEPT ![r] = o]
    <3>1. PICK a : a = [p EXCEPT !.pc = after]
      OBVIOUS
    <3>2. a = [pc |-> after, month |-> p.month, last |-> p.last, lastMonth |-> p.lastMonth,
               total |-> p.total, delta |-> p.delta]
      BY <1>3, <3>1 DEF RunState
    <3>3. PICK e : e = [a EXCEPT !.total = total]
      OBVIOUS
    <3>4. e = [pc |-> after, month |-> p.month, last |-> p.last, lastMonth |-> p.lastMonth,
               total |-> total, delta |-> p.delta]
      BY <3>2, <3>3
    <3>5. o = [e EXCEPT !.delta = delta]
      BY <2>1, <3>4
    <3>6. o = [p EXCEPT !.pc = after, !.total = total, !.delta = delta]
      BY <3>1, <3>3, <3>5
    <3> QED BY <1>2, <1>9, <3>6
  <2>4. sent' \in Numbers /\ InAll(sent') = InAll(sent) + delta /\ doubled' = doubled
    BY <1>2, <1>6, <1>9
  <2>5. MeterTyped' /\ report'[r] = o /\ \A q \in Reporters : q # r => report'[q] = report[q]
    <3>1. covered' \in Int /\ doubled' \in Int /\ lastTotal' \in Nat /\ o.month \in 1..month
          /\ lastMonth' \in (1..month) \cup {NoPeriod} /\ (lastMonth' = NoPeriod => lastTotal' = 0)
          /\ o.pc # "idle" /\ o.pc # "catchup"
      BY <1>2, <1>3, <2>2, <2>4
    <3> HIDE DEF p
    <3> QED BY <1>1, <2>2, <2>3, <2>4, <3>1, RunTyped
  <2>6. ASSUME ~overlapped'
        PROVE  Settled' /\ Knows(o)' /\ \A q \in Reporters : q # r => report[q].pc = "idle"
    <3>1. Settled /\ ~overlapped /\ \A q \in Reporters : q # r => report[q].pc = "idle"
      BY <1>2, <1>4, <2>6
    <3>2. Settled'
      BY <1>2, <3>1 DEF Settled
    <3>3. InAll(sent') <= covered + doubled + delta
      BY <1>3, <1>5, <1>7, <2>4, <3>1
    <3>4. Bounded(o.delta)'
      BY <1>2, <2>2, <2>4, <3>3 DEF Bounded
    <3>5. /\ o.pc = "save" => /\ covered + o.delta <= Upto(usage, o.month) + o.total
                              /\ Upto(usage, o.month) + o.total <= InAll(usage)
          /\ o.pc = "reset" => covered + o.delta <= Upto(usage, o.month)
      BY <2>2, <3>1
    <3>6. usage' = usage /\ covered' = covered /\ o.pc \in {"save", "reset"}
      BY <1>2, <2>2
    <3> QED BY <3>1, <3>2, <3>4, <3>5, <3>6 DEF Knows
  <2>7. ~overlapped' => Knows(report[r])'
    BY <2>5, <2>6 DEF Knows, Bounded
  <2>8. report'[r].pc # "idle"
    BY <2>2, <2>5
  <2> QED BY <2>5, <2>6, <2>7, <2>8, RunChanges
<1>10. CASE counts /\ outcome # "taken"
  <2>1. report' = [report EXCEPT ![r] = Idle] /\ sent' \in Numbers /\ InAll(sent') = InAll(sent) + delta
    BY <1>2, <1>6, <1>10
  <2>2. MeterTyped' /\ report'[r] = Idle /\ \A q \in Reporters : q # r => report'[q] = report[q]
    <3>1. covered' \in Int /\ doubled' \in Int /\ lastTotal' \in Nat
          /\ lastMonth' \in (1..month) \cup {NoPeriod} /\ (lastMonth' = NoPeriod => lastTotal' = 0)
      BY <1>2, <1>3
    <3> QED BY <1>1, <2>1, <3>1, IdleTyped, RunTyped
  <2>3. ASSUME ~overlapped'
        PROVE  Settled' /\ Bounded(0)' /\ \A q \in Reporters : q # r => report[q].pc = "idle"
    <3>1. Settled /\ ~overlapped /\ \A q \in Reporters : q # r => report[q].pc = "idle"
      BY <1>2, <1>4, <2>3
    <3>2. Settled'
      BY <1>2, <3>1 DEF Settled
    <3>3. doubled' = doubled + delta
      <4>1. outcome = "lost"
        BY <1>10 DEF counts
      <4> QED BY <1>2, <1>10, <4>1
    <3>4. InAll(sent') <= covered + doubled' + 0
      BY <1>3, <1>5, <1>7, <2>1, <3>1, <3>3
    <3>5. Bounded(0)'
      BY <1>2, <3>4 DEF Bounded
    <3> QED BY <3>1, <3>2, <3>5
  <2> QED BY <2>2, <2>3, IdleTyped, RunChanges
<1> QED BY <1>8, <1>9, <1>10

LEMMA CatchUpHolds ==
  ASSUME NEW n \in Nat, Months = 1..n, NoPeriod \notin Int, NEW r \in Reporters,
         NEW outcome \in {"taken", "lost", "refused"}, MeterInv, CatchUp(r, outcome)
  PROVE  MeterInv'
<1> DEFINE p     == report[r]
           old   == p.lastMonth
           total == SumOver(usage, old, p.month)
           shown == SumOver(seen, old, p.month)
           floor == IF shown > p.last THEN shown ELSE p.last
           delta == total - floor
<1>1. MeterTyped
  BY DEF MeterInv
<1>2. /\ p.pc = "catchup" /\ UNCHANGED <<usage, month, seen, lastTotal, lastMonth, reports>>
      /\ IF delta > 0 THEN Report(r, old, p.month, delta, total, outcome, "reset")
         ELSE report' = [report EXCEPT ![r].pc = "reset"] /\ UNCHANGED <<sent, ids, tally, losses>>
  BY DEF CatchUp
<1>3. p \in RunState /\ p.month \in 1..month /\ old \in 1..month /\ usage \in Numbers /\ seen \in Numbers
      /\ month \in Months /\ covered \in Int
  BY <1>1, <1>2 DEF MeterTyped
<1>4. p.last \in Nat /\ p.month \in Int /\ old \in Int /\ p.month \in Months /\ 1 <= old
  BY <1>3 DEF RunState
<1>5. /\ total \in Nat /\ shown \in Nat /\ Upto(usage, old) \in Nat
      /\ p.month <= old => total = 0
      /\ old <= p.month => Upto(usage, p.month) = Upto(usage, old) + total
  <2> DEFINE k == p.month
  <2>1. k \in Int /\ old \in Int /\ 1 <= old
    BY <1>4
  <2> HIDE DEF p, k, old
  <2>2. /\ SumOver(usage, old, k) \in Nat /\ SumOver(seen, old, k) \in Nat /\ Upto(usage, old) \in Nat
        /\ k <= old => SumOver(usage, old, k) = 0
        /\ old <= k => Upto(usage, k) = Upto(usage, old) + SumOver(usage, old, k)
    <3>1. SumOver(usage, old, k) \in Nat /\ SumOver(seen, old, k) \in Nat /\ Upto(usage, old) \in Nat
      BY <1>3, <2>1, SumsAreNumbers
    <3>2. k <= old => SumOver(usage, old, k) = 0
      BY <1>3, <2>1, NothingBetween
    <3>3. old <= k => Upto(usage, k) = Upto(usage, old) + SumOver(usage, old, k)
      BY <1>3, <2>1, UptoAdds
    <3> QED BY <3>1, <3>2, <3>3
  <2> QED BY <2>2 DEF k, old
<1>6. ~overlapped => Settled /\ Knows(p) /\ \A q \in Reporters : q # r => report[q].pc = "idle"
  BY <1>2, OneUnderWay
<1>7. ~overlapped => p.delta = 0 /\ covered = Upto(usage, old) + p.last
  BY <1>2, <1>6 DEF Knows
<1>8. CASE delta > 0
  <2>1. delta \in Nat /\ total > p.last /\ delta <= total - p.last
    <3> HIDE DEF p, total, shown
    <3> QED BY <1>4, <1>5, <1>8
  <2>2. ~overlapped => covered + delta <= Upto(usage, p.month)
    <3>1. old <= p.month
      <4> HIDE DEF p, total, shown, delta
      <4> QED BY <1>4, <1>5, <2>1
    <3>2. Upto(usage, p.month) = Upto(usage, old) + total
      BY <1>5, <3>1
    <3> DEFINE b == Upto(usage, old)
    <3> HIDE DEF p, total, shown, delta, old, b
    <3>3. b \in Nat /\ Upto(usage, p.month) = b + total /\ (~overlapped => covered = b + p.last)
      BY <1>5, <1>7, <3>2 DEF b
    <3> QED BY <1>4, <1>5, <2>1, <3>3
  <2>3. /\ Report(r, old, p.month, delta, total, outcome, "reset")
        /\ UNCHANGED <<usage, month, seen, lastTotal, lastMonth>>
    BY <1>2, <1>8
  <2> DEFINE k == p.month
  <2> HIDE DEF total, delta, shown, old, k
  <2>4. /\ Report(r, old, k, delta, total, outcome, "reset") /\ k \in Months /\ report[r].pc = "catchup"
        /\ delta \in Nat /\ total \in Nat /\ (~overlapped => covered + delta <= Upto(usage, report[r].month))
    BY <1>2, <1>4, <1>5, <2>1, <2>2, <2>3 DEF k
  <2> HIDE DEF p
  <2> QED BY <2>3, <2>4, Sends
<1>9. CASE ~(delta > 0)
  <2>1. report' = [report EXCEPT ![r].pc = "reset"]
        /\ UNCHANGED <<usage, month, sent, seen, lastTotal, lastMonth, overlapped, covered, doubled>>
    BY <1>2, <1>9 DEF tally
  <2> HIDE DEF total, delta, shown
  <2>2. PICK o : o = [pc |-> "reset", month |-> p.month, last |-> p.last, lastMonth |-> p.lastMonth,
                      total |-> p.total, delta |-> p.delta]
    OBVIOUS
  <2>3. o \in RunState /\ o.pc = "reset" /\ o.month = p.month /\ o.delta = p.delta
    BY <1>3, <2>2 DEF RunState
  <2>4. report' = [report EXCEPT ![r] = o]
    <3>1. o = [p EXCEPT !.pc = "reset"]
      BY <1>3, <2>2 DEF RunState
    <3> QED BY <1>1, <2>1, <3>1 DEF MeterTyped
  <2>5. MeterTyped' /\ report'[r] = o /\ \A q \in Reporters : q # r => report'[q] = report[q]
    <3>1. sent' \in Numbers /\ covered' \in Int /\ doubled' \in Int /\ lastTotal' \in Nat
          /\ lastMonth' \in (1..month) \cup {NoPeriod} /\ (lastMonth' = NoPeriod => lastTotal' = 0)
      BY <1>1, <2>1 DEF MeterTyped
    <3>2. o.month \in 1..month /\ o.pc # "catchup" /\ usage' = usage /\ seen' = seen /\ month' = month
      BY <1>3, <2>1, <2>3
    <3> HIDE DEF p, old
    <3> QED BY <1>1, <2>3, <2>4, <3>1, <3>2, RunTyped
  <2>6. ASSUME ~overlapped'
        PROVE  Settled' /\ Knows(o)' /\ \A q \in Reporters : q # r => report[q].pc = "idle"
    <3>1. Settled /\ Knows(p) /\ p.delta = 0 /\ \A q \in Reporters : q # r => report[q].pc = "idle"
      BY <1>6, <1>7, <2>1, <2>6
    <3>2. Knows(o)
      BY <2>3, <3>1 DEF Knows
    <3> QED BY <2>1, <3>1, <3>2, Remembered
  <2>7. ~overlapped' => Knows(report[r])'
    BY <2>5, <2>6 DEF Knows, Bounded
  <2>8. report'[r].pc # "idle"
    BY <2>3, <2>5
  <2> QED BY <2>5, <2>6, <2>7, <2>8, RunChanges
<1> QED BY <1>8, <1>9

LEMMA ReportPeriodHolds ==
  ASSUME NEW n \in Nat, Months = 1..n, NoPeriod \notin Int, NEW r \in Reporters,
         NEW outcome \in {"taken", "lost", "refused"}, MeterInv, ReportPeriod(r, outcome)
  PROVE  MeterInv'
<1> DEFINE p     == report[r]
           opens == p.month
           total == SumOver(usage, opens, month + 1)
           shown == SumOver(seen, opens, month + 1)
           delta == total - Baseline(shown, p.last)
<1>1. MeterTyped
  BY DEF MeterInv
<1>2. /\ p.pc = "report" /\ UNCHANGED <<usage, month, seen, lastTotal, lastMonth, reports>>
      /\ IF delta > 0 THEN Report(r, opens, month, delta, total, outcome, "save")
         ELSE report' = [report EXCEPT ![r] = Idle] /\ UNCHANGED <<sent, ids, tally, losses>>
  BY DEF ReportPeriod
<1>3. p \in RunState /\ opens \in 1..month /\ usage \in Numbers /\ seen \in Numbers
      /\ month \in Months /\ covered \in Int
  BY <1>1, <1>2 DEF MeterTyped
<1>4. p.last \in Nat /\ opens \in Int /\ month + 1 \in Int /\ 1 <= opens /\ opens <= month + 1
  BY <1>3 DEF RunState
<1>5. /\ total \in Nat /\ shown \in Nat /\ Upto(usage, opens) \in Nat /\ InAll(usage) \in Nat
      /\ Upto(usage, opens) + total <= InAll(usage)
  <2> DEFINE j == month + 1
  <2>1. opens \in Int /\ j \in Int /\ 1 <= opens /\ opens <= j
    BY <1>4
  <2> HIDE DEF p, opens, j
  <2>2. /\ SumOver(usage, opens, j) \in Nat /\ SumOver(seen, opens, j) \in Nat /\ Upto(usage, opens) \in Nat
        /\ InAll(usage) \in Nat /\ Upto(usage, j) <= InAll(usage)
        /\ Upto(usage, j) = Upto(usage, opens) + SumOver(usage, opens, j)
    <3>1. SumOver(usage, opens, j) \in Nat /\ SumOver(seen, opens, j) \in Nat /\ Upto(usage, opens) \in Nat
          /\ InAll(usage) \in Nat
      BY <1>3, <2>1, SumsAreNumbers
    <3>2. Upto(usage, j) <= InAll(usage)
      BY <1>3, <2>1, UptoAll
    <3>3. Upto(usage, j) = Upto(usage, opens) + SumOver(usage, opens, j)
      BY <1>3, <2>1, UptoAdds
    <3> QED BY <3>1, <3>2, <3>3
  <2>3. Upto(usage, opens) + SumOver(usage, opens, j) <= InAll(usage)
    BY <2>2
  <2> QED BY <2>2, <2>3 DEF j, opens
<1>6. ~overlapped => covered = Upto(usage, opens) + p.last
  <2>1. ~overlapped => Knows(p)
    BY <1>2, OneUnderWay
  <2> QED BY <1>2, <2>1 DEF Knows
<1>7. CASE delta > 0
  <2>1. delta \in Nat /\ delta <= total - p.last
    <3> HIDE DEF p, total, shown
    <3> QED BY <1>4, <1>5, <1>7 DEF Baseline
  <2>2. ~overlapped => covered + delta <= Upto(usage, opens) + total
    <3> DEFINE b == Upto(usage, opens)
    <3> HIDE DEF p, total, shown, delta, opens, b
    <3>1. b \in Nat /\ (~overlapped => covered = b + p.last)
      BY <1>5, <1>6 DEF b
    <3>2. ~overlapped => covered + delta <= b + total
      BY <1>4, <1>5, <2>1, <3>1
    <3> QED BY <3>2 DEF b
  <2>3. /\ Report(r, opens, month, delta, total, outcome, "save")
        /\ UNCHANGED <<usage, month, seen, lastTotal, lastMonth>>
    BY <1>2, <1>7
  <2> HIDE DEF total, delta, shown
  <2>4. /\ report[r].pc = "report" /\ delta \in Nat /\ total \in Nat /\ month \in Months
        /\ ~overlapped => /\ covered + delta <= Upto(usage, report[r].month) + total
                          /\ Upto(usage, report[r].month) + total <= InAll(usage)
    BY <1>2, <1>3, <1>5, <2>1, <2>2
  <2> HIDE DEF p, opens
  <2> QED BY <2>3, <2>4, Sends
<1>8. CASE ~(delta > 0)
  <2>1. report' = [report EXCEPT ![r] = Idle]
        /\ UNCHANGED <<usage, month, sent, seen, lastTotal, lastMonth, overlapped, covered, doubled>>
    BY <1>2, <1>8 DEF tally
  <2> QED BY <1>2, <2>1, Stops
<1> QED BY <1>7, <1>8

LEMMA MeterBegins ==
  ASSUME NEW n \in Nat \ {0}, Months = 1..n, UsageInit
  PROVE  MeterInv
<1>1. 1 \in Months
  OBVIOUS
<1>2. \A r \in Reporters : report[r].pc = "idle"
  BY DEF UsageInit, Idle
<1>3. MeterTyped
  BY <1>1, <1>2, IdleTyped DEF MeterTyped, Numbers, UsageInit
<1>4. InAll(sent) = 0 /\ InAll(usage) = 0
  <2>1. IsFiniteSet(Months) /\ (\A k \in Months : sent[k] = 0) /\ (\A k \in Months : usage[k] = 0)
    BY FS_Interval DEF UsageInit
  <2>2. IsFiniteSet(Months) /\ \A k \in Months : sent[k] = 0
    BY <2>1
  <2>3. Total(sent, Months) = 0
    BY <2>2, TotalOfZeros
  <2>4. usage = sent
    BY DEF UsageInit
  <2> QED BY <2>3, <2>4 DEF InAll, Total
<1>5. Settled /\ Bounded(0)
  BY <1>4 DEF Settled, Bounded, UsageInit
<1> QED BY <1>2, <1>3, <1>5 DEF MeterInv, Alone

LEMMA MeterStep ==
  ASSUME NEW n \in Nat, Months = 1..n, NoPeriod \notin Int, MeterInv, [UsageNext]_meterVars
  PROVE  MeterInv'
<1>1. CASE UsageNext
  <2>1. ASSUME Use \/ NextMonth PROVE MeterInv'
    BY <2>1, UseHolds, NextMonthHolds
  <2>2. ASSUME NEW k \in Months, Processed(k) PROVE MeterInv'
    BY <2>2, ProcessedHolds
  <2>3. ASSUME NEW r \in Reporters, NEW period \in Months, BeginReport(r, period) PROVE MeterInv'
    BY <2>3, BeginReportHolds
  <2>4. ASSUME NEW r \in Reporters, Reset(r) \/ Save(r) \/ Die(r) PROVE MeterInv'
    BY <2>4, ResetHolds, SaveHolds, DieHolds
  <2>5. ASSUME NEW r \in Reporters, NEW outcome \in {"taken", "lost", "refused"},
               CatchUp(r, outcome) \/ ReportPeriod(r, outcome)
        PROVE  MeterInv'
    BY <2>5, CatchUpHolds, ReportPeriodHolds
  <2> QED BY <1>1, <2>1, <2>2, <2>3, <2>4, <2>5 DEF UsageNext
<1>2. CASE UNCHANGED meterVars
  <2>1. UNCHANGED <<usage, month, sent, seen, lastTotal, lastMonth, report, overlapped, covered, doubled>>
    BY <1>2 DEF meterVars, tally
  <2>2. MeterTyped'
    BY <2>1 DEF MeterInv, MeterTyped
  <2> QED BY <2>1, <2>2, AroundRuns
<1> QED BY <1>1, <1>2

LEMMA NoMoreThanUsed ==
  ASSUME NEW n \in Nat, Months = 1..n, MeterInv PROVE NotOverbilled
<1> SUFFICES ASSUME ~overlapped PROVE InAll(sent) <= InAll(usage) + doubled
  BY DEF NotOverbilled
<1>1. MeterTyped /\ Alone /\ Settled
  BY DEF MeterInv
<1>2. covered \in Int /\ doubled \in Int /\ usage \in Numbers /\ sent \in Numbers
  BY <1>1 DEF MeterTyped
<1>3. InAll(usage) \in Nat /\ InAll(sent) \in Nat /\ covered <= InAll(usage)
  <2>1. InAll(usage) \in Nat /\ InAll(sent) \in Nat
    BY <1>2, SumsAreNumbers
  <2> QED BY <1>1, <2>1 DEF Settled
<1>4. CASE \A r \in Reporters : report[r].pc = "idle"
  <2>1. InAll(sent) <= covered + doubled + 0
    BY <1>4 DEF MeterInv, Bounded
  <2> QED BY <1>2, <1>3, <2>1
<1>5. ASSUME NEW r \in Reporters, report[r].pc # "idle" PROVE InAll(sent) <= InAll(usage) + doubled
  <2> DEFINE p == report[r]
  <2>1. Knows(p) /\ p \in RunState /\ p.month \in 1..month /\ month \in Int
    BY <1>1, <1>5 DEF MeterInv, MeterTyped
  <2>2. p.delta \in Int /\ p.pc \in {"catchup", "reset", "report", "save"} /\ p.month \in Int /\ p.total \in Nat
    BY <1>5, <2>1 DEF RunState
  <2> HIDE DEF p
  <2>3. Upto(usage, p.month) \in Nat /\ Upto(usage, p.month) <= InAll(usage)
    <3>1. Upto(usage, p.month) \in Nat
      BY <1>2, <2>2, SumsAreNumbers
    <3>2. Upto(usage, p.month) <= InAll(usage)
      BY <1>2, <2>2, UptoAll
    <3> QED BY <3>1, <3>2
  <2>4. InAll(sent) <= covered + doubled + p.delta /\ (p.delta = 0 \/ covered + p.delta <= InAll(usage))
    <3>1. InAll(sent) <= covered + doubled + p.delta
      BY <2>1 DEF Knows, Bounded
    <3>2. CASE p.pc \in {"catchup", "report"}
      BY <2>1, <3>1, <3>2 DEF Knows
    <3>3. CASE p.pc = "reset"
      <4>1. p.delta = 0 \/ covered + p.delta <= Upto(usage, p.month)
        BY <2>1, <3>3 DEF Knows
      <4> QED BY <1>2, <1>3, <2>2, <2>3, <3>1, <4>1
    <3>4. CASE p.pc = "save"
      <4>1. covered + p.delta <= Upto(usage, p.month) + p.total /\ Upto(usage, p.month) + p.total <= InAll(usage)
        BY <2>1, <3>4 DEF Knows
      <4> QED BY <1>2, <1>3, <2>2, <2>3, <3>1, <4>1
    <3> QED BY <2>2, <3>2, <3>3, <3>4
  <2> QED BY <1>2, <1>3, <2>2, <2>4
<1> QED BY <1>4, <1>5

\* However far Stripe's summary lags, whatever is lost and whichever period a run
\* is given, no more is billed than was used and what may have been sent twice,
\* until two runs overlap.
THEOREM NotOverbilledHolds ==
  ASSUME NEW n \in Nat \ {0}, Months = 1..n, NoPeriod \notin Int
  PROVE  UsageSpec => []NotOverbilled
<1>1. UsageInit => MeterInv
  BY MeterBegins
<1>2. MeterInv /\ [UsageNext]_meterVars => MeterInv'
  <2>1. n \in Nat
    OBVIOUS
  <2> QED BY <2>1, MeterStep
<1>3. MeterInv => NotOverbilled
  <2>1. n \in Nat
    OBVIOUS
  <2> QED BY <2>1, NoMoreThanUsed
<1> QED BY <1>1, <1>2, <1>3, PTL DEF UsageSpec

------------------------------------------------------------------------------
(***************************************************************************)
(* Rate limits.  The key of the window in progress counts what was let     *)
(* through and what the requests under way have added and may take back.   *)
(***************************************************************************)
Check == [window : Windows, cost : Costs, at : {"incr", "expire", "decr"}, new : Int]
Key   == [n : Int, until : Int \cup {Unset}]

RateTyped == /\ hour \in 0..MaxClock
             /\ counter \in [Windows -> Key \cup {Unset}]
             /\ checks \in [Requests -> Check \cup {Unset}]
             /\ admitted \in [Windows -> Nat]

\* Of the requests under way: what one has added, and what it may still let through.
AddedBy(c, w)  == IF c # Unset /\ c.window = w /\ c.at \in {"expire", "decr"} THEN c.cost ELSE 0
HopedBy(c, w)  == IF c # Unset /\ c.window = w /\ c.at = "expire" /\ c.new <= Capacity THEN c.cost ELSE 0
AllAdded(w)  == Total([r \in Requests |-> AddedBy(checks[r], w)], Requests)
AllHoped(w)  == Total([r \in Requests |-> HopedBy(checks[r], w)], Requests)
CountedIn(w)   == IF counter[w] = Unset THEN 0 ELSE counter[w].n
Current      == hour \div Window

RateInv ==
  /\ RateTyped /\ WithinCapacity
  /\ \A r \in Requests : checks[r] # Unset => checks[r].window <= Current
  /\ \A w \in Windows : w > Current => counter[w] = Unset /\ admitted[w] = 0
  /\ counter[Current] # Unset => counter[Current].until = Unset \/ counter[Current].until >= Current * Window + Window
  /\ admitted[Current] + AllAdded(Current) <= CountedIn(Current)
  /\ admitted[Current] + AllHoped(Current) <= Capacity

RateConstants == /\ IsFiniteSet(Requests) /\ Costs \subseteq Nat /\ Capacity \in Nat
                 /\ Window \in Nat \ {0} /\ MaxClock \in Nat
                 /\ Unset \notin Int /\ Unset \notin Check /\ Unset \notin Key

LEMMA Divided ==
  ASSUME NEW x \in Nat, NEW w \in Nat \ {0}
  PROVE  /\ x \div w \in Nat /\ (x \div w) * w <= x /\ x < (x \div w) * w + w
         /\ (x + 1) \div w \in {x \div w, (x \div w) + 1}
OBVIOUS

LEMMA DividedMore ==
  ASSUME NEW x \in Nat, NEW y \in Nat, x <= y, NEW w \in Nat \ {0} PROVE x \div w <= y \div w
OBVIOUS

LEMMA CurrentIs ==
  ASSUME RateConstants, hour \in 0..MaxClock
  PROVE  /\ Current \in Windows /\ Current \in Nat /\ Windows \subseteq Nat
         /\ Current * Window <= hour /\ hour < Current * Window + Window
<1>1. hour \in Nat /\ MaxClock \in Nat /\ Window \in Nat \ {0} /\ hour <= MaxClock
  BY DEF RateConstants
<1>2. Current \in Nat /\ MaxClock \div Window \in Nat /\ Current * Window <= hour /\ hour < Current * Window + Window
  BY <1>1, Divided DEF Current
<1>3. Current <= MaxClock \div Window
  BY <1>1, DividedMore DEF Current
<1> QED BY <1>2, <1>3 DEF Windows

LEMMA WeightsTyped ==
  ASSUME RateConstants, NEW c \in Check \cup {Unset}, NEW w
  PROVE  AddedBy(c, w) \in Nat /\ HopedBy(c, w) \in Nat /\ HopedBy(c, w) <= AddedBy(c, w)
<1>1. c # Unset => c.cost \in Nat
  BY DEF Check, RateConstants
<1> QED BY <1>1 DEF AddedBy, HopedBy

LEMMA SumsTyped ==
  ASSUME RateConstants, RateTyped, NEW w
  PROVE  AllAdded(w) \in Int /\ AllHoped(w) \in Int /\ AllHoped(w) <= AllAdded(w) /\ AllHoped(w) >= 0
<1> DEFINE F == [r \in Requests |-> HopedBy(checks[r], w)]
           G == [r \in Requests |-> AddedBy(checks[r], w)]
           zero == [r \in Requests |-> 0]
<1>1. \A r \in Requests : checks[r] \in Check \cup {Unset}
  BY DEF RateTyped
<1>2. \A r \in Requests : F[r] \in Nat /\ G[r] \in Nat /\ F[r] <= G[r]
  BY <1>1, WeightsTyped
<1>0. \A r \in Requests : zero[r] = 0
  OBVIOUS
<1>3. IsFiniteSet(Requests)
  BY DEF RateConstants
<1> HIDE DEF F, G, zero
<1>4. Total(F, Requests) <= Total(G, Requests) /\ Total(F, Requests) \in Int /\ Total(G, Requests) \in Int
  BY <1>2, <1>3, TotalLess
<1>5. Total(zero, Requests) = 0
  BY <1>0, <1>3, TotalOfZeros
<1>6. Total(zero, Requests) <= Total(F, Requests)
  <2>1. \A r \in Requests : zero[r] \in Int /\ F[r] \in Int /\ zero[r] <= F[r]
    <3> SUFFICES ASSUME NEW r \in Requests PROVE zero[r] \in Int /\ F[r] \in Int /\ zero[r] <= F[r]
      OBVIOUS
    <3> QED BY <1>0, <1>2
  <2> QED BY <1>3, <2>1, TotalLess
<1> QED BY <1>4, <1>5, <1>6 DEF AllAdded, AllHoped, F, G

AddedNext(w) == Total([q \in Requests |-> AddedBy(checks'[q], w)], Requests)
HopedNext(w) == Total([q \in Requests |-> HopedBy(checks'[q], w)], Requests)

\* A step of one request.
LEMMA SumsMove ==
  ASSUME RateConstants, RateTyped, NEW r \in Requests, NEW d \in Check \cup {Unset},
         checks' = [checks EXCEPT ![r] = d], NEW w
  PROVE  /\ AddedNext(w) = AllAdded(w) - AddedBy(checks[r], w) + AddedBy(d, w)
         /\ HopedNext(w) = AllHoped(w) - HopedBy(checks[r], w) + HopedBy(d, w)
<1> DEFINE F == [q \in Requests |-> AddedBy(checks[q], w)]
           G == [q \in Requests |-> AddedBy(checks'[q], w)]
           H == [q \in Requests |-> HopedBy(checks[q], w)]
           I == [q \in Requests |-> HopedBy(checks'[q], w)]
<1>1. checks'[r] = d /\ \A q \in Requests : checks[q] \in Check \cup {Unset} /\ checks'[q] \in Check \cup {Unset}
                                            /\ (q # r => checks'[q] = checks[q])
  BY DEF RateTyped
<1>2. \A q \in Requests : F[q] \in Int /\ G[q] \in Int /\ H[q] \in Int /\ I[q] \in Int
  BY <1>1, WeightsTyped
<1>3. \A q \in Requests \ {r} : F[q] = G[q] /\ H[q] = I[q]
  BY <1>1
<1>4. F[r] = AddedBy(checks[r], w) /\ G[r] = AddedBy(d, w) /\ H[r] = HopedBy(checks[r], w) /\ I[r] = HopedBy(d, w)
  BY <1>1
<1>5. IsFiniteSet(Requests) /\ Requests \cup {r} = Requests
  BY DEF RateConstants
<1> HIDE DEF F, G, H, I
<1>6. Total(G, Requests \cup {r}) = Total(F, Requests) + G[r] - F[r]
  <2>1. (\A q \in Requests : F[q] \in Int) /\ (\A q \in Requests \cup {r} : G[q] \in Int)
        /\ (\A q \in Requests \ {r} : F[q] = G[q])
    BY <1>2, <1>3
  <2>2. Total(G, Requests \cup {r}) = Total(F, Requests) + G[r] - (IF r \in Requests THEN F[r] ELSE 0)
    BY <1>5, <2>1, TotalGrows
  <2> QED BY <2>2
<1>7. Total(I, Requests \cup {r}) = Total(H, Requests) + I[r] - H[r]
  <2>1. (\A q \in Requests : H[q] \in Int) /\ (\A q \in Requests \cup {r} : I[q] \in Int)
        /\ (\A q \in Requests \ {r} : H[q] = I[q])
    BY <1>2, <1>3
  <2>2. Total(I, Requests \cup {r}) = Total(H, Requests) + I[r] - (IF r \in Requests THEN H[r] ELSE 0)
    BY <1>5, <2>1, TotalGrows
  <2> QED BY <2>2
<1>8. Total(F, Requests) \in Int /\ Total(H, Requests) \in Int
  BY SumsTyped DEF AllAdded, AllHoped, F, H
<1>9. Total(G, Requests) = Total(F, Requests) - F[r] + G[r] /\ Total(I, Requests) = Total(H, Requests) - H[r] + I[r]
  <2>1. Total(G, Requests \cup {r}) = Total(G, Requests) /\ Total(I, Requests \cup {r}) = Total(I, Requests)
    BY <1>5
  <2> QED BY <1>2, <1>6, <1>7, <1>8, <2>1
<1> QED BY <1>4, <1>9 DEF AllAdded, AllHoped, AddedNext, HopedNext, F, G, H, I

NoHopeNegative == RateConstants /\ RateTyped => \A w : AllHoped(w) >= 0

LEMMA HopesCount == NoHopeNegative /\ NoHopeNegative'
<1>1. NoHopeNegative
  BY SumsTyped DEF NoHopeNegative
<1>2. NoHopeNegative'
  BY <1>1, PTL
<1> QED BY <1>1, <1>2

LEMMA CheckStep ==
  ASSUME RateConstants, RateInv, hour' = hour, NEW k, k = Current, NEW r \in Requests, NEW c \in Check, c = checks[r],
         NEW d \in Check \cup {Unset}, d # Unset => d.window = c.window, checks' = [checks EXCEPT ![r] = d],
         counter' \in [Windows -> Key \cup {Unset}], admitted' \in [Windows -> Nat],
         \A w \in Windows : w # c.window => counter'[w] = counter[w] /\ admitted'[w] = admitted[w],
         c.window # k => admitted' = admitted,
         c.window = k => /\ counter'[k] # Unset => counter'[k].until = Unset \/ counter'[k].until >= k * Window + Window
                         /\ (admitted'[k] - admitted[k]) + (AddedBy(d, k) - AddedBy(c, k))
                              <= (IF counter'[k] = Unset THEN 0 ELSE counter'[k].n) - CountedIn(k)
                         /\ admitted'[k] + (AllHoped(k) - HopedBy(c, k) + HopedBy(d, k)) <= Capacity
  PROVE  RateInv'
<1>1. RateTyped /\ k \in Windows /\ k \in Nat /\ Windows \subseteq Nat /\ Capacity \in Nat /\ c # Unset
  <2>1. RateTyped /\ Capacity \in Nat /\ c # Unset
    BY DEF RateInv, RateConstants
  <2>2. hour \in 0..MaxClock
    BY <2>1 DEF RateTyped
  <2> QED BY <2>1, <2>2, CurrentIs
<1>2. RateTyped'
  BY <1>1 DEF RateTyped
<1>3. checks'[r] = d /\ \A q \in Requests : q # r => checks'[q] = checks[q]
  BY <1>1 DEF RateTyped
<1>4. Current' = k
  BY DEF Current
<1>5. \A q \in Requests : checks'[q] # Unset => checks'[q].window <= k
  BY <1>1, <1>3 DEF RateInv
<1>6. \A w \in Windows : w > k => counter'[w] = Unset /\ admitted'[w] = 0
  <2>1. c.window <= k /\ c.window \in Nat
    BY <1>1 DEF RateInv, Check
  <2>2. \A w \in Windows : w > k => w # c.window
    BY <1>1, <2>1
  <2> QED BY <2>2 DEF RateInv
<1>7. counter'[k] # Unset => counter'[k].until = Unset \/ counter'[k].until >= k * Window + Window
  BY <1>1 DEF RateInv
<1> DEFINE a == AddedBy(c, k)
           b == AddedBy(d, k)
           h == HopedBy(c, k)
           i == HopedBy(d, k)
           n == IF counter'[k] = Unset THEN 0 ELSE counter'[k].n
<1>8. AllAdded(k)' = AllAdded(k) - a + b /\ AllHoped(k)' = AllHoped(k) - h + i
  <2>1. AddedNext(k) = AllAdded(k) - AddedBy(checks[r], k) + AddedBy(d, k) /\ HopedNext(k) = AllHoped(k) - HopedBy(checks[r], k) + HopedBy(d, k)
    BY <1>1, SumsMove
  <2>2. AllAdded(k)' = AddedNext(k) /\ AllHoped(k)' = HopedNext(k)
    BY DEF AllAdded, AllHoped, AddedNext, HopedNext, AddedBy, HopedBy
  <2> QED BY <2>1, <2>2
<1>9. a \in Nat /\ b \in Nat /\ h \in Nat /\ i \in Nat /\ (c.window # k => a = 0 /\ b = 0 /\ h = 0 /\ i = 0)
  <2>1. a \in Nat /\ b \in Nat /\ h \in Nat /\ i \in Nat
    BY WeightsTyped
  <2> QED BY <1>1, <2>1 DEF AddedBy, HopedBy
<1>10. /\ AllAdded(k) \in Int /\ AllHoped(k) \in Int /\ admitted[k] \in Nat /\ admitted'[k] \in Nat
       /\ CountedIn(k) \in Int /\ n \in Int
  <2>1. AllAdded(k) \in Int /\ AllHoped(k) \in Int
    BY <1>1, SumsTyped
  <2>2. admitted[k] \in Nat /\ admitted'[k] \in Nat
    BY <1>1 DEF RateTyped
  <2>3. counter[k] \in Key \cup {Unset} /\ counter'[k] \in Key \cup {Unset}
    BY <1>1 DEF RateTyped
  <2> QED BY <2>1, <2>2, <2>3 DEF CountedIn, Key
<1>11. admitted[k] + AllAdded(k) <= CountedIn(k) /\ admitted[k] + AllHoped(k) <= Capacity
  BY DEF RateInv
<1>12. c.window # k => n = CountedIn(k) /\ admitted'[k] = admitted[k]
  BY <1>1 DEF CountedIn
<1> HIDE DEF a, b, h, i, n
<1>13. admitted'[k] + (AllAdded(k) - a + b) <= n /\ admitted'[k] + (AllHoped(k) - h + i) <= Capacity
  <2>1. CASE c.window # k
    BY <1>9, <1>10, <1>11, <1>12, <2>1
  <2>2. CASE c.window = k
    <3>1. (admitted'[k] - admitted[k]) + (b - a) <= n - CountedIn(k) /\ admitted'[k] + (AllHoped(k) - h + i) <= Capacity
      BY <2>2 DEF a, b, h, i, n
    <3> QED BY <1>9, <1>10, <1>11, <3>1
  <2> QED BY <2>1, <2>2
<1>14. admitted'[k] + AllAdded(k)' <= CountedIn(k)' /\ admitted'[k] + AllHoped(k)' <= Capacity
  <2>1. n = CountedIn(k)'
    BY DEF n, CountedIn
  <2> QED BY <1>8, <1>13, <2>1
<1>15. WithinCapacity'
  <2>1. AllHoped(k)' >= 0 /\ AllHoped(k)' \in Int
    BY <1>2, <1>8, <1>9, <1>10, HopesCount DEF NoHopeNegative, RateConstants
  <2>2. admitted'[k] <= Capacity
    BY <1>1, <1>10, <1>14, <2>1
  <2>3. \A w \in Windows : w # k => admitted'[w] = admitted[w]
    OBVIOUS
  <2> QED BY <2>2, <2>3 DEF WithinCapacity, RateInv
<1> DEFINE good == /\ admitted'[Current'] + AllAdded(Current)' <= CountedIn(Current)'
                   /\ admitted'[Current'] + AllHoped(Current)' <= Capacity
<1>16. good
  BY <1>4, <1>14 DEF AllAdded, AllHoped, CountedIn
<1> QED BY <1>2, <1>4, <1>5, <1>6, <1>7, <1>15, <1>16 DEF RateInv

\* The key of the window in progress does not run out in it.
LEMMA KeyFacts ==
  ASSUME RateConstants, RateInv, NEW k, k = Current
  PROVE  /\ k \in Windows /\ Count(k) = CountedIn(k)
         /\ \A w \in Windows : Count(w) \in Int /\ End(w) \in Int \cup {Unset}
         /\ counter[k] # Unset => KeyAlive(k)
         /\ End(k) = Unset \/ End(k) >= k * Window + Window
<1>1. RateTyped /\ hour \in 0..MaxClock /\ MaxClock \in Nat /\ Window \in Nat \ {0} /\ Unset \notin Int
  BY DEF RateInv, RateTyped, RateConstants
<1>2. k \in Windows /\ k \in Nat /\ hour < k * Window + Window /\ k * Window + Window \in Nat
  BY <1>1, CurrentIs
<1>3. \A w \in Windows : counter[w] # Unset => counter[w].n \in Int /\ counter[w].until \in Int \cup {Unset}
  BY <1>1 DEF RateTyped, Key
<1>4. counter[k] # Unset => counter[k].until = Unset \/ counter[k].until >= k * Window + Window
  BY DEF RateInv
<1>5. counter[k] # Unset => KeyAlive(k)
  BY <1>1, <1>2, <1>3, <1>4 DEF KeyAlive
<1>6. \A w \in Windows : Count(w) \in Int /\ End(w) \in Int \cup {Unset}
  BY <1>3 DEF Count, End, KeyAlive
<1>7. Count(k) = CountedIn(k)
  BY <1>5 DEF Count, CountedIn, KeyAlive
<1>8. End(k) = Unset \/ End(k) >= k * Window + Window
  BY <1>4 DEF End, KeyAlive
<1> QED BY <1>2, <1>5, <1>6, <1>7, <1>8

\* What a check that is settled does to the weights.
LEMMA CheckSettled ==
  ASSUME RateConstants, RateInv, NEW k, k = Current, NEW r \in Requests, NEW c \in Check, c = checks[r], NEW n \in Int,
         Settle(r, n)
  PROVE  /\ admitted' \in [Windows -> Nat]
         /\ \A w \in Windows : w # c.window => admitted'[w] = admitted[w]
         /\ c.window # k => admitted' = admitted
         /\ \E d \in Check \cup {Unset} :
              /\ checks' = [checks EXCEPT ![r] = d]
              /\ \/ n <= Capacity /\ d = Unset /\ (c.window = k => admitted'[k] = admitted[k] + c.cost)
                 \/ n > Capacity /\ d # Unset /\ d.window = c.window /\ d.cost = c.cost /\ d.at = "decr" /\ admitted' = admitted
<1>1. RateTyped /\ k \in Windows /\ Capacity \in Nat /\ Costs \subseteq Nat /\ Unset \notin Check
  BY KeyFacts DEF RateInv, RateConstants
<1>2. c.window \in Windows /\ c.cost \in Costs /\ c.cost \in Nat /\ c # Unset
  BY <1>1 DEF Check
<1>3. InTime(r) <=> c.window = k
  BY DEF InTime, Current
<1>4. CASE n <= Capacity
  <2>1. checks' = [checks EXCEPT ![r] = Unset] /\ admitted' = IF c.window = k THEN [admitted EXCEPT ![c.window] = @ + c.cost] ELSE admitted
    BY <1>3, <1>4 DEF Settle, Add
  <2>2. /\ admitted' \in [Windows -> Nat]
        /\ \A w \in Windows : w # c.window => admitted'[w] = admitted[w]
        /\ c.window # k => admitted' = admitted
        /\ c.window = k => admitted'[k] = admitted[k] + c.cost
    BY <1>1, <1>2, <2>1 DEF RateTyped
  <2> QED BY <1>4, <2>1, <2>2
<1>5. CASE n > Capacity
  <2>1. checks' = [checks EXCEPT ![r].at = "decr"] /\ admitted' = admitted
    BY <1>1, <1>5 DEF Settle
  <2> DEFINE d == [c EXCEPT !.at = "decr"]
  <2>2. d \in Check /\ d.window = c.window /\ d.cost = c.cost /\ d.at = "decr"
    BY DEF Check
  <2>3. checks' = [checks EXCEPT ![r] = d]
    BY <2>1
  <2>4. admitted' \in [Windows -> Nat]
    BY <1>1, <2>1 DEF RateTyped
  <2> HIDE DEF d
  <2> QED BY <1>1, <1>5, <2>1, <2>2, <2>3, <2>4
<1> QED BY <1>1, <1>4, <1>5

\* How a key is made anew.
LEMMA KeyMade ==
  ASSUME RateConstants, RateInv, NEW k, k = Current, NEW w \in Windows, NEW n \in Int,
         counter' = [counter EXCEPT ![w] = [n |-> n, until |-> End(w)]]
  PROVE  /\ counter' \in [Windows -> Key \cup {Unset}]
         /\ \A v \in Windows : v # w => counter'[v] = counter[v]
         /\ w = k => /\ counter'[k] # Unset /\ counter'[k].n = n
                     /\ counter'[k].until = Unset \/ counter'[k].until >= k * Window + Window
<1>1. RateTyped /\ End(w) \in Int \cup {Unset} /\ Unset \notin Key /\ (End(k) = Unset \/ End(k) >= k * Window + Window)
  BY KeyFacts DEF RateInv, RateConstants
<1> DEFINE key == [n |-> n, until |-> End(w)]
<1>2. key \in Key /\ key.n = n /\ key.until = End(w)
  BY <1>1 DEF Key
<1>3. counter' = [counter EXCEPT ![w] = key]
  OBVIOUS
<1> HIDE DEF key
<1> QED BY <1>1, <1>2, <1>3 DEF RateTyped

LEMMA IncrementStep ==
  ASSUME RateConstants, RateInv, NEW r \in Requests, Increment(r)
  PROVE  RateInv'
<1> PICK k : k = Current
  OBVIOUS
<1> PICK c : c = checks[r]
  OBVIOUS
<1>1. RateTyped /\ c \in Check /\ c # Unset /\ c.at = "incr" /\ hour' = hour /\ Unset \notin Check
  BY DEF Increment, RateInv, RateTyped, RateConstants
<1>2. c.window \in Windows /\ c.cost \in Costs /\ c.cost \in Nat /\ c.new \in Int
  BY <1>1 DEF Check, RateConstants
<1>3. PICK n : n = Count(c.window) + c.cost
  OBVIOUS
<1>4. k \in Windows /\ Count(c.window) \in Int /\ n \in Int /\ (c.window = k => CountedIn(k) = n - c.cost)
  BY <1>2, <1>3, KeyFacts
<1>5. counter' = [counter EXCEPT ![c.window] = [n |-> n, until |-> End(c.window)]]
  BY <1>3 DEF Increment
<1>6. /\ counter' \in [Windows -> Key \cup {Unset}]
      /\ \A v \in Windows : v # c.window => counter'[v] = counter[v]
      /\ c.window = k => /\ counter'[k] # Unset /\ counter'[k].n = n
                         /\ counter'[k].until = Unset \/ counter'[k].until >= k * Window + Window
  BY <1>2, <1>4, <1>5, KeyMade
<1>7. admitted[k] + AllAdded(k) <= CountedIn(k) /\ admitted[k] + AllHoped(k) <= Capacity /\ admitted[k] \in Nat
      /\ AllAdded(k) \in Int /\ AllHoped(k) \in Int /\ AllHoped(k) <= AllAdded(k) /\ Capacity \in Nat /\ AllHoped(k) >= 0
  BY <1>1, <1>4, SumsTyped DEF RateInv, RateTyped, RateConstants
<1>8. AddedBy(c, k) = 0 /\ HopedBy(c, k) = 0
  BY <1>1 DEF AddedBy, HopedBy
<1>9. ASSUME n = c.cost PROVE RateInv'
  <2> DEFINE d == [c EXCEPT !.at = "expire", !.new = n]
  <2>1. d \in Check /\ d.window = c.window /\ d.cost = c.cost /\ d.at = "expire" /\ d.new = n
    BY <1>1, <1>4 DEF Check
  <2>2. checks' = [checks EXCEPT ![r] = d] /\ admitted' = admitted
    BY <1>3, <1>9 DEF Increment
  <2> HIDE DEF d
  <2>3. c.window = k => AddedBy(d, k) = c.cost /\ HopedBy(d, k) = IF c.cost <= Capacity THEN c.cost ELSE 0
    BY <1>1, <1>9, <2>1 DEF AddedBy, HopedBy
  <2>4. c.window = k => /\ (admitted'[k] - admitted[k]) + (AddedBy(d, k) - AddedBy(c, k))
                              <= (IF counter'[k] = Unset THEN 0 ELSE counter'[k].n) - CountedIn(k)
                        /\ admitted'[k] + (AllHoped(k) - HopedBy(c, k) + HopedBy(d, k)) <= Capacity
    BY <1>2, <1>4, <1>6, <1>7, <1>8, <1>9, <2>2, <2>3
  <2>5. admitted' \in [Windows -> Nat] /\ d \in Check \cup {Unset}
    BY <1>1, <2>1, <2>2 DEF RateTyped
  <2> QED BY <1>1, <1>6, <2>1, <2>2, <2>4, <2>5, CheckStep
<1>10. ASSUME n # c.cost PROVE RateInv'
  <2>1. Settle(r, n)
    BY <1>3, <1>10 DEF Increment, Judge
  <2>2. PICK d \in Check \cup {Unset} :
          /\ checks' = [checks EXCEPT ![r] = d]
          /\ \/ n <= Capacity /\ d = Unset /\ (c.window = k => admitted'[k] = admitted[k] + c.cost)
             \/ n > Capacity /\ d # Unset /\ d.window = c.window /\ d.cost = c.cost /\ d.at = "decr" /\ admitted' = admitted
    BY <1>1, <1>4, <2>1, CheckSettled
  <2>3. /\ admitted' \in [Windows -> Nat]
        /\ \A w \in Windows : w # c.window => admitted'[w] = admitted[w]
        /\ c.window # k => admitted' = admitted
    BY <1>1, <1>4, <2>1, CheckSettled
  <2>4. c.window = k => \/ n <= Capacity /\ AddedBy(d, k) = 0 /\ HopedBy(d, k) = 0 /\ admitted'[k] = admitted[k] + c.cost
                        \/ n > Capacity /\ AddedBy(d, k) = c.cost /\ HopedBy(d, k) = 0 /\ admitted'[k] = admitted[k]
    BY <2>2 DEF AddedBy, HopedBy
  <2>5. c.window = k => /\ (admitted'[k] - admitted[k]) + (AddedBy(d, k) - AddedBy(c, k))
                              <= (IF counter'[k] = Unset THEN 0 ELSE counter'[k].n) - CountedIn(k)
                        /\ admitted'[k] + (AllHoped(k) - HopedBy(c, k) + HopedBy(d, k)) <= Capacity
    BY <1>2, <1>4, <1>6, <1>7, <1>8, <2>4
  <2>6. (d # Unset => d.window = c.window) /\ checks' = [checks EXCEPT ![r] = d]
    BY <2>2
  <2>7. /\ \A w \in Windows : w # c.window => counter'[w] = counter[w] /\ admitted'[w] = admitted[w]
        /\ c.window = k => (counter'[k] # Unset => counter'[k].until = Unset \/ counter'[k].until >= k * Window + Window)
    BY <1>6, <2>3
  <2>8. counter' \in [Windows -> Key \cup {Unset}]
    BY <1>6
  <2> QED BY <1>1, <2>3, <2>5, <2>6, <2>7, <2>8, CheckStep
<1> QED BY <1>9, <1>10

LEMMA SetEndStep ==
  ASSUME RateConstants, RateInv, NEW r \in Requests, SetEnd(r)
  PROVE  RateInv'
<1> PICK k : k = Current
  OBVIOUS
<1> PICK c : c = checks[r]
  OBVIOUS
<1>1. RateTyped /\ c \in Check /\ c # Unset /\ c.at = "expire" /\ hour' = hour /\ Unset \notin Check
  BY DEF SetEnd, RateInv, RateTyped, RateConstants
<1>2. c.window \in Windows /\ c.cost \in Costs /\ c.cost \in Nat /\ c.new \in Int
  BY <1>1 DEF Check, RateConstants
<1>3. PICK n : n = c.new
  OBVIOUS
<1>4. k \in Windows /\ CountedIn(k) \in Int
  BY <1>2, <1>3, KeyFacts
<1>5. /\ counter' \in [Windows -> Key \cup {Unset}]
      /\ \A v \in Windows : v # c.window => counter'[v] = counter[v]
      /\ c.window = k => /\ counter'[k] # Unset => counter'[k].until = Unset \/ counter'[k].until >= k * Window + Window
                         /\ (IF counter'[k] = Unset THEN 0 ELSE counter'[k].n) = CountedIn(k)
  <2>1. hour \in Int /\ Window \in Int /\ k * Window \in Int /\ hour >= k * Window /\ Unset \notin Key
    BY <1>1, CurrentIs DEF RateTyped, RateConstants
  <2>2. ASSUME KeyAlive(c.window)
        PROVE  /\ counter' \in [Windows -> Key \cup {Unset}]
               /\ \A v \in Windows : v # c.window => counter'[v] = counter[v]
               /\ counter'[c.window] # Unset /\ counter'[c.window].n = counter[c.window].n
               /\ counter'[c.window].until = hour + Window /\ counter[c.window] # Unset
    <3>1. counter' = [counter EXCEPT ![c.window].until = hour + Window]
      BY <2>2 DEF SetEnd
    <3>2. counter[c.window] \in Key /\ counter[c.window] # Unset
      BY <1>1, <1>2, <2>2 DEF KeyAlive, RateTyped
    <3> DEFINE key == [counter[c.window] EXCEPT !.until = hour + Window]
    <3>3. key \in Key /\ key.n = counter[c.window].n /\ key.until = hour + Window
      BY <2>1, <3>2 DEF Key
    <3>4. counter' = [counter EXCEPT ![c.window] = key]
      BY <3>1
    <3> HIDE DEF key
    <3> QED BY <1>1, <1>2, <2>1, <3>2, <3>3, <3>4 DEF RateTyped
  <2>3. ASSUME ~KeyAlive(c.window) PROVE counter' = counter
    BY <2>3 DEF SetEnd
  <2>4. CASE KeyAlive(c.window)
    BY <2>1, <2>2, <2>4 DEF CountedIn
  <2>5. CASE ~KeyAlive(c.window)
    <3>1. counter' = counter /\ counter \in [Windows -> Key \cup {Unset}]
      BY <1>1, <2>3, <2>5 DEF RateTyped
    <3>2. counter[k] # Unset => counter[k].until = Unset \/ counter[k].until >= k * Window + Window
      BY DEF RateInv
    <3> QED BY <3>1, <3>2 DEF CountedIn
  <2> QED BY <2>4, <2>5
<1>7. admitted[k] + AllAdded(k) <= CountedIn(k) /\ admitted[k] + AllHoped(k) <= Capacity /\ admitted[k] \in Nat
      /\ AllAdded(k) \in Int /\ AllHoped(k) \in Int /\ AllHoped(k) <= AllAdded(k) /\ Capacity \in Nat
  BY <1>1, <1>4, SumsTyped DEF RateInv, RateTyped, RateConstants
<1>8. c.window = k => AddedBy(c, k) = c.cost /\ HopedBy(c, k) = IF n <= Capacity THEN c.cost ELSE 0
  BY <1>1, <1>3 DEF AddedBy, HopedBy
<1> /\ Settle(r, n) /\ n \in Int
  BY <1>2, <1>3 DEF SetEnd, Judge
<1>11. PICK d \in Check \cup {Unset} :
          /\ checks' = [checks EXCEPT ![r] = d]
          /\ \/ n <= Capacity /\ d = Unset /\ (c.window = k => admitted'[k] = admitted[k] + c.cost)
             \/ n > Capacity /\ d # Unset /\ d.window = c.window /\ d.cost = c.cost /\ d.at = "decr" /\ admitted' = admitted
  BY <1>1, CheckSettled
<1>12. /\ admitted' \in [Windows -> Nat]
       /\ \A w \in Windows : w # c.window => admitted'[w] = admitted[w]
       /\ c.window # k => admitted' = admitted
  BY <1>1, CheckSettled
<1>13. c.window = k => \/ n <= Capacity /\ AddedBy(d, k) = 0 /\ HopedBy(d, k) = 0 /\ admitted'[k] = admitted[k] + c.cost
                       \/ n > Capacity /\ AddedBy(d, k) = c.cost /\ HopedBy(d, k) = 0 /\ admitted'[k] = admitted[k]
  BY <1>11 DEF AddedBy, HopedBy
<1>14. c.window = k => /\ (admitted'[k] - admitted[k]) + (AddedBy(d, k) - AddedBy(c, k))
                              <= (IF counter'[k] = Unset THEN 0 ELSE counter'[k].n) - CountedIn(k)
                       /\ admitted'[k] + (AllHoped(k) - HopedBy(c, k) + HopedBy(d, k)) <= Capacity
  BY <1>2, <1>4, <1>5, <1>7, <1>8, <1>13
<1>15. (d # Unset => d.window = c.window) /\ checks' = [checks EXCEPT ![r] = d]
  BY <1>11
<1>16. /\ \A w \in Windows : w # c.window => counter'[w] = counter[w] /\ admitted'[w] = admitted[w]
       /\ c.window = k => (counter'[k] # Unset => counter'[k].until = Unset \/ counter'[k].until >= k * Window + Window)
  BY <1>5, <1>12
<1>17. counter' \in [Windows -> Key \cup {Unset}]
  BY <1>5
<1> QED BY <1>1, <1>12, <1>14, <1>15, <1>16, <1>17, CheckStep

LEMMA DecrementStep ==
  ASSUME RateConstants, RateInv, NEW r \in Requests, Decrement(r)
  PROVE  RateInv'
<1> PICK k : k = Current
  OBVIOUS
<1> PICK c : c = checks[r]
  OBVIOUS
<1>1. RateTyped /\ c \in Check /\ c # Unset /\ c.at = "decr" /\ hour' = hour /\ admitted' = admitted
  BY DEF Decrement, RateInv, RateTyped
<1>2. c.window \in Windows /\ c.cost \in Nat /\ Count(c.window) \in Int /\ k \in Windows
  BY <1>1, KeyFacts DEF Check, RateConstants
<1>3. PICK n : n = Count(c.window) - c.cost
  OBVIOUS
<1>4. n \in Int /\ (c.window = k => CountedIn(k) = n + c.cost)
  BY <1>2, <1>3, KeyFacts
<1>5. counter' = [counter EXCEPT ![c.window] = [n |-> n, until |-> End(c.window)]]
  BY <1>3 DEF Decrement
<1>6. /\ counter' \in [Windows -> Key \cup {Unset}]
      /\ \A v \in Windows : v # c.window => counter'[v] = counter[v]
      /\ c.window = k => /\ counter'[k] # Unset /\ counter'[k].n = n
                         /\ counter'[k].until = Unset \/ counter'[k].until >= k * Window + Window
  BY <1>2, <1>4, <1>5, KeyMade
<1>7. admitted[k] + AllHoped(k) <= Capacity /\ admitted[k] \in Nat /\ AllHoped(k) \in Int
  BY <1>1, <1>2, SumsTyped DEF RateInv, RateTyped
<1>8. c.window = k => AddedBy(c, k) = c.cost /\ HopedBy(c, k) = 0
  BY <1>1 DEF AddedBy, HopedBy
<1> PICK d : d = Unset
  OBVIOUS
<1>9. AddedBy(d, k) = 0 /\ HopedBy(d, k) = 0 /\ checks' = [checks EXCEPT ![r] = d]
  BY DEF AddedBy, HopedBy, Decrement
<1>10. c.window = k => /\ (admitted'[k] - admitted[k]) + (AddedBy(d, k) - AddedBy(c, k))
                            <= (IF counter'[k] = Unset THEN 0 ELSE counter'[k].n) - CountedIn(k)
                       /\ admitted'[k] + (AllHoped(k) - HopedBy(c, k) + HopedBy(d, k)) <= Capacity
  BY <1>1, <1>2, <1>4, <1>6, <1>7, <1>8, <1>9
<1>11. /\ admitted' \in [Windows -> Nat] /\ d \in Check \cup {Unset} /\ (d # Unset => d.window = c.window)
       /\ \A w \in Windows : w # c.window => counter'[w] = counter[w] /\ admitted'[w] = admitted[w]
       /\ c.window = k => (counter'[k] # Unset => counter'[k].until = Unset \/ counter'[k].until >= k * Window + Window)
  BY <1>1, <1>6 DEF RateTyped
<1>12. counter' \in [Windows -> Key \cup {Unset}]
  BY <1>6
<1> QED BY <1>1, <1>9, <1>10, <1>11, <1>12, CheckStep

\* A request that is given up, its count left where it is.
LEMMA GivenUpStep ==
  ASSUME RateConstants, RateInv, NEW r \in Requests, CommandFails(r) \/ CheckerDies(r)
  PROVE  RateInv'
<1> PICK k : k = Current
  OBVIOUS
<1> PICK c : c = checks[r]
  OBVIOUS
<1> PICK d : d = Unset
  OBVIOUS
<1>1. RateTyped /\ c \in Check /\ c # Unset /\ hour' = hour /\ admitted' = admitted /\ counter' = counter
      /\ checks' = [checks EXCEPT ![r] = d]
  BY DEF CommandFails, CheckerDies, RateInv, RateTyped
<1>2. k \in Windows /\ CountedIn(k) \in Int /\ CountedIn(k) = IF counter'[k] = Unset THEN 0 ELSE counter'[k].n
  BY <1>1, KeyFacts DEF CountedIn
<1>3. /\ counter' \in [Windows -> Key \cup {Unset}] /\ admitted' \in [Windows -> Nat]
      /\ counter'[k] # Unset => counter'[k].until = Unset \/ counter'[k].until >= k * Window + Window
  BY <1>1 DEF RateInv, RateTyped
<1>4. admitted[k] + AllHoped(k) <= Capacity /\ admitted[k] \in Nat /\ AllHoped(k) \in Int /\ Capacity \in Nat
  BY <1>1, <1>2, SumsTyped DEF RateInv, RateTyped, RateConstants
<1>5. AddedBy(d, k) = 0 /\ HopedBy(d, k) = 0
  BY DEF AddedBy, HopedBy
<1>6. AddedBy(c, k) \in Nat /\ HopedBy(c, k) \in Nat
  BY <1>1, WeightsTyped
<1>7. /\ (admitted'[k] - admitted[k]) + (AddedBy(d, k) - AddedBy(c, k))
             <= (IF counter'[k] = Unset THEN 0 ELSE counter'[k].n) - CountedIn(k)
      /\ admitted'[k] + (AllHoped(k) - HopedBy(c, k) + HopedBy(d, k)) <= Capacity
  BY <1>1, <1>2, <1>4, <1>5, <1>6
<1> QED BY <1>1, <1>3, <1>7, CheckStep

LEMMA TimesOutStep ==
  ASSUME RateConstants, RateInv, NEW r \in Requests, CommandTimesOut(r)
  PROVE  RateInv'
<1> PICK k : k = Current
  OBVIOUS
<1> PICK c : c = checks[r]
  OBVIOUS
<1> PICK d : d = Unset
  OBVIOUS
<1>1. RateTyped /\ c \in Check /\ c # Unset /\ c.at = "incr" /\ hour' = hour /\ admitted' = admitted
      /\ checks' = [checks EXCEPT ![r] = d]
  BY DEF CommandTimesOut, RateInv, RateTyped
<1>2. c.window \in Windows /\ c.cost \in Nat /\ Count(c.window) \in Int /\ k \in Windows
  BY <1>1, KeyFacts DEF Check, RateConstants
<1>3. PICK n : n = Count(c.window) + c.cost
  OBVIOUS
<1>4. n \in Int /\ (c.window = k => CountedIn(k) = n - c.cost)
  BY <1>2, <1>3, KeyFacts
<1>5. counter' = [counter EXCEPT ![c.window] = [n |-> n, until |-> End(c.window)]]
  BY <1>3 DEF CommandTimesOut
<1>6. /\ counter' \in [Windows -> Key \cup {Unset}]
      /\ \A v \in Windows : v # c.window => counter'[v] = counter[v]
      /\ c.window = k => /\ counter'[k] # Unset /\ counter'[k].n = n
                         /\ counter'[k].until = Unset \/ counter'[k].until >= k * Window + Window
  BY <1>2, <1>4, <1>5, KeyMade
<1>7. admitted[k] + AllHoped(k) <= Capacity /\ admitted[k] \in Nat /\ AllHoped(k) \in Int
  BY <1>1, <1>2, SumsTyped DEF RateInv, RateTyped
<1>8. AddedBy(c, k) = 0 /\ HopedBy(c, k) = 0 /\ AddedBy(d, k) = 0 /\ HopedBy(d, k) = 0
  BY <1>1 DEF AddedBy, HopedBy
<1>9. c.window = k => /\ (admitted'[k] - admitted[k]) + (AddedBy(d, k) - AddedBy(c, k))
                            <= (IF counter'[k] = Unset THEN 0 ELSE counter'[k].n) - CountedIn(k)
                      /\ admitted'[k] + (AllHoped(k) - HopedBy(c, k) + HopedBy(d, k)) <= Capacity
  BY <1>1, <1>2, <1>4, <1>6, <1>7, <1>8
<1>10. /\ admitted' \in [Windows -> Nat] /\ d \in Check \cup {Unset} /\ (d # Unset => d.window = c.window)
       /\ \A w \in Windows : w # c.window => counter'[w] = counter[w] /\ admitted'[w] = admitted[w]
       /\ c.window = k => (counter'[k] # Unset => counter'[k].until = Unset \/ counter'[k].until >= k * Window + Window)
  BY <1>1, <1>6 DEF RateTyped
<1>11. counter' \in [Windows -> Key \cup {Unset}]
  BY <1>6
<1> QED BY <1>1, <1>9, <1>10, <1>11, CheckStep

LEMMA AskStep ==
  ASSUME RateConstants, RateInv, NEW r \in Requests, Ask(r)
  PROVE  RateInv'
<1> PICK k : k = Current
  OBVIOUS
<1>1. RateTyped /\ checks[r] = Unset /\ hour' = hour /\ admitted' = admitted /\ counter' = counter /\ k \in Windows /\ k \in Nat
  BY KeyFacts, CurrentIs DEF Ask, RateInv, RateTyped
<1>2. PICK cost \in Costs : checks' = [checks EXCEPT ![r] = [window |-> hour \div Window, cost |-> cost, at |-> "incr", new |-> 0]]
  BY DEF Ask
<1> DEFINE d == [window |-> k, cost |-> cost, at |-> "incr", new |-> 0]
<1>3. d \in Check /\ d.window = k /\ d.at = "incr" /\ checks' = [checks EXCEPT ![r] = d]
  BY <1>1, <1>2 DEF Check, Current
<1> HIDE DEF d
<1>4. RateTyped'
  BY <1>1, <1>3 DEF RateTyped
<1>5. AddedBy(d, k) = 0 /\ HopedBy(d, k) = 0 /\ AddedBy(checks[r], k) = 0 /\ HopedBy(checks[r], k) = 0
  BY <1>1, <1>3 DEF AddedBy, HopedBy
<1>6. AddedNext(k) = AllAdded(k) - AddedBy(checks[r], k) + AddedBy(d, k) /\ HopedNext(k) = AllHoped(k) - HopedBy(checks[r], k) + HopedBy(d, k)
  <2>1. RateTyped /\ d \in Check \cup {Unset} /\ checks' = [checks EXCEPT ![r] = d]
    BY <1>1, <1>3
  <2> QED BY <2>1, SumsMove
<1>7. AddedNext(k) = AllAdded(k) /\ HopedNext(k) = AllHoped(k)
  BY <1>1, <1>5, <1>6, SumsTyped
<1>8. AllAdded(Current)' = AddedNext(k) /\ AllHoped(Current)' = HopedNext(k) /\ CountedIn(Current)' = CountedIn(k) /\ Current' = k
  BY <1>1 DEF AllAdded, AllHoped, AddedNext, HopedNext, AddedBy, HopedBy, CountedIn, Current
<1>9. \A q \in Requests : checks'[q] # Unset => checks'[q].window <= k
  BY <1>1, <1>3 DEF RateInv, RateTyped
<1>10. WithinCapacity'
  BY <1>1 DEF WithinCapacity, RateInv
<1>11. /\ admitted[k] + AllAdded(k) <= CountedIn(k) /\ admitted[k] + AllHoped(k) <= Capacity
       /\ \A w \in Windows : w > k => counter[w] = Unset /\ admitted[w] = 0
       /\ counter[k] # Unset => counter[k].until = Unset \/ counter[k].until >= k * Window + Window
  BY DEF RateInv
<1> DEFINE good == /\ admitted'[Current'] + AllAdded(Current)' <= CountedIn(Current)'
                   /\ admitted'[Current'] + AllHoped(Current)' <= Capacity
           rest == /\ \A w \in Windows : w > Current' => counter'[w] = Unset /\ admitted'[w] = 0
                   /\ counter'[Current'] # Unset => counter'[Current'].until = Unset \/ counter'[Current'].until >= Current' * Window + Window
<1>12. good
  BY <1>1, <1>7, <1>8, <1>11
<1>13. rest
  BY <1>1, <1>8, <1>11
<1> QED BY <1>4, <1>8, <1>9, <1>10, <1>12, <1>13 DEF RateInv

LEMMA TicksStep ==
  ASSUME RateConstants, RateInv, Ticks
  PROVE  RateInv'
<1> PICK k : k = Current
  OBVIOUS
<1> PICK m : m = Current'
  OBVIOUS
<1>1. RateTyped /\ hour' = hour + 1 /\ hour < MaxClock /\ checks' = checks /\ admitted' = admitted /\ counter' = counter
      /\ k \in Windows /\ k \in Nat /\ hour \in Nat /\ MaxClock \in Nat /\ Window \in Nat \ {0} /\ Capacity \in Nat
      /\ Windows \subseteq Nat
  BY KeyFacts, CurrentIs DEF Ticks, RateInv, RateTyped, RateConstants
<1>2. RateTyped'
  BY <1>1 DEF RateTyped
<1>3. m \in {k, k + 1} /\ m \in Windows
  <2>1. (hour + 1) \div Window \in {hour \div Window, (hour \div Window) + 1}
    BY <1>1, Divided
  <2>2. m \in {k, k + 1}
    BY <1>1, <2>1 DEF Current
  <2>3. (hour + 1) \div Window <= MaxClock \div Window
    <3>1. hour + 1 \in Nat /\ hour + 1 <= MaxClock
      BY <1>1
    <3> QED BY <1>1, <3>1, DividedMore
  <2>4. MaxClock \div Window \in Nat
    BY <1>1, Divided
  <2>5. m = (hour + 1) \div Window
    BY <1>1 DEF Current
  <2> QED BY <1>1, <2>2, <2>3, <2>4, <2>5 DEF Windows
<1>4. /\ \A q \in Requests : checks[q] # Unset => checks[q].window <= k
      /\ \A w \in Windows : w > k => counter[w] = Unset /\ admitted[w] = 0
      /\ counter[k] # Unset => counter[k].until = Unset \/ counter[k].until >= k * Window + Window
      /\ admitted[k] + AllAdded(k) <= CountedIn(k) /\ admitted[k] + AllHoped(k) <= Capacity
  BY DEF RateInv
<1>5. AllAdded(Current)' = AllAdded(m) /\ AllHoped(Current)' = AllHoped(m) /\ CountedIn(Current)' = CountedIn(m)
  BY <1>1 DEF AllAdded, AllHoped, AddedBy, HopedBy, CountedIn
<1>6. admitted[m] + AllAdded(m) <= CountedIn(m) /\ admitted[m] + AllHoped(m) <= Capacity
  <2>1. CASE m = k
    BY <1>4, <2>1
  <2>2. CASE m = k + 1
    <3> DEFINE F == [r \in Requests |-> AddedBy(checks[r], m)]
               G == [r \in Requests |-> HopedBy(checks[r], m)]
    <3>1. \A r \in Requests : F[r] = 0 /\ G[r] = 0
      <4>1. \A r \in Requests : checks[r] # Unset => checks[r].window # m
        <5> SUFFICES ASSUME NEW r \in Requests, checks[r] # Unset PROVE checks[r].window # m
          OBVIOUS
        <5>1. checks[r].window \in Windows /\ checks[r].window <= k
          BY <1>1, <1>4 DEF RateTyped, Check
        <5> QED BY <1>1, <2>2, <5>1
      <4> QED BY <4>1 DEF AddedBy, HopedBy
    <3>2. IsFiniteSet(Requests)
      BY DEF RateConstants
    <3> HIDE DEF F, G
    <3>3. Total(F, Requests) = 0 /\ Total(G, Requests) = 0
      BY <3>1, <3>2, TotalOfZeros
    <3>4. AllAdded(m) = 0 /\ AllHoped(m) = 0
      BY <3>3 DEF AllAdded, AllHoped, F, G
    <3>5. admitted[m] = 0 /\ CountedIn(m) = 0
      BY <1>1, <1>3, <1>4, <2>2 DEF CountedIn
    <3> QED BY <1>1, <3>4, <3>5
  <2> QED BY <1>3, <2>1, <2>2
<1>7. /\ \A q \in Requests : checks[q] # Unset => checks[q].window <= m
      /\ \A w \in Windows : w > m => counter[w] = Unset /\ admitted[w] = 0
      /\ counter[m] # Unset => counter[m].until = Unset \/ counter[m].until >= m * Window + Window
  <2>1. \A q \in Requests : checks[q] # Unset => checks[q].window <= m
    <3> SUFFICES ASSUME NEW q \in Requests, checks[q] # Unset PROVE checks[q].window <= m
      OBVIOUS
    <3>1. checks[q].window \in Windows /\ checks[q].window <= k
      BY <1>1, <1>4 DEF RateTyped, Check
    <3>2. checks[q].window \in Nat /\ k \in Nat /\ m \in {k, k + 1}
      BY <1>1, <1>3, <3>1
    <3> QED BY <3>1, <3>2
  <2>2. \A w \in Windows : w > m => w > k
    BY <1>1, <1>3
  <2>3. m = k \/ m > k
    BY <1>1, <1>3
  <2> QED BY <1>3, <1>4, <2>1, <2>2, <2>3
<1> DEFINE good == /\ admitted'[Current'] + AllAdded(Current)' <= CountedIn(Current)'
                   /\ admitted'[Current'] + AllHoped(Current)' <= Capacity
           rest == /\ \A q \in Requests : checks'[q] # Unset => checks'[q].window <= Current'
                   /\ \A w \in Windows : w > Current' => counter'[w] = Unset /\ admitted'[w] = 0
                   /\ counter'[Current'] # Unset => counter'[Current'].until = Unset \/ counter'[Current'].until >= Current' * Window + Window
<1>8. good
  BY <1>1, <1>5, <1>6
<1>9. rest
  BY <1>1, <1>7
<1>10. WithinCapacity'
  BY <1>1 DEF WithinCapacity, RateInv
<1> QED BY <1>2, <1>8, <1>9, <1>10 DEF RateInv

LEMMA RateStarts == RateConstants /\ RateInit => RateInv
<1> SUFFICES ASSUME RateConstants, RateInit PROVE RateInv
  OBVIOUS
<1>1. hour = 0 /\ MaxClock \in Nat /\ Window \in Nat \ {0} /\ Capacity \in Nat /\ hour \in 0..MaxClock
  BY DEF RateInit, RateConstants
<1>2. Current \in Windows /\ Current \in Nat /\ Windows \subseteq Nat
  BY <1>1, CurrentIs
<1>3. RateTyped
  BY <1>1 DEF RateTyped, RateInit, Zero
<1>4. \A w \in Windows : counter[w] = Unset /\ admitted[w] = 0
  BY DEF RateInit, Zero
<1>5. \A r \in Requests : checks[r] = Unset
  BY DEF RateInit
<1> DEFINE F == [r \in Requests |-> AddedBy(checks[r], Current)]
           G == [r \in Requests |-> HopedBy(checks[r], Current)]
<1>6. \A r \in Requests : F[r] = 0 /\ G[r] = 0
  BY <1>5 DEF AddedBy, HopedBy
<1>7. IsFiniteSet(Requests)
  BY DEF RateConstants
<1> HIDE DEF F, G
<1>8. Total(F, Requests) = 0 /\ Total(G, Requests) = 0
  BY <1>6, <1>7, TotalOfZeros
<1>9. AllAdded(Current) = 0 /\ AllHoped(Current) = 0 /\ CountedIn(Current) = 0 /\ admitted[Current] = 0
  BY <1>2, <1>4, <1>8 DEF AllAdded, AllHoped, CountedIn, F, G
<1>10. WithinCapacity
  BY <1>1, <1>4 DEF WithinCapacity
<1> QED BY <1>1, <1>2, <1>3, <1>4, <1>5, <1>9, <1>10 DEF RateInv

\* However many requests a window has at once and whichever of them fail, time out or
\* die, what it lets through while it lasts is within its capacity, for any costs,
\* windows and times (TokenBucketRateLimiter.check).
THEOREM WithinCapacityHolds ==
  ASSUME RateConstants
  PROVE  RateSpec => []WithinCapacity
<1>1. RateInit => RateInv
  BY RateStarts
<1>2. RateInv /\ [RateNext]_rateVars => RateInv'
  <2> SUFFICES ASSUME RateInv, [RateNext]_rateVars PROVE RateInv'
    OBVIOUS
  <2>1. Ticks => RateInv'
    BY TicksStep
  <2>2. ASSUME NEW r \in Requests PROVE Ask(r) \/ Increment(r) \/ SetEnd(r) \/ Decrement(r) => RateInv'
    BY AskStep, IncrementStep, SetEndStep, DecrementStep
  <2>3. ASSUME NEW r \in Requests PROVE CommandFails(r) \/ CommandTimesOut(r) \/ CheckerDies(r) => RateInv'
    BY GivenUpStep, TimesOutStep
  <2>4. UNCHANGED rateVars => RateInv'
    BY DEF rateVars, RateInv, RateTyped, WithinCapacity, Current, AllAdded, AllHoped, AddedBy, HopedBy, CountedIn
  <2> QED BY <2>1, <2>2, <2>3, <2>4, Zenon DEF RateNext
<1>3. RateInv => WithinCapacity
  BY DEF RateInv
<1> QED BY <1>1, <1>2, <1>3, PTL DEF RateSpec

------------------------------------------------------------------------------
(***************************************************************************)
(* BillingState.                                                           *)
(***************************************************************************)
CpState   == [v : Nat, status : {"trial", "active", "canceled"}, period : Nat]
Slot      == [value : CpState \cup {NoState}, fresh : BOOLEAN, backoff : BOOLEAN]
CallState == [at : {"gate", "paid", "refused"}, p : Processes, s : CpState \cup {Default}]

StateTyped ==
  /\ cp \in CpState /\ today \in Periods
  /\ cache \in [Processes -> Slot]
  /\ fetch \in [Processes -> CpState \cup {NoState, Lost}]
  /\ disk \in CpState \cup {NoState}
  /\ trial \in [Processes -> Nat \cup {NoState}]
  /\ known \in [Processes -> Nat]
CallTyped ==
  /\ call \in [Calls -> CallState \cup {NoState}]
  /\ spent \in [Periods -> Nat]

\* What a state that was told once says of CP.
Past(s)     == s.period <= today /\ (cp.status = "trial" => s.status = "trial")
PastNext(s) == s.period <= today' /\ (cp'.status = "trial" => s.status = "trial")

AllPast ==
  /\ cp.period <= today
  /\ \A p \in Processes : cache[p].value # NoState => Past(cache[p].value)
  /\ \A p \in Processes : fetch[p] \notin {NoState, Lost} => Past(fetch[p])
  /\ disk # NoState => Past(disk)

\* The versions a process knows of, and those it may still be told.
Versions == \A p \in Processes :
  /\ known[p] <= cp.v
  /\ trial[p] # NoState => trial[p] <= cp.v
  /\ fetch[p] \notin {NoState, Lost} => fetch[p].v >= known[p]
  /\ cache[p].fresh => cache[p].value # NoState /\ cache[p].value.v >= known[p]

StateInv == StateTyped /\ AllPast /\ Versions

CallsPast == \A c \in Calls : call[c] # NoState => call[c].s = Default \/ (call[c].s \in CpState /\ Past(call[c].s))

\* The calls that are paid for and have not been recorded.
Paid == {c \in Calls : call[c] # NoState /\ call[c].at = "paid"}

\* What a period has cost, with what it will cost still, if it is the one that runs.
Within ==
  /\ \A k \in Periods : k > today => spent[k] = 0
  /\ cp.status = "trial" =>
       /\ \A k \in Periods : spent[k] <= Grant - 1 + Cardinality(Calls)
       /\ spent[today] + Cardinality(Paid) <= Grant - 1 + Cardinality(Calls)
       /\ Grant = 0 => Paid = {}

BillingConstants(n) ==
  /\ IsFiniteSet(Calls) /\ Grant \in Nat /\ Grant + Cardinality(Calls) > 0
  /\ n \in Nat \ {0} /\ Periods = 1..n
  /\ NoState \notin CpState \cup CallState \cup Nat \cup {Lost, Default} /\ Lost \notin CpState

BillingInv == StateInv /\ CallTyped /\ CallsPast /\ Within

\* A step of a process that leaves CP and the clock alone.
LEMMA ProcessStep ==
  ASSUME StateInv, UNCHANGED <<cp, today>>, NEW p \in Processes,
         NEW slot \in Slot, cache' = [cache EXCEPT ![p] = slot],
         NEW f \in CpState \cup {NoState, Lost}, fetch' = [fetch EXCEPT ![p] = f],
         NEW t \in Nat \cup {NoState}, trial' = [trial EXCEPT ![p] = t],
         NEW k \in Nat, known' = [known EXCEPT ![p] = k],
         disk' \in CpState \cup {NoState}, disk' # NoState => Past(disk'),
         slot.value # NoState => Past(slot.value),
         f \notin {NoState, Lost} => Past(f) /\ f.v >= k,
         k <= cp.v, t # NoState => t <= cp.v,
         slot.fresh => slot.value # NoState /\ slot.value.v >= k
  PROVE  StateInv'
<1>1. StateTyped /\ AllPast /\ Versions
  BY DEF StateInv
<1>2. /\ cache'[p] = slot /\ fetch'[p] = f /\ trial'[p] = t /\ known'[p] = k
      /\ \A q \in Processes : q # p => cache'[q] = cache[q] /\ fetch'[q] = fetch[q] /\ trial'[q] = trial[q] /\ known'[q] = known[q]
  BY <1>1 DEF StateTyped
<1>3. StateTyped'
  BY <1>1 DEF StateTyped
<1>4. AllPast'
  BY <1>1, <1>2 DEF AllPast, Past
<1>5. Versions'
  BY <1>1, <1>2 DEF Versions
<1> QED BY <1>3, <1>4, <1>5 DEF StateInv

LEMMA CacheSteps ==
  ASSUME StateInv, NoState \notin CpState, NEW p \in Processes,
         \/ TtlOver(p) \/ BackoffOver(p) \/ Fetched(p) \/ FetchFailed(p) \/ TrialAnswered(p) \/ Restart(p)
         \/ \E answered \in BOOLEAN : StartFetch(p, answered)
  PROVE  StateInv'
<1>1. StateTyped /\ AllPast /\ Versions
  BY DEF StateInv
<1>2. /\ cache[p] \in Slot /\ fetch[p] \in CpState \cup {NoState, Lost} /\ trial[p] \in Nat \cup {NoState} /\ known[p] \in Nat
      /\ cache[p].value \in CpState \cup {NoState} /\ cache[p].fresh \in BOOLEAN /\ cache[p].backoff \in BOOLEAN
      /\ disk \in CpState \cup {NoState} /\ cp \in CpState /\ cp.v \in Nat /\ Past(cp)
  BY <1>1 DEF StateTyped, Slot, CpState, AllPast, Past
<1>3. /\ cache[p].value # NoState => Past(cache[p].value)
      /\ fetch[p] \notin {NoState, Lost} => Past(fetch[p]) /\ fetch[p].v >= known[p]
      /\ disk # NoState => Past(disk)
      /\ known[p] <= cp.v /\ (trial[p] # NoState => trial[p] <= cp.v)
      /\ cache[p].fresh => cache[p].value # NoState /\ cache[p].value.v >= known[p]
  BY <1>1 DEF AllPast, Versions
<1>4. Cold \in Slot /\ Cold.value = NoState /\ ~Cold.fresh
  BY DEF Cold, Slot
<1>5. /\ cache = [cache EXCEPT ![p] = cache[p]] /\ fetch = [fetch EXCEPT ![p] = fetch[p]]
      /\ trial = [trial EXCEPT ![p] = trial[p]] /\ known = [known EXCEPT ![p] = known[p]]
  BY <1>1 DEF StateTyped
<1>6. CASE TtlOver(p)
  <2> DEFINE slot == [cache[p] EXCEPT !.fresh = FALSE]
  <2>1. slot \in Slot /\ slot.value = cache[p].value /\ ~slot.fresh
    BY <1>2 DEF Slot
  <2>2. /\ cache' = [cache EXCEPT ![p] = slot]
        /\ fetch' = fetch /\ trial' = trial /\ known' = known /\ disk' = disk /\ UNCHANGED <<cp, today>>
    BY <1>6 DEF TtlOver
  <2> HIDE DEF slot
  <2>3. /\ slot.value # NoState => Past(slot.value)
        /\ slot.fresh => slot.value # NoState /\ slot.value.v >= known[p]
        /\ disk' \in CpState \cup {NoState} /\ (disk' # NoState => Past(disk'))
    BY <1>2, <1>3, <2>1, <2>2
  <2>4. /\ fetch' = [fetch EXCEPT ![p] = fetch[p]] /\ trial' = [trial EXCEPT ![p] = trial[p]]
        /\ known' = [known EXCEPT ![p] = known[p]]
    BY <1>5, <2>2
  <2> QED BY <1>2, <1>3, <2>1, <2>2, <2>3, <2>4, ProcessStep
<1>7. CASE BackoffOver(p)
  <2> DEFINE slot == [cache[p] EXCEPT !.backoff = FALSE]
  <2>1. slot \in Slot /\ slot.value = cache[p].value /\ slot.fresh = cache[p].fresh
    BY <1>2 DEF Slot
  <2>2. /\ cache' = [cache EXCEPT ![p] = slot]
        /\ fetch' = fetch /\ trial' = trial /\ known' = known /\ disk' = disk /\ UNCHANGED <<cp, today>>
    BY <1>7 DEF BackoffOver
  <2> HIDE DEF slot
  <2>3. /\ slot.value # NoState => Past(slot.value)
        /\ slot.fresh => slot.value # NoState /\ slot.value.v >= known[p]
        /\ disk' \in CpState \cup {NoState} /\ (disk' # NoState => Past(disk'))
    BY <1>2, <1>3, <2>1, <2>2
  <2>4. /\ fetch' = [fetch EXCEPT ![p] = fetch[p]] /\ trial' = [trial EXCEPT ![p] = trial[p]]
        /\ known' = [known EXCEPT ![p] = known[p]]
    BY <1>5, <2>2
  <2> QED BY <1>2, <1>3, <2>1, <2>2, <2>3, <2>4, ProcessStep
<1>8. CASE Fetched(p)
  <2> DEFINE slot == [cache[p] EXCEPT !.value = fetch[p], !.fresh = TRUE]
  <2>1. fetch[p] \in CpState
    BY <1>2, <1>8 DEF Fetched
  <2>2. slot \in Slot /\ slot.value = fetch[p] /\ slot.fresh
    BY <1>2, <2>1 DEF Slot
  <2>3. /\ cache' = [cache EXCEPT ![p] = slot]
        /\ fetch' = [fetch EXCEPT ![p] = NoState] /\ trial' = trial /\ known' = known /\ disk' = fetch[p] /\ UNCHANGED <<cp, today>>
    BY <1>8 DEF Fetched
  <2>4. fetch[p] \notin {NoState, Lost}
    BY <1>8 DEF Fetched
  <2> HIDE DEF slot
  <2> QED BY <1>2, <1>3, <1>5, <2>1, <2>2, <2>3, <2>4, ProcessStep
<1>9. CASE FetchFailed(p)
  <2> DEFINE slot == [cache[p] EXCEPT !.backoff = TRUE, !.value = IF cache[p].value = NoState THEN disk ELSE @]
  <2>1. slot \in Slot /\ slot.value \in {disk, cache[p].value} /\ slot.fresh = cache[p].fresh /\ (slot.fresh => slot.value = cache[p].value)
    BY <1>2, <1>3 DEF Slot
  <2>2. /\ cache' = [cache EXCEPT ![p] = slot]
        /\ fetch' = [fetch EXCEPT ![p] = NoState] /\ trial' = trial /\ known' = known /\ disk' = disk /\ UNCHANGED <<cp, today>>
    BY <1>9 DEF FetchFailed
  <2> HIDE DEF slot
  <2>3. /\ slot.value # NoState => Past(slot.value)
        /\ slot.fresh => slot.value # NoState /\ slot.value.v >= known[p]
    BY <1>3, <2>1
  <2>4. NoState \in CpState \cup {NoState, Lost} /\ disk' \in CpState \cup {NoState} /\ (disk' # NoState => Past(disk'))
    BY <1>2, <1>3, <2>2
  <2> QED BY <1>2, <1>3, <1>5, <2>1, <2>2, <2>3, <2>4, ProcessStep
<1>10. CASE TrialAnswered(p)
  <2>1. trial[p] \in Nat /\ trial[p] # NoState /\ fetch[p] = NoState
    BY <1>2, <1>10 DEF TrialAnswered, Forget, Unlocked
  <2>2. /\ cache' = [cache EXCEPT ![p] = Cold] /\ known' = [known EXCEPT ![p] = trial[p]]
        /\ fetch' = fetch /\ trial' = [trial EXCEPT ![p] = NoState] /\ disk' = disk /\ UNCHANGED <<cp, today>>
    BY <1>10 DEF TrialAnswered, Forget
  <2> QED BY <1>2, <1>3, <1>4, <1>5, <2>1, <2>2, ProcessStep
<1>11. CASE Restart(p)
  <2>2. /\ cache' = [cache EXCEPT ![p] = Cold] /\ known' = [known EXCEPT ![p] = 0]
        /\ fetch' = [fetch EXCEPT ![p] = NoState] /\ trial' = [trial EXCEPT ![p] = NoState] /\ disk' = disk /\ UNCHANGED <<cp, today>>
    BY <1>11 DEF Restart
  <2>3. /\ Cold.value # NoState => Past(Cold.value)
        /\ Cold.fresh => Cold.value # NoState /\ Cold.value.v >= 0
        /\ disk' \in CpState \cup {NoState} /\ (disk' # NoState => Past(disk'))
    BY <1>2, <1>3, <1>4, <2>2
  <2>4. 0 <= cp.v /\ 0 \in Nat /\ NoState \in Nat \cup {NoState} /\ NoState \in CpState \cup {NoState, Lost}
    BY <1>2
  <2> QED BY <1>4, <2>2, <2>3, <2>4, ProcessStep
<1>12. CASE \E answered \in BOOLEAN : StartFetch(p, answered)
  <2>1. PICK f \in {cp, Lost} : fetch' = [fetch EXCEPT ![p] = f]
    BY <1>12 DEF StartFetch
  <2>2. cache' = cache /\ known' = known /\ trial' = trial /\ disk' = disk /\ UNCHANGED <<cp, today>>
    BY <1>12 DEF StartFetch
  <2> QED BY <1>2, <1>3, <1>5, <2>1, <2>2, ProcessStep
<1> QED BY <1>6, <1>7, <1>8, <1>9, <1>10, <1>11, <1>12

LEMMA CpActs ==
  ASSUME NEW c \in CpState, NEW k \in Nat, NEW t \in {"trial", "active", "canceled"}
  PROVE  /\ [c EXCEPT !.v = @ + 1, !.period = k] = [v |-> c.v + 1, status |-> c.status, period |-> k]
         /\ [c EXCEPT !.v = @ + 1, !.status = t] = [v |-> c.v + 1, status |-> t, period |-> c.period]
         /\ c.v + 1 \in Nat /\ c.period \in Nat /\ c.status \in {"trial", "active", "canceled"}
<1>1. PICK x : x = [c EXCEPT !.v = @ + 1, !.period = k]
  OBVIOUS
<1>2. PICK y : y = [c EXCEPT !.v = @ + 1, !.status = t]
  OBVIOUS
<1>3. x = [v |-> c.v + 1, status |-> c.status, period |-> k]
  BY <1>1 DEF CpState
<1>4. y = [v |-> c.v + 1, status |-> t, period |-> c.period]
  BY <1>2 DEF CpState
<1>5. c.v + 1 \in Nat /\ c.period \in Nat /\ c.status \in {"trial", "active", "canceled"}
  BY DEF CpState
<1> QED BY <1>1, <1>2, <1>3, <1>4, <1>5, Zenon

\* A step of CP or of the clock.
LEMMA ClockSteps ==
  ASSUME StateInv, NoState \notin CpState, NEW n \in Nat, Periods = 1..n,
         \/ PeriodEnds \/ CpRolls
         \/ \E p \in Processes, st \in {"active", "canceled"}, answered \in BOOLEAN : TrialAction(p, st, answered)
  PROVE  StateInv' /\ today' >= today /\ (cp'.status = "trial" => cp.status = "trial")
<1>1. StateTyped /\ AllPast /\ Versions
  BY DEF StateInv
<1>2. today \in Nat /\ cp \in CpState /\ cp.v \in Nat /\ cp.period \in Nat /\ cp.period <= today
      /\ \A s \in CpState : s.period \in Nat /\ s.v \in Nat
  BY <1>1 DEF StateTyped, CpState, AllPast
<1>3. CASE PeriodEnds
  <2>1. /\ today' = today + 1 /\ today' \in Periods /\ cp' = cp /\ fetch' = fetch /\ disk' = disk /\ trial' = trial /\ known' = known
        /\ cache' = [p \in Processes |->
             IF cache[p].value # NoState /\ cache[p].value.period = today THEN [cache[p] EXCEPT !.fresh = FALSE] ELSE cache[p]]
    BY <1>3 DEF PeriodEnds
  <2>2. \A p \in Processes : cache'[p] \in Slot /\ cache'[p].value = cache[p].value /\ (cache'[p].fresh => cache[p].fresh)
    <3> SUFFICES ASSUME NEW p \in Processes
                 PROVE  cache'[p] \in Slot /\ cache'[p].value = cache[p].value /\ (cache'[p].fresh => cache[p].fresh)
      OBVIOUS
    <3>1. cache[p] \in Slot
      BY <1>1 DEF StateTyped
    <3> QED BY <2>1, <3>1 DEF Slot
  <2>3. cache' \in [Processes -> Slot]
    BY <2>1, <2>2
  <2>4. StateTyped'
    BY <1>1, <2>1, <2>3 DEF StateTyped
  <2>5. AllPast'
    <3>1. \A s \in CpState : Past(s) => s.period <= today' /\ (cp'.status = "trial" => s.status = "trial")
      BY <1>2, <2>1 DEF Past
    <3>2. \A p \in Processes : cache[p].value # NoState => cache[p].value \in CpState
      BY <1>1 DEF StateTyped, Slot
    <3>3. \A p \in Processes : fetch[p] \notin {NoState, Lost} => fetch[p] \in CpState
      BY <1>1 DEF StateTyped
    <3>4. disk # NoState => disk \in CpState
      BY <1>1 DEF StateTyped
    <3> QED BY <1>1, <1>2, <2>1, <2>2, <3>1, <3>2, <3>3, <3>4 DEF AllPast, Past
  <2>6. Versions'
    BY <1>1, <2>1, <2>2 DEF Versions
  <2> QED BY <1>2, <2>1, <2>4, <2>5, <2>6 DEF StateInv
<1>4. ASSUME CpRolls \/ \E p \in Processes, st \in {"active", "canceled"}, answered \in BOOLEAN : TrialAction(p, st, answered)
      PROVE  StateInv' /\ today' >= today /\ (cp'.status = "trial" => cp.status = "trial")
  <2> DEFINE moved ==
        /\ today' = today /\ cache' = cache /\ fetch' = fetch /\ disk' = disk /\ known' = known
        /\ cp' \in CpState /\ cp'.v = cp.v + 1 /\ cp'.period <= today /\ (cp'.status = "trial" => cp.status = "trial")
        /\ (trial' = trial \/ \E p \in Processes : trial' = [trial EXCEPT ![p] = cp'.v])
  <2>1. moved
    <3>1. ASSUME CpRolls PROVE moved
      <4>1. cp' = [cp EXCEPT !.v = @ + 1, !.period = today]
        BY <3>1 DEF CpRolls
      <4>2. cp' \in CpState /\ cp'.v = cp.v + 1 /\ cp'.period = today /\ cp'.status = cp.status
        <5>1. cp' = [v |-> cp.v + 1, status |-> cp.status, period |-> today]
          BY <1>2, <4>1, CpActs
        <5> QED BY <1>2, <5>1, CpActs DEF CpState
      <4>3. cp'.period <= today
        BY <1>2, <4>2
      <4>4. today' = today /\ cache' = cache /\ fetch' = fetch /\ disk' = disk /\ known' = known /\ trial' = trial
        BY <3>1 DEF CpRolls
      <4> QED BY <4>2, <4>3, <4>4
    <3>2. ASSUME NEW p \in Processes, NEW st \in {"active", "canceled"}, NEW answered \in BOOLEAN, TrialAction(p, st, answered)
          PROVE  moved
      <4>1. /\ cp' = [cp EXCEPT !.v = @ + 1, !.status = st] /\ UNCHANGED <<today, cache, fetch, disk, known>>
            /\ trial' \in {trial, [trial EXCEPT ![p] = cp'.v]}
        BY <3>2 DEF TrialAction
      <4>2. cp' \in CpState /\ cp'.v = cp.v + 1 /\ cp'.period = cp.period /\ cp'.status = st
        <5>1. cp' = [v |-> cp.v + 1, status |-> st, period |-> cp.period]
          BY <1>2, <4>1, CpActs
        <5> QED BY <1>2, <5>1, CpActs DEF CpState
      <4> QED BY <1>2, <4>1, <4>2
    <3> HIDE DEF moved
    <3> QED BY <1>4, <3>1, <3>2, Zenon
  <2>2. StateTyped'
    <3>1. cp'.v \in Nat
      BY <1>2, <2>1
    <3>2. trial' \in [Processes -> Nat \cup {NoState}]
      BY <1>1, <2>1, <3>1 DEF StateTyped
    <3> QED BY <1>1, <2>1, <3>2 DEF StateTyped
  <2>3. AllPast'
    BY <1>1, <2>1 DEF AllPast, Past
  <2>4. \A p \in Processes : trial'[p] # NoState => trial'[p] <= cp'.v
    <3>1. \A p \in Processes : (trial[p] # NoState => trial[p] <= cp.v) /\ trial[p] \in Nat \cup {NoState}
      BY <1>1 DEF Versions, StateTyped
    <3>2. \A p \in Processes : trial'[p] = trial[p] \/ trial'[p] = cp'.v
      BY <1>1, <2>1 DEF StateTyped
    <3> QED BY <1>2, <2>1, <3>1, <3>2
  <2>5. \A p \in Processes : known[p] <= cp'.v
    <3>1. \A p \in Processes : known[p] <= cp.v /\ known[p] \in Nat
      BY <1>1 DEF Versions, StateTyped
    <3> QED BY <1>2, <2>1, <3>1
  <2>6. Versions'
    BY <1>1, <2>1, <2>4, <2>5 DEF Versions
  <2> QED BY <1>2, <2>1, <2>2, <2>3, <2>6 DEF StateInv
<1> QED BY <1>3, <1>4

\* What the grant pays for is added up from the records.
LEMMA SummaryCovers ==
  ASSUME NEW n \in Nat \ {0}, Periods = 1..n, today \in Periods, spent \in [Periods -> Nat], NEW from \in Nat, from <= today
  PROVE  spent[today] <= Summary(from) /\ Summary(from) \in Int
<1> DEFINE S == {k \in Periods : k >= from}
           zero == [k \in S |-> 0]
<1>1. IsFiniteSet(S)
  <2>1. IsFiniteSet(1..n)
    BY FS_Interval
  <2>2. S \subseteq 1..n
    OBVIOUS
  <2> QED BY <2>1, <2>2, FS_Subset
<1>2. today \in S /\ \A k \in S : spent[k] \in Nat
  OBVIOUS
<1>3. \A k \in S : zero[k] = 0
  OBVIOUS
<1>4. Summary(from) = Total(spent, S)
  BY DEF Summary, Total, MapThenSumSet, MapThenFoldSet
<1> HIDE DEF S, zero
<1>5. Total(spent, S) = spent[today] + Total(spent, S \ {today}) /\ Total(spent, S \ {today}) \in Int
  <2>1. \A y \in S : spent[y] \in Int
    BY <1>2
  <2> QED BY <1>1, <1>2, <2>1, TotalTakes
<1>6. IsFiniteSet(S \ {today})
  BY <1>1, FS_RemoveElement
<1>7. Total(zero, S \ {today}) = 0
  BY <1>3, <1>6, TotalOfZeros
<1>8. Total(zero, S \ {today}) <= Total(spent, S \ {today})
  <2> DEFINE R == S \ {today}
  <2>1. \A k \in R : zero[k] \in Int /\ spent[k] \in Int /\ zero[k] <= spent[k]
    BY <1>2, <1>3
  <2> HIDE DEF R
  <2>2. Total(zero, R) <= Total(spent, R)
    BY <1>6, <2>1, TotalLess DEF R
  <2> QED BY <2>2 DEF R
<1> QED BY <1>2, <1>4, <1>5, <1>7, <1>8

LEMMA PaidFinite ==
  ASSUME IsFiniteSet(Calls)
  PROVE  IsFiniteSet(Paid) /\ Cardinality(Paid) \in Nat /\ Cardinality(Calls) \in Nat /\ Cardinality(Paid) <= Cardinality(Calls)
<1>1. Paid \subseteq Calls
  BY DEF Paid
<1> QED BY <1>1, FS_Subset, FS_CardinalityType

\* A step that lets no call pass the gate.
LEMMA NoneMorePaid ==
  ASSUME NEW n, BillingConstants(n), BillingInv, StateTyped',
         spent' = spent, today' = today, Paid' \subseteq Paid, cp'.status = "trial" => cp.status = "trial"
  PROVE  Within'
<1>1. IsFiniteSet(Paid) /\ Cardinality(Paid) \in Nat /\ Cardinality(Calls) \in Nat
  BY PaidFinite DEF BillingConstants
<1>2. IsFiniteSet(Paid') /\ Cardinality(Paid') \in Nat /\ Cardinality(Paid') <= Cardinality(Paid)
  BY <1>1, FS_Subset, FS_CardinalityType
<1>3. spent[today] \in Nat /\ Grant \in Nat
  BY DEF BillingInv, CallTyped, StateInv, StateTyped, BillingConstants
<1>4. \A k \in Periods : k > today' => spent'[k] = 0
  BY DEF BillingInv, Within
<1>5. ASSUME cp'.status = "trial"
      PROVE  /\ \A k \in Periods : spent'[k] <= Grant - 1 + Cardinality(Calls)
             /\ spent'[today'] + Cardinality(Paid') <= Grant - 1 + Cardinality(Calls)
             /\ Grant = 0 => Paid' = {}
  <2>1. /\ \A k \in Periods : spent[k] <= Grant - 1 + Cardinality(Calls)
        /\ spent[today] + Cardinality(Paid) <= Grant - 1 + Cardinality(Calls)
        /\ Grant = 0 => Paid = {}
    BY <1>5 DEF BillingInv, Within
  <2> QED BY <1>1, <1>2, <1>3, <2>1
<1> QED BY <1>4, <1>5 DEF Within

\* A step that moves no call, and in which no state of CP comes back.
LEMMA CallsKept ==
  ASSUME NEW n, BillingConstants(n), BillingInv, StateInv', today' >= today, cp'.status = "trial" => cp.status = "trial",
         spent' = spent, call' \in [Calls -> CallState \cup {NoState}],
         \A c \in Calls : call'[c] \in {call[c], NoState}
  PROVE  CallTyped' /\ CallsPast' /\ Paid' \subseteq Paid
<1>1. CallTyped'
  BY DEF BillingInv, CallTyped
<1>2. today \in Nat /\ today' \in Nat /\ \A s \in CpState : s.period \in Nat
  BY DEF BillingConstants, BillingInv, StateInv, StateTyped, CpState
<1>3. \A s \in CpState : Past(s) => s.period <= today' /\ (cp'.status = "trial" => s.status = "trial")
  BY <1>2 DEF Past
<1>4. CallsPast'
  BY <1>3 DEF BillingInv, CallsPast, Past
<1>5. Paid' \subseteq Paid
  BY DEF Paid
<1> QED BY <1>1, <1>4, <1>5

LEMMA GateLets ==
  ASSUME NEW n, BillingConstants(n), BillingInv, NEW c \in Calls, GateAnswers(c)
  PROVE  BillingInv'
<1>1. StateInv /\ StateTyped /\ CallTyped /\ CallsPast /\ Within /\ UNCHANGED <<stateVars, spent>>
  BY DEF BillingInv, StateInv, GateAnswers
<1>2. StateInv' /\ StateTyped'
  BY <1>1 DEF stateVars, StateInv, StateTyped, AllPast, Past, Versions
<1>3. call[c] \in CallState /\ call[c] # NoState /\ today \in Periods /\ today' = today /\ spent' = spent
      /\ cp' = cp /\ today \in Nat /\ spent \in [Periods -> Nat] /\ n \in Nat \ {0} /\ Periods = 1..n /\ Grant \in Nat
  BY <1>1 DEF GateAnswers, CallTyped, StateTyped, stateVars, BillingConstants
<1> DEFINE answer == IF Admits(call[c].s) THEN "paid" ELSE "refused"
           d == [call[c] EXCEPT !.at = answer]
<1>4. d \in CallState /\ d.s = call[c].s /\ d.at = answer /\ call' = [call EXCEPT ![c] = d]
  BY <1>3 DEF GateAnswers, CallState
<1>5. CallTyped'
  BY <1>1, <1>3, <1>4 DEF CallTyped
<1>6. CallsPast'
  BY <1>1, <1>3, <1>4 DEF CallsPast, CallTyped, Past
<1>7. Paid' = Paid \cup (IF answer = "paid" THEN {c} ELSE {})
  <2>1. Paid' = {q \in Calls : call'[q] # NoState /\ call'[q].at = "paid"}
    BY DEF Paid
  <2>2. call'[c] = d /\ \A q \in Calls : q # c => call'[q] = call[q]
    BY <1>1, <1>4 DEF CallTyped
  <2>3. d # NoState /\ c \notin Paid
    BY <1>3, <1>4 DEF BillingConstants, Paid, GateAnswers
  <2>4. \A q \in Calls : q # c => (q \in Paid' <=> q \in Paid)
    BY <2>1, <2>2 DEF Paid
  <2>5. c \in Paid' <=> answer = "paid"
    BY <1>4, <2>1, <2>2, <2>3
  <2>6. Paid \subseteq Calls /\ Paid' \subseteq Calls
    BY DEF Paid
  <2> HIDE DEF answer, d
  <2> QED BY <2>3, <2>4, <2>5, <2>6
<1>8. ASSUME cp.status = "trial", answer = "paid"
      PROVE  spent[today] < Grant
  <2>1. Admits(call[c].s)
    BY <1>8
  <2>2. call[c].s # Default /\ call[c].s \in CpState /\ Past(call[c].s)
    <3>1. Default.status = "none" /\ Default.period = NoState
      BY DEF Default
    <3>2. call[c].s # Default
      BY <2>1, <3>1 DEF Admits, HardCap
    <3> QED BY <1>1, <1>3, <3>2 DEF CallsPast
  <2> DEFINE from == call[c].s.period
  <2>3. from \in Nat /\ from <= today /\ call[c].s.status = "trial"
    BY <1>8, <2>2 DEF CpState, Past
  <2>4. Summary(from) < Grant
    BY <2>1, <2>3 DEF Admits, HardCap
  <2> HIDE DEF from
  <2>5. spent[today] <= Summary(from) /\ Summary(from) \in Int
    BY <1>3, <2>3, SummaryCovers
  <2> QED BY <1>3, <2>4, <2>5
<1>9. IsFiniteSet(Calls) /\ Paid' \subseteq Calls /\ Cardinality(Calls) \in Nat
  BY <1>7, FS_CardinalityType DEF Paid, BillingConstants
<1>10. Cardinality(Paid') \in Nat /\ Cardinality(Paid') <= Cardinality(Calls)
  BY <1>9, FS_Subset, FS_CardinalityType
<1>11. Within'
  <2>1. CASE answer = "paid"
    <3>1. spent[today] \in Nat
      BY <1>3
    <3>2. ASSUME cp.status = "trial"
          PROVE  /\ \A k \in Periods : spent'[k] <= Grant - 1 + Cardinality(Calls)
                 /\ spent'[today'] + Cardinality(Paid') <= Grant - 1 + Cardinality(Calls)
                 /\ Grant = 0 => Paid' = {}
      <4>1. spent[today] < Grant
        BY <1>8, <2>1, <3>2
      <4>2. \A k \in Periods : spent[k] <= Grant - 1 + Cardinality(Calls)
        BY <1>1, <3>2 DEF Within
      <4> QED BY <1>3, <1>9, <1>10, <3>1, <4>1, <4>2
    <3> QED BY <1>1, <1>3, <3>2 DEF Within
  <2>2. CASE answer # "paid"
    <3>1. Paid' = Paid
      BY <1>7, <2>2
    <3> QED BY <1>1, <1>3, <3>1 DEF Within
  <2> QED BY <2>1, <2>2
<1> QED BY <1>2, <1>5, <1>6, <1>11 DEF BillingInv

LEMMA UsageRecorded ==
  ASSUME NEW n, BillingConstants(n), BillingInv, NEW c \in Calls, RecordUsage(c)
  PROVE  BillingInv'
<1>1. StateInv /\ StateTyped /\ CallTyped /\ CallsPast /\ Within /\ UNCHANGED stateVars
  BY DEF BillingInv, StateInv, RecordUsage
<1>2. StateInv' /\ StateTyped'
  BY <1>1 DEF stateVars, StateInv, StateTyped, AllPast, Past, Versions
<1>3. today \in Periods /\ today' = today /\ cp' = cp /\ Grant \in Nat /\ c \in Paid
      /\ call' = [call EXCEPT ![c] = NoState] /\ spent' = [spent EXCEPT ![today] = @ + 1] /\ spent \in [Periods -> Nat]
      /\ n \in Nat /\ Periods = 1..n
  BY <1>1 DEF RecordUsage, CallTyped, StateTyped, stateVars, BillingConstants, Paid
<1>4. CallTyped'
  BY <1>1, <1>3 DEF CallTyped
<1>5. CallsPast'
  BY <1>1, <1>3 DEF CallsPast, CallTyped, Past
<1>6. Paid' = Paid \ {c}
  BY <1>1, <1>3 DEF Paid, CallTyped
<1>7. IsFiniteSet(Paid) /\ Cardinality(Paid) \in Nat /\ Cardinality(Calls) \in Nat
  BY PaidFinite DEF BillingConstants
<1>8. Cardinality(Paid') = Cardinality(Paid) - 1
  BY <1>3, <1>6, <1>7, FS_RemoveElement
<1>9. spent'[today] = spent[today] + 1 /\ \A k \in Periods : k # today => spent'[k] = spent[k]
  BY <1>3
<1>10. Cardinality(Paid') \in Nat
  BY <1>6, <1>7, FS_RemoveElement, FS_CardinalityType
<1>11. ASSUME cp.status = "trial"
       PROVE  /\ \A k \in Periods : spent'[k] <= Grant - 1 + Cardinality(Calls)
              /\ spent'[today'] + Cardinality(Paid') <= Grant - 1 + Cardinality(Calls)
              /\ Grant = 0 => Paid' = {}
  <2>1. /\ \A k \in Periods : spent[k] <= Grant - 1 + Cardinality(Calls)
        /\ spent[today] + Cardinality(Paid) <= Grant - 1 + Cardinality(Calls)
        /\ Grant = 0 => Paid = {}
    BY <1>1, <1>11 DEF Within
  <2>2. spent[today] \in Nat
    BY <1>3
  <2>3. spent'[today] + Cardinality(Paid') <= Grant - 1 + Cardinality(Calls)
    BY <1>3, <1>7, <1>8, <1>9, <2>1, <2>2
  <2>4. spent'[today] <= Grant - 1 + Cardinality(Calls)
    BY <1>3, <1>7, <1>9, <1>10, <2>2, <2>3
  <2> QED BY <1>3, <1>6, <1>9, <2>1, <2>3, <2>4
<1>12. Within'
  <2>1. \A k \in Periods : k > today => spent[k] = 0 /\ k # today
    BY <1>1, <1>3 DEF Within
  <2> QED BY <1>3, <1>9, <1>11, <2>1 DEF Within
<1> QED BY <1>2, <1>4, <1>5, <1>12 DEF BillingInv

LEMMA ClockMoves ==
  ASSUME NEW n, BillingConstants(n), BillingInv, StateInv', PeriodEnds
  PROVE  Within'
<1>1. today \in Periods /\ today' = today + 1 /\ today' \in Periods /\ cp' = cp /\ spent' = spent /\ call' = call /\ Grant \in Nat
      /\ spent \in [Periods -> Nat] /\ Within /\ n \in Nat \ {0} /\ Periods = 1..n /\ Grant + Cardinality(Calls) > 0
  BY DEF PeriodEnds, BillingInv, CallTyped, StateInv, StateTyped, BillingConstants
<1>2. Paid' = Paid
  BY <1>1 DEF Paid
<1>3. Cardinality(Paid) \in Nat /\ Cardinality(Calls) \in Nat /\ Cardinality(Paid) <= Cardinality(Calls)
  BY PaidFinite DEF BillingConstants
<1>4. spent[today'] = 0 /\ \A k \in Periods : k > today' => spent[k] = 0
  BY <1>1 DEF Within
<1>5. ASSUME Grant = 0, Paid = {} PROVE Cardinality(Paid) = 0
  BY <1>5, FS_EmptySet
<1>6. ASSUME cp.status = "trial" PROVE spent[today'] + Cardinality(Paid) <= Grant - 1 + Cardinality(Calls)
  <2>1. Grant = 0 => Paid = {}
    BY <1>1, <1>6 DEF Within
  <2>2. CASE Grant = 0
    BY <1>1, <1>3, <1>4, <1>5, <2>1, <2>2
  <2>3. CASE Grant # 0
    BY <1>1, <1>3, <1>4, <2>3
  <2> QED BY <2>2, <2>3
<1> QED BY <1>1, <1>2, <1>4, <1>6 DEF Within

LEMMA BillingStep ==
  ASSUME NEW n, BillingConstants(n), BillingInv, [BillingNext]_billingVars
  PROVE  BillingInv'
<1>1. StateInv /\ StateTyped /\ CallTyped /\ CallsPast /\ n \in Nat /\ Periods = 1..n /\ NoState \notin CpState
  BY DEF BillingInv, StateInv, BillingConstants
<1>2. ASSUME StateInv', today' = today, cp'.status = "trial" => cp.status = "trial", spent' = spent,
             call' \in [Calls -> CallState \cup {NoState}], \A c \in Calls : call'[c] \in {call[c], NoState}
      PROVE  BillingInv'
  <2>1. today \in Int
    BY <1>1 DEF StateTyped
  <2>2. CallTyped' /\ CallsPast' /\ Paid' \subseteq Paid
    BY <1>2, <2>1, CallsKept
  <2>3. Within'
    BY <1>2, <2>2, NoneMorePaid DEF StateInv
  <2> QED BY <1>2, <2>2, <2>3 DEF BillingInv
<1>3. call \in [Calls -> CallState \cup {NoState}]
  BY <1>1 DEF CallTyped
<1>4. ASSUME NEW p \in Processes,
             \/ TtlOver(p) \/ BackoffOver(p) \/ Fetched(p) \/ FetchFailed(p) \/ TrialAnswered(p)
             \/ \E answered \in BOOLEAN : StartFetch(p, answered)
      PROVE  BillingInv'
  <2>1. StateInv'
    BY <1>1, <1>4, CacheSteps
  <2>2. UNCHANGED <<today, cp, spent, call>>
    BY <1>4 DEF TtlOver, BackoffOver, Fetched, FetchFailed, TrialAnswered, StartFetch
  <2> QED BY <1>2, <1>3, <2>1, <2>2
<1>5. ASSUME NEW p \in Processes, Restart(p)
      PROVE  BillingInv'
  <2>1. StateInv'
    BY <1>1, <1>5, CacheSteps
  <2>2. UNCHANGED <<today, cp, spent>> /\ call' = [c \in Calls |-> IF call[c] # NoState /\ call[c].p = p THEN NoState ELSE call[c]]
    BY <1>5 DEF Restart
  <2>3. call' \in [Calls -> CallState \cup {NoState}] /\ \A c \in Calls : call'[c] \in {call[c], NoState}
    BY <1>3, <2>2
  <2> QED BY <1>2, <2>1, <2>2, <2>3
<1>6. ASSUME CpRolls \/ \E p \in Processes, st \in {"active", "canceled"}, answered \in BOOLEAN : TrialAction(p, st, answered)
      PROVE  BillingInv'
  <2>1. StateInv' /\ (cp'.status = "trial" => cp.status = "trial")
    BY <1>1, <1>6, ClockSteps
  <2>2. UNCHANGED <<today, spent, call>>
    BY <1>6 DEF CpRolls, TrialAction
  <2> QED BY <1>2, <1>3, <2>1, <2>2
<1>7. ASSUME PeriodEnds PROVE BillingInv'
  <2>1. StateInv' /\ today' >= today /\ (cp'.status = "trial" => cp.status = "trial")
    BY <1>1, <1>7, ClockSteps
  <2>2. spent' = spent /\ call' = call
    BY <1>7 DEF PeriodEnds
  <2>3. CallTyped' /\ CallsPast'
    BY <1>3, <2>1, <2>2, CallsKept
  <2>4. Within'
    BY <1>7, <2>1, ClockMoves
  <2> QED BY <2>1, <2>3, <2>4 DEF BillingInv
<1>8. ASSUME NEW c \in Calls, NEW p \in Processes, GateReads(c, p)
      PROVE  BillingInv'
  <2> DEFINE d == [at |-> "gate", p |-> p, s |-> Cached(p)]
  <2>1. call' = [call EXCEPT ![c] = d] /\ UNCHANGED stateVars /\ spent' = spent
    BY <1>8 DEF GateReads
  <2>2. StateInv' /\ today' = today /\ cp' = cp
    BY <1>1, <2>1 DEF StateInv, stateVars, StateTyped, AllPast, Past, Versions
  <2>3. Cached(p) = Default \/ (Cached(p) \in CpState /\ Past(Cached(p)))
    BY <1>1 DEF Cached, StateInv, AllPast, StateTyped, Slot
  <2>4. d \in CallState /\ d.s = Cached(p) /\ d.at # "paid"
    BY <2>3 DEF CallState
  <2> HIDE DEF d
  <2>5. CallTyped'
    BY <1>1, <2>1, <2>4 DEF CallTyped
  <2>6. CallsPast'
    BY <1>1, <1>3, <2>1, <2>2, <2>3, <2>4 DEF CallsPast, Past
  <2>7. Paid' \subseteq Paid
    BY <1>3, <2>1, <2>4 DEF Paid
  <2>8. Within'
    BY <2>1, <2>2, <2>7, NoneMorePaid DEF StateInv
  <2> QED BY <2>2, <2>5, <2>6, <2>8 DEF BillingInv
<1>9. ASSUME NEW c \in Calls, Refused(c) PROVE BillingInv'
  <2>1. call' = [call EXCEPT ![c] = NoState] /\ UNCHANGED stateVars /\ spent' = spent
    BY <1>9 DEF Refused
  <2>2. StateInv' /\ today' = today /\ cp' = cp
    BY <1>1, <2>1 DEF StateInv, stateVars, StateTyped, AllPast, Past, Versions
  <2>3. call' \in [Calls -> CallState \cup {NoState}] /\ \A q \in Calls : call'[q] \in {call[q], NoState}
    BY <1>3, <2>1
  <2> QED BY <1>2, <2>1, <2>2, <2>3
<1>10. ASSUME UNCHANGED billingVars PROVE BillingInv'
  <2>1. UNCHANGED stateVars /\ spent' = spent /\ call' = call
    BY <1>10 DEF billingVars
  <2>2. StateInv' /\ today' = today /\ cp' = cp
    BY <1>1, <2>1 DEF StateInv, stateVars, StateTyped, AllPast, Past, Versions
  <2> QED BY <1>2, <1>3, <2>1, <2>2
<1>11. \A c \in Calls : GateAnswers(c) \/ RecordUsage(c) => BillingInv'
  BY GateLets, UsageRecorded
<1> QED BY <1>4, <1>5, <1>6, <1>7, <1>8, <1>9, <1>10, <1>11, Zenon DEF BillingNext

LEMMA BillingStarts ==
  ASSUME NEW n, BillingConstants(n), BillingInit
  PROVE  BillingInv
<1>1. n \in Nat \ {0} /\ Periods = 1..n /\ 1 \in Periods /\ Grant \in Nat /\ NoState \notin CpState /\ Grant + Cardinality(Calls) > 0
  BY DEF BillingConstants
<1>2. Cold \in Slot /\ Cold.value = NoState /\ ~Cold.fresh
  BY DEF Cold, Slot
<1>3. cp \in CpState /\ cp.v = 1 /\ cp.period = 1 /\ today = 1
  BY DEF BillingInit, CpState
<1>4. StateInv
  BY <1>1, <1>2, <1>3 DEF BillingInit, StateInv, StateTyped, AllPast, Versions
<1>5. CallTyped /\ CallsPast
  BY DEF BillingInit, CallTyped, CallsPast
<1>6. Paid = {} /\ Cardinality(Paid) = 0 /\ Cardinality(Calls) \in Nat
  <2>1. Paid = {}
    BY DEF Paid, BillingInit
  <2> QED BY <2>1, FS_EmptySet, PaidFinite DEF BillingConstants
<1>7. Within
  BY <1>1, <1>3, <1>6 DEF Within, BillingInit
<1> QED BY <1>4, <1>5, <1>7 DEF BillingInv

\* A trial action is seen by its process once it was answered, and while CP says trial
\* no period costs more than the grant and the calls that were let through together,
\* for any processes, calls, periods and outages of CP (billing_state_cache.py,
\* enforcement.py).
THEOREM StateIsCurrentHolds ==
  ASSUME NEW n, BillingConstants(n)
  PROVE  BillingSpec => []StateIsCurrent
<1>1. BillingInit => BillingInv
  BY BillingStarts
<1>2. BillingInv /\ [BillingNext]_billingVars => BillingInv'
  BY BillingStep
<1>3. BillingInv => StateIsCurrent
  BY DEF BillingInv, StateInv, Versions, Within, StateIsCurrent, ActionIsSeen, CapHolds
<1> QED BY <1>1, <1>2, <1>3, PTL DEF BillingSpec
==============================================================================
