----------------------------- MODULE RiskProofs -----------------------------
(***************************************************************************)
(* Proofs about what a trade risks and what a backtest makes of it:        *)
(* PortfolioRisk, TradePlan, TradeScore and Backtest, for any trades,      *)
(* limits, quotes, setups, bars and orders.                                *)
(***************************************************************************)
EXTENDS PortfolioRisk, TradePlan, TradeScore, Backtest, FiniteSetTheorems,
        WellFoundedInduction, TLAPS

-----------------------------------------------------------------------------
(***************************************************************************)
(* Sums over finite sets.  What a sum is worth is proved by a least        *)
(* counterexample, over numbers and over the subsets of a set.             *)
(***************************************************************************)

(* Induction over sets of numbers and over the subsets of a finite set.    *)

LEMMA NumbersByStep ==
  ASSUME NEW G, 0 \in G, \A n \in Nat : n \in G => n + 1 \in G
  PROVE  \A n \in Nat : n \in G
<1> DEFINE T == {n \in Nat : n \notin G}
<1>1. SUFFICES ASSUME T # {} PROVE FALSE
  OBVIOUS
<1>2. \E x \in T : \A y \in T : ~(<<y, x>> \in OpToRel(<, Nat))
  BY <1>1, NatLessThanWellFounded, WFMin
<1>3. PICK x \in T : \A y \in T : ~(<<y, x>> \in OpToRel(<, Nat))
  BY <1>2
<1>4. \A y \in T : ~(y < x)
  BY <1>3 DEF OpToRel
<1>5. x - 1 \in Nat /\ x - 1 \in G
  BY <1>4
<1>6. (x - 1) + 1 \in G
  BY <1>5
<1>7. QED
  BY <1>6

LEMMA OneSmaller ==
  ASSUME NEW s, IsFiniteSet(s), NEW n \in Nat, Cardinality(s) = n + 1
  PROVE  s # {} /\ \A x \in s : Cardinality(s \ {x}) = n
<1>1. s # {}
  BY FS_EmptySet
<1>2. ASSUME NEW x \in s PROVE Cardinality(s \ {x}) = n
  <2>1. Cardinality(s \ {x}) = Cardinality(s) - 1
    BY FS_RemoveElement
  <2>2. QED
    BY <2>1
<1>3. QED
  BY <1>1, <1>2

LEMMA SubsetsByElement ==
  ASSUME NEW S, IsFiniteSet(S), NEW G, {} \in G,
         \A s \in SUBSET S : \A x \in S \ s : s \in G => s \cup {x} \in G
  PROVE  \A s \in SUBSET S : s \in G
<1> DEFINE N == {n \in Nat : \A s \in SUBSET S : Cardinality(s) = n => s \in G}
<1>1. 0 \in N
  BY FS_Subset, FS_EmptySet
<1>2. ASSUME NEW n \in Nat, n \in N PROVE n + 1 \in N
  <2>1. SUFFICES ASSUME NEW s \in SUBSET S, Cardinality(s) = n + 1 PROVE s \in G
    OBVIOUS
  <2>2. IsFiniteSet(s)
    BY FS_Subset
  <2>3. s # {}
    BY <2>1, FS_EmptySet
  <2>4. PICK x \in s : TRUE
    BY <2>3
  <2>5. Cardinality(s \ {x}) = n
    BY <2>1, <2>2, <2>4, OneSmaller
  <2>6. s \ {x} \in SUBSET S /\ s \ {x} \in G
    BY <1>2, <2>5
  <2>7. x \in S \ (s \ {x}) /\ (s \ {x}) \cup {x} = s
    BY <2>4
  <2>8. QED
    BY <2>6, <2>7
<1>3. \A n \in Nat : n \in N
  <2> HIDE DEF N
  <2>1. \A n \in Nat : n \in N => n + 1 \in N
    BY <1>2
  <2>2. QED
    BY <1>1, <2>1, NumbersByStep
<1>4. ASSUME NEW s \in SUBSET S PROVE s \in G
  <2>1. Cardinality(s) \in Nat
    BY FS_Subset, FS_CardinalityType
  <2>2. QED
    BY <1>3, <2>1
<1>5. QED
  BY <1>4

-----------------------------------------------------------------------------
(* Sums over finite sets.                                                  *)

Pick(s) == CHOOSE x \in s : TRUE
IsSum(g, f, S) ==
  g = [s \in SUBSET S |-> IF s = {} THEN 0 ELSE f[Pick(s)] + g[s \ {Pick(s)}]]

LEMMA PickIn == ASSUME NEW s, s # {} PROVE Pick(s) \in s
BY DEF Pick

LEMMA SumExists ==
  ASSUME NEW S, IsFiniteSet(S), NEW f
  PROVE  \E g : IsSum(g, f, S)
<1> DEFINE Small(n) == {s \in SUBSET S : Cardinality(s) <= n}
           UpTo(g, n) ==
             \A s \in Small(n) : g[s] = IF s = {} THEN 0 ELSE f[Pick(s)] + g[s \ {Pick(s)}]
           N == {n \in Nat : \E g : UpTo(g, n)}
<1>1. 0 \in N
  <2> DEFINE g == [s \in SUBSET S |-> 0]
  <2>1. \A s \in Small(0) : s = {}
    BY FS_Subset, FS_CardinalityType, FS_EmptySet
  <2>2. UpTo(g, 0)
    BY <2>1
  <2> HIDE DEF g
  <2>3. QED
    BY <2>2
<1>2. ASSUME NEW n \in Nat, n \in N PROVE n + 1 \in N
  <2>1. PICK g : UpTo(g, n)
    BY <1>2
  <2> DEFINE h == [s \in SUBSET S |-> IF s = {} THEN 0 ELSE f[Pick(s)] + g[s \ {Pick(s)}]]
  <2>2. \A s \in Small(n) : h[s] = g[s]
    BY <2>1
  <2>3. ASSUME NEW s \in Small(n + 1), s # {} PROVE s \ {Pick(s)} \in Small(n)
    <3>1. IsFiniteSet(s) /\ Pick(s) \in s
      BY <2>3, FS_Subset, PickIn
    <3>2. Cardinality(s \ {Pick(s)}) = Cardinality(s) - 1 /\ Cardinality(s) \in Nat
      BY <3>1, FS_RemoveElement, FS_CardinalityType
    <3>3. QED
      BY <3>2
  <2>4. UpTo(h, n + 1)
    <3>1. SUFFICES ASSUME NEW s \in Small(n + 1)
                   PROVE  h[s] = IF s = {} THEN 0 ELSE f[Pick(s)] + h[s \ {Pick(s)}]
      OBVIOUS
    <3>2. s # {} => h[s \ {Pick(s)}] = g[s \ {Pick(s)}]
      BY <2>2, <2>3
    <3>3. h[s] = IF s = {} THEN 0 ELSE f[Pick(s)] + g[s \ {Pick(s)}]
      OBVIOUS
    <3>4. QED
      BY <3>2, <3>3
  <2> HIDE DEF h, UpTo
  <2>5. QED
    BY <2>4
<1>3. \A n \in Nat : n \in N
  <2> HIDE DEF N
  <2>1. \A n \in Nat : n \in N => n + 1 \in N
    BY <1>2
  <2>2. QED
    BY <1>1, <2>1, NumbersByStep
<1>4. Cardinality(S) \in Nat
  BY FS_CardinalityType
<1>5. PICK g : UpTo(g, Cardinality(S))
  BY <1>3, <1>4
<1>6. SUBSET S = Small(Cardinality(S))
  BY FS_Subset
<1> DEFINE h == [s \in SUBSET S |-> g[s]]
<1>7. h = [s \in SUBSET S |-> IF s = {} THEN 0 ELSE f[Pick(s)] + h[s \ {Pick(s)}]]
  <2>1. \A s \in SUBSET S : h[s] = IF s = {} THEN 0 ELSE f[Pick(s)] + g[s \ {Pick(s)}]
    BY <1>5, <1>6
  <2>2. \A s \in SUBSET S : s # {} => h[s \ {Pick(s)}] = g[s \ {Pick(s)}]
    OBVIOUS
  <2>3. QED
    BY <2>1, <2>2
<1>8. IsSum(h, f, S)
  BY <1>7 DEF IsSum
<1>9. QED
  BY <1>8

LEMMA SumGiven ==
  ASSUME NEW S, IsFiniteSet(S), NEW f
  PROVE  \E g : IsSum(g, f, S) /\ SumFunctionOnSet(f, S) = g[S]
<1> DEFINE g == CHOOSE g : IsSum(g, f, S)
<1>1. IsSum(g, f, S)
  BY SumExists
<1>2. SumFunctionOnSet(f, S) = g[S]
  BY DEF SumFunctionOnSet, FoldFunctionOnSet, MapThenFoldSet, IsSum, Pick
<1>3. QED
  BY <1>1, <1>2

(* Two such recursions agree where they are both defined.                  *)
LEMMA SumsAgree ==
  ASSUME NEW S, IsFiniteSet(S), NEW T \in SUBSET S, NEW f, NEW g, NEW h,
         IsSum(g, f, S), IsSum(h, f, T)
  PROVE  \A s \in SUBSET T : g[s] = h[s]
<1> DEFINE N == {n \in Nat : \A s \in SUBSET T : Cardinality(s) = n => g[s] = h[s]}
<1>1. ASSUME NEW s \in SUBSET T
      PROVE  /\ g[s] = IF s = {} THEN 0 ELSE f[Pick(s)] + g[s \ {Pick(s)}]
             /\ h[s] = IF s = {} THEN 0 ELSE f[Pick(s)] + h[s \ {Pick(s)}]
             /\ IsFiniteSet(s) /\ Cardinality(s) \in Nat
  <2>1. s \in SUBSET S
    OBVIOUS
  <2>2. QED
    BY <2>1, FS_Subset, FS_CardinalityType DEF IsSum
<1>2. 0 \in N
  BY <1>1, FS_EmptySet
<1>3. ASSUME NEW n \in Nat, n \in N PROVE n + 1 \in N
  <2>1. SUFFICES ASSUME NEW s \in SUBSET T, Cardinality(s) = n + 1 PROVE g[s] = h[s]
    OBVIOUS
  <2>2. s # {} /\ IsFiniteSet(s)
    <3>1. IsFiniteSet(s)
      BY FS_Subset
    <3>2. QED
      BY <2>1, <3>1, OneSmaller
  <2>3. Pick(s) \in s
    BY <2>2, PickIn
  <2>4. Cardinality(s \ {Pick(s)}) = n
    BY <2>1, <2>2, <2>3, OneSmaller
  <2>5. g[s \ {Pick(s)}] = h[s \ {Pick(s)}]
    BY <1>3, <2>4
  <2>6. QED
    BY <1>1, <2>2, <2>5
<1>4. \A n \in Nat : n \in N
  <2> HIDE DEF N
  <2>1. \A n \in Nat : n \in N => n + 1 \in N
    BY <1>3
  <2>2. QED
    BY <1>2, <2>1, NumbersByStep
<1>5. QED
  BY <1>1, <1>4

LEMMA SumUnfolds ==
  ASSUME NEW S, IsFiniteSet(S), NEW f
  PROVE  SumFunctionOnSet(f, S) =
           IF S = {} THEN 0 ELSE f[Pick(S)] + SumFunctionOnSet(f, S \ {Pick(S)})
<1>1. PICK g : IsSum(g, f, S) /\ SumFunctionOnSet(f, S) = g[S]
  BY SumGiven
<1>2. g[S] = IF S = {} THEN 0 ELSE f[Pick(S)] + g[S \ {Pick(S)}]
  BY <1>1 DEF IsSum
<1> DEFINE T == S \ {Pick(S)}
<1>3. T \in SUBSET S /\ IsFiniteSet(T)
  BY FS_Subset
<1>4. PICK h : IsSum(h, f, T) /\ SumFunctionOnSet(f, T) = h[T]
  <2> HIDE DEF T
  <2>1. QED
    BY <1>3, SumGiven
<1>5. g[T] = h[T]
  <2> HIDE DEF T
  <2>1. QED
    BY <1>1, <1>3, <1>4, SumsAgree
<1>6. QED
  BY <1>1, <1>2, <1>4, <1>5

LEMMA SumInt ==
  ASSUME NEW S, IsFiniteSet(S), NEW f, \A x \in S : f[x] \in Int
  PROVE  \A s \in SUBSET S : SumFunctionOnSet(f, s) \in Int
<1> DEFINE N == {n \in Nat : \A s \in SUBSET S : Cardinality(s) = n => SumFunctionOnSet(f, s) \in Int}
<1>1. ASSUME NEW s \in SUBSET S
      PROVE  /\ SumFunctionOnSet(f, s) =
                  IF s = {} THEN 0 ELSE f[Pick(s)] + SumFunctionOnSet(f, s \ {Pick(s)})
             /\ IsFiniteSet(s) /\ Cardinality(s) \in Nat
  <2>1. IsFiniteSet(s)
    BY FS_Subset
  <2>2. QED
    BY <2>1, SumUnfolds, FS_CardinalityType
<1>2. 0 \in N
  <2>1. ASSUME NEW s \in SUBSET S, Cardinality(s) = 0 PROVE SumFunctionOnSet(f, s) \in Int
    <3>1. s = {}
      BY <1>1, <2>1, FS_EmptySet
    <3>2. SumFunctionOnSet(f, s) = 0
      BY <1>1, <3>1
    <3>3. QED
      BY <3>2
  <2>2. QED
    BY <2>1
<1>3. ASSUME NEW n \in Nat, n \in N PROVE n + 1 \in N
  <2>1. SUFFICES ASSUME NEW s \in SUBSET S, Cardinality(s) = n + 1
                 PROVE  SumFunctionOnSet(f, s) \in Int
    OBVIOUS
  <2>2. s # {} /\ IsFiniteSet(s)
    <3>1. IsFiniteSet(s)
      BY FS_Subset
    <3>2. QED
      BY <2>1, <3>1, OneSmaller
  <2>3. Pick(s) \in s
    BY <2>2, PickIn
  <2>4. Cardinality(s \ {Pick(s)}) = n
    BY <2>1, <2>2, <2>3, OneSmaller
  <2>5. SumFunctionOnSet(f, s \ {Pick(s)}) \in Int
    BY <1>3, <2>4
  <2>6. f[Pick(s)] \in Int
    BY <2>3
  <2>7. QED
    BY <1>1, <2>2, <2>5, <2>6
<1>4. \A n \in Nat : n \in N
  <2> HIDE DEF N
  <2>1. \A n \in Nat : n \in N => n + 1 \in N
    BY <1>3
  <2>2. QED
    BY <1>2, <2>1, NumbersByStep
<1>5. QED
  BY <1>1, <1>4

(* The sum does not depend on which element is taken first.                *)
LEMMA SumWithout ==
  ASSUME NEW S, IsFiniteSet(S), NEW f, \A x \in S : f[x] \in Int
  PROVE  \A s \in SUBSET S : \A x \in s :
           SumFunctionOnSet(f, s) = f[x] + SumFunctionOnSet(f, s \ {x})
<1> DEFINE SumUpTo(s) == SumFunctionOnSet(f, s)
           N == {n \in Nat : \A s \in SUBSET S : Cardinality(s) = n =>
                               \A x \in s : SumUpTo(s) = f[x] + SumUpTo(s \ {x})}
<1>1. ASSUME NEW s \in SUBSET S
      PROVE  /\ s # {} => SumUpTo(s) = f[Pick(s)] + SumUpTo(s \ {Pick(s)})
             /\ IsFiniteSet(s) /\ Cardinality(s) \in Nat /\ SumUpTo(s) \in Int
  <2>1. IsFiniteSet(s)
    BY FS_Subset
  <2>2. QED
    BY <2>1, SumUnfolds, SumInt, FS_CardinalityType
<1> HIDE DEF SumUpTo
<1>2. 0 \in N
  BY <1>1, FS_EmptySet
<1>3. ASSUME NEW n \in Nat, n \in N PROVE n + 1 \in N
  <2>1. SUFFICES ASSUME NEW s \in SUBSET S, Cardinality(s) = n + 1, NEW x \in s
                 PROVE  SumUpTo(s) = f[x] + SumUpTo(s \ {x})
    OBVIOUS
  <2> DEFINE p == Pick(s)
  <2>2. p \in s /\ SumUpTo(s) = f[p] + SumUpTo(s \ {p})
    BY <1>1, PickIn
  <2>3. CASE p = x
    BY <2>2, <2>3
  <2>4. CASE p # x
    <3> HIDE DEF p
    <3>1. Cardinality(s \ {p}) = n /\ Cardinality(s \ {x}) = n
      <4>1. IsFiniteSet(s)
        BY FS_Subset
      <4>2. QED
        BY <2>1, <2>2, <4>1, OneSmaller
    <3>2. x \in s \ {p} /\ p \in s \ {x}
      BY <2>2, <2>4
    <3>3. SumUpTo(s \ {p}) = f[x] + SumUpTo((s \ {p}) \ {x})
      BY <1>3, <3>1, <3>2
    <3>4. SumUpTo(s \ {x}) = f[p] + SumUpTo((s \ {x}) \ {p})
      BY <1>3, <3>1, <3>2
    <3>5. (s \ {p}) \ {x} = (s \ {x}) \ {p} /\ (s \ {p}) \ {x} \in SUBSET S
      OBVIOUS
    <3>6. SumUpTo((s \ {p}) \ {x}) \in Int /\ f[x] \in Int /\ f[p] \in Int
      BY <1>1, <2>2, <3>5
    <3>7. PICK k \in Int : k = SumUpTo((s \ {p}) \ {x})
      BY <3>6
    <3>8. SumUpTo(s) = f[p] + (f[x] + k) /\ SumUpTo(s \ {x}) = f[p] + k
      BY <2>2, <3>3, <3>4, <3>5, <3>7
    <3>9. QED
      BY <3>6, <3>8
  <2>5. QED
    BY <2>3, <2>4
<1>4. \A n \in Nat : n \in N
  <2> HIDE DEF N
  <2>1. \A n \in Nat : n \in N => n + 1 \in N
    BY <1>3
  <2>2. QED
    BY <1>2, <2>1, NumbersByStep
<1>5. QED
  BY <1>1, <1>4 DEF SumUpTo

LEMMA SumRules ==
  ASSUME NEW S, IsFiniteSet(S), NEW f, \A x \in S : f[x] \in Int
  PROVE  /\ SumFunctionOnSet(f, {}) = 0
         /\ \A s \in SUBSET S : SumFunctionOnSet(f, s) \in Int
         /\ \A s \in SUBSET S : \A x \in S \ s :
              SumFunctionOnSet(f, s \cup {x}) = f[x] + SumFunctionOnSet(f, s)
<1>1. SumFunctionOnSet(f, {}) = 0
  BY SumUnfolds, FS_EmptySet
<1>2. ASSUME NEW s \in SUBSET S, NEW x \in S \ s
      PROVE  SumFunctionOnSet(f, s \cup {x}) = f[x] + SumFunctionOnSet(f, s)
  <2>1. s \cup {x} \in SUBSET S /\ x \in s \cup {x} /\ (s \cup {x}) \ {x} = s
    OBVIOUS
  <2>2. QED
    BY <2>1, SumWithout
<1>3. QED
  BY <1>1, <1>2, SumInt

LEMMA SumEqual ==
  ASSUME NEW S, IsFiniteSet(S), NEW f, NEW h, \A x \in S : f[x] \in Int /\ h[x] = f[x]
  PROVE  SumFunctionOnSet(f, S) = SumFunctionOnSet(h, S)
<1> DEFINE F(s) == SumFunctionOnSet(f, s)
           H(s) == SumFunctionOnSet(h, s)
           G == {s \in SUBSET S : F(s) = H(s)}
<1>1. F({}) = 0 /\ \A s \in SUBSET S : \A x \in S \ s : F(s \cup {x}) = f[x] + F(s)
  BY SumRules
<1>2. H({}) = 0 /\ \A s \in SUBSET S : \A x \in S \ s : H(s \cup {x}) = h[x] + H(s)
  BY SumRules
<1> HIDE DEF F, H
<1>3. {} \in G
  BY <1>1, <1>2
<1>4. \A s \in SUBSET S : \A x \in S \ s : s \in G => s \cup {x} \in G
  BY <1>1, <1>2
<1>5. S \in G
  <2> HIDE DEF G
  <2>1. QED
    BY <1>3, <1>4, SubsetsByElement
<1>6. QED
  BY <1>5 DEF F, H

LEMMA SumOfSums ==
  ASSUME NEW S, IsFiniteSet(S), NEW f, NEW g, NEW h,
         \A x \in S : g[x] \in Int /\ h[x] \in Int /\ f[x] = g[x] + h[x]
  PROVE  SumFunctionOnSet(f, S) = SumFunctionOnSet(g, S) + SumFunctionOnSet(h, S)
<1> DEFINE F(s) == SumFunctionOnSet(f, s)
           K(s) == SumFunctionOnSet(g, s)
           H(s) == SumFunctionOnSet(h, s)
           G == {s \in SUBSET S : F(s) = K(s) + H(s)}
<1>1. \A x \in S : f[x] \in Int
  OBVIOUS
<1>2. F({}) = 0 /\ \A s \in SUBSET S : \A x \in S \ s : F(s \cup {x}) = f[x] + F(s)
  BY <1>1, SumRules
<1>3. /\ K({}) = 0 /\ \A s \in SUBSET S : \A x \in S \ s : K(s \cup {x}) = g[x] + K(s)
      /\ \A s \in SUBSET S : K(s) \in Int
  BY SumRules
<1>4. /\ H({}) = 0 /\ \A s \in SUBSET S : \A x \in S \ s : H(s \cup {x}) = h[x] + H(s)
      /\ \A s \in SUBSET S : H(s) \in Int
  BY SumRules
<1> HIDE DEF F, H, K
<1>5. {} \in G
  BY <1>2, <1>3, <1>4
<1>6. ASSUME NEW s \in SUBSET S, NEW x \in S \ s, s \in G PROVE s \cup {x} \in G
  <2>1. F(s) = K(s) + H(s) /\ K(s) \in Int /\ H(s) \in Int
    BY <1>3, <1>4, <1>6
  <2>2. F(s \cup {x}) = f[x] + F(s) /\ K(s \cup {x}) = g[x] + K(s)
        /\ H(s \cup {x}) = h[x] + H(s)
    BY <1>2, <1>3, <1>4
  <2>3. F(s \cup {x}) = K(s \cup {x}) + H(s \cup {x})
    BY <2>1, <2>2
  <2>4. QED
    BY <2>3
<1>7. S \in G
  <2> HIDE DEF G
  <2>1. QED
    BY <1>5, <1>6, SubsetsByElement
<1>8. QED
  BY <1>7 DEF F, H, K

LEMMA SumUnion ==
  ASSUME NEW S, IsFiniteSet(S), NEW T, IsFiniteSet(T), S \cap T = {}, NEW f,
         \A x \in S \cup T : f[x] \in Int
  PROVE  SumFunctionOnSet(f, S \cup T) = SumFunctionOnSet(f, S) + SumFunctionOnSet(f, T)
<1> DEFINE F(s) == SumFunctionOnSet(f, s)
           G == {s \in SUBSET T : F(S \cup s) = F(S) + F(s)}
<1>1. IsFiniteSet(S \cup T)
  BY FS_Union
<1>2. /\ F({}) = 0 /\ \A s \in SUBSET (S \cup T) : F(s) \in Int
      /\ \A s \in SUBSET (S \cup T) : \A x \in (S \cup T) \ s : F(s \cup {x}) = f[x] + F(s)
  BY <1>1, SumRules
<1> HIDE DEF F
<1>3. {} \in G
  <2>1. S \cup {} = S /\ S \in SUBSET (S \cup T)
    OBVIOUS
  <2>2. F(S) \in Int /\ F(S \cup {}) = F(S)
    BY <1>2, <2>1
  <2>3. F(S \cup {}) = F(S) + F({})
    BY <1>2, <2>2
  <2>4. QED
    BY <2>3
<1>4. ASSUME NEW s \in SUBSET T, NEW x \in T \ s, s \in G PROVE s \cup {x} \in G
  <2>1. F(S \cup s) = F(S) + F(s)
    BY <1>4
  <2>2. S \cup (s \cup {x}) = (S \cup s) \cup {x} /\ x \in (S \cup T) \ (S \cup s)
    OBVIOUS
  <2>3. F((S \cup s) \cup {x}) = f[x] + F(S \cup s) /\ F(s \cup {x}) = f[x] + F(s)
    BY <1>2, <2>2
  <2>4. F(S) \in Int /\ F(s) \in Int /\ f[x] \in Int
    BY <1>2
  <2>5. f[x] + (F(S) + F(s)) = F(S) + (f[x] + F(s))
    BY <2>4
  <2>6. F(S \cup (s \cup {x})) = F(S) + F(s \cup {x})
    BY <2>1, <2>2, <2>3, <2>5
  <2>7. QED
    BY <2>6
<1>5. T \in G
  <2> HIDE DEF G
  <2>1. QED
    BY <1>3, <1>4, SubsetsByElement
<1>6. QED
  BY <1>5 DEF F

(* The same summands under other names have the same sum.                  *)
Names(name, J, T) ==
  T = {name[j] : j \in J} /\ \A i, j \in J : name[i] = name[j] => i = j

LEMMA SumRenamed ==
  ASSUME NEW J, IsFiniteSet(J), NEW name, NEW T, Names(name, J, T),
         NEW f, NEW h, \A j \in J : h[j] \in Int /\ f[name[j]] = h[j]
  PROVE  SumFunctionOnSet(f, T) = SumFunctionOnSet(h, J)
<1> DEFINE Named(s) == {name[j] : j \in s}
           F(s) == SumFunctionOnSet(f, s)
           H(s) == SumFunctionOnSet(h, s)
           G == {s \in SUBSET J : F(Named(s)) = H(s)}
<1> USE DEF Names
<1>1. IsFiniteSet(Named(J))
  <2> DEFINE naming == [j \in J |-> name[j]]
  <2>1. naming \in [J -> T] /\ \A t \in T : \E j \in J : naming[j] = t
    OBVIOUS
  <2>2. naming \in Surjection(J, T)
    <3> HIDE DEF naming
    <3>1. QED
      BY <2>1 DEF Surjection
  <2>3. QED
    <3> HIDE DEF naming
    <3>1. QED
      BY <2>2, FS_Surjection
<1>2. /\ F({}) = 0
      /\ \A s \in SUBSET Named(J) : \A x \in Named(J) \ s : F(s \cup {x}) = f[x] + F(s)
  <2>1. \A x \in Named(J) : f[x] \in Int
    OBVIOUS
  <2>2. QED
    BY <1>1, <2>1, SumRules
<1>3. H({}) = 0 /\ \A s \in SUBSET J : \A x \in J \ s : H(s \cup {x}) = h[x] + H(s)
  BY SumRules
<1>4. {} \in G
  <2>1. Named({}) = {}
    OBVIOUS
  <2> HIDE DEF F, H, Named
  <2>2. QED
    BY <1>2, <1>3, <2>1
<1>5. ASSUME NEW s \in SUBSET J, NEW x \in J \ s, s \in G PROVE s \cup {x} \in G
  <2>1. /\ Named(s \cup {x}) = Named(s) \cup {name[x]}
        /\ Named(s) \in SUBSET Named(J) /\ name[x] \in Named(J) \ Named(s)
    OBVIOUS
  <2>2. F(Named(s)) = H(s)
    BY <1>5
  <2> HIDE DEF F, H, Named
  <2>3. F(Named(s) \cup {name[x]}) = f[name[x]] + F(Named(s))
    BY <1>2, <2>1
  <2>4. H(s \cup {x}) = h[x] + H(s)
    BY <1>3
  <2>5. F(Named(s \cup {x})) = H(s \cup {x})
    BY <2>1, <2>2, <2>3, <2>4
  <2>6. QED
    BY <2>5
<1>6. J \in G
  <2> HIDE DEF G
  <2>1. QED
    BY <1>4, <1>5, SubsetsByElement
<1>7. QED
  BY <1>6

DifferAt(f, h, S, d) ==
  d \in S /\ h[d] \in Int /\ \A x \in S : f[x] \in Int /\ (x # d => h[x] = f[x])

LEMMA SumChanged ==
  ASSUME NEW S, IsFiniteSet(S), NEW f, NEW h, NEW d, DifferAt(f, h, S, d)
  PROVE  SumFunctionOnSet(h, S) = SumFunctionOnSet(f, S) - f[d] + h[d]
<1> USE DEF DifferAt
<1>1. IsFiniteSet(S \ {d}) /\ \A x \in S : h[x] \in Int
  BY FS_Subset
<1>2. SumFunctionOnSet(f, S \ {d}) = SumFunctionOnSet(h, S \ {d})
  BY <1>1, SumEqual
<1>3. SumFunctionOnSet(f, S) = f[d] + SumFunctionOnSet(f, S \ {d})
  BY SumWithout
<1>4. SumFunctionOnSet(h, S) = h[d] + SumFunctionOnSet(h, S \ {d})
  BY <1>1, SumWithout
<1>5. SumFunctionOnSet(f, S \ {d}) \in Int
  BY SumRules
<1>6. QED
  BY <1>2, <1>3, <1>4, <1>5

LEMMA SumIs ==
  ASSUME NEW f, IsFiniteSet(DOMAIN f), \A x \in DOMAIN f : f[x] \in Int
  PROVE  SumFunction(f) = SumFunctionOnSet(f, DOMAIN f) /\ SumFunction(f) \in Int
BY SumRules DEF SumFunction

LEMMA SumOfMap ==
  ASSUME NEW S, IsFiniteSet(S), NEW f \in [S -> Int]
  PROVE  SumFunction(f) = SumFunctionOnSet(f, S) /\ SumFunction(f) \in Int
BY SumIs

-----------------------------------------------------------------------------
(***************************************************************************)
(* Folds.                                                                  *)
(***************************************************************************)

(* What a fold over a finite set S computes, whichever element it takes    *)
(* next (c), and a set its results never leave.                            *)
FoldOf(g, h, c, base, S) ==
  g = [s \in SUBSET S |-> IF s = {} THEN base ELSE h[<<c[s], g[s \ {c[s]}]>>]]
Unfolds(g, h, c, base, S) ==
  \A s \in SUBSET S : g[s] = IF s = {} THEN base ELSE h[<<c[s], g[s \ {c[s]}]>>]
Chooses(c, S) == \A s \in SUBSET S : s # {} => c[s] \in s

LEMMA FoldReaches ==
  ASSUME NEW S, IsFiniteSet(S), NEW c, Chooses(c, S), NEW h, NEW base
  PROVE  \E g : Unfolds(g, h, c, base, S)
<1> DEFINE Small(n) == {s \in SUBSET S : Cardinality(s) <= n}
           Unfold(g) == [s \in SUBSET S |-> IF s = {} THEN base ELSE h[<<c[s], g[s \ {c[s]}]>>]]
           UpTo(g, n) == \A s \in Small(n) : g[s] = Unfold(g)[s]
           N == {n \in Nat : \E g : UpTo(g, n)}
<1>1. 0 \in N
  <2> DEFINE g == [s \in SUBSET S |-> base]
  <2>1. \A s \in Small(0) : s = {}
    BY FS_Subset, FS_CardinalityType, FS_EmptySet
  <2>2. UpTo(g, 0)
    BY <2>1
  <2> HIDE DEF g, UpTo
  <2>3. QED
    BY <2>2
<1>2. ASSUME NEW n \in Nat, n \in N PROVE n + 1 \in N
  <2>1. PICK g : UpTo(g, n)
    BY <1>2
  <2> DEFINE e == Unfold(g)
  <2>2. \A s \in Small(n) : e[s] = g[s]
    BY <2>1
  <2>3. ASSUME NEW s \in Small(n + 1), s # {} PROVE s \ {c[s]} \in Small(n)
    <3>1. IsFiniteSet(s) /\ c[s] \in s
      BY <2>3, FS_Subset DEF Chooses
    <3>2. Cardinality(s \ {c[s]}) = Cardinality(s) - 1 /\ Cardinality(s) \in Nat
      BY <3>1, FS_RemoveElement, FS_CardinalityType
    <3>3. QED
      BY <3>2
  <2>4. UpTo(e, n + 1)
    <3>1. SUFFICES ASSUME NEW s \in Small(n + 1) PROVE e[s] = Unfold(e)[s]
      OBVIOUS
    <3>2. s # {} => e[s \ {c[s]}] = g[s \ {c[s]}]
      BY <2>2, <2>3
    <3>3. e[s] = IF s = {} THEN base ELSE h[<<c[s], g[s \ {c[s]}]>>]
      OBVIOUS
    <3>4. Unfold(e)[s] = IF s = {} THEN base ELSE h[<<c[s], e[s \ {c[s]}]>>]
      OBVIOUS
    <3> HIDE DEF e, Unfold
    <3>5. QED
      BY <3>2, <3>3, <3>4
  <2> HIDE DEF e, UpTo
  <2>5. QED
    BY <2>4
<1>3. \A n \in Nat : n \in N
  <2> HIDE DEF N
  <2>1. \A n \in Nat : n \in N => n + 1 \in N
    BY <1>2
  <2>2. QED
    BY <1>1, <2>1, NumbersByStep
<1>4. Cardinality(S) \in Nat
  BY FS_CardinalityType
<1>5. PICK g : UpTo(g, Cardinality(S))
  BY <1>3, <1>4
<1>6. SUBSET S = Small(Cardinality(S))
  BY FS_Subset
<1>7. QED
  BY <1>5, <1>6 DEF Unfolds

LEMMA UnfoldingFolds ==
  ASSUME NEW S, NEW c, NEW h, NEW base, NEW g, Unfolds(g, h, c, base, S),
         NEW f, f = [s \in SUBSET S |-> g[s]]
  PROVE  FoldOf(f, h, c, base, S)
<1>1. \A s \in SUBSET S : f[s] = IF s = {} THEN base ELSE h[<<c[s], g[s \ {c[s]}]>>]
  BY DEF Unfolds
<1>2. \A s \in SUBSET S : s # {} => f[s \ {c[s]}] = g[s \ {c[s]}]
  OBVIOUS
<1>3. f = [s \in SUBSET S |-> IF s = {} THEN base ELSE h[<<c[s], f[s \ {c[s]}]>>]]
  BY <1>1, <1>2
<1>4. QED
  BY <1>3 DEF FoldOf

LEMMA UnfoldingExists ==
  ASSUME NEW S, NEW c, NEW h, NEW base, NEW g, Unfolds(g, h, c, base, S)
  PROVE  \E f : FoldOf(f, h, c, base, S)
<1>1. FoldOf([s \in SUBSET S |-> g[s]], h, c, base, S)
  BY UnfoldingFolds
<1>2. QED
  BY <1>1

LEMMA FoldDefined ==
  ASSUME NEW S, IsFiniteSet(S), NEW c, Chooses(c, S), NEW h, NEW base
  PROVE  \E f : FoldOf(f, h, c, base, S)
<1>1. \E g : Unfolds(g, h, c, base, S)
  BY FoldReaches
<1>2. ASSUME NEW g, Unfolds(g, h, c, base, S) PROVE \E f : FoldOf(f, h, c, base, S)
  BY <1>2, UnfoldingExists
<1>3. QED
  BY <1>1, <1>2

LEMMA FoldStays ==
  ASSUME NEW S, IsFiniteSet(S), NEW c, Chooses(c, S), NEW g, NEW U, g[{}] \in U,
         \A s \in SUBSET S : s # {} /\ g[s \ {c[s]}] \in U => g[s] \in U
  PROVE  \A s \in SUBSET S : g[s] \in U
<1> DEFINE N == {n \in Nat : \A s \in SUBSET S : Cardinality(s) = n => g[s] \in U}
<1>1. 0 \in N
  <2>1. \A s \in SUBSET S : Cardinality(s) = 0 => s = {}
    BY FS_Subset, FS_EmptySet
  <2>2. QED
    BY <2>1
<1>2. ASSUME NEW n \in Nat, n \in N PROVE n + 1 \in N
  <2>1. SUFFICES ASSUME NEW s \in SUBSET S, Cardinality(s) = n + 1 PROVE g[s] \in U
    OBVIOUS
  <2>2. IsFiniteSet(s)
    BY FS_Subset
  <2>3. s # {}
    BY <2>1, <2>2, OneSmaller
  <2>4. c[s] \in s
    BY <2>3 DEF Chooses
  <2>5. Cardinality(s \ {c[s]}) = n
    BY <2>1, <2>2, <2>4, OneSmaller
  <2>6. g[s \ {c[s]}] \in U
    BY <1>2, <2>5
  <2>7. QED
    BY <2>3, <2>6
<1>3. \A n \in Nat : n \in N
  <2> HIDE DEF N
  <2>1. \A n \in Nat : n \in N => n + 1 \in N
    BY <1>2
  <2>2. QED
    BY <1>1, <2>1, NumbersByStep
<1>4. ASSUME NEW s \in SUBSET S PROVE g[s] \in U
  <2>1. Cardinality(s) \in Nat
    BY FS_Subset, FS_CardinalityType
  <2>2. QED
    BY <1>3, <2>1
<1>5. QED
  BY <1>4

(* What FoldLeft computes: the states it goes through, one per element.    *)
(* values is a set the states are of, step the function that takes a state *)
(* and an index to the next state.                                         *)

IsFold(g, base, step, n) ==
  \A s \in SUBSET (1..n) :
    g[s] = IF s = {} THEN base ELSE step[<<g[s \ {Max(s)}], Max(s)>>]

LEMMA GreatestOf ==
  ASSUME NEW n \in Nat, NEW s \in SUBSET (1..n), s # {}
  PROVE  Max(s) \in s /\ \A x \in s : x <= Max(s)
<1> DEFINE T == {n - x : x \in s}
<1>1. T \in SUBSET Nat /\ T # {}
  <2>1. \A x \in s : n - x \in Nat
    OBVIOUS
  <2>2. PICK x \in s : TRUE
    OBVIOUS
  <2>3. QED
    BY <2>1, <2>2
<1>2. PICK y \in T : \A x \in T : ~(<<x, y>> \in OpToRel(<, Nat))
  <2> HIDE DEF T
  <2>1. QED
    BY <1>1, NatLessThanWellFounded, WFMin
<1>3. \A x \in T : ~(x < y)
  BY <1>1, <1>2 DEF OpToRel
<1>4. PICK m \in s : y = n - m
  OBVIOUS
<1>5. ASSUME NEW x \in s PROVE x <= m
  <2>1. n - x \in T
    BY <1>5
  <2>2. ~(n - x < n - m)
    BY <1>3, <1>4, <2>1
  <2>3. x \in Nat /\ m \in Nat
    OBVIOUS
  <2>4. QED
    BY <2>2, <2>3
<1>6. \E a \in s : \A b \in s : a >= b
  BY <1>5
<1>7. Max(s) \in s /\ \A b \in s : Max(s) >= b
  BY <1>6 DEF Max
<1>8. QED
  BY <1>7

LEMMA FoldExists ==
  ASSUME NEW values, NEW base \in values, NEW n \in Nat,
         NEW step \in [values \X (1..n) -> values]
  PROVE  \E g \in [SUBSET (1..n) -> values] : IsFold(g, base, step, n)
<1> DEFINE Good(m) == \E g \in [SUBSET (1..m) -> values] : IsFold(g, base, step, m)
           N == {m \in Nat : m <= n => Good(m)}
<1>1. 0 \in N
  <2> DEFINE g == [s \in SUBSET (1..0) |-> base]
  <2>1. \A s \in SUBSET (1..0) : s = {}
    OBVIOUS
  <2>2. g \in [SUBSET (1..0) -> values] /\ IsFold(g, base, step, 0)
    BY <2>1 DEF IsFold
  <2>3. Good(0)
    BY <2>2
  <2>4. QED
    BY <2>3
<1>2. ASSUME NEW m \in Nat, m \in N PROVE m + 1 \in N
  <2>1. SUFFICES ASSUME m + 1 <= n PROVE Good(m + 1)
    <3> HIDE DEF Good
    <3>1. QED
      OBVIOUS
  <2>2. Good(m)
    <3> HIDE DEF Good
    <3>1. m <= n
      BY <2>1
    <3>2. QED
      BY <1>2, <3>1
  <2>21. PICK g \in [SUBSET (1..m) -> values] : IsFold(g, base, step, m)
    BY <2>2
  <2> DEFINE h == [s \in SUBSET (1..(m + 1)) |->
                     IF m + 1 \in s THEN step[<<g[s \ {m + 1}], m + 1>>] ELSE g[s]]
  <2>3. ASSUME NEW s \in SUBSET (1..(m + 1)) PROVE h[s] \in values
    <3>1. CASE m + 1 \in s
      <4>1. s \ {m + 1} \in SUBSET (1..m)
        OBVIOUS
      <4>2. g[s \ {m + 1}] \in values /\ m + 1 \in 1..n
        BY <2>1, <4>1
      <4>3. QED
        BY <3>1, <4>2
    <3>2. CASE m + 1 \notin s
      <4>1. \A x \in s : x \in 1..m
        BY <3>2
      <4>2. QED
        BY <3>2, <4>1
    <3>3. QED
      BY <3>1, <3>2
  <2>4. ASSUME NEW s \in SUBSET (1..(m + 1))
        PROVE  h[s] = IF s = {} THEN base ELSE step[<<h[s \ {Max(s)}], Max(s)>>]
    <3>1. CASE m + 1 \in s
      <4>1. Max(s) = m + 1
        <5>1. PICK k \in Nat : k = m + 1
          OBVIOUS
        <5>2. s \in SUBSET (1..k) /\ k \in s
          BY <3>1, <5>1
        <5>3. Max(s) \in 1..k /\ k <= Max(s)
          BY <5>2, GreatestOf
        <5>4. QED
          BY <5>1, <5>3
      <4>2. s # {}
        BY <3>1
      <4>3. h[s \ {m + 1}] = g[s \ {m + 1}]
        OBVIOUS
      <4>4. h[s] = step[<<g[s \ {m + 1}], m + 1>>]
        BY <3>1
      <4>5. QED
        BY <4>1, <4>2, <4>3, <4>4
    <3>2. CASE m + 1 \notin s
      <4>1. \A x \in s : x \in 1..m
        BY <3>2
      <4>2. s \in SUBSET (1..m)
        BY <4>1
      <4>3. h[s] = g[s]
        BY <3>2
      <4>4. m + 1 \notin s \ {Max(s)} /\ s \ {Max(s)} \in SUBSET (1..(m + 1))
        BY <3>2
      <4>5. h[s \ {Max(s)}] = g[s \ {Max(s)}]
        BY <4>4
      <4>6. g[s] = IF s = {} THEN base ELSE step[<<g[s \ {Max(s)}], Max(s)>>]
        BY <2>21, <4>2 DEF IsFold
      <4>7. QED
        BY <4>3, <4>5, <4>6
    <3>3. QED
      BY <3>1, <3>2
  <2>5. h \in [SUBSET (1..(m + 1)) -> values]
    BY <2>3
  <2>6. IsFold(h, base, step, m + 1)
    BY <2>4 DEF IsFold
  <2> HIDE DEF h
  <2>7. QED
    BY <2>5, <2>6
<1>3. \A m \in Nat : m \in N
  <2> HIDE DEF N
  <2>1. \A m \in Nat : m \in N => m + 1 \in N
    BY <1>2
  <2>2. QED
    BY <1>1, <2>1, NumbersByStep
<1>4. Good(n)
  <2> HIDE DEF Good
  <2>1. n \in N /\ n <= n
    BY <1>3
  <2>2. QED
    BY <2>1
<1>5. QED
  BY <1>4

(* The states of a fold, from the values of g at the first indices.        *)
IsRun(run, values, base, step, n) ==
  /\ run \in [0..n -> values] /\ run[0] = base
  /\ \A k \in 1..n : run[k] = step[<<run[k - 1], k>>]

Run(g, n) == [k \in 0..n |-> g[1..k]]
Retraces(g, values, base, step, n) ==
  /\ g[{}] = base
  /\ \A s \in SUBSET (1..n) : s # {} =>
       (g[s \ {Max(s)}] \in values => g[s] = step[<<g[s \ {Max(s)}], Max(s)>>])

LEMMA FoldRuns ==
  ASSUME NEW values, NEW base \in values, NEW n \in Nat,
         NEW step \in [values \X (1..n) -> values], NEW g, Retraces(g, values, base, step, n)
  PROVE  IsRun(Run(g, n), values, base, step, n)
<1> USE DEF Retraces, Run
<1> DEFINE run == Run(g, n)
           N == {k \in Nat : k <= n => run[k] \in values}
<1>1. run[0] = base
  <2>1. 1..0 = {}
    OBVIOUS
  <2>2. QED
    BY <2>1
<1>2. ASSUME NEW k \in 1..n, run[k - 1] \in values
      PROVE  run[k] = step[<<run[k - 1], k>>] /\ run[k] \in values
  <2>1. 1..k \in SUBSET (1..n) /\ 1..k # {} /\ k \in 1..k
    OBVIOUS
  <2>2. Max(1..k) = k
    <3>1. Max(1..k) \in 1..k /\ k <= Max(1..k)
      BY <2>1, GreatestOf
    <3>2. QED
      BY <3>1
  <2>3. (1..k) \ {k} = 1..(k - 1) /\ k - 1 \in 0..n
    OBVIOUS
  <2>4. run[k - 1] = g[1..(k - 1)] /\ run[k] = g[1..k]
    BY <2>3
  <2> HIDE DEF run
  <2>5. g[(1..k) \ {Max(1..k)}] = run[k - 1]
    BY <2>2, <2>3, <2>4
  <2>6. g[1..k] = step[<<g[(1..k) \ {Max(1..k)}], Max(1..k)>>]
    BY <1>2, <2>1, <2>5
  <2>7. run[k] = step[<<run[k - 1], k>>]
    BY <2>2, <2>4, <2>5, <2>6
  <2>8. QED
    BY <1>2, <2>7
<1>3. 0 \in N
  BY <1>1
<1>4. ASSUME NEW k \in Nat, k \in N PROVE k + 1 \in N
  <2>1. SUFFICES ASSUME k + 1 <= n PROVE run[k + 1] \in values
    OBVIOUS
  <2>2. k + 1 \in 1..n /\ (k + 1) - 1 = k /\ run[k] \in values
    BY <1>4, <2>1
  <2> HIDE DEF run
  <2>3. QED
    BY <1>2, <2>2
<1>5. \A k \in Nat : k \in N
  <2> HIDE DEF N
  <2>1. \A k \in Nat : k \in N => k + 1 \in N
    BY <1>4
  <2>2. QED
    BY <1>3, <2>1, NumbersByStep
<1>6. ASSUME NEW k \in 0..n PROVE run[k] \in values
  <2>1. k \in N
    <3> HIDE DEF N
    <3>1. QED
      BY <1>5
  <2> HIDE DEF run
  <2>2. QED
    BY <2>1
<1>7. run \in [0..n -> values]
  BY <1>6
<1>8. \A k \in 1..n : run[k] = step[<<run[k - 1], k>>]
  <2>1. \A k \in 1..n : k - 1 \in 0..n
    OBVIOUS
  <2>2. QED
    BY <1>2, <1>6, <2>1
<1>9. QED
  BY <1>1, <1>7, <1>8 DEF IsRun

-----------------------------------------------------------------------------
(***************************************************************************)
(* PortfolioRisk: any trades, limits, quotes and number of callers.        *)
(***************************************************************************)

(* The inductive invariant: a snapshot that no addition has overtaken      *)
(* counts no fewer positions than are held, and whoever was cleared        *)
(* against it still finds room for one more.                               *)
ClearedAddition == [trade : Trades, current : BOOLEAN, covered : BOOLEAN]

RiskTypes ==
  /\ Held \subseteq Trades /\ pm.limits \in DOMAIN LimitsOf
  /\ adding \in [Adders -> ClearedAddition \cup {NoTrade}] /\ behind \in BOOLEAN

SnapshotCounts ==
  ~behind =>
    IF snapshot.taken
    THEN /\ snapshot.positions \in Nat /\ Cardinality(Held) <= snapshot.positions
         /\ \A t \in Trades : /\ SectorOf(t).count \in Nat
                              /\ Cardinality(InSector(Terms[t].sector)) <= SectorOf(t).count
    ELSE Held = {}

RoomForCleared ==
  \A c \in Adders :
    adding[c].current =>
      /\ Cardinality(Held) + 1 <= Limits.positions
      /\ Cardinality(InSector(Terms[adding[c].trade].sector)) + 1 <= Limits.perSector

RiskInv == RiskTypes /\ SnapshotCounts /\ RoomForCleared

-----------------------------------------------------------------------------
LEMMA StillNoTrade ==
  NoTrade.current = FALSE /\ [NoTrade EXCEPT !.current = FALSE] = NoTrade
<1> DEFINE N == [trade : {"none"}, current : {FALSE}, covered : {FALSE}]
<1>1. ASSUME NEW r \in N PROVE r = NoTrade
  BY DEF NoTrade
<1>2. NoTrade \in N /\ [NoTrade EXCEPT !.current = FALSE] \in N
  <2>1. NoTrade \in N
    BY DEF NoTrade
  <2>2. ASSUME NEW r \in N PROVE [r EXCEPT !.current = FALSE] \in N
    OBVIOUS
  <2> HIDE DEF N
  <2>3. QED
    BY <2>1, <2>2
<1>3. NoTrade.current = FALSE
  BY DEF NoTrade
<1> HIDE DEF N
<1>4. QED
  BY <1>1, <1>2, <1>3

LEMMA HeldFinite ==
  ASSUME RiskTypes, NEW H \in SUBSET Held, NEW s
  PROVE  /\ IsFiniteSet(Held) /\ IsFiniteSet(H) /\ IsFiniteSet(InSector(s))
         /\ Cardinality(Held) \in Nat /\ Cardinality(H) \in Nat
         /\ Cardinality(InSector(s)) \in Nat /\ Cardinality(H) <= Cardinality(Held)
<1>1. IsFiniteSet(Held)
  BY PortfolioAssumption, FS_Subset DEF RiskTypes
<1>2. InSector(s) \in SUBSET Held
  BY DEF InSector
<1>3. QED
  BY <1>1, <1>2, FS_Subset, FS_CardinalityType

LEMMA LimitsAreCounts ==
  ASSUME RiskTypes PROVE Limits.positions \in Nat \ {0} /\ Limits.perSector \in Nat \ {0}
BY LimitsAssumption DEF RiskTypes, Limits

LEMMA InitRisk == PortfolioInit => RiskInv
<1> SUFFICES ASSUME PortfolioInit PROVE RiskInv
  OBVIOUS
<1>1. Held = {}
  BY DEF PortfolioInit, Held
<1>2. RiskTypes
  BY <1>1, LimitsAssumption DEF PortfolioInit, RiskTypes
<1>3. SnapshotCounts
  BY <1>1 DEF PortfolioInit, SnapshotCounts, NoSnapshot
<1>4. RoomForCleared
  BY DEF PortfolioInit, RoomForCleared, NoTrade
<1>5. QED
  BY <1>2, <1>3, <1>4 DEF RiskInv

(* Fewer positions, or the same, are held: what was counted stays enough.  *)
LEMMA FewerHeld ==
  ASSUME RiskInv, DOMAIN book' \subseteq Held,
         pm'.limits = pm.limits, UNCHANGED <<snapshot, adding, behind>>
  PROVE  RiskInv'
<1>1. Held' = DOMAIN book' /\ Held' \in SUBSET Held /\ RiskTypes
  BY DEF Held, RiskInv
<1>2. \A s : InSector(s)' \in SUBSET InSector(s)
  BY <1>1 DEF InSector
<1>3. /\ Cardinality(Held') \in Nat /\ Cardinality(Held) \in Nat
      /\ Cardinality(Held') <= Cardinality(Held)
  BY <1>1, HeldFinite
<1>4. ASSUME NEW s
      PROVE  /\ Cardinality(InSector(s)') \in Nat /\ Cardinality(InSector(s)) \in Nat
             /\ Cardinality(InSector(s)') <= Cardinality(InSector(s))
  <2>1. IsFiniteSet(InSector(s))
    BY <1>1, HeldFinite
  <2>2. QED
    BY <1>2, <2>1, FS_Subset, FS_CardinalityType
<1>5. RiskTypes'
  BY <1>1 DEF RiskTypes
<1>6. SnapshotCounts'
  <2> SUFFICES ASSUME ~behind
               PROVE  IF snapshot.taken
                      THEN /\ snapshot.positions \in Nat /\ Cardinality(Held') <= snapshot.positions
                           /\ \A t \in Trades :
                                /\ SectorOf(t).count \in Nat
                                /\ Cardinality(InSector(Terms[t].sector)') <= SectorOf(t).count
                      ELSE Held' = {}
    BY DEF SnapshotCounts, SectorOf
  <2>1. CASE snapshot.taken
    <3>1. snapshot.positions \in Nat /\ Cardinality(Held) <= snapshot.positions
      BY <2>1 DEF RiskInv, SnapshotCounts
    <3>2. ASSUME NEW t \in Trades
          PROVE  /\ SectorOf(t).count \in Nat
                 /\ Cardinality(InSector(Terms[t].sector)') <= SectorOf(t).count
      <4>1. /\ SectorOf(t).count \in Nat
            /\ Cardinality(InSector(Terms[t].sector)) <= SectorOf(t).count
        BY <2>1 DEF RiskInv, SnapshotCounts
      <4>2. QED
        BY <4>1, <1>4
    <3>3. QED
      BY <1>3, <2>1, <3>1, <3>2
  <2>2. CASE ~snapshot.taken
    BY <1>1, <2>2 DEF RiskInv, SnapshotCounts
  <2>3. QED
    BY <2>1, <2>2
<1>7. RoomForCleared'
  <2> SUFFICES ASSUME NEW c \in Adders, adding[c].current
               PROVE  /\ Cardinality(Held') + 1 <= Limits.positions
                      /\ Cardinality(InSector(Terms[adding[c].trade].sector)') + 1
                           <= Limits.perSector
    BY DEF RoomForCleared, Limits
  <2>1. /\ Cardinality(Held) + 1 <= Limits.positions
        /\ Cardinality(InSector(Terms[adding[c].trade].sector)) + 1 <= Limits.perSector
    BY DEF RiskInv, RoomForCleared
  <2>2. Limits.positions \in Int /\ Limits.perSector \in Int
    BY <1>1, LimitsAreCounts
  <2>3. /\ Cardinality(InSector(Terms[adding[c].trade].sector)') \in Nat
        /\ Cardinality(InSector(Terms[adding[c].trade].sector)) \in Nat
        /\ Cardinality(InSector(Terms[adding[c].trade].sector)')
             <= Cardinality(InSector(Terms[adding[c].trade].sector))
    BY <1>4
  <2>4. QED
    BY <1>3, <2>1, <2>2, <2>3
<1>8. QED
  BY <1>5, <1>6, <1>7 DEF RiskInv

(* CalculateRisk counts what is held.                                      *)
LEMMA CalculateRiskInv ==
  ASSUME RiskInv, CalculateRisk
  PROVE  RiskInv'
<1>1. /\ UNCHANGED <<book, adding>> /\ behind' = FALSE /\ pm'.limits = pm.limits
      /\ snapshot'.taken /\ snapshot'.positions = Cardinality(Held)
      /\ snapshot'.sectors = SectorExposure
  BY DEF CalculateRisk, CalculatePerformance, UpdatePeriodTracking
<1>2. RiskTypes /\ Held' = Held /\ Limits' = Limits /\ \A s : InSector(s)' = InSector(s)
  BY <1>1 DEF RiskInv, Held, Limits, InSector
<1>3. RiskTypes'
  BY <1>1, <1>2 DEF RiskTypes
<1>4. ASSUME NEW t \in Trades
      PROVE  SectorOf(t)'.count = Cardinality(InSector(Terms[t].sector))
  <2>1. CASE Terms[t].sector \in {Terms[u].sector : u \in Held}
    BY <1>1, <2>1 DEF SectorOf, SectorExposure
  <2>2. CASE Terms[t].sector \notin {Terms[u].sector : u \in Held}
    <3>1. InSector(Terms[t].sector) = {}
      BY <2>2 DEF InSector
    <3>2. QED
      BY <1>1, <2>2, <3>1, FS_EmptySet DEF SectorOf, SectorExposure
  <2>3. QED
    BY <2>1, <2>2
<1>5. SnapshotCounts'
  <2>1. Cardinality(Held) \in Nat /\ \A s : Cardinality(InSector(s)) \in Nat
    BY <1>2, HeldFinite
  <2>2. \A t \in Trades : /\ SectorOf(t)'.count \in Nat
                          /\ Cardinality(InSector(Terms[t].sector)') <= SectorOf(t)'.count
    BY <1>2, <1>4, <2>1
  <2>3. QED
    BY <1>1, <1>2, <2>1, <2>2 DEF SnapshotCounts
<1>6. RoomForCleared'
  BY <1>1, <1>2 DEF RiskInv, RoomForCleared
<1>7. QED
  BY <1>3, <1>5, <1>6 DEF RiskInv

(* A caller is cleared: there is room for one more than the snapshot       *)
(* counts, and it counts all that are held.                                *)
LEMMA AskToAddInv ==
  ASSUME RiskInv, NEW c \in Adders, NEW t \in Trades, NEW r, AskToAdd(c, t, r)
  PROVE  RiskInv'
<1>1. /\ CanAdd(t, r) /\ UNCHANGED <<book, pm, snapshot, behind>> /\ t \notin Held
      /\ adding' = [adding EXCEPT ![c] = [trade |-> t, current |-> ~behind,
                                          covered |-> RecommendsAtLeast(NewRisk(t))]]
  BY DEF AskToAdd
<1>2. RiskTypes /\ Held' = Held /\ Limits' = Limits /\ \A s : InSector(s)' = InSector(s)
  BY <1>1 DEF RiskInv, Held, Limits, InSector
<1>3. RiskTypes'
  <2>1. [trade |-> t, current |-> ~behind, covered |-> RecommendsAtLeast(NewRisk(t))] \in ClearedAddition
    <3>1. RecommendsAtLeast(NewRisk(t)) \in BOOLEAN
      BY DEF RecommendsAtLeast
    <3>2. QED
      BY <1>2, <3>1 DEF ClearedAddition, RiskTypes
  <2>2. QED
    BY <1>1, <1>2, <2>1 DEF RiskTypes
<1>4. SnapshotCounts'
  BY <1>1, <1>2 DEF RiskInv, SnapshotCounts, SectorOf
<1>5. Limits.positions \in Nat \ {0} /\ Limits.perSector \in Nat \ {0}
  BY <1>2, LimitsAreCounts
<1>6. ~behind => /\ Cardinality(Held) + 1 <= Limits.positions
                 /\ Cardinality(InSector(Terms[t].sector)) + 1 <= Limits.perSector
  <2> SUFFICES ASSUME ~behind
               PROVE  /\ Cardinality(Held) + 1 <= Limits.positions
                      /\ Cardinality(InSector(Terms[t].sector)) + 1 <= Limits.perSector
    OBVIOUS
  <2>1. CASE snapshot.taken
    <3>1. ~(snapshot.positions >= Limits.positions)
      <4>1. "positions" \notin Issues(t, r)
        BY <1>1, <2>1 DEF CanAdd
      <4>2. QED
        BY <4>1 DEF Issues
    <3>2. ~(SectorOf(t).count + 1 > Limits.perSector)
      <4>1. "sector count" \notin Issues(t, r)
        BY <1>1, <2>1 DEF CanAdd
      <4>2. QED
        BY <4>1 DEF Issues
    <3>3. /\ snapshot.positions \in Nat /\ Cardinality(Held) <= snapshot.positions
          /\ SectorOf(t).count \in Nat
          /\ Cardinality(InSector(Terms[t].sector)) <= SectorOf(t).count
      BY <2>1 DEF RiskInv, SnapshotCounts
    <3>4. Cardinality(Held) \in Nat /\ Cardinality(InSector(Terms[t].sector)) \in Nat
      BY <1>2, HeldFinite
    <3>5. QED
      BY <1>5, <3>1, <3>2, <3>3, <3>4
  <2>2. CASE ~snapshot.taken
    <3>1. Held = {} /\ InSector(Terms[t].sector) = {}
      BY <2>2 DEF RiskInv, SnapshotCounts, InSector
    <3>2. Cardinality(Held) = 0 /\ Cardinality(InSector(Terms[t].sector)) = 0
      BY <3>1, FS_EmptySet
    <3>3. QED
      BY <1>5, <3>2
  <2>3. QED
    BY <2>1, <2>2
<1>7. RoomForCleared'
  <2> SUFFICES ASSUME NEW d \in Adders, adding'[d].current
               PROVE  /\ Cardinality(Held) + 1 <= Limits.positions
                      /\ Cardinality(InSector(Terms[adding'[d].trade].sector)) + 1
                           <= Limits.perSector
    BY <1>2 DEF RoomForCleared
  <2>1. CASE d = c
    BY <1>1, <1>2, <1>6, <2>1 DEF RiskTypes
  <2>2. CASE d # c
    BY <1>1, <2>2 DEF RiskInv, RoomForCleared
  <2>3. QED
    BY <2>1, <2>2
<1>8. QED
  BY <1>3, <1>4, <1>7 DEF RiskInv

(* A position is opened: nobody else is cleared any more.                  *)
LEMMA OpenTradeInv ==
  ASSUME RiskInv, NEW c \in Adders, OpenTrade(c)
  PROVE  RiskInv'
<1> DEFINE t == adding[c].trade
<1>1. /\ adding[c] # NoTrade /\ UNCHANGED <<pm, snapshot>> /\ RiskTypes
      /\ adding[c] \in ClearedAddition /\ t \in Trades
  BY DEF OpenTrade, RiskInv, RiskTypes, ClearedAddition
<1>2. NoTrade.current = FALSE /\ [NoTrade EXCEPT !.current = FALSE] = NoTrade
  BY StillNoTrade
<1>3. CASE t \in Held
  <2>1. UNCHANGED <<book, behind>> /\ adding' = [adding EXCEPT ![c] = NoTrade]
    BY <1>3 DEF OpenTrade
  <2>2. Held' = Held /\ Limits' = Limits /\ \A s : InSector(s)' = InSector(s)
    BY <1>1, <2>1 DEF Held, Limits, InSector
  <2>3. RiskTypes'
    BY <1>1, <2>1, <2>2 DEF RiskTypes
  <2>4. SnapshotCounts'
    BY <1>1, <2>1, <2>2 DEF RiskInv, SnapshotCounts, SectorOf
  <2>5. RoomForCleared'
    BY <1>1, <1>2, <2>1, <2>2 DEF RiskInv, RoomForCleared, RiskTypes
  <2>6. QED
    BY <2>3, <2>4, <2>5 DEF RiskInv
<1>4. CASE t \notin Held
  <2>1. /\ Held' = Held \cup {t} /\ behind' = TRUE
        /\ adding' = [d \in Adders |-> IF d = c THEN NoTrade
                                       ELSE [adding[d] EXCEPT !.current = FALSE]]
    BY <1>4 DEF OpenTrade, Held
  <2>2. ASSUME NEW d \in Adders
        PROVE  adding'[d] \in ClearedAddition \cup {NoTrade} /\ adding'[d].current = FALSE
    <3>1. CASE d = c \/ adding[d] = NoTrade
      BY <1>2, <2>1, <3>1
    <3>2. CASE d # c /\ adding[d] \in ClearedAddition
      BY <2>1, <3>2 DEF ClearedAddition
    <3>3. QED
      BY <1>1, <3>1, <3>2 DEF RiskTypes
  <2>3. RiskTypes'
    BY <1>1, <2>1, <2>2 DEF RiskTypes
  <2>4. QED
    BY <2>1, <2>2, <2>3 DEF RiskInv, SnapshotCounts, RoomForCleared
<1>5. QED
  BY <1>3, <1>4

(* Under other limits nobody is cleared.                                   *)
LEMMA UpdateLimitsInv ==
  ASSUME RiskInv, NEW r \in DOMAIN LimitsOf, UpdateLimits(r)
  PROVE  RiskInv'
<1>1. /\ UNCHANGED <<book, snapshot, behind>> /\ pm' = [pm EXCEPT !.limits = r] /\ RiskTypes
      /\ adding' = [c \in Adders |-> [adding[c] EXCEPT !.current = FALSE]]
  BY DEF UpdateLimits, RiskInv
<1>2. Held' = Held /\ \A s : InSector(s)' = InSector(s)
  BY <1>1 DEF Held, InSector
<1>3. NoTrade.current = FALSE /\ [NoTrade EXCEPT !.current = FALSE] = NoTrade
  BY StillNoTrade
<1>4. ASSUME NEW c \in Adders
      PROVE  adding'[c] \in ClearedAddition \cup {NoTrade} /\ adding'[c].current = FALSE
  <2>1. adding'[c] = [adding[c] EXCEPT !.current = FALSE] /\ adding[c] \in ClearedAddition \cup {NoTrade}
    BY <1>1 DEF RiskTypes
  <2>2. CASE adding[c] = NoTrade
    BY <1>3, <2>1, <2>2
  <2>3. CASE adding[c] \in ClearedAddition
    BY <2>1, <2>3 DEF ClearedAddition
  <2>4. QED
    BY <2>1, <2>2, <2>3
<1>5. pm'.limits \in DOMAIN LimitsOf
  BY <1>1
<1>6. RiskTypes'
  BY <1>1, <1>2, <1>4, <1>5 DEF RiskTypes
<1>7. SnapshotCounts'
  BY <1>1, <1>2 DEF RiskInv, SnapshotCounts, SectorOf
<1>8. QED
  BY <1>4, <1>6, <1>7 DEF RiskInv, RoomForCleared

LEMMA RiskStep ==
  ASSUME RiskInv, [PortfolioNext]_portfolioVars
  PROVE  RiskInv'
<1>1. CASE CalculateRisk
  BY <1>1, CalculateRiskInv
<1>2. CASE \E c \in Adders, t \in Trades, r \in Correlations : AskToAdd(c, t, r)
  BY <1>2, AskToAddInv
<1>3. CASE \E c \in Adders : OpenTrade(c)
  BY <1>3, OpenTradeInv
<1>4. CASE \E t \in Trades, p \in Quotes : MovePrice(t, p)
  <2>1. DOMAIN book' \subseteq Held /\ pm'.limits = pm.limits
        /\ UNCHANGED <<snapshot, adding, behind>>
    BY <1>4 DEF MovePrice, Held
  <2>2. QED
    BY <2>1, FewerHeld
<1>5. CASE \E t \in Trades : SellOne(t)
  <2>1. PICK t \in Trades : SellOne(t)
    BY <1>5
  <2>2. DOMAIN book' \subseteq Held /\ UNCHANGED <<pm, snapshot, adding, behind>>
    BY <2>1 DEF SellOne, Held
  <2>3. QED
    BY <2>2, FewerHeld
<1>6. CASE \E r \in {"win", "loss"} : RecordTradeResult(r)
  <2>1. DOMAIN book' \subseteq Held /\ pm'.limits = pm.limits
        /\ UNCHANGED <<snapshot, adding, behind>>
    BY <1>6 DEF RecordTradeResult, Held
  <2>2. QED
    BY <2>1, FewerHeld
<1>7. CASE \E r \in DOMAIN LimitsOf : UpdateLimits(r)
  BY <1>7, UpdateLimitsInv
<1>8. CASE \E P \in {{"day"}, {"day", "week"}} : BeginPeriod(P)
  <2>1. DOMAIN book' \subseteq Held /\ pm'.limits = pm.limits
        /\ UNCHANGED <<snapshot, adding, behind>>
    BY <1>8 DEF BeginPeriod, Held
  <2>2. QED
    BY <2>1, FewerHeld
<1>9. CASE UNCHANGED portfolioVars
  <2>1. DOMAIN book' \subseteq Held /\ pm'.limits = pm.limits
        /\ UNCHANGED <<snapshot, adding, behind>>
    BY <1>9 DEF portfolioVars, Held
  <2>2. QED
    BY <2>1, FewerHeld
<1>10. QED
  BY <1>1, <1>2, <1>3, <1>4, <1>5, <1>6, <1>7, <1>8, <1>9 DEF PortfolioNext

LEMMA RiskInvariant == PortfolioSpec => []RiskInv
<1>1. PortfolioInit => RiskInv
  BY InitRisk
<1>2. RiskInv /\ [PortfolioNext]_portfolioVars => RiskInv'
  BY RiskStep
<1>3. QED
  BY <1>1, <1>2, PTL DEF PortfolioSpec

-----------------------------------------------------------------------------
(* Only opening a trade adds to the book, one position at a time.          *)
LEMMA AddedByOpening ==
  ASSUME PortfolioNext, NEW u \in DOMAIN book' \ Held
  PROVE  Held \cup {u} = DOMAIN book'
<1>1. CASE CalculateRisk
  BY <1>1 DEF CalculateRisk, Held
<1>2. CASE \E c \in Adders, t \in Trades, r \in Correlations : AskToAdd(c, t, r)
  BY <1>2 DEF AskToAdd, Held
<1>3. CASE \E c \in Adders : OpenTrade(c)
  <2>1. PICK c \in Adders : OpenTrade(c)
    BY <1>3
  <2>2. adding[c].trade \notin Held
    BY <2>1 DEF OpenTrade, Held
  <2>3. DOMAIN book' = Held \cup {adding[c].trade}
    <3>1. PICK t : t = adding[c].trade
      OBVIOUS
    <3>2. book' = [v \in Held \cup {t} |->
                     IF v = t THEN [remaining |-> Terms[t].shares, realised |-> 0] ELSE book[v]]
      BY <2>1, <2>2, <3>1 DEF OpenTrade
    <3>3. QED
      BY <3>1, <3>2
  <2>4. QED
    BY <2>3
<1>4. CASE \E t \in Trades, p \in Quotes : MovePrice(t, p)
  BY <1>4 DEF MovePrice, Held
<1>5. CASE \E t \in Trades : SellOne(t)
  BY <1>5 DEF SellOne, Held
<1>6. CASE \E r \in {"win", "loss"} : RecordTradeResult(r)
  BY <1>6 DEF RecordTradeResult, Held
<1>7. CASE \E r \in DOMAIN LimitsOf : UpdateLimits(r)
  BY <1>7 DEF UpdateLimits, Held
<1>8. CASE \E P \in {{"day"}, {"day", "week"}} : BeginPeriod(P)
  BY <1>8 DEF BeginPeriod, Held
<1>9. QED
  BY <1>1, <1>2, <1>3, <1>4, <1>5, <1>6, <1>7, <1>8 DEF PortfolioNext

(* Whatever callers check at the same time, and whatever is sold, quoted,  *)
(* recorded or recalculated between an answer of CanAddPosition and the    *)
(* addition, a position cleared against a snapshot that no addition        *)
(* overtook leaves the number of positions, and those of its sector,       *)
(* within the limits, for any set of trades, sectors and limits.           *)
THEOREM CountsWithinLimits == PortfolioSpec => AddsWithinLimits
<1> DEFINE Within(c) ==
      /\ Cardinality(DOMAIN book') <= Limits.positions
      /\ Cardinality({t \in DOMAIN book' : Terms[t].sector = Terms[adding[c].trade].sector})
           <= Limits.perSector
<1>1. ASSUME RiskInv, PortfolioNext, NEW c \in Adders, adding[c].current,
             adding[c].trade \in DOMAIN book' \ Held
      PROVE  Within(c)
  <2> DEFINE u == adding[c].trade
             s == Terms[u].sector
  <2>1. DOMAIN book' = Held \cup {u} /\ u \notin Held
    BY <1>1, AddedByOpening
  <2>2. {t \in DOMAIN book' : Terms[t].sector = s} = InSector(s) \cup {u} /\ u \notin InSector(s)
    BY <2>1 DEF InSector
  <2>3. IsFiniteSet(Held) /\ IsFiniteSet(InSector(s))
    BY <1>1, HeldFinite DEF RiskInv
  <2>4. Cardinality(DOMAIN book') = Cardinality(Held) + 1
    BY <2>1, <2>3, FS_AddElement
  <2>5. Cardinality({t \in DOMAIN book' : Terms[t].sector = s}) = Cardinality(InSector(s)) + 1
    BY <2>2, <2>3, FS_AddElement
  <2>6. Cardinality(Held) + 1 <= Limits.positions /\ Cardinality(InSector(s)) + 1 <= Limits.perSector
    BY <1>1 DEF RiskInv, RoomForCleared
  <2>7. QED
    BY <2>4, <2>5, <2>6
<1>2. RiskInv /\ [PortfolioNext]_portfolioVars
        => [\A c \in Adders :
              adding[c].current /\ adding[c].trade \in DOMAIN book' \ Held => Within(c)]_portfolioVars
  BY <1>1
<1>3. QED
  BY <1>2, RiskInvariant, PTL DEF PortfolioSpec, AddsWithinLimits

-----------------------------------------------------------------------------
(* The figures are sums over the book.                                     *)

(* The sum of what each position at hand gained is a number.               *)
LEMMA TotalGained ==
  ASSUME IsFiniteSet(Held), \A t \in Held : TotalPL(t) \in Int
  PROVE  MapThenSumSet(TotalPL, Held) \in Int
<1> DEFINE f == [t \in Held |-> TotalPL(t)]
           Folds(g) == g = [s \in SUBSET Held |->
                              IF s = {} THEN 0 ELSE TotalPL(Pick(s)) + g[s \ {Pick(s)}]]
           h == CHOOSE g : Folds(g)
<1>1. ASSUME NEW g PROVE Folds(g) <=> IsSum(g, f, Held)
  <2>1. \A s \in SUBSET Held : s # {} => f[Pick(s)] = TotalPL(Pick(s))
    BY PickIn
  <2> HIDE DEF f
  <2>2. QED
    BY <2>1 DEF IsSum
<1>2. \E g : Folds(g)
  <2> HIDE DEF f, Folds
  <2>1. QED
    BY <1>1, SumExists
<1>3. IsSum(h, f, Held)
  <2>1. Folds(h)
    BY <1>2
  <2> HIDE DEF h, f, Folds
  <2>2. QED
    BY <1>1, <2>1
<1>4. MapThenSumSet(TotalPL, Held) = h[Held]
  BY DEF MapThenSumSet, MapThenFoldSet, Pick
<1>5. PICK g : IsSum(g, f, Held) /\ SumFunctionOnSet(f, Held) = g[Held]
  <2> HIDE DEF f
  <2>1. QED
    BY SumGiven
<1>6. \A t \in Held : f[t] \in Int
  OBVIOUS
<1> HIDE DEF f, h, Folds
<1>7. h[Held] = g[Held]
  BY <1>3, <1>5, SumsAgree
<1>8. SumFunctionOnSet(f, Held) \in Int
  BY <1>6, SumInt
<1>9. QED
  BY <1>4, <1>5, <1>7, <1>8

RiskFigures ==
  [current : Int, peak : Int, day : Int, week : Int, losses : 0..MaxStreak,
   limits : DOMAIN LimitsOf]

(* What the sums are made of: whole shares, whole numbers.                 *)
PortfolioTypes ==
  /\ \A t \in Held : book[t].remaining \in 1..Terms[t].shares /\ book[t].realised \in Int
  /\ quote \in [Trades -> Nat]
  /\ pm \in RiskFigures /\ pm.peak >= InitialCapital
  /\ period \subseteq {"day", "week"}

LEMMA InitPortfolioTypes == PortfolioInit => PortfolioTypes
<1> SUFFICES ASSUME PortfolioInit PROVE PortfolioTypes
  OBVIOUS
<1>1. Held = {}
  BY DEF PortfolioInit, Held
<1>2. quote \in [Trades -> Nat]
  BY PortfolioAssumption DEF PortfolioInit
<1>3. pm \in RiskFigures /\ pm.peak >= InitialCapital
  BY PortfolioAssumption, LimitsAssumption DEF PortfolioInit, RiskFigures
<1>4. QED
  BY <1>1, <1>2, <1>3 DEF PortfolioInit, PortfolioTypes

LEMMA GainIsInt ==
  ASSUME PortfolioTypes, RiskTypes, NEW t \in Held
  PROVE  Gain(t, quote[t]) \in Int
<1>1. t \in Trades
  BY DEF RiskTypes
<1>2. quote[t] \in Nat /\ Terms[t].entry \in Nat
  BY <1>1, PortfolioAssumption DEF PortfolioTypes
<1>3. QED
  BY <1>2 DEF Gain

LEMMA TotalPLIsInt ==
  ASSUME PortfolioTypes, RiskTypes, NEW t \in Held
  PROVE  TotalPL(t) \in Int
<1>1. t \in Trades /\ Terms[t].shares \in Nat
  BY PortfolioAssumption DEF RiskTypes
<1>2. book[t].remaining \in Int /\ book[t].realised \in Int
  BY <1>1 DEF PortfolioTypes
<1>3. Gain(t, quote[t]) \in Int
  BY GainIsInt
<1>4. PICK g, n, r \in Int : g = Gain(t, quote[t]) /\ n = book[t].remaining /\ r = book[t].realised
  BY <1>2, <1>3
<1>5. g * n + r \in Int
  OBVIOUS
<1>6. QED
  BY <1>4, <1>5 DEF TotalPL

LEMMA CalculateRiskTypes ==
  ASSUME RiskInv, PortfolioTypes, CalculateRisk
  PROVE  PortfolioTypes'
<1> DEFINE m == UpdatePeriodTracking
           capital == InitialCapital + MapThenSumSet(TotalPL, Held)
<1>1. m \in RiskFigures /\ m.peak = pm.peak
  BY DEF UpdatePeriodTracking, PortfolioTypes, RiskFigures
<1>2. capital \in Int
  <2>1. IsFiniteSet(Held)
    BY HeldFinite DEF RiskInv
  <2>2. \A t \in Held : TotalPL(t) \in Int
    BY TotalPLIsInt DEF RiskInv
  <2>3. MapThenSumSet(TotalPL, Held) \in Int
    BY <2>1, <2>2, TotalGained
  <2>4. QED
    BY <2>3, PortfolioAssumption
<1>3. pm' = [m EXCEPT !.current = capital, !.peak = IF capital > @ THEN capital ELSE @]
  BY DEF CalculateRisk, CalculatePerformance
<1> HIDE DEF m, capital
<1>4. pm' \in RiskFigures /\ pm'.peak >= InitialCapital
  <2>1. m.peak \in Int /\ m.peak >= InitialCapital /\ InitialCapital \in Int
    BY <1>1, PortfolioAssumption DEF RiskFigures, PortfolioTypes
  <2>2. PICK peak \in Int : peak = IF capital > m.peak THEN capital ELSE m.peak
    BY <1>2, <2>1
  <2>3. peak >= InitialCapital
    BY <1>2, <2>1, <2>2
  <2>4. pm' = [m EXCEPT !.current = capital, !.peak = peak]
    BY <1>1, <1>3, <2>2 DEF RiskFigures
  <2>5. pm' \in RiskFigures /\ pm'.peak = peak
    BY <1>1, <1>2, <2>4 DEF RiskFigures
  <2>6. QED
    BY <2>3, <2>5
<1>5. QED
  BY <1>4 DEF CalculateRisk, PortfolioTypes, Held

LEMMA OpenTradeTypes ==
  ASSUME RiskInv, PortfolioTypes, NEW c \in Adders, OpenTrade(c)
  PROVE  PortfolioTypes'
<1> DEFINE t == adding[c].trade
<1>1. UNCHANGED <<quote, pm, period>> /\ t \in Trades
  BY DEF OpenTrade, RiskInv, RiskTypes, ClearedAddition
<1>2. CASE t \in Held
  BY <1>1, <1>2 DEF OpenTrade, PortfolioTypes, Held
<1>3. CASE t \notin Held
  <2>1. book' = [u \in Held \cup {t} |->
                   IF u = t THEN [remaining |-> Terms[t].shares, realised |-> 0] ELSE book[u]]
    BY <1>3 DEF OpenTrade
  <2>2. Terms[t].shares \in 1..Terms[t].shares
    BY <1>1, PortfolioAssumption
  <2> HIDE DEF t
  <2>3. ASSUME NEW u \in Held'
        PROVE  book'[u].remaining \in 1..Terms[u].shares /\ book'[u].realised \in Int
    <3>1. CASE u = t
      BY <2>1, <2>2, <3>1
    <3>2. CASE u # t
      BY <2>1, <3>2 DEF PortfolioTypes, Held
    <3>3. QED
      BY <3>1, <3>2
  <2>4. QED
    BY <1>1, <2>3 DEF PortfolioTypes
<1>4. QED
  BY <1>2, <1>3

LEMMA SellOneTypes ==
  ASSUME RiskInv, PortfolioTypes, NEW t \in Trades, SellOne(t)
  PROVE  PortfolioTypes'
<1>1. UNCHANGED <<quote, pm, period>> /\ t \in Held
  BY DEF SellOne
<1>2. CASE book[t].remaining = 1
  <2>1. book' = [u \in Held \ {t} |-> book[u]]
    BY <1>2 DEF SellOne
  <2>2. QED
    BY <1>1, <2>1 DEF PortfolioTypes, Held
<1>3. CASE book[t].remaining # 1
  <2>1. book' = [book EXCEPT ![t].remaining = @ - 1, ![t].realised = @ + Gain(t, quote[t])]
    BY <1>3 DEF SellOne
  <2>2. Held' = Held /\ \A u \in Held : u # t => book'[u] = book[u]
    BY <2>1 DEF Held
  <2>3. /\ book[t].remaining \in 1..Terms[t].shares /\ book[t].realised \in Int
        /\ Gain(t, quote[t]) \in Int
    BY <1>1, GainIsInt DEF PortfolioTypes, RiskInv
  <2>4. Terms[t].shares \in Nat
    BY PortfolioAssumption
  <2>5. book'[t].remaining \in 1..Terms[t].shares /\ book'[t].realised \in Int
    <3>1. t \in DOMAIN book
      BY <1>1 DEF Held
    <3>2. book'[t] = [book[t] EXCEPT !.remaining = @ - 1, !.realised = @ + Gain(t, quote[t])]
      BY <2>1, <3>1
    <3>3. QED
      BY <1>3, <2>3, <2>4, <3>2
  <2>6. QED
    BY <1>1, <2>2, <2>5 DEF PortfolioTypes
<1>4. QED
  BY <1>2, <1>3

LEMMA PortfolioTypesStep ==
  ASSUME RiskInv, PortfolioTypes, [PortfolioNext]_portfolioVars
  PROVE  PortfolioTypes'
<1>1. CASE CalculateRisk
  BY <1>1, CalculateRiskTypes
<1>2. CASE \E c \in Adders, t \in Trades, r \in Correlations : AskToAdd(c, t, r)
  BY <1>2 DEF AskToAdd, PortfolioTypes, Held
<1>3. CASE \E c \in Adders : OpenTrade(c)
  BY <1>3, OpenTradeTypes
<1>4. CASE \E t \in Trades, p \in Quotes : MovePrice(t, p)
  BY <1>4, PortfolioAssumption DEF MovePrice, PortfolioTypes, Held
<1>5. CASE \E t \in Trades : SellOne(t)
  BY <1>5, SellOneTypes
<1>6. CASE \E r \in {"win", "loss"} : RecordTradeResult(r)
  <2>1. PICK r \in {"win", "loss"} : RecordTradeResult(r)
    BY <1>6
  <2>2. pm' = [pm EXCEPT !.losses = IF r = "win" THEN 0 ELSE IF @ < MaxStreak THEN @ + 1 ELSE @]
    BY <2>1 DEF RecordTradeResult
  <2>3. pm' \in RiskFigures /\ pm'.peak = pm.peak
    BY <2>2, PortfolioAssumption DEF PortfolioTypes, RiskFigures
  <2>4. QED
    BY <2>1, <2>3 DEF RecordTradeResult, PortfolioTypes, Held
<1>7. CASE \E r \in DOMAIN LimitsOf : UpdateLimits(r)
  <2>1. PICK r \in DOMAIN LimitsOf : UpdateLimits(r)
    BY <1>7
  <2>2. pm' \in RiskFigures /\ pm'.peak = pm.peak
    BY <2>1 DEF UpdateLimits, PortfolioTypes, RiskFigures
  <2>3. QED
    BY <2>1, <2>2 DEF UpdateLimits, PortfolioTypes, Held
<1>8. CASE \E P \in {{"day"}, {"day", "week"}} : BeginPeriod(P)
  BY <1>8 DEF BeginPeriod, PortfolioTypes, Held
<1>9. CASE UNCHANGED portfolioVars
  BY <1>9 DEF portfolioVars, PortfolioTypes, Held
<1>10. QED
  BY <1>1, <1>2, <1>3, <1>4, <1>5, <1>6, <1>7, <1>8, <1>9 DEF PortfolioNext

(* However positions are opened, sold share by share and quoted, a held    *)
(* position keeps at least one share and no more than it was opened with,  *)
(* the peak of the capital never falls below the initial capital, and the  *)
(* limits in force are those of a regime (portfolio_manager.go).           *)
THEOREM PortfolioTypeCorrect == PortfolioSpec => []PortfolioTypeOK
<1>1. PortfolioInit => PortfolioTypes
  BY InitPortfolioTypes
<1>2. RiskInv /\ PortfolioTypes => PortfolioTypeOK
  <2> SUFFICES ASSUME RiskInv, PortfolioTypes PROVE PortfolioTypeOK
    OBVIOUS
  <2>1. \A c \in Adders : adding[c].trade \in Trades \cup {"none"}
    BY DEF RiskInv, RiskTypes, ClearedAddition, NoTrade
  <2>2. QED
    BY <2>1 DEF RiskInv, RiskTypes, PortfolioTypes, RiskFigures, PortfolioTypeOK
<1>3. QED
  BY <1>1, <1>2, RiskInvariant, PortfolioTypesStep, PTL DEF PortfolioSpec

-----------------------------------------------------------------------------
(***************************************************************************)
(* TradePlan: any entry, capital, stops and sizes.                         *)
(***************************************************************************)

(* Arithmetic of the sizer.                                                *)
LEMMA Quotient ==
  ASSUME NEW a \in Nat, NEW b \in Nat \ {0}
  PROVE  a \div b \in Nat /\ (a \div b) * b <= a
OBVIOUS

LEMMA Times ==
  ASSUME NEW a \in Nat, NEW b \in Nat, NEW k \in Nat, a <= b
  PROVE  a * k <= b * k /\ a * k \in Nat
OBVIOUS

LEMMA Factors ==
  /\ \A score, regime : RiskByScore(score, regime) \in Nat /\ RiskByScore(score, regime) <= 200
  /\ \A atr : VolatilityFactor(atr) \in Nat /\ VolatilityFactor(atr) <= 12
  /\ \A c : CorrelationFactor(c) \in Nat /\ CorrelationFactor(c) <= 10
<1>1. ASSUME NEW score, NEW regime
      PROVE  RiskByScore(score, regime) \in Nat /\ RiskByScore(score, regime) <= 200
  <2> DEFINE base == IF score < 7 THEN 0 ELSE IF score >= 11 THEN 200
                     ELSE IF score >= 9 THEN 150 ELSE 100
             quarters == CASE regime \in {"bear", "transition"} -> 2
                           [] regime = "range" -> 3
                           [] OTHER -> 4
  <2>1. base \in {0, 100, 150, 200} /\ quarters \in {2, 3, 4}
    OBVIOUS
  <2>2. RiskByScore(score, regime) = (base * quarters) \div 4
    BY DEF RiskByScore
  <2> HIDE DEF base, quarters
  <2>3. QED
    BY <2>1, <2>2
<1>2. \A atr : VolatilityFactor(atr) \in Nat /\ VolatilityFactor(atr) <= 12
  BY DEF VolatilityFactor
<1>3. \A c : CorrelationFactor(c) \in Nat /\ CorrelationFactor(c) <= 10
  BY DEF CorrelationFactor
<1>4. QED
  BY <1>1, <1>2, <1>3

(* What Calculate makes of the stop at hand.                               *)
LEMMA SizeWithinBudget ==
  ASSUME NEW s, stopAt.price \in Int
  PROVE  LET n == Calculate(s)
         IN  /\ n \in Nat
             /\ n > 0 => /\ stopAt.price < PlanEntry
                         /\ 100 * n * PlanEntry <= 20 * PlanCapital
                         /\ 10000 * n * (PlanEntry - stopAt.price) <= 74 * PlanCapital
<1> DEFINE r == RiskByScore(s.score, s.regime)
           v == VolatilityFactor(s.atr)
           c == CorrelationFactor(s.correlation)
           base == FixedRisk(r)
           spread == (base * 4) \div 13
           scaled == (spread * v) \div 10
           cap == (PlanCapital * 20) \div (100 * PlanEntry)
           m == Smaller(scaled, cap)
           n == (m * c) \div 10
           d == PlanEntry - stopAt.price
<1>1. Calculate(s) = n
  BY DEF Calculate, MaxPosition
<1>2. /\ r \in Nat /\ r <= 200 /\ v \in Nat /\ v <= 12 /\ c \in Nat /\ c <= 10
      /\ PlanEntry \in Nat \ {0} /\ PlanCapital \in Nat \ {0} /\ d \in Int
  BY Factors, PlanAssumption
<1>3. base = IF PlanEntry <= stopAt.price THEN 0 ELSE (PlanCapital * r) \div (10000 * d)
  BY DEF FixedRisk
<1> HIDE DEF r, v, c, base
<1>4. CASE d <= 0
  <2>1. base = 0
    BY <1>2, <1>3, <1>4
  <2>2. spread = 0
    BY <2>1
  <2> HIDE DEF spread
  <2>3. scaled = 0
    BY <1>2, <2>2
  <2>4. cap \in Nat
    BY <1>2, Quotient
  <2> HIDE DEF scaled, cap
  <2>5. m = 0
    BY <2>3, <2>4 DEF Smaller
  <2> HIDE DEF m
  <2>6. n = 0
    BY <1>2, <2>5
  <2> HIDE DEF n
  <2>7. QED
    BY <1>1, <2>6
<1>5. CASE d > 0
  <2> DEFINE k == 10000 * d
  <2>1. k \in Nat \ {0} /\ PlanCapital * r \in Nat
    BY <1>2, <1>5
  <2>2. base = (PlanCapital * r) \div k
    BY <1>2, <1>3, <1>5
  <2> HIDE DEF k, d
  <2>3. base \in Nat /\ base * k <= PlanCapital * r
    BY <2>1, <2>2, Quotient
  <2>4. PlanCapital * r <= 200 * PlanCapital
    BY <1>2
  <2>5. spread \in Nat /\ spread * 13 <= base * 4
    BY <2>3
  <2> HIDE DEF spread
  <2>6. spread * v \in Nat /\ spread * v <= spread * 12
    BY <1>2, <2>5
  <2>7. scaled \in Nat /\ scaled * 10 <= spread * 12
    <3>1. scaled \in Nat /\ scaled * 10 <= spread * v
      BY <2>6, Quotient
    <3> HIDE DEF scaled
    <3>2. QED
      BY <2>5, <2>6, <3>1
  <2> HIDE DEF scaled
  <2>8. cap \in Nat /\ cap * (100 * PlanEntry) <= PlanCapital * 20
    <3>1. PlanCapital * 20 \in Nat /\ 100 * PlanEntry \in Nat \ {0}
      BY <1>2
    <3>2. QED
      BY <3>1, Quotient
  <2> HIDE DEF cap
  <2>9. m \in Nat /\ m <= scaled /\ m <= cap
    BY <2>7, <2>8 DEF Smaller
  <2> HIDE DEF m
  <2>10. m * c \in Nat /\ m * c <= m * 10
    BY <1>2, <2>9
  <2>11. n \in Nat /\ n <= m
    BY <2>9, <2>10
  <2> HIDE DEF n
  <2>12. n <= scaled /\ n <= cap /\ n * 130 <= base * 48
    BY <2>3, <2>5, <2>7, <2>8, <2>9, <2>11
  <2>13. n * (100 * PlanEntry) <= cap * (100 * PlanEntry)
    <3>1. 100 * PlanEntry \in Nat
      BY <1>2
    <3>2. QED
      BY <2>8, <2>11, <2>12, <3>1, Times
  <2>14. (n * 130) * k <= (base * 48) * k
    BY <2>1, <2>3, <2>11, <2>12, Times
  <2>15. 130 * (n * k) <= 48 * (base * k)
    BY <2>1, <2>3, <2>11, <2>14
  <2>16. n * k \in Nat /\ base * k \in Nat
    BY <2>1, <2>3, <2>11
  <2>17. 130 * (n * k) <= 9600 * PlanCapital
    BY <1>2, <2>3, <2>4, <2>15, <2>16
  <2>18. n * k <= 74 * PlanCapital
    BY <1>2, <2>16, <2>17
  <2>19. n * k = 10000 * n * d
    BY <1>2, <2>11 DEF k
  <2>20. n * (100 * PlanEntry) = 100 * n * PlanEntry
    BY <1>2, <2>11
  <2>21. 100 * n * PlanEntry <= 20 * PlanCapital
    BY <1>2, <2>8, <2>13, <2>20, <2>11
  <2>22. stopAt.price < PlanEntry
    BY <1>2, <1>5 DEF d
  <2>23. QED
    BY <1>1, <2>11, <2>18, <2>19, <2>21, <2>22 DEF d
<1>6. QED
  BY <1>2, <1>4, <1>5

-----------------------------------------------------------------------------
(* The inductive invariant: no position before its size is worked out.     *)
PlanInv ==
  /\ stopAt.price \in Int
  /\ stage \in {"stop", "size"} => positionLots = 0
  /\ SizedWithinBudget

(* What is rounded is a whole number; nothing turns negative, and a price  *)
(* of at least half the smallest tick does not vanish.                     *)
LEMMA Rounded ==
  ASSUME NEW n \in Int, NEW d \in Nat \ {0}
  PROVE  /\ RoundToTick(n, d) \in Int /\ RoundToNearest100(n, d) \in Int
         /\ n >= 0 => RoundToNearest100(n, d) >= 0
         /\ 2 * n >= d => RoundToTick(n, d) > 0
<1>1. ASSUME NEW k \in {1, 5, 10}
      PROVE  /\ Nearest(n, k * d) \in Int
             /\ n >= 0 => Nearest(n, k * d) >= 0
             /\ 2 * n >= k * d => Nearest(n, k * d) > 0
  <2>1. PICK e \in Nat : e = k * d /\ e > 0
    OBVIOUS
  <2>2. Nearest(n, e) \in Int
    BY <2>1 DEF Nearest
  <2>3. n >= 0 => (2 * n + e) \div (2 * e) >= 0
    BY <2>1
  <2>4. 2 * n >= e => (2 * n + e) \div (2 * e) >= 1
    BY <2>1
  <2>5. QED
    BY <2>1, <2>2, <2>3, <2>4 DEF Nearest
<1>2. RoundToNearest100(n, d) = 10 * Nearest(n, 10 * d)
  BY DEF RoundToNearest100
<1>3. \E k \in {1, 5, 10} : /\ RoundToTick(n, d) = k * Nearest(n, k * d)
                            /\ 2 * n >= d => 2 * n >= k * d
  <2>1. RoundToTick(n, d) = IF n < 1000 * d THEN 1 * Nearest(n, 1 * d)
                            ELSE IF n < 5000 * d THEN 5 * Nearest(n, 5 * d)
                            ELSE 10 * Nearest(n, 10 * d)
    BY DEF RoundToTick
  <2>2. QED
    BY <2>1
<1>4. QED
  BY <1>1, <1>2, <1>3

LEMMA RoundedPrice ==
  ASSUME NEW n \in Int
  PROVE  \A d \in {1, 2, 1000} : RoundToTick(n, d) \in Int /\ RoundToNearest100(n, d) \in Int
<1> SUFFICES ASSUME NEW d \in {1, 2, 1000}
             PROVE  RoundToTick(n, d) \in Int /\ RoundToNearest100(n, d) \in Int
  OBVIOUS
<1>1. d \in Nat \ {0}
  OBVIOUS
<1>2. QED
  BY <1>1, Rounded

LEMMA StopIsWhole ==
  ASSUME NEW p \in StopInputs
  PROVE  StopMethod(p).price \in Int /\ FloorAware(p, StopMethod(p).price) \in Int
<1>1. /\ p.long \in BOOLEAN /\ p.low \in Int /\ p.level \in Int /\ p.buffer \in Int /\ p.atr \in Int
      /\ p.percent \in Int /\ p.reference \in Int /\ PlanEntry \in Int
  BY StopInputsAssumption, PlanAssumption
<1>2. \A long \in BOOLEAN : \A price, d \in Int : Beyond(long, price, d) \in Int
  <2> SUFFICES ASSUME NEW long \in BOOLEAN, NEW price \in Int, NEW d \in Int
               PROVE  Beyond(long, price, d) \in Int
    OBVIOUS
  <2>1. price * (IF long THEN 1000 - d ELSE 1000 + d) \in Int
    OBVIOUS
  <2>2. QED
    BY <2>1, RoundedPrice DEF Beyond
<1>3. SwingStop(p) \in Int /\ ATRStop(p) \in Int
  <2>1. PICK buffer \in Int : buffer = IF p.buffer > 0 THEN p.buffer ELSE 5
    BY <1>1
  <2>2. SwingStop(p) = Beyond(p.long, p.low, buffer)
    BY <2>1 DEF SwingStop
  <2>3. Beyond(p.long, p.low, buffer) \in Int
    BY <1>1, <1>2
  <2>4. PICK raw \in Int : raw = IF p.long THEN PlanEntry - p.atr * 2 ELSE PlanEntry + p.atr * 2
    BY <1>1
  <2>5. ATRStop(p) = RoundToTick(raw, 1)
    BY <2>4 DEF ATRStop
  <2>6. RoundToTick(raw, 1) \in Int
    BY RoundedPrice
  <2>7. QED
    BY <2>2, <2>3, <2>5, <2>6
<1>4. Beyond(p.long, p.level, p.buffer) \in Int /\ Beyond(p.long, PlanEntry, p.percent) \in Int
  BY <1>1, <1>2
<1>5. StopMethod(p).price \in Int
  BY <1>3, <1>4 DEF StopMethod
<1>6. RoundToTick(p.reference * 930, 1000) \in Int
  BY <1>1, RoundedPrice
<1>7. QED
  BY <1>5, <1>6 DEF FloorAware

LEMMA PlanStep ==
  ASSUME PlanInv, [PlanNext]_planVars
  PROVE  PlanInv'
<1>1. ASSUME NEW p \in StopInputs, CalculateStop(p)
      PROVE  PlanInv'
  <2>1. stopAt'.price \in Int
    BY <1>1, StopIsWhole DEF CalculateStop, NoStop
  <2>2. positionLots' = 0
    BY <1>1 DEF CalculateStop, PlanInv
  <2>3. QED
    BY <2>1, <2>2 DEF PlanInv, SizedWithinBudget
<1>2. ASSUME NEW s \in SizeInputs, SizePosition(s)
      PROVE  PlanInv'
  <2>1. /\ stopAt' = stopAt /\ stopAt.price \in Int /\ stage' \in {"done", "targets"}
        /\ positionLots' = 0 \/ positionLots' = Calculate(s)
    BY <1>2 DEF SizePosition, PlanInv
  <2>2. SizedWithinBudget'
    BY <2>1, SizeWithinBudget DEF SizedWithinBudget
  <2>3. QED
    BY <2>1, <2>2 DEF PlanInv
<1>3. ASSUME NEW t \in TargetInputs, PlanTargets(t)
      PROVE  PlanInv'
  BY <1>3 DEF PlanTargets, PlanInv, SizedWithinBudget
<1>4. ASSUME NEW x \in TrailInputs, Trail(x)
      PROVE  PlanInv'
  BY <1>4 DEF Trail, PlanInv, SizedWithinBudget
<1>5. CASE UNCHANGED planVars
  BY <1>5 DEF planVars, PlanInv, SizedWithinBudget
<1>6. QED
  BY <1>1, <1>2, <1>3, <1>4, <1>5 DEF PlanNext

(* For any capital, entry, stop, score, regime and volatility, whole       *)
(* numbers and the rounding of every step included, a size is given only   *)
(* to a stop below the entry, is worth at most a fifth of the capital and  *)
(* risks at most 0.74% of it: the cap after the scaling by the gap divisor *)
(* and the volatility is never undone by a later factor (Calculate).       *)
THEOREM WithinBudget == PlanSpec => []SizedWithinBudget
<1>1. PlanInit => PlanInv
  BY DEF PlanInit, PlanInv, NoStop, SizedWithinBudget
<1>2. PlanInv /\ [PlanNext]_planVars => PlanInv'
  BY PlanStep
<1>3. PlanInv => SizedWithinBudget
  BY DEF PlanInv
<1>4. QED
  BY <1>1, <1>2, <1>3, PTL DEF PlanSpec

-----------------------------------------------------------------------------
(* The prices of the targets are a sequence, however many methods there    *)
(* are.                                                                    *)
Placed(x, s) == InsertAt(s, 1 + Cardinality({i \in DOMAIN s : s[i] <= x[3]}), x[3])

LEMMA PlacedIn ==
  ASSUME NEW s \in Seq(Int), NEW x, x[3] \in Int
  PROVE  Placed(x, s) \in Seq(Int)
<1> DEFINE lower == {i \in DOMAIN s : s[i] <= x[3]}
<1>1. Cardinality(lower) \in 0..Len(s)
  <2>1. IsFiniteSet(1..Len(s)) /\ Cardinality(1..Len(s)) = Len(s)
    <3>1. PICK n \in Nat : n = Len(s)
      OBVIOUS
    <3>2. IsFiniteSet(1..n) /\ Cardinality(1..n) = IF 1 > n THEN 0 ELSE n - 1 + 1
      BY FS_Interval
    <3>3. QED
      BY <3>1, <3>2
  <2>2. lower \subseteq 1..Len(s)
    OBVIOUS
  <2> HIDE DEF lower
  <2>3. Cardinality(lower) <= Len(s) /\ Cardinality(lower) \in Nat
    BY <2>1, <2>2, FS_Subset, FS_CardinalityType
  <2>4. QED
    BY <2>3
<1> HIDE DEF lower
<1>2. PICK k \in 1..(Len(s) + 1) : k = 1 + Cardinality(lower)
  BY <1>1
<1>3. SubSeq(s, 1, k - 1) \in Seq(Int)
  OBVIOUS
<1>4. SubSeq(s, k, Len(s)) \in Seq(Int)
  OBVIOUS
<1>5. PICK y \in Int : y = x[3]
  OBVIOUS
<1>6. InsertAt(s, k, y) \in Seq(Int)
  BY <1>3, <1>4 DEF InsertAt
<1>7. QED
  BY <1>2, <1>5, <1>6 DEF Placed, lower

LEMMA PricesInOrder ==
  ASSUME NEW T, IsFiniteSet(T), \A x \in T : x[3] \in Int
  PROVE  ByPrice(T) \in Seq(Int)
<1> DEFINE c == [s \in SUBSET T |-> Pick(s)]
           h == [p \in T \X Seq(Int) |-> Placed(p[1], p[2])]
           g == CHOOSE g : g = [s \in SUBSET T |->
                  IF s = {} THEN <<>> ELSE Placed(Pick(s), g[s \ {Pick(s)}])]
<1>1. Chooses(c, T)
  BY PickIn DEF Chooses
<1>2. ASSUME NEW x \in T, NEW s \in Seq(Int)
      PROVE  h[<<x, s>>] = Placed(x, s) /\ h[<<x, s>>] \in Seq(Int)
  <2>1. Placed(x, s) \in Seq(Int)
    BY PlacedIn
  <2>2. h[<<x, s>>] = Placed(x, s)
    OBVIOUS
  <2>3. QED
    BY <2>1, <2>2
<1>3. \A s \in SUBSET T : c[s] = Pick(s) /\ (s # {} => c[s] \in T)
  BY PickIn
<1> HIDE DEF c, h
<1>4. PICK f : FoldOf(f, h, c, <<>>, T)
  BY <1>1, FoldDefined
<1>5. \A s \in SUBSET T : f[s] = IF s = {} THEN <<>> ELSE h[<<c[s], f[s \ {c[s]}]>>]
  BY <1>4 DEF FoldOf
<1>6. \A s \in SUBSET T : f[s] \in Seq(Int)
  <2>1. f[{}] = <<>> /\ <<>> \in Seq(Int)
    <3>1. f[{}] = <<>>
      BY <1>5
    <3>2. QED
      BY <3>1
  <2>2. ASSUME NEW s \in SUBSET T, s # {}, f[s \ {c[s]}] \in Seq(Int)
        PROVE  f[s] \in Seq(Int)
    BY <1>2, <1>3, <1>5, <2>2
  <2>3. QED
    BY <1>1, <2>1, <2>2, FoldStays
<1>7. f = [s \in SUBSET T |-> IF s = {} THEN <<>> ELSE Placed(Pick(s), f[s \ {Pick(s)}])]
  <2>1. f = [s \in SUBSET T |-> IF s = {} THEN <<>> ELSE h[<<c[s], f[s \ {c[s]}]>>]]
    BY <1>4 DEF FoldOf
  <2>2. ASSUME NEW s \in SUBSET T, s # {}
        PROVE  h[<<c[s], f[s \ {c[s]}]>>] = Placed(Pick(s), f[s \ {Pick(s)}])
    BY <1>2, <1>3, <1>6, <2>2
  <2>3. QED
    BY <2>1, <2>2
<1>8. g = [s \in SUBSET T |-> IF s = {} THEN <<>> ELSE Placed(Pick(s), g[s \ {Pick(s)}])]
  BY <1>7
<1>9. ByPrice(T) = g[T]
  BY Zenon DEF ByPrice, FoldSet, MapThenFoldSet, Placed, Pick
<1> HIDE DEF g
<1>10. g[{}] = <<>> /\ <<>> \in Seq(Int)
  BY <1>8
<1>11. ASSUME NEW s \in SUBSET T, s # {}, g[s \ {c[s]}] \in Seq(Int)
       PROVE  g[s] \in Seq(Int)
  <2>1. g[s] = Placed(c[s], g[s \ {c[s]}]) /\ c[s] \in T
    BY <1>3, <1>8, <1>11
  <2>2. QED
    BY <1>11, <2>1, PlacedIn
<1>12. \A s \in SUBSET T : g[s] \in Seq(Int)
  BY <1>1, <1>10, <1>11, FoldStays
<1>13. QED
  BY <1>9, <1>12

(* So are the groups of targets that agree, each of two or more.           *)
Agreeing == {g \in Seq(Int) : Len(g) >= 2}
Grouping == [groups : Seq(Agreeing), current : Seq(Int)]

LEMMA KeptGroups ==
  ASSUME NEW groups \in Seq(Agreeing), NEW g \in Seq(Int)
  PROVE  KeepGroup(groups, g) \in Seq(Agreeing)
<1>1. CASE Len(g) >= 2
  <2>1. g \in Agreeing
    BY <1>1 DEF Agreeing
  <2>2. KeepGroup(groups, g) = Append(groups, g)
    BY <1>1 DEF KeepGroup
  <2>3. QED
    BY <2>1, <2>2
<1>2. CASE ~(Len(g) >= 2)
  BY <1>2 DEF KeepGroup
<1>3. QED
  BY <1>1, <1>2

LEMMA PlacedTarget ==
  ASSUME NEW f \in Grouping, NEW price \in Int
  PROVE  PlaceTarget(f, price) \in Grouping
<1>1. f.groups \in Seq(Agreeing) /\ f.current \in Seq(Int)
  BY DEF Grouping
<1>2. CASE f.current = <<>> \/ WithinGroup(f.current, price)
  <2>1. Append(f.current, price) \in Seq(Int)
    BY <1>1
  <2>2. PlaceTarget(f, price) = [f EXCEPT !.current = Append(f.current, price)]
    BY <1>2 DEF PlaceTarget
  <2>3. QED
    BY <2>1, <2>2 DEF Grouping
<1>3. CASE ~(f.current = <<>> \/ WithinGroup(f.current, price))
  <2>1. KeepGroup(f.groups, f.current) \in Seq(Agreeing)
    BY <1>1, KeptGroups
  <2>2. PlaceTarget(f, price) = [groups |-> KeepGroup(f.groups, f.current), current |-> <<price>>]
    BY <1>3 DEF PlaceTarget
  <2>3. <<price>> \in Seq(Int)
    OBVIOUS
  <2>4. QED
    BY <2>1, <2>2, <2>3 DEF Grouping
<1>4. QED
  BY <1>2, <1>3

Gathered(prices) == FoldLeft(PlaceTarget, [groups |-> <<>>, current |-> <<>>], prices)

LEMMA GatheredIn ==
  ASSUME NEW prices \in Seq(Int)
  PROVE  Gathered(prices) \in Grouping
<1> DEFINE n == Len(prices)
           T == DOMAIN prices
           base == [groups |-> <<>>, current |-> <<>>]
           c == [s \in SUBSET T |-> Max(s)]
           h == [p \in T \X Grouping |-> PlaceTarget(p[2], prices[p[1]])]
           g == CHOOSE g : g = [s \in SUBSET T |->
                  IF s = {} THEN base ELSE PlaceTarget(g[s \ {Max(s)}], prices[Max(s)])]
<1>1. n \in Nat /\ T = 1..n /\ \A i \in T : prices[i] \in Int
  OBVIOUS
<1>2. base \in Grouping
  BY DEF Grouping
<1>3. IsFiniteSet(T)
  <2> HIDE DEF n, T
  <2>1. QED
    BY <1>1, FS_Interval
<1>4. \A s \in SUBSET T : c[s] = Max(s) /\ (s # {} => c[s] \in s /\ c[s] \in T)
  <2>1. ASSUME NEW s \in SUBSET T, s # {} PROVE Max(s) \in s
    <3> HIDE DEF n, T
    <3>1. QED
      BY <1>1, <2>1, GreatestOf
  <2>2. QED
    BY <2>1
<1>5. Chooses(c, T)
  BY <1>4 DEF Chooses
<1>6. ASSUME NEW i \in T, NEW f \in Grouping
      PROVE  h[<<i, f>>] = PlaceTarget(f, prices[i]) /\ h[<<i, f>>] \in Grouping
  <2>1. PlaceTarget(f, prices[i]) \in Grouping
    BY <1>1, PlacedTarget
  <2>2. h[<<i, f>>] = PlaceTarget(f, prices[i])
    OBVIOUS
  <2>3. QED
    BY <2>1, <2>2
<1> HIDE DEF n, T, base, c, h
<1>7. PICK f : FoldOf(f, h, c, base, T)
  BY <1>3, <1>5, FoldDefined
<1>8. \A s \in SUBSET T : f[s] = IF s = {} THEN base ELSE h[<<c[s], f[s \ {c[s]}]>>]
  BY <1>7 DEF FoldOf
<1>9. \A s \in SUBSET T : f[s] \in Grouping
  <2>1. f[{}] \in Grouping
    BY <1>2, <1>8
  <2>2. ASSUME NEW s \in SUBSET T, s # {}, f[s \ {c[s]}] \in Grouping
        PROVE  f[s] \in Grouping
    BY <1>4, <1>6, <1>8, <2>2
  <2>3. QED
    BY <1>3, <1>5, <2>1, <2>2, FoldStays
<1>10. f = [s \in SUBSET T |->
              IF s = {} THEN base ELSE PlaceTarget(f[s \ {Max(s)}], prices[Max(s)])]
  <2>1. f = [s \in SUBSET T |-> IF s = {} THEN base ELSE h[<<c[s], f[s \ {c[s]}]>>]]
    BY <1>7 DEF FoldOf
  <2>2. ASSUME NEW s \in SUBSET T, s # {}
        PROVE  h[<<c[s], f[s \ {c[s]}]>>] = PlaceTarget(f[s \ {Max(s)}], prices[Max(s)])
    BY <1>4, <1>6, <1>9, <2>2
  <2>3. QED
    BY <2>1, <2>2
<1>11. g = [s \in SUBSET T |->
              IF s = {} THEN base ELSE PlaceTarget(g[s \ {Max(s)}], prices[Max(s)])]
  BY <1>10
<1>12. Gathered(prices) = g[T]
  BY Zenon DEF Gathered, FoldLeft, MapThenFoldSet, T, base
<1> HIDE DEF g
<1>13. g[{}] \in Grouping
  BY <1>2, <1>11
<1>14. ASSUME NEW s \in SUBSET T, s # {}, g[s \ {c[s]}] \in Grouping
       PROVE  g[s] \in Grouping
  <2>1. g[s] = PlaceTarget(g[s \ {c[s]}], prices[c[s]]) /\ prices[c[s]] \in Int
    BY <1>1, <1>4, <1>11, <1>14
  <2>2. QED
    BY <1>14, <2>1, PlacedTarget
<1>15. \A s \in SUBSET T : g[s] \in Grouping
  BY <1>3, <1>5, <1>13, <1>14, FoldStays
<1>16. QED
  BY <1>12, <1>15

LEMMA GroupsAgree ==
  ASSUME NEW T, IsFiniteSet(T), \A x \in T : x[3] \in Int
  PROVE  Groups(T) \in Seq(Agreeing)
<1> DEFINE f == Gathered(ByPrice(T))
<1>1. f \in Grouping
  BY PricesInOrder, GatheredIn
<1>2. Groups(T) = KeepGroup(f.groups, f.current)
  BY Zenon DEF Groups, Gathered
<1> HIDE DEF f
<1>3. f.groups \in Seq(Agreeing) /\ f.current \in Seq(Int)
  BY <1>1 DEF Grouping
<1>4. QED
  BY <1>2, <1>3, KeptGroups

LEMMA ConsensusPrices ==
  ASSUME NEW T, IsFiniteSet(T), \A x \in T : x[3] \in Int
  PROVE  ConsensusTargets(T) \in Seq(Int)
<1> DEFINE agreeing == Groups(T)
           prices == [i \in DOMAIN agreeing |->
                         RoundToNearest100(SumFunction(agreeing[i]), Len(agreeing[i]))]
<1>1. ASSUME NEW i \in DOMAIN agreeing PROVE prices[i] \in Int
  <2> DEFINE g == agreeing[i]
  <2>1. g \in Agreeing
    BY GroupsAgree
  <2> HIDE DEF g
  <2>2. g \in Seq(Int) /\ Len(g) \in Nat /\ Len(g) >= 2
    BY <2>1 DEF Agreeing
  <2>3. SumFunction(g) \in Int
    <3>1. PICK n \in Nat : n = Len(g)
      BY <2>2
    <3>2. DOMAIN g = 1..n /\ \A k \in 1..n : g[k] \in Int
      BY <2>2, <3>1
    <3>3. IsFiniteSet(1..n)
      BY FS_Interval
    <3>4. QED
      BY <3>2, <3>3, SumIs
  <2>4. RoundToNearest100(SumFunction(g), Len(g)) \in Int
    BY <2>2, <2>3, Rounded
  <2>5. QED
    BY <2>4 DEF g
<1>2. agreeing \in Seq(Agreeing)
  BY GroupsAgree
<1>3. ConsensusTargets(T) = prices
  BY DEF ConsensusTargets
<1> HIDE DEF agreeing
<1>4. prices \in Seq(Int)
  <2>1. PICK n \in Nat : DOMAIN agreeing = 1..n
    BY <1>2
  <2>2. prices \in [1..n -> Int]
    BY <1>1, <2>1
  <2> HIDE DEF prices
  <2>3. QED
    BY <2>2
<1>5. QED
  BY <1>3, <1>4

Parts == [price : Int, sell : 1..100]

LEMMA StrategyParts ==
  ASSUME NEW T, IsFiniteSet(T), \A x \in T : x[3] \in Int, stopAt.price \in Int
  PROVE  \A i \in DOMAIN TargetStrategy(T) : TargetStrategy(T)[i] \in Parts
<1> DEFINE consensus == ConsensusTargets(T)
           risk == Distance(PlanEntry, stopAt.price)
           prices == IF consensus = <<>>
                     THEN <<RoundToNearest100(PlanEntry + 2 * risk, 1),
                            RoundToNearest100(PlanEntry + 3 * risk, 1)>>
                     ELSE SubSeq(consensus, 1, Smaller(3, Len(consensus)))
           sold == [i \in DOMAIN prices |-> [price |-> prices[i], sell |-> 25]]
           rest == [price |-> 0, sell |-> 100 - 25 * Len(prices)]
<1>1. consensus \in Seq(Int)
  BY ConsensusPrices
<1>2. risk \in Int /\ PlanEntry \in Int
  BY PlanAssumption DEF Distance
<1>3. TargetStrategy(T) = sold \o <<rest>>
  BY Zenon DEF TargetStrategy
<1> HIDE DEF consensus, risk
<1>4. prices \in Seq(Int) /\ Len(prices) \in 1..3
  <2>1. CASE consensus = <<>>
    <3>1. PlanEntry + 2 * risk \in Int /\ PlanEntry + 3 * risk \in Int
      BY <1>2
    <3>2. /\ RoundToNearest100(PlanEntry + 2 * risk, 1) \in Int
          /\ RoundToNearest100(PlanEntry + 3 * risk, 1) \in Int
      BY <3>1, RoundedPrice
    <3>3. QED
      BY <2>1, <3>2
  <2>2. CASE consensus # <<>>
    <3>1. PICK n \in 1..3 : n = Smaller(3, Len(consensus)) /\ n <= Len(consensus)
      <4>1. PICK k \in Nat : k = Len(consensus) /\ k >= 1
        BY <1>1, <2>2
      <4>2. Smaller(3, k) \in 1..3 /\ Smaller(3, k) <= k
        BY <4>1 DEF Smaller
      <4>3. QED
        BY <4>1, <4>2
    <3>2. prices = SubSeq(consensus, 1, n)
      BY <2>2, <3>1
    <3>3. SubSeq(consensus, 1, n) \in Seq(Int) /\ Len(SubSeq(consensus, 1, n)) = n
      BY <1>1, <3>1
    <3>4. QED
      BY <3>2, <3>3
  <2>3. QED
    BY <2>1, <2>2
<1> HIDE DEF prices
<1>5. PICK n \in 1..3 : n = Len(prices)
  BY <1>4
<1>6. sold \in Seq(Parts)
  <2>1. DOMAIN prices = 1..n /\ \A i \in 1..n : prices[i] \in Int
    BY <1>4, <1>5
  <2>2. sold \in [1..n -> Parts]
    BY <2>1 DEF Parts
  <2> HIDE DEF sold
  <2>3. QED
    BY <2>2
<1>7. rest \in Parts
  <2>1. PICK k \in 1..100 : k = 100 - 25 * n
    OBVIOUS
  <2>2. rest = [price |-> 0, sell |-> k]
    BY <1>5, <2>1
  <2>3. [price |-> 0, sell |-> k] \in Parts
    BY DEF Parts
  <2>4. QED
    BY <2>2, <2>3
<1> HIDE DEF sold, rest
<1>8. sold \o <<rest>> \in Seq(Parts)
  BY <1>6, <1>7
<1>9. QED
  BY <1>3, <1>8

(* The targets of every method are finitely many.                          *)
Listed(T, g, a, b) == \A x \in T : \E m \in a..b : x = g[m]

LEMMA FinitelyMany ==
  ASSUME NEW a \in Int, NEW b \in Int, NEW g, NEW T, Listed(T, g, a, b)
  PROVE  IsFiniteSet(T)
<1> DEFINE f == [m \in a..b |-> g[m]]
           image == {g[m] : m \in a..b}
<1>1. f \in Surjection(a..b, image)
  BY DEF Surjection
<1>2. T \subseteq image
  BY DEF Listed
<1> HIDE DEF f, image
<1>3. IsFiniteSet(a..b)
  BY FS_Interval
<1>4. IsFiniteSet(image)
  BY <1>1, <1>3, FS_Surjection
<1>5. QED
  BY <1>2, <1>4, FS_Subset

LEMMA TargetsFinite ==
  ASSUME NEW t \in TargetInputs, stopAt.price \in Int
  PROVE  IsFiniteSet(MethodTargets(t)) /\ \A x \in MethodTargets(t) : x[3] \in Int
<1> DEFINE byRisk == {<<"r", m, RoundToNearest100(Ahead(PlanRisk * m), 1)>> :
                        m \in IF PlanRisk > 0 THEN 2..4 ELSE {}}
           byATR == {<<"atr", m, RoundToNearest100(Ahead(t.atr * m), 1)>> :
                       m \in IF t.atr > 0 THEN 2..4 ELSE {}}
           byLevel == {<<"technical", l, RoundToNearest100(l, 1)>> :
                         l \in TechnicalTargets(t.levels)}
           byFib == {<<"fib", m, RoundToNearest100(1000 * t.fib.base + t.fib.size * m, 1000)>> :
                       m \in IF t.fib.size > 0 THEN {618, 1000, 1618, 2618} ELSE {}}
           byMove == {<<"measured", m, RoundToNearest100(2 * t.measured.base + t.measured.size * m, 2)>> :
                        m \in IF t.measured.size > 0 THEN {2, 3, 4} ELSE {}}
<1>1. /\ t.atr \in Int /\ IsFiniteSet(t.levels) /\ t.levels \subseteq Int
      /\ t.fib.base \in Int /\ t.fib.size \in Int
      /\ t.measured.base \in Int /\ t.measured.size \in Int
  BY TargetInputsAssumption
<1>2. PlanRisk \in Int /\ PlanEntry \in Int /\ \A d \in Int : Ahead(d) \in Int
  BY PlanAssumption DEF PlanRisk, Ahead
<1>3. \A a, b, m \in Int : a * m \in Int /\ 1000 * b + a * m \in Int /\ 2 * b + a * m \in Int
  OBVIOUS
<1>4. IsFiniteSet(byRisk) /\ \A x \in byRisk : x[3] \in Int
  <2> DEFINE g == [m \in 2..4 |-> <<"r", m, RoundToNearest100(Ahead(PlanRisk * m), 1)>>]
  <2>0. \A m \in 2..4 : Ahead(PlanRisk * m) \in Int
    BY <1>2, <1>3
  <2>1. \A m \in 2..4 : RoundToNearest100(Ahead(PlanRisk * m), 1) \in Int
    BY <2>0, RoundedPrice
  <2>2. Listed(byRisk, g, 2, 4)
    BY DEF Listed
  <2>3. \A x \in byRisk : x[3] \in Int
    BY <2>1
  <2> HIDE DEF g, byRisk
  <2>4. IsFiniteSet(byRisk)
    BY <2>2, FinitelyMany
  <2>5. QED
    BY <2>3, <2>4
<1>5. IsFiniteSet(byATR) /\ \A x \in byATR : x[3] \in Int
  <2> DEFINE g == [m \in 2..4 |-> <<"atr", m, RoundToNearest100(Ahead(t.atr * m), 1)>>]
  <2>0. \A m \in 2..4 : Ahead(t.atr * m) \in Int
    BY <1>1, <1>2, <1>3
  <2>1. \A m \in 2..4 : RoundToNearest100(Ahead(t.atr * m), 1) \in Int
    BY <2>0, RoundedPrice
  <2>2. Listed(byATR, g, 2, 4)
    BY DEF Listed
  <2>3. \A x \in byATR : x[3] \in Int
    BY <2>1
  <2> HIDE DEF g, byATR
  <2>4. IsFiniteSet(byATR)
    BY <2>2, FinitelyMany
  <2>5. QED
    BY <2>3, <2>4
<1>6. IsFiniteSet(byLevel) /\ \A x \in byLevel : x[3] \in Int
  <2> DEFINE M == TechnicalTargets(t.levels)
             g == [l \in M |-> <<"technical", l, RoundToNearest100(l, 1)>>]
  <2>1. M \subseteq t.levels
    BY DEF TechnicalTargets
  <2>2. \A x \in byLevel : x[3] \in Int
    BY <1>1, <2>1, RoundedPrice
  <2>3. g \in Surjection(M, byLevel)
    BY DEF Surjection
  <2> HIDE DEF M, g, byLevel
  <2>4. IsFiniteSet(M)
    BY <1>1, <2>1, FS_Subset
  <2>5. IsFiniteSet(byLevel)
    BY <2>3, <2>4, FS_Surjection
  <2>6. QED
    BY <2>2, <2>5
<1>7. IsFiniteSet(byFib) /\ \A x \in byFib : x[3] \in Int
  <2> DEFINE levels == <<618, 1000, 1618, 2618>>
             g == [k \in 1..4 |->
                     <<"fib", levels[k],
                       RoundToNearest100(1000 * t.fib.base + t.fib.size * levels[k], 1000)>>]
  <2>1. \A m \in {618, 1000, 1618, 2618} :
          RoundToNearest100(1000 * t.fib.base + t.fib.size * m, 1000) \in Int
    BY <1>1, <1>3, RoundedPrice
  <2>2. \A x \in byFib : x[3] \in Int
    BY <2>1
  <2>3. \A m \in {618, 1000, 1618, 2618} : \E k \in 1..4 : m = levels[k]
    OBVIOUS
  <2> HIDE DEF levels
  <2>4. Listed(byFib, g, 1, 4)
    BY <2>3 DEF Listed
  <2> HIDE DEF g, byFib
  <2>5. IsFiniteSet(byFib)
    BY <2>4, FinitelyMany
  <2>6. QED
    BY <2>2, <2>5
<1>8. IsFiniteSet(byMove) /\ \A x \in byMove : x[3] \in Int
  <2> DEFINE g == [m \in 2..4 |->
                     <<"measured", m, RoundToNearest100(2 * t.measured.base + t.measured.size * m, 2)>>]
  <2>1. \A m \in 2..4 : RoundToNearest100(2 * t.measured.base + t.measured.size * m, 2) \in Int
    BY <1>1, <1>3, RoundedPrice
  <2>2. Listed(byMove, g, 2, 4)
    BY DEF Listed
  <2>3. \A x \in byMove : x[3] \in Int
    BY <2>1
  <2> HIDE DEF g, byMove
  <2>4. IsFiniteSet(byMove)
    BY <2>2, FinitelyMany
  <2>5. QED
    BY <2>3, <2>4
<1>9. MethodTargets(t) = byRisk \cup byATR \cup byLevel \cup byFib \cup byMove
  BY DEF MethodTargets
<1> HIDE DEF byRisk, byATR, byLevel, byFib, byMove
<1>10. IsFiniteSet(byRisk \cup byATR \cup byLevel \cup byFib \cup byMove)
  BY <1>4, <1>5, <1>6, <1>7, <1>8, FS_Union
<1>11. QED
  BY <1>4, <1>5, <1>6, <1>7, <1>8, <1>9, <1>10

(* Only a stop above zero is called valid, and the floor only raises it.   *)
LEMMA ValidStop ==
  ASSUME NEW p \in StopInputs
  PROVE  LET found == StopMethod(p)
         IN  /\ found.valid \in BOOLEAN
             /\ found.valid => found.price > 0 /\ FloorAware(p, found.price) > 0
<1> DEFINE found == StopMethod(p)
           x == p.level * (IF p.long THEN 1000 - p.buffer ELSE 1000 + p.buffer)
<1>1. /\ p.long \in BOOLEAN /\ p.low \in Int /\ p.level \in Int /\ p.buffer \in Int /\ p.atr \in Int
      /\ p.percent \in Int /\ p.reference \in Int /\ PlanEntry \in Nat \ {0}
  BY StopInputsAssumption, PlanAssumption
<1>2. \A long, stop : StopIsValid(long, stop) => stop > 0
  BY DEF StopIsValid
<1>3. TechnicalFits(p) => Beyond(p.long, p.level, p.buffer) > 0
  <2>1. PICK y \in Int : y = x
    <3>1. (IF p.long THEN 1000 - p.buffer ELSE 1000 + p.buffer) \in Int
      BY <1>1
    <3>2. x \in Int
      BY <1>1, <3>1
    <3>3. QED
      BY <3>2
  <2>2. TechnicalFits(p) => Distance(1000 * PlanEntry, y) <= 70 * PlanEntry
    BY <2>1 DEF TechnicalFits
  <2>3. TechnicalFits(p) => y >= 930 * PlanEntry
    BY <1>1, <2>2 DEF Distance
  <2>4. y >= 930 * PlanEntry => RoundToTick(y, 1000) > 0
    BY <1>1, Rounded
  <2>5. Beyond(p.long, p.level, p.buffer) = RoundToTick(y, 1000)
    BY <2>1 DEF Beyond
  <2>6. QED
    BY <2>3, <2>4, <2>5
<1>4. found.valid \in BOOLEAN /\ (found.valid => found.price > 0)
  <2>1. \A long, stop : StopIsValid(long, stop) \in BOOLEAN
    BY DEF StopIsValid
  <2>2. QED
    BY <1>2, <1>3, <2>1 DEF StopMethod
<1>5. found.price \in Int
  BY StopIsWhole
<1>6. found.valid => FloorAware(p, found.price) > 0
  <2> HIDE DEF found
  <2>1. PICK floor \in Int : floor = RoundToTick(p.reference * 930, 1000)
    BY <1>1, Rounded
  <2>2. FloorAware(p, found.price) = IF p.reference > 0 /\ found.price < floor THEN floor
                                     ELSE found.price
    BY <2>1 DEF FloorAware
  <2>3. QED
    BY <1>4, <1>5, <2>1, <2>2
<1>7. QED
  BY <1>4, <1>6

LEMMA TrailingWhole ==
  ASSUME NEW x \in TrailInputs
  PROVE  RoundToNearest100(TrailingStop(x), 1000) \in Nat
<1>1. x.raw \in Int /\ x.current \in Int /\ PlanEntry \in Nat \ {0}
  BY TargetInputsAssumption, PlanAssumption
<1>2. TrailingStop(x) \in Int /\ TrailingStop(x) >= 1000 * PlanEntry
  BY <1>1 DEF TrailingStop
<1>3. PICK n \in Nat : n = TrailingStop(x)
  BY <1>1, <1>2
<1>4. RoundToNearest100(n, 1000) \in Nat
  BY DEF RoundToNearest100, Nearest
<1>5. QED
  BY <1>3, <1>4

LEMMA PlanTypesStep ==
  ASSUME PlanTypeOK, [PlanNext]_planVars
  PROVE  PlanTypeOK'
<1> USE DEF PlanTypeOK
<1>1. ASSUME NEW p \in StopInputs, CalculateStop(p)
      PROVE  PlanTypeOK'
  <2> DEFINE found == StopMethod(p)
             price == FloorAware(p, found.price)
  <2>1. found.valid \in BOOLEAN /\ price \in Int /\ (found.valid => price > 0)
    BY StopIsWhole, ValidStop
  <2>2. stopAt' = IF found.price = 0 THEN NoStop
                  ELSE [price |-> price, valid |-> found.valid, alerts |-> PreemptiveAlerts(price)]
    BY <1>1 DEF CalculateStop
  <2> HIDE DEF found, price
  <2>3. stopAt'.price \in Int /\ stopAt'.valid \in BOOLEAN /\ (stopAt'.valid => stopAt'.price > 0)
    <3>1. CASE found.price = 0
      BY <2>2, <3>1 DEF NoStop
    <3>2. CASE found.price # 0
      <4>1. stopAt'.price = price /\ stopAt'.valid = found.valid
        BY <2>2, <3>2
      <4>2. QED
        BY <2>1, <4>1
    <3>3. QED
      BY <3>1, <3>2
  <2>4. stage' = "size" /\ UNCHANGED <<isLong, positionLots, strategy, trailing>>
    BY <1>1 DEF CalculateStop
  <2>5. QED
    BY <2>3, <2>4
<1>2. ASSUME NEW s \in SizeInputs, SizePosition(s)
      PROVE  PlanTypeOK'
  <2>1. Calculate(s) \in Nat
    BY SizeWithinBudget
  <2>2. QED
    BY <1>2, <2>1 DEF SizePosition
<1>3. ASSUME NEW t \in TargetInputs, PlanTargets(t)
      PROVE  PlanTypeOK'
  <2> DEFINE parts == TargetStrategy(MethodTargets(t))
  <2>1. IsFiniteSet(MethodTargets(t)) /\ \A x \in MethodTargets(t) : x[3] \in Int
    BY TargetsFinite
  <2>2. \A i \in DOMAIN parts : parts[i] \in Parts
    BY <2>1, StrategyParts
  <2>3. /\ strategy' = parts /\ stage' = "trail"
        /\ UNCHANGED <<isLong, stopAt, positionLots, trailing>>
    BY <1>3 DEF PlanTargets
  <2> HIDE DEF parts
  <2>4. \A i \in DOMAIN strategy' : strategy'[i].price \in Int /\ strategy'[i].sell \in 1..100
    BY <2>2, <2>3 DEF Parts
  <2>5. QED
    BY <2>3, <2>4
<1>4. ASSUME NEW x \in TrailInputs, Trail(x)
      PROVE  PlanTypeOK'
  <2>1. trailing'.stop \in Nat /\ trailing'.exit \in BOOLEAN
    BY <1>4, TrailingWhole DEF Trail
  <2>2. QED
    BY <1>4, <2>1 DEF Trail
<1>5. CASE UNCHANGED planVars
  BY <1>5 DEF planVars
<1>6. QED
  BY <1>1, <1>2, <1>3, <1>4, <1>5 DEF PlanNext

(* Whatever the methods find, the plan is well formed: only a stop above   *)
(* zero is called valid, the floor of the day included, every target of    *)
(* the strategy sells between 1 and 100% of the position, and a trailing   *)
(* stop is never negative (CalculateStopDetailed, generateTargetStrategy,  *)
(* CalculateTrailingStop).                                                 *)
THEOREM PlanTypeCorrect == PlanSpec => []PlanTypeOK
<1>1. PlanInit => PlanTypeOK
  BY DEF PlanInit, PlanTypeOK, NoStop, NoTrail
<1>2. PlanTypeOK /\ [PlanNext]_planVars => PlanTypeOK'
  BY PlanTypesStep
<1>3. QED
  BY <1>1, <1>2, PTL DEF PlanSpec

-----------------------------------------------------------------------------
(***************************************************************************)
(* TradeScore: any setups.                                                 *)
(***************************************************************************)

(* More facts that hold give no fewer points, and no more than there are.  *)
LEMMA PointsGrow ==
  ASSUME NEW n \in Nat, NEW f, NEW g, DOMAIN f = 1 .. n, DOMAIN g = 1 .. n,
         \A i \in 1 .. n : f[i] => g[i]
  PROVE  Points(f) \in Nat /\ Points(f) <= Points(g) /\ Points(f) <= n
<1> DEFINE F == {i \in DOMAIN f : f[i]}
           G == {i \in DOMAIN g : g[i]}
<1>1. IsFiniteSet(1 .. n) /\ Cardinality(1 .. n) = n
  BY FS_Interval
<1>2. G \in SUBSET (1 .. n) /\ F \in SUBSET G /\ F \in SUBSET (1 .. n)
  OBVIOUS
<1>3. Points(f) = Cardinality(F) /\ Points(g) = Cardinality(G)
  BY DEF Points
<1> HIDE DEF F, G
<1>4. IsFiniteSet(G)
  BY <1>1, <1>2, FS_Subset
<1>5. IsFiniteSet(F) /\ Cardinality(F) <= n
  BY <1>1, <1>2, FS_Subset
<1>6. Cardinality(F) <= Cardinality(G)
  BY <1>2, <1>4, FS_Subset
<1>7. QED
  BY <1>3, <1>5, <1>6, FS_CardinalityType

LEMMA TwoPoints ==
  ASSUME NEW a, NEW b, NEW c, NEW d, a => c, b => d
  PROVE  /\ Points(<<a, b>>) \in Nat /\ Points(<<a, b>>) <= Points(<<c, d>>)
         /\ Points(<<a, b>>) <= 2
<1>1. DOMAIN <<a, b>> = 1 .. 2 /\ DOMAIN <<c, d>> = 1 .. 2
  OBVIOUS
<1>2. \A i \in 1 .. 2 : <<a, b>>[i] => <<c, d>>[i]
  OBVIOUS
<1>3. QED
  BY <1>1, <1>2, PointsGrow

LEMMA ThreePoints ==
  ASSUME NEW a, NEW b, NEW c, NEW d, NEW e, NEW f, a => d, b => e, c => f
  PROVE  /\ Points(<<a, b, c>>) \in Nat /\ Points(<<a, b, c>>) <= Points(<<d, e, f>>)
         /\ Points(<<a, b, c>>) <= 3
<1>1. DOMAIN <<a, b, c>> = 1 .. 3 /\ DOMAIN <<d, e, f>> = 1 .. 3
  OBVIOUS
<1>2. \A i \in 1 .. 3 : <<a, b, c>>[i] => <<d, e, f>>[i]
  OBVIOUS
<1>3. QED
  BY <1>1, <1>2, PointsGrow

-----------------------------------------------------------------------------
(* What an improved setup keeps, and what it gains.                        *)
AtLeast(t, s) ==
  /\ t.volume = s.volume /\ t.turnover = s.turnover /\ t.zeroDays = s.zeroDays
  /\ (s.aboveEMA20 => t.aboveEMA20) /\ (s.aboveEMA50 => t.aboveEMA50)
  /\ (s.aboveSMA200 => t.aboveSMA200) /\ t.structure = s.structure
  /\ t.support = s.support /\ t.supportAway = s.supportAway
  /\ t.consolidation = s.consolidation /\ t.volumes = s.volumes
  /\ t.rsi = s.rsi /\ t.macd = s.macd
  /\ t.aboveSignal = s.aboveSignal /\ t.histogramGrows = s.histogramGrows
  /\ t.entry = s.entry /\ t.target = s.target /\ t.atr = s.atr
  /\ t.stop = s.stop \/ t.stop = s.entry - 1
  /\ (s.indexAboveMA50 => t.indexAboveMA50) /\ t.sectorRS = s.sectorRS
  /\ t.news = s.news \/ t.news = "positive"

LEMMA Improves ==
  ASSUME setup \in Setups
  PROVE  /\ \A t \in Improved : t \in SetupRecord /\ AtLeast(t, setup)
         /\ AtLeast(setup, setup) /\ setup \in SetupRecord
<1>1. setup \in SetupRecord
  BY SetupsAssumption
<1>2. \A f \in {"aboveEMA20", "aboveEMA50", "aboveSMA200", "indexAboveMA50"} :
        [setup EXCEPT ![f] = TRUE] \in SetupRecord
        /\ AtLeast([setup EXCEPT ![f] = TRUE], setup)
  BY <1>1 DEF SetupRecord, AtLeast
<1>3. [setup EXCEPT !.news = "positive"] \in SetupRecord
      /\ AtLeast([setup EXCEPT !.news = "positive"], setup)
  <2>1. [setup EXCEPT !.news = "positive"] \in SetupRecord
    BY <1>1 DEF SetupRecord
  <2>2. [setup EXCEPT !.news = "positive"].news = "positive"
    BY <1>1 DEF SetupRecord
  <2>3. AtLeast([setup EXCEPT !.news = "positive"], setup)
    BY <1>1, <2>2 DEF SetupRecord, AtLeast
  <2>4. QED
    BY <2>1, <2>3
<1>4. [setup EXCEPT !.stop = setup.entry - 1] \in SetupRecord
      /\ AtLeast([setup EXCEPT !.stop = setup.entry - 1], setup)
  <2> DEFINE near == setup.entry - 1
  <2>1. near \in Int
    <3>1. setup.entry \in Int
      BY <1>1 DEF SetupRecord
    <3>2. QED
      BY <3>1
  <2>2. [setup EXCEPT !.stop = near].stop = near
    BY <1>1 DEF SetupRecord
  <2>3. AtLeast([setup EXCEPT !.stop = near], setup)
    BY <1>1, <2>2 DEF SetupRecord, AtLeast
  <2> HIDE DEF near
  <2>4. [setup EXCEPT !.stop = near] \in SetupRecord
    BY <1>1, <2>1 DEF SetupRecord
  <2>5. QED
    BY <2>3, <2>4 DEF near
<1>5. AtLeast(setup, setup)
  BY DEF AtLeast
<1>6. QED
  BY <1>1, <1>2, <1>3, <1>4, <1>5 DEF Improved

-----------------------------------------------------------------------------
(* No component takes back what a setup gains.                             *)
LEMMA TrendGrows ==
  ASSUME NEW s \in SetupRecord, NEW t \in SetupRecord, AtLeast(t, s)
  PROVE  /\ ScoreTrendAlignment(s) \in Nat /\ ScoreTrendAlignment(s) <= 3
         /\ ScoreTrendAlignment(s) <= ScoreTrendAlignment(t)
<1>1. /\ (s.aboveEMA20 => t.aboveEMA20) /\ (s.aboveEMA50 => t.aboveEMA50)
      /\ s.aboveSMA200 /\ s.structure = "higher_highs_lows"
           => t.aboveSMA200 /\ t.structure = "higher_highs_lows"
  BY DEF AtLeast
<1>2. QED
  BY <1>1, ThreePoints DEF ScoreTrendAlignment

LEMMA SetupKept ==
  ASSUME NEW s \in SetupRecord, NEW t \in SetupRecord, AtLeast(t, s)
  PROVE  /\ ScoreSetupQuality(s) \in Nat /\ ScoreSetupQuality(s) <= 3
         /\ ScoreSetupQuality(s) <= ScoreSetupQuality(t)
<1>1. /\ t.support = s.support /\ t.supportAway = s.supportAway
      /\ t.consolidation = s.consolidation /\ t.volumes = s.volumes
  BY DEF AtLeast
<1>2. QED
  BY <1>1, ThreePoints DEF ScoreSetupQuality

LEMMA MomentumKept ==
  ASSUME NEW s \in SetupRecord, NEW t \in SetupRecord, AtLeast(t, s)
  PROVE  /\ ScoreMomentum(s, "up") \in Nat /\ ScoreMomentum(s, "up") <= 2
         /\ ScoreMomentum(s, "up") <= ScoreMomentum(t, "up")
<1>1. /\ t.rsi = s.rsi /\ t.macd = s.macd
      /\ t.aboveSignal = s.aboveSignal /\ t.histogramGrows = s.histogramGrows
  BY DEF AtLeast
<1>2. QED
  BY <1>1, TwoPoints DEF ScoreMomentum

(* A stop one unit below the entry is near enough, and the reward it asks  *)
(* for is the least there is.                                              *)
LEMMA RiskRewardGrows ==
  ASSUME NEW s \in SetupRecord, NEW t \in SetupRecord, AtLeast(t, s), 70 * s.entry >= 1000
  PROVE  /\ ScoreRiskReward(s) \in Nat /\ ScoreRiskReward(s) <= 2
         /\ ScoreRiskReward(s) <= ScoreRiskReward(t)
<1> DEFINE risk(x) == Spread(x.entry, x.stop)
           reward(x) == Spread(x.target, x.entry)
           pays(x) == risk(x) > 0 /\ reward(x) >= 2 * risk(x)
           near(x) == \/ risk(x) * 1000 <= 70 * x.entry
                      \/ x.atr > 0 /\ risk(x) <= 2 * x.atr
<1>1. /\ t.entry = s.entry /\ t.target = s.target /\ t.atr = s.atr
      /\ t.stop = s.stop \/ t.stop = s.entry - 1
      /\ s.entry \in Int /\ s.stop \in Int /\ s.target \in Int /\ s.atr \in Int
  BY DEF AtLeast, SetupRecord
<1>2. /\ risk(s) \in Nat /\ reward(s) \in Nat /\ reward(t) = reward(s)
      /\ risk(t) = risk(s) \/ risk(t) = 1
  BY <1>1 DEF Spread
<1>3. ScoreRiskReward(s) = Points(<<pays(s), near(s)>>)
      /\ ScoreRiskReward(t) = Points(<<pays(t), near(t)>>)
  BY DEF ScoreRiskReward
<1> HIDE DEF risk, reward
<1>4. pays(s) => pays(t)
  BY <1>2
<1>5. near(s) => near(t)
  BY <1>1, <1>2
<1> HIDE DEF pays, near
<1>6. QED
  BY <1>3, <1>4, <1>5, TwoPoints

LEMMA ContextGrows ==
  ASSUME NEW s \in SetupRecord, NEW t \in SetupRecord, AtLeast(t, s)
  PROVE  /\ ScoreContext(s) \in Int /\ ScoreContext(s) <= 3
         /\ ScoreContext(s) <= ScoreContext(t)
<1> DEFINE strong(x) == x.sectorRS > 1050
           p(x) == Points(<<x.indexAboveMA50, strong(x)>>)
<1>1. /\ s.indexAboveMA50 => t.indexAboveMA50
      /\ strong(s) => strong(t)
      /\ t.news = s.news \/ t.news = "positive"
  BY DEF AtLeast
<1> HIDE DEF strong
<1>2. p(s) \in Nat /\ p(s) <= p(t) /\ p(s) <= 2
  BY <1>1, TwoPoints
<1>3. p(t) \in Nat
  BY TwoPoints
<1>4. /\ NewsPoints(s.news) \in -2 .. 1 /\ NewsPoints(t.news) \in -2 .. 1
      /\ NewsPoints(s.news) <= NewsPoints(t.news)
  BY <1>1 DEF NewsPoints
<1>5. ScoreContext(s) = p(s) + NewsPoints(s.news) /\ ScoreContext(t) = p(t) + NewsPoints(t.news)
  BY DEF ScoreContext, strong
<1> HIDE DEF p
<1>6. QED
  BY <1>2, <1>3, <1>4, <1>5

(* The risk grows with the score, up to the best score there is.           *)
LEMMA TableGrows ==
  ASSUME NEW m \in Nat, NEW n \in Nat, m <= n, n <= 13
  PROVE  /\ (IF m >= 7 THEN GetRiskPercent(m) ELSE 0) <= (IF n >= 7 THEN GetRiskPercent(n) ELSE 0)
         /\ (IF n >= 7 THEN GetRiskPercent(n) ELSE 0) \in {0, 100, 150, 200}
BY DEF GetRiskPercent

LEMMA VerdictGrows ==
  ASSUME NEW s \in SetupRecord, NEW t \in SetupRecord, AtLeast(t, s), AtLeast(s, s),
         AtLeast(t, t), 70 * s.entry >= 1000
  PROVE  /\ Verdict(s).total \in 0 .. 13 /\ Verdict(s).trade \in BOOLEAN
         /\ Verdict(s).risk \in {0, 100, 150, 200}
         /\ Verdict(s).risk <= Verdict(t).risk
<1> DEFINE sum(x) == Components(x).trend + Components(x).setup + Components(x).momentum
                       + Components(x).riskReward + Components(x).context
           total(x) == IF sum(x) < 0 THEN 0 ELSE sum(x)
<1>1. CheckLiquidity(t) = CheckLiquidity(s)
  BY DEF AtLeast, CheckLiquidity, LiquidityIssues
<1>2. CASE CheckLiquidity(s) # {}
  BY <1>1, <1>2 DEF Verdict, NoVerdict
<1>3. CASE CheckLiquidity(s) = {}
  <2>1. \A x : sum(x) = ScoreTrendAlignment(x) + ScoreSetupQuality(x) + ScoreMomentum(x, "up")
                          + ScoreRiskReward(x) + ScoreContext(x)
    BY DEF Components
  <2>2. 70 * t.entry >= 1000
    BY DEF AtLeast
  <2>3. sum(s) \in Int /\ sum(s) <= 13 /\ sum(t) \in Int /\ sum(t) <= 13 /\ sum(s) <= sum(t)
    BY <2>1, <2>2, TrendGrows, SetupKept, MomentumKept, RiskRewardGrows, ContextGrows
  <2>4. \A x : CheckLiquidity(x) = {} =>
          /\ Verdict(x).total = total(x) /\ Verdict(x).trade = (total(x) >= 7)
          /\ Verdict(x).risk = IF total(x) >= 7 THEN GetRiskPercent(total(x)) ELSE 0
    BY DEF Verdict
  <2> HIDE DEF sum
  <2>5. total(s) \in Nat /\ total(t) \in Nat /\ total(s) <= total(t) /\ total(t) <= 13
    BY <2>3
  <2>6. /\ Verdict(s).total = total(s) /\ Verdict(s).trade = (total(s) >= 7)
        /\ Verdict(s).risk = IF total(s) >= 7 THEN GetRiskPercent(total(s)) ELSE 0
        /\ Verdict(t).risk = IF total(t) >= 7 THEN GetRiskPercent(total(t)) ELSE 0
    BY <1>1, <1>3, <2>4
  <2> HIDE DEF total
  <2>7. total(s) <= 13 /\ total(s) \in 0 .. 13
    BY <2>5
  <2>8. (IF total(s) >= 7 THEN GetRiskPercent(total(s)) ELSE 0) \in {0, 100, 150, 200}
    BY <2>5, <2>7, TableGrows
  <2>9. QED
    BY <2>5, <2>6, <2>7, <2>8, TableGrows
<1>4. QED
  BY <1>2, <1>3

-----------------------------------------------------------------------------
(* The inductive invariant: the verdict is that of the setup.              *)
ScoreInv ==
  /\ setup \in Setups \cup {NoSetup}
  /\ setup # NoSetup => verdict = Verdict(setup)
  /\ setup = NoSetup => verdict = NoVerdict

LEMMA ScoreInvariant == ScoreSpec => []ScoreInv
<1>1. ScoreInit => ScoreInv
  BY DEF ScoreInit, ScoreInv
<1>2. ScoreInv /\ [ScoreNext]_scoreVars => ScoreInv'
  <2> SUFFICES ASSUME ScoreInv, [ScoreNext]_scoreVars PROVE ScoreInv'
    OBVIOUS
  <2>1. ASSUME NEW s \in Setups, Score(s)
        PROVE  ScoreInv'
    <3>1. s # NoSetup
      <4>1. s \in SetupRecord
        BY SetupsAssumption
      <4>2. DOMAIN NoSetup = {"volume"}
        BY DEF NoSetup
      <4>3. "entry" \in DOMAIN s
        BY <4>1 DEF SetupRecord
      <4>4. QED
        BY <4>2, <4>3
    <3>2. QED
      BY <2>1, <3>1 DEF Score, ScoreInv
  <2>2. CASE UNCHANGED scoreVars
    BY <2>2 DEF scoreVars, ScoreInv
  <2>3. QED
    BY <2>1, <2>2 DEF ScoreNext
<1>3. QED
  BY <1>1, <1>2, PTL DEF ScoreSpec

(* For any setup, a better trend or market, better news or a closer stop   *)
(* is never risked less: each of the five components and the table of      *)
(* scorer.go:16-24 grow, and no sum leaves the table for its default.      *)
THEOREM BetterNeverLess == ScoreSpec => []BetterRisksNoLess
<1>1. ScoreInv => BetterRisksNoLess
  <2> SUFFICES ASSUME ScoreInv, setup # NoSetup, NEW t \in Improved
               PROVE  Verdict(t).risk >= verdict.risk
    BY DEF BetterRisksNoLess
  <2>1. setup \in Setups /\ verdict = Verdict(setup) /\ 70 * setup.entry >= 1000
    BY SetupsAssumption DEF ScoreInv
  <2>2. /\ t \in SetupRecord /\ setup \in SetupRecord
        /\ AtLeast(t, setup) /\ AtLeast(setup, setup) /\ AtLeast(t, t)
    BY <2>1, Improves DEF AtLeast
  <2>3. /\ Verdict(setup).risk <= Verdict(t).risk /\ Verdict(setup).risk \in {0, 100, 150, 200}
    BY <2>1, <2>2, VerdictGrows
  <2>4. 70 * t.entry >= 1000
    BY <2>1, <2>2 DEF AtLeast
  <2>5. Verdict(t).risk \in {0, 100, 150, 200}
    BY <2>2, <2>4, VerdictGrows
  <2>6. QED
    BY <2>1, <2>3, <2>5
<1>2. QED
  BY <1>1, ScoreInvariant, PTL

(* The score of any setup is between 0 and 13, and the risk one of the     *)
(* table's.                                                                *)
THEOREM ScoreTypeCorrect == ScoreSpec => []ScoreTypeOK
<1>1. ScoreInv => ScoreTypeOK
  <2> SUFFICES ASSUME ScoreInv PROVE ScoreTypeOK
    OBVIOUS
  <2>1. CASE setup = NoSetup
    <3>1. verdict.total = 0 /\ verdict.trade = FALSE /\ verdict.risk = 0
      BY <2>1 DEF ScoreInv, NoVerdict
    <3>2. verdict.total \in 0 .. 13 /\ verdict.risk \in {0, 100, 150, 200}
      BY <3>1
    <3>3. verdict.trade \in BOOLEAN
      BY <3>1
    <3>4. QED
      BY <2>1, <3>2, <3>3 DEF ScoreTypeOK
  <2>2. CASE setup # NoSetup
    <3>1. setup \in Setups /\ verdict = Verdict(setup) /\ 70 * setup.entry >= 1000
      BY <2>2, SetupsAssumption DEF ScoreInv
    <3>2. setup \in SetupRecord /\ AtLeast(setup, setup)
      BY <3>1, Improves
    <3>3. QED
      BY <3>1, <3>2, VerdictGrows DEF ScoreTypeOK
  <2>3. QED
    BY <2>1, <2>2
<1>2. QED
  BY <1>1, ScoreInvariant, PTL

-----------------------------------------------------------------------------
(***************************************************************************)
(* Backtest: any bars, orders, slippage, commission and days.  The books   *)
(* are sums over sets that grow and shrink.                                *)
(***************************************************************************)
-----------------------------------------------------------------------------
(* The inductive invariant.                                                *)
OpenPosition == [entry : Int, shares : Int, cost : Int, stop : Int, targets : Seq(Int)]
BacktestTypes ==
  /\ backday \in 0..(BacktestDays + 1)
  /\ daybar \in [open : Int, high : Int, low : Int, close : Int] /\ reference \in Int
  /\ IsFiniteSet(DOMAIN open) /\ open \in [DOMAIN open -> OpenPosition]
  /\ trades \in Seq(Int) /\ cash \in Int /\ unreported \in Int
  /\ pending \in [1..BacktestDays -> Int]

BacktestInv == BacktestTypes /\ CapitalAccounted

(* What CapitalAccounted sums up.                                          *)
Costs(held) == SumFunction([s \in DOMAIN held |-> held[s].cost])

(* A position's proceeds are its profit and what it was bought for.        *)
LEMMA Distributes ==
  ASSUME NEW price \in Int, NEW entry \in Int, NEW n \in Int
  PROVE  /\ (price - entry) * n \in Int /\ price * n \in Int /\ entry * n \in Int
         /\ price * n = (price - entry) * n + entry * n
OBVIOUS

LEMMA Concatenated ==
  ASSUME NEW a \in Seq(Int), NEW b \in Seq(Int)
  PROVE  /\ a \o b \in Seq(Int) /\ Len(a \o b) = Len(a) + Len(b)
         /\ \A i \in 1..(Len(a) + Len(b)) : (a \o b)[i] \in Int
OBVIOUS

GainsOf(gained, closed, profit) == gained = [i \in DOMAIN closed |-> profit[closed[i]]]
AddsUp(before, gained, profit, S) ==
  /\ before \o gained \in Seq(Int) /\ IsFiniteSet(S)
  /\ SumFunction(before \o gained) = SumFunction(before) + SumFunctionOnSet(profit, S)

(* The profits of the positions that are closed are added to the trades.   *)
LEMMA TradesAdded ==
  ASSUME NEW before \in Seq(Int), NEW S, NEW profit \in [S -> Int],
         NEW closed \in Seq(S), \A i, j \in DOMAIN closed : closed[i] = closed[j] => i = j,
         NEW gained, GainsOf(gained, closed, profit)
  PROVE  AddsUp(before, gained, profit, Range(closed))
<1> USE DEF GainsOf, AddsUp
<1> DEFINE gains == [i \in DOMAIN closed |-> profit[closed[i]]]
           n == Len(before)
           m == Len(closed)
           after == before \o gains
           shift == [i \in 1..m |-> n + i]
<1>1. n \in Nat /\ m \in Nat /\ DOMAIN before = 1..n /\ DOMAIN closed = 1..m
  OBVIOUS
<1>2. gains \in Seq(Int) /\ Len(gains) = m /\ DOMAIN gains = 1..m
  <2>1. \A i \in 1..m : profit[closed[i]] \in Int
    OBVIOUS
  <2>2. gains \in [1..m -> Int]
    BY <1>1, <2>1
  <2>3. QED
    BY <1>1, <2>2
<1> HIDE DEF gains
<1>3. /\ after \in Seq(Int) /\ DOMAIN after = 1..(n + m) /\ Len(after) = n + m
      /\ \A i \in 1..n : after[i] = before[i]
      /\ \A i \in 1..m : after[n + i] = gains[i]
  <2>1. after \in Seq(Int) /\ Len(after) = n + m
    BY <1>2, Concatenated
  <2>2. \A i \in 1..n : after[i] = before[i]
    BY <1>2
  <2>3. ASSUME NEW i \in 1..m PROVE after[n + i] = gains[i]
    <3>1. n + i \in 1..(n + m) /\ n + i > n /\ (n + i) - n = i
      BY <1>1
    <3>2. QED
      BY <1>1, <1>2, <3>1
  <2>4. QED
    BY <2>1, <2>2, <2>3
<1> HIDE DEF after, n, m
<1>4. IsFiniteSet(1..n) /\ IsFiniteSet(1..m) /\ IsFiniteSet(1..(n + m))
  <2>1. n \in Int /\ m \in Int /\ n + m \in Int
    BY <1>1
  <2>2. QED
    BY <2>1, FS_Interval
<1>5. \A i \in 1..(n + m) : after[i] \in Int
  BY <1>3, Concatenated
<1>6. \A i \in 1..m : gains[i] \in Int
  BY <1>2
<1> DEFINE late == {shift[i] : i \in 1..m}
<1>7. /\ 1..(n + m) = (1..n) \cup late /\ (1..n) \cap late = {}
      /\ \A i, j \in 1..m : shift[i] = shift[j] => i = j
  <2>1. ASSUME NEW x \in 1..(n + m), x \notin 1..n PROVE x \in late
    <3>1. x - n \in 1..m /\ shift[x - n] = x
      BY <1>1, <2>1
    <3>2. QED
      BY <3>1
  <2>2. \A i \in 1..m : shift[i] \in 1..(n + m) /\ shift[i] \notin 1..n
    BY <1>1
  <2>3. \A i, j \in 1..m : shift[i] = shift[j] => i = j
    BY <1>1
  <2> HIDE DEF shift
  <2>4. \A x \in late : x \in 1..(n + m) /\ x \notin 1..n
    BY <2>2
  <2>5. \A x \in 1..n : x \in 1..(n + m)
    BY <1>1
  <2> HIDE DEF late
  <2>6. QED
    BY <2>1, <2>3, <2>4, <2>5
<1>8. SumFunctionOnSet(after, late) = SumFunctionOnSet(gains, 1..m)
  <2>1. \A i \in 1..m : after[shift[i]] = gains[i]
    BY <1>3
  <2>2. late = {shift[i] : i \in 1..m}
    OBVIOUS
  <2> HIDE DEF shift, late
  <2>3. QED
    <3>1. Names(shift, 1..m, late)
      BY <1>7, <2>2 DEF Names
    <3>2. QED
      <4>1. \A j \in 1..m : gains[j] \in Int /\ after[shift[j]] = gains[j]
        BY <1>6, <2>1
      <4> DEFINE J == 1..m
      <4>2. IsFiniteSet(J) /\ Names(shift, J, late)
            /\ \A j \in J : gains[j] \in Int /\ after[shift[j]] = gains[j]
        BY <1>4, <3>1, <4>1
      <4> HIDE DEF J
      <4>3. SumFunctionOnSet(after, late) = SumFunctionOnSet(gains, J)
        BY <4>2, SumRenamed
      <4>4. QED
        BY <4>3 DEF J
<1>9. SumFunctionOnSet(after, 1..n) = SumFunctionOnSet(before, 1..n)
  <2>1. \A i \in 1..n : before[i] \in Int /\ after[i] = before[i]
    BY <1>1, <1>3
  <2>2. QED
    BY <1>4, <2>1, SumEqual
<1>10. SumFunctionOnSet(after, 1..(n + m))
         = SumFunctionOnSet(after, 1..n) + SumFunctionOnSet(after, late)
  <2>1. IsFiniteSet(late)
    <3> HIDE DEF late
    <3>1. QED
      BY <1>4, <1>7, FS_Subset
  <2> HIDE DEF late
  <2>2. \A i \in (1..n) \cup late : after[i] \in Int
    BY <1>5, <1>7
  <2>3. SumFunctionOnSet(after, (1..n) \cup late)
          = SumFunctionOnSet(after, 1..n) + SumFunctionOnSet(after, late)
    BY <1>4, <1>7, <2>1, <2>2, SumUnion
  <2>4. QED
    BY <1>7, <2>3
<1>11. /\ SumFunctionOnSet(profit, Range(closed)) = SumFunctionOnSet(gains, 1..m)
       /\ IsFiniteSet(Range(closed))
  <2>1. Range(closed) = {closed[j] : j \in 1..m}
    BY <1>1 DEF Range
  <2>2. \A j \in 1..m : gains[j] \in Int /\ profit[closed[j]] = gains[j]
    BY <1>1, <1>6 DEF gains
  <2> DEFINE S1 == Range(closed)
  <2>3. SumFunctionOnSet(profit, S1) = SumFunctionOnSet(gains, 1..m)
    <3> HIDE DEF S1
    <3>1. S1 = {closed[j] : j \in 1..m}
      BY <2>1 DEF S1
    <3>2. QED
      <4>1. Names(closed, 1..m, S1)
        BY <1>1, <3>1 DEF Names
      <4> DEFINE J == 1..m
      <4>2. PICK f, c : f = profit /\ c = closed
        OBVIOUS
      <4>3. IsFiniteSet(J) /\ Names(c, J, S1)
            /\ \A j \in J : gains[j] \in Int /\ f[c[j]] = gains[j]
        BY <1>4, <2>2, <4>1, <4>2
      <4> HIDE DEF J
      <4>4. SumFunctionOnSet(f, S1) = SumFunctionOnSet(gains, J)
        BY <4>3, SumRenamed
      <4>5. QED
        BY <4>2, <4>4 DEF J
  <2>4. IsFiniteSet(Range(closed))
    <3>1. closed \in Surjection(1..m, Range(closed))
      BY <1>1, <2>1 DEF Surjection
    <3>2. QED
      BY <1>4, <3>1, FS_Surjection
  <2>5. QED
    BY <2>1, <2>3, <2>4
<1>12. SumFunction(after) = SumFunctionOnSet(after, 1..(n + m))
       /\ SumFunction(before) = SumFunctionOnSet(before, 1..n)
  BY <1>1, <1>3 DEF SumFunction
<1>13. QED
  BY <1>3, <1>8, <1>9, <1>10, <1>11, <1>12 DEF gains, after

LEMMA CostsInt ==
  ASSUME NEW held, IsFiniteSet(DOMAIN held), held \in [DOMAIN held -> OpenPosition]
  PROVE  LET cost == [s \in DOMAIN held |-> held[s].cost]
         IN  /\ cost \in [DOMAIN held -> Int] /\ Costs(held) \in Int
             /\ Costs(held) = SumFunctionOnSet(cost, DOMAIN held)
<1> DEFINE cost == [s \in DOMAIN held |-> held[s].cost]
<1>1. \A s \in DOMAIN held : held[s].cost \in Int
  BY DEF OpenPosition
<1>2. cost \in [DOMAIN held -> Int]
  BY <1>1
<1>3. Costs(held) = SumFunction(cost)
  BY DEF Costs
<1> HIDE DEF cost
<1>4. QED
  BY <1>2, <1>3, SumOfMap DEF cost

Left(held, S) == [s \in DOMAIN held \ S |-> held[s]]
Profits(held, S, price) == [s \in S |-> PnL(held[s], price)]
TotalOf(held, S, price) == SumFunction([s \in S |-> Proceeds(held[s], price)])
FeesOf(held, S) ==
  SumFunction([s \in S |-> held[s].cost - held[s].entry * held[s].shares])

Balanced(held, S, price) ==
  Costs(held) = Costs(Left(held, S)) + FeesOf(held, S) + TotalOf(held, S, price)
                  - SumFunctionOnSet(Profits(held, S, price), S)

(* The positions that are closed cost what their fees and their purchase   *)
(* came to, and bring the purchase back with the profit.                   *)
LEMMA ClosedCosts ==
  ASSUME NEW held, IsFiniteSet(DOMAIN held), held \in [DOMAIN held -> OpenPosition],
         NEW S \in SUBSET (DOMAIN held), NEW price \in Int
  PROVE  /\ IsFiniteSet(DOMAIN held \ S) /\ Left(held, S) \in [DOMAIN held \ S -> OpenPosition]
         /\ Profits(held, S, price) \in [S -> Int]
         /\ TotalOf(held, S, price) \in Int /\ FeesOf(held, S) \in Int
         /\ SumFunctionOnSet(Profits(held, S, price), S) \in Int
         /\ Costs(Left(held, S)) \in Int
         /\ Balanced(held, S, price)
<1> DEFINE D == DOMAIN held
           left == [s \in D \ S |-> held[s]]
           profit == [s \in S |-> PnL(held[s], price)]
           proceeds == [s \in S |-> Proceeds(held[s], price)]
           fee == [s \in S |-> held[s].cost - held[s].entry * held[s].shares]
           basis == [s \in S |-> held[s].entry * held[s].shares]
           cost == [s \in D |-> held[s].cost]
           leftCost == [s \in DOMAIN left |-> left[s].cost]
<1>1. IsFiniteSet(S) /\ IsFiniteSet(D \ S)
  BY FS_Subset
<1>2. ASSUME NEW s \in S
      PROVE  /\ profit[s] \in Int /\ proceeds[s] \in Int /\ fee[s] \in Int /\ basis[s] \in Int
             /\ proceeds[s] = profit[s] + basis[s] /\ cost[s] = fee[s] + basis[s]
  <2>1. held[s].entry \in Int /\ held[s].shares \in Int /\ held[s].cost \in Int
    BY DEF OpenPosition
  <2>2. /\ profit[s] = (price - held[s].entry) * held[s].shares
        /\ proceeds[s] = price * held[s].shares
        /\ basis[s] = held[s].entry * held[s].shares
        /\ fee[s] = held[s].cost - held[s].entry * held[s].shares /\ cost[s] = held[s].cost
    BY DEF PnL, Proceeds
  <2>3. PICK e, n, c \in Int : e = held[s].entry /\ n = held[s].shares /\ c = held[s].cost
    BY <2>1
  <2>4. /\ profit[s] = (price - e) * n /\ proceeds[s] = price * n /\ basis[s] = e * n
        /\ fee[s] = c - e * n /\ cost[s] = c
    BY <2>2, <2>3
  <2> HIDE DEF profit, proceeds, basis, fee, cost
  <2>5. (price - e) * n \in Int /\ e * n \in Int /\ price * n = (price - e) * n + e * n
        /\ price * n \in Int
    BY Distributes
  <2>6. QED
    BY <2>4, <2>5
<1>3. left \in [D \ S -> OpenPosition] /\ DOMAIN left = D \ S
  OBVIOUS
<1>4. /\ Costs(left) = SumFunctionOnSet(leftCost, D \ S) /\ Costs(left) \in Int
      /\ \A s \in D \ S : leftCost[s] \in Int /\ leftCost[s] = cost[s]
  <2>1. \A s \in D \ S : leftCost[s] = cost[s]
    OBVIOUS
  <2>2. \A s \in D \ S : held[s].cost \in Int
    BY DEF OpenPosition
  <2>3. \A s \in D \ S : leftCost[s] \in Int
    BY <2>2
  <2>4. left \in [DOMAIN left -> OpenPosition] /\ IsFiniteSet(DOMAIN left)
    BY <1>1, <1>3
  <2> HIDE DEF left
  <2>5. Costs(left) = SumFunctionOnSet(leftCost, DOMAIN left) /\ Costs(left) \in Int
    BY <2>4, CostsInt
  <2>6. QED
    BY <1>3, <2>1, <2>3, <2>5
<1>5. /\ Costs(held) = SumFunctionOnSet(cost, D)
      /\ \A s \in D : cost[s] \in Int
  BY CostsInt
<1>6. /\ profit \in [S -> Int] /\ DOMAIN proceeds = S /\ DOMAIN fee = S
  BY <1>2
<1> HIDE DEF profit, proceeds, fee, basis, cost, leftCost, left
<1>7. /\ SumFunction(proceeds) = SumFunctionOnSet(proceeds, S) /\ SumFunction(proceeds) \in Int
      /\ SumFunction(fee) = SumFunctionOnSet(fee, S) /\ SumFunction(fee) \in Int
  BY <1>1, <1>2, <1>6, SumIs
<1>8. SumFunctionOnSet(proceeds, S) = SumFunctionOnSet(profit, S) + SumFunctionOnSet(basis, S)
  BY <1>1, <1>2, SumOfSums
<1>9. SumFunctionOnSet(cost, S) = SumFunctionOnSet(fee, S) + SumFunctionOnSet(basis, S)
  BY <1>1, <1>2, SumOfSums
<1>10. SumFunctionOnSet(profit, S) \in Int /\ SumFunctionOnSet(basis, S) \in Int
  BY <1>1, <1>2, SumInt
<1>11. SumFunctionOnSet(cost, D) = SumFunctionOnSet(cost, S) + SumFunctionOnSet(cost, D \ S)
  <2> DEFINE R == D \ S
  <2>1. S \cup R = D /\ S \cap R = {} /\ IsFiniteSet(R)
    BY <1>1
  <2> HIDE DEF R
  <2>2. \A s \in S \cup R : cost[s] \in Int
    BY <1>5, <2>1
  <2>3. SumFunctionOnSet(cost, S \cup R) = SumFunctionOnSet(cost, S) + SumFunctionOnSet(cost, R)
    BY <1>1, <2>1, <2>2, SumUnion
  <2>4. QED
    BY <2>1, <2>3 DEF R
<1>12. SumFunctionOnSet(cost, D \ S) = SumFunctionOnSet(leftCost, D \ S)
  <2> DEFINE R == D \ S
  <2>1. IsFiniteSet(R) /\ \A s \in R : leftCost[s] \in Int /\ leftCost[s] = cost[s]
    BY <1>1, <1>4
  <2> HIDE DEF R
  <2>2. SumFunctionOnSet(leftCost, R) = SumFunctionOnSet(cost, R)
    BY <2>1, SumEqual
  <2>3. QED
    BY <2>2 DEF R
<1>13. Costs(held) = Costs(left) + SumFunction(fee) + SumFunction(proceeds)
                       - SumFunctionOnSet(profit, S)
  <2>1. PICK p, b, f, l \in Int :
          /\ p = SumFunctionOnSet(profit, S) /\ b = SumFunctionOnSet(basis, S)
          /\ f = SumFunction(fee) /\ l = Costs(left)
    BY <1>4, <1>7, <1>10
  <2>2. Costs(held) = (f + b) + l /\ SumFunction(proceeds) = p + b
    BY <1>4, <1>5, <1>7, <1>8, <1>9, <1>11, <1>12, <2>1
  <2>3. QED
    BY <2>1, <2>2
<1>14. /\ Left(held, S) = left /\ Profits(held, S, price) = profit
       /\ TotalOf(held, S, price) = SumFunction(proceeds) /\ FeesOf(held, S) = SumFunction(fee)
  BY DEF left, profit, proceeds, fee, Left, Profits, TotalOf, FeesOf
<1>15. QED
  BY <1>1, <1>3, <1>4, <1>6, <1>7, <1>10, <1>13, <1>14 DEF Balanced

-----------------------------------------------------------------------------
(* No money appears or disappears.                                         *)

LEMMA UpToFinite == \A n \in Int : IsFiniteSet(1..n)
BY FS_Interval

LEMMA DaysFinite == BacktestDays \in Int /\ IsFiniteSet(1..BacktestDays)
<1>1. BacktestDays \in Int
  BY BacktestAssumption
<1>2. QED
  BY <1>1, UpToFinite

LEMMA AccountsOf ==
  ASSUME NEW due \in [1..BacktestDays -> Int], NEW profits \in Seq(Int),
         NEW held, IsFiniteSet(DOMAIN held), held \in [DOMAIN held -> OpenPosition]
  PROVE  SumFunction(due) \in Int /\ SumFunction(profits) \in Int /\ Costs(held) \in Int
<1>1. IsFiniteSet(1..BacktestDays)
  BY DaysFinite
<1>2. SumFunction(due) \in Int
  BY <1>1, SumOfMap
<1>3. Len(profits) \in Nat /\ profits \in [1..Len(profits) -> Int]
  OBVIOUS
<1>4. IsFiniteSet(1..Len(profits))
  BY <1>3, UpToFinite
<1>5. SumFunction(profits) \in Int
  BY <1>3, <1>4, SumOfMap
<1>6. QED
  BY <1>2, <1>5, CostsInt

LEMMA BooksInt ==
  BacktestTypes => /\ SumFunction(pending) \in Int /\ SumFunction(trades) \in Int
                   /\ Costs(open) \in Int
BY AccountsOf DEF BacktestTypes

LEMMA ReceivableChanged ==
  ASSUME BacktestTypes, NEW day \in 1..BacktestDays, NEW amount \in Int
  PROVE  LET changed == [pending EXCEPT ![day] = amount]
         IN  /\ changed \in [1..BacktestDays -> Int]
             /\ SumFunction(changed) = SumFunction(pending) - pending[day] + amount
<1> DEFINE changed == [pending EXCEPT ![day] = amount]
           days == 1..BacktestDays
<1>1. pending \in [days -> Int] /\ changed \in [days -> Int] /\ changed[day] = amount
  BY DEF BacktestTypes
<1>2. IsFiniteSet(days)
  BY DaysFinite
<1>3. \A d \in days : d # day => changed[d] = pending[d]
  BY <1>1
<1>4. \A d \in days : pending[d] \in Int
  BY <1>1
<1>41. changed[day] \in Int
  BY <1>1
<1> HIDE DEF changed, days
<1>5. SumFunctionOnSet(changed, days) = SumFunctionOnSet(pending, days) - pending[day] + changed[day]
  <2>1. day \in days
    BY DEF days
  <2>2. QED
    <3>1. DifferAt(pending, changed, days, day)
      BY <1>3, <1>4, <1>41, <2>1 DEF DifferAt
    <3>2. QED
      BY <1>2, <3>1, SumChanged
<1>6. SumFunction(changed) = SumFunctionOnSet(changed, days)
      /\ SumFunction(pending) = SumFunctionOnSet(pending, days)
  BY <1>1, <1>2, SumOfMap
<1>7. QED
  BY <1>1, <1>5, <1>6 DEF changed, days

(* The change of the books that closing positions makes.                   *)
LEMMA ClosingAccounted ==
  ASSUME BacktestTypes, NEW closed \in Seq(DOMAIN open),
         \A i, j \in DOMAIN closed : closed[i] = closed[j] => i = j,
         NEW price \in Int, NEW day \in 1..BacktestDays, ClosePositions(closed, price, day)
  PROVE  /\ IsFiniteSet(DOMAIN open') /\ open' \in [DOMAIN open' -> OpenPosition]
         /\ trades' \in Seq(Int) /\ unreported' \in Int
         /\ pending' \in [1..BacktestDays -> Int]
         /\ SumFunction(pending)' + Costs(open)' - SumFunction(trades)' + unreported'
              = SumFunction(pending) + Costs(open) - SumFunction(trades) + unreported
<1> DEFINE S == Range(closed)
           left == Left(open, S)
           profit == Profits(open, S, price)
           gains == [i \in DOMAIN closed |-> profit[closed[i]]]
           total == TotalOf(open, S, price)
           fees == FeesOf(open, S)
           earned == SumFunctionOnSet(profit, S)
<1>1. S \in SUBSET (DOMAIN open) /\ \A i \in DOMAIN closed : closed[i] \in S
  BY DEF Range
<1>2. IsFiniteSet(DOMAIN open) /\ open \in [DOMAIN open -> OpenPosition]
  BY DEF BacktestTypes
<1>3. /\ IsFiniteSet(DOMAIN open \ S) /\ left \in [DOMAIN open \ S -> OpenPosition]
      /\ profit \in [S -> Int] /\ total \in Int /\ fees \in Int /\ earned \in Int
      /\ Costs(left) \in Int /\ Costs(open) = Costs(left) + fees + total - earned
  <2>1. PICK held : held = open
    OBVIOUS
  <2>2. S \in SUBSET (DOMAIN held) /\ IsFiniteSet(DOMAIN held) /\ held \in [DOMAIN held -> OpenPosition]
    BY <1>1, <1>2, <2>1
  <2> HIDE DEF S
  <2>3. /\ IsFiniteSet(DOMAIN held \ S) /\ Left(held, S) \in [DOMAIN held \ S -> OpenPosition]
        /\ Profits(held, S, price) \in [S -> Int]
        /\ TotalOf(held, S, price) \in Int /\ FeesOf(held, S) \in Int
    BY <2>2, ClosedCosts
  <2>4. Costs(Left(held, S)) \in Int
    BY <2>2, ClosedCosts
  <2>5. SumFunctionOnSet(Profits(held, S, price), S) \in Int
    BY <2>2, ClosedCosts
  <2>6. Balanced(held, S, price)
    BY <2>2, ClosedCosts
  <2>7. QED
    BY <2>1, <2>3, <2>4, <2>5, <2>6 DEF Balanced
<1>4. closed \in Seq(S)
  BY <1>1
<1>5. [i \in DOMAIN closed |-> PnL(open[closed[i]], price)] = gains
  BY <1>1 DEF Profits
<1>6. /\ open' = left /\ trades' = trades \o gains /\ unreported' = unreported + fees
      /\ pending' = [pending EXCEPT ![day] = pending[day] + total]
  BY <1>5 DEF ClosePositions, Left, TotalOf, FeesOf
<1> HIDE DEF S, left, profit, total, fees, earned
<1>7. /\ trades' \in Seq(Int) /\ SumFunction(trades') = SumFunction(trades) + earned
  <2>1. trades \in Seq(Int)
    BY DEF BacktestTypes
  <2>2. GainsOf(gains, closed, profit) /\ profit \in [S -> Int]
    BY <1>3 DEF GainsOf
  <2>3. trades' = trades \o gains
    BY <1>6
  <2>4. earned = SumFunctionOnSet(profit, Range(closed))
    BY DEF earned, S
  <2>6. \A i, j \in DOMAIN closed : closed[i] = closed[j] => i = j
    OBVIOUS
  <2> HIDE DEF gains
  <2>5. AddsUp(trades, gains, profit, Range(closed))
    BY <1>4, <2>1, <2>2, <2>6, TradesAdded
  <2>7. QED
    BY <2>3, <2>4, <2>5 DEF AddsUp
<1>8. /\ pending' \in [1..BacktestDays -> Int]
      /\ SumFunction(pending') = SumFunction(pending) + total
  <2>1. pending[day] \in Int /\ pending[day] + total \in Int
    BY <1>3 DEF BacktestTypes
  <2>2. SumFunction(pending) \in Int
    BY BooksInt
  <2> DEFINE amount == pending[day] + total
             changed == [pending EXCEPT ![day] = amount]
  <2>3. amount \in Int /\ pending' = changed
    BY <1>6, <2>1
  <2> HIDE DEF amount
  <2>4. changed \in [1..BacktestDays -> Int]
        /\ SumFunction(changed) = SumFunction(pending) - pending[day] + amount
    BY <2>3, ReceivableChanged
  <2>5. SumFunction(pending) - pending[day] + amount = SumFunction(pending) + total
    BY <1>3, <2>1, <2>2 DEF amount
  <2>6. QED
    BY <2>3, <2>4, <2>5
<1>9. SumFunction(pending) \in Int /\ SumFunction(trades) \in Int /\ unreported \in Int
  BY BooksInt DEF BacktestTypes
<1>10. Costs(open') = Costs(left)
  BY <1>6
<1>11. SumFunction(pending') + Costs(open') - SumFunction(trades') + unreported'
         = SumFunction(pending) + Costs(open) - SumFunction(trades) + unreported
  <2>1. SumFunction(pending') + Costs(open') - SumFunction(trades') + unreported'
          = (SumFunction(pending) + total) + Costs(left) - (SumFunction(trades) + earned)
              + (unreported + fees)
    BY <1>6, <1>7, <1>8, <1>10
  <2>2. PICK p, t, u, c \in Int : /\ p = SumFunction(pending) /\ t = SumFunction(trades)
                                 /\ u = unreported /\ c = Costs(left)
    BY <1>3, <1>9
  <2>3. total \in Int /\ fees \in Int /\ earned \in Int /\ Costs(open) = c + fees + total - earned
    BY <1>3, <2>2
  <2>4. (p + total) + c - (t + earned) + (u + fees) = p + (c + fees + total - earned) - t + u
    BY <2>3
  <2>5. QED
    BY <2>1, <2>2, <2>3, <2>4
<1>12. DOMAIN open' = DOMAIN open \ S
  BY <1>6 DEF left, Left
<1>13. IsFiniteSet(DOMAIN open') /\ open' \in [DOMAIN open' -> OpenPosition]
  BY <1>3, <1>6, <1>12
<1>14. unreported' \in Int
  BY <1>3, <1>6, <1>9
<1>15. QED
  BY <1>7, <1>8, <1>11, <1>13, <1>14

Balance ==
  cash + SumFunction(pending) + Costs(open) = InitialCash + SumFunction(trades) - unreported

LEMMA BalanceIsCapital == CapitalAccounted <=> Balance
BY DEF CapitalAccounted, Balance, Costs

LEMMA InitBalanced == BacktestInit => BacktestInv
<1> SUFFICES ASSUME BacktestInit PROVE BacktestInv
  OBVIOUS
<1>1. BacktestTypes
  <2>1. InitialCash \in Int /\ BacktestDays \in Nat
    BY BacktestAssumption
  <2>2. DOMAIN open = {} /\ IsFiniteSet(DOMAIN open)
    BY FS_EmptySet DEF BacktestInit
  <2>3. open \in [DOMAIN open -> OpenPosition]
    BY <2>2 DEF BacktestInit
  <2>4. daybar \in [open : Int, high : Int, low : Int, close : Int]
    BY DEF BacktestInit, NoBar
  <2>5. pending \in [1..BacktestDays -> Int] /\ trades \in Seq(Int)
    BY DEF BacktestInit
  <2>6. QED
    BY <2>1, <2>2, <2>3, <2>4, <2>5 DEF BacktestInit, BacktestTypes
<1>2. SumFunction(trades) = 0 /\ Costs(open) = 0
  <2> DEFINE cost == [s \in DOMAIN open |-> open[s].cost]
  <2>1. DOMAIN trades = {} /\ DOMAIN cost = {}
    BY DEF BacktestInit
  <2>2. Costs(open) = SumFunctionOnSet(cost, DOMAIN cost)
    BY DEF Costs, SumFunction
  <2>3. \A f : SumFunctionOnSet(f, {}) = 0
    BY SumUnfolds, FS_EmptySet
  <2>4. QED
    BY <2>1, <2>2, <2>3 DEF SumFunction
<1>3. SumFunction(pending) = 0
  <2> DEFINE days == 1..BacktestDays
             G == {s \in SUBSET days : SumFunctionOnSet(pending, s) = 0}
  <2>1. IsFiniteSet(days)
    BY DaysFinite
  <2>2. DOMAIN pending = days /\ \A d \in days : pending[d] = 0 /\ pending[d] \in Int
    BY DEF BacktestInit
  <2> HIDE DEF days
  <2>3. /\ SumFunctionOnSet(pending, {}) = 0
        /\ \A s \in SUBSET days : \A x \in days \ s :
             SumFunctionOnSet(pending, s \cup {x}) = pending[x] + SumFunctionOnSet(pending, s)
    BY <2>1, <2>2, SumRules
  <2>4. {} \in G /\ \A s \in SUBSET days : \A x \in days \ s : s \in G => s \cup {x} \in G
    BY <2>2, <2>3
  <2>5. days \in G
    <3> HIDE DEF G
    <3>1. QED
      BY <2>1, <2>4, SubsetsByElement
  <2>6. QED
    BY <2>2, <2>5 DEF SumFunction
<1>4. Balance
  BY <1>2, <1>3, BacktestAssumption DEF BacktestInit, Balance
<1>5. QED
  BY <1>1, <1>4, BalanceIsCapital DEF BacktestInv

LEMMA LeastOf ==
  ASSUME NEW T \in SUBSET Nat, T # {}
  PROVE  Min(T) \in T
<1>1. \E x \in T : \A y \in T : ~(<<y, x>> \in OpToRel(<, Nat))
  BY NatLessThanWellFounded, WFMin
<1>2. PICK x \in T : \A y \in T : ~(<<y, x>> \in OpToRel(<, Nat))
  BY <1>1
<1>3. \A y \in T : ~(y < x)
  BY <1>2 DEF OpToRel
<1>4. \A y \in T : x <= y
  BY <1>3
<1>5. QED
  BY <1>4 DEF Min

LEMMA ExitPriceInt ==
  ASSUME NEW p \in OpenPosition, NEW b, NEW price \in ExitAt(p, b)
  PROVE  price \in Int
<1> DEFINE reached == {i \in DOMAIN p.targets : b.high >= p.targets[i]}
<1>1. p.stop \in Int /\ p.targets \in Seq(Int)
  BY DEF OpenPosition
<1>2. CASE reached # {}
  <2>1. reached \in SUBSET Nat
    BY <1>1
  <2>2. Min(reached) \in reached
    <3> HIDE DEF reached
    <3>1. QED
      BY <1>2, <2>1, LeastOf
  <2>3. PICK k \in DOMAIN p.targets : k = Min(reached)
    BY <2>2
  <2>4. p.targets[k] \in Int
    BY <1>1
  <2>5. QED
    BY <1>1, <2>3, <2>4 DEF ExitAt
<1>3. CASE reached = {}
  BY <1>1, <1>3 DEF ExitAt
<1>4. QED
  BY <1>2, <1>3

(* Closing positions leaves the capital as it was.                         *)
LEMMA BooksClose ==
  ASSUME BacktestInv, BacktestTypes', cash' = cash,
         SumFunction(pending)' + Costs(open)' - SumFunction(trades)' + unreported'
           = SumFunction(pending) + Costs(open) - SumFunction(trades) + unreported
  PROVE  CapitalAccounted'
<1>1. Balance
  BY BalanceIsCapital DEF BacktestInv
<1>2. SumFunction(pending) \in Int /\ SumFunction(trades) \in Int /\ Costs(open) \in Int
  BY BooksInt DEF BacktestInv
<1>3. /\ SumFunction(pending') \in Int /\ SumFunction(trades') \in Int /\ Costs(open') \in Int
      /\ unreported' \in Int /\ unreported \in Int /\ cash \in Int /\ InitialCash \in Int
  <2>1. /\ pending' \in [1..BacktestDays -> Int] /\ trades' \in Seq(Int)
        /\ IsFiniteSet(DOMAIN open') /\ open' \in [DOMAIN open' -> OpenPosition]
    BY DEF BacktestTypes
  <2>2. SumFunction(pending') \in Int /\ SumFunction(trades') \in Int /\ Costs(open') \in Int
    BY <2>1, AccountsOf
  <2>3. QED
    BY <2>2, BacktestAssumption DEF BacktestTypes, BacktestInv
<1>4. cash + SumFunction(pending') + Costs(open') = InitialCash + SumFunction(trades') - unreported'
  <2>1. cash + SumFunction(pending) + Costs(open) = InitialCash + SumFunction(trades) - unreported
    BY <1>1 DEF Balance
  <2>2. SumFunction(pending') + Costs(open') - SumFunction(trades') + unreported'
          = SumFunction(pending) + Costs(open) - SumFunction(trades) + unreported
    BY DEF Costs
  <2>3. PICK p1, o1, t1 \in Int : /\ p1 = SumFunction(pending') /\ o1 = Costs(open')
                                  /\ t1 = SumFunction(trades')
    BY <1>3
  <2>4. PICK p, o, t \in Int : /\ p = SumFunction(pending) /\ o = Costs(open)
                               /\ t = SumFunction(trades)
    BY <1>2
  <2>5. /\ cash + p + o = InitialCash + t - unreported
        /\ p1 + o1 - t1 + unreported' = p + o - t + unreported
    BY <2>1, <2>2, <2>3, <2>4
  <2>6. PICK i, c, u, u1 \in Int : /\ i = InitialCash /\ c = cash
                                   /\ u = unreported /\ u1 = unreported'
    BY <1>3
  <2>7. c + p + o = i + t - u /\ p1 + o1 - t1 + u1 = p + o - t + u
    BY <2>5, <2>6
  <2>8. c + p1 + o1 = i + t1 - u1
    BY ONLY <2>7, SMT
  <2>9. QED
    BY <2>3, <2>6, <2>8
<1>5. QED
  BY <1>4 DEF CapitalAccounted, Costs

LEMMA ProcessDayBalanced ==
  ASSUME BacktestInv, NEW b \in DayBars, ProcessDay(b)
  PROVE  BacktestInv'
<1> USE DEF BacktestInv
<1>1. backday + 1 \in 1..BacktestDays
  BY BacktestAssumption DEF ProcessDay, BacktestTypes
<1>2. backday' \in 0..(BacktestDays + 1)
  BY <1>1, BacktestAssumption DEF ProcessDay
<1>3. daybar' \in [open : Int, high : Int, low : Int, close : Int]
  <2>1. b \in [open : Nat, high : Nat, low : Nat, close : Nat]
    BY BacktestAssumption
  <2>2. b \in [open : Int, high : Int, low : Int, close : Int]
    BY <2>1
  <2>3. QED
    BY <2>2 DEF ProcessDay
<1>4. reference' \in Int /\ cash' = cash /\ cash \in Int
  BY DEF ProcessDay, BacktestTypes
<1>5. CASE UNCHANGED <<open, trades, pending, unreported>>
  <2>1. BacktestTypes'
    BY <1>2, <1>3, <1>4, <1>5 DEF BacktestTypes
  <2>2. Balance'
    BY <1>4, <1>5, BalanceIsCapital DEF Balance, Costs
  <2>3. CapitalAccounted'
    BY <2>2 DEF CapitalAccounted, Balance, Costs
  <2>4. QED
    BY <2>1, <2>3
<1>6. ASSUME "VCB" \in DOMAIN open, NEW price \in ExitAt(open["VCB"], b),
             ClosePositions(<<"VCB">>, price, backday + 1)
      PROVE  BacktestInv'
  <2> DEFINE closed == <<"VCB">>
             day == backday + 1
  <2>1. closed \in Seq(DOMAIN open) /\ \A i, j \in DOMAIN closed : closed[i] = closed[j] => i = j
    BY <1>6
  <2>2. price \in Int
    <3>1. open["VCB"] \in OpenPosition
      BY <1>6 DEF BacktestTypes
    <3>2. QED
      BY <1>6, <3>1, ExitPriceInt
  <2> HIDE DEF closed, day
  <2>3. day \in 1..BacktestDays /\ ClosePositions(closed, price, day)
    BY <1>1, <1>6 DEF closed, day
  <2>4. /\ IsFiniteSet(DOMAIN open') /\ open' \in [DOMAIN open' -> OpenPosition]
        /\ trades' \in Seq(Int) /\ unreported' \in Int
        /\ pending' \in [1..BacktestDays -> Int]
        /\ SumFunction(pending)' + Costs(open)' - SumFunction(trades)' + unreported'
             = SumFunction(pending) + Costs(open) - SumFunction(trades) + unreported
    BY <2>1, <2>2, <2>3, ClosingAccounted
  <2>5. BacktestTypes'
    BY <1>2, <1>3, <1>4, <2>4 DEF BacktestTypes
  <2>6. CapitalAccounted'
    BY <1>4, <2>4, <2>5, BooksClose
  <2>7. QED
    BY <2>5, <2>6
<1>7. QED
  BY <1>5, <1>6 DEF ProcessDay

LEMMA FillPriceInt ==
  ASSUME BacktestTypes, NEW order \in Orders
  PROVE  /\ FillPrice(order) \in Int /\ order.shares \in Int
         /\ order.stop \in Int /\ order.targets \in Seq(Int)
<1>1. order \in [limit : Nat, stop : Nat, targets : Seq(Nat), shares : Nat] /\ Slippage \in Int
  BY BacktestAssumption
<1>2. order.limit \in Int /\ order.shares \in Int /\ order.stop \in Int
  BY <1>1
<1>3. order.targets \in Seq(Int)
  <2>1. order.targets \in Seq(Nat)
    BY <1>1
  <2>2. QED
    BY <2>1
<1> DEFINE best == IF daybar.open < order.limit THEN daybar.open ELSE order.limit
           slipped == (best * (1000 + Slippage)) \div 1000
<1>4. best \in Int
  BY <1>2 DEF BacktestTypes
<1>5. best * (1000 + Slippage) \in Int
  <2> HIDE DEF best
  <2>1. QED
    BY <1>1, <1>4
<1>6. slipped \in Int
  <2> DEFINE x == best * (1000 + Slippage)
  <2>1. slipped = x \div 1000
    OBVIOUS
  <2> HIDE DEF x, slipped
  <2>2. x \in Int
    BY <1>5 DEF x
  <2>3. QED
    BY <2>1, <2>2
<1>7. FillPrice(order) = IF slipped > order.limit THEN order.limit ELSE slipped
  BY DEF FillPrice
<1> HIDE DEF slipped
<1>8. FillPrice(order) \in Int
  BY <1>2, <1>6, <1>7
<1>9. QED
  BY <1>2, <1>3, <1>8

LEMMA FeeInt ==
  ASSUME NEW price \in Int, NEW shares \in Int
  PROVE  Fee(price, shares) \in Int
<1> DEFINE x == price * shares * Commission
<1>1. price * shares \in Int /\ Commission \in Int
  BY BacktestAssumption
<1>2. x \in Int
  BY <1>1
<1>3. Fee(price, shares) = x \div 1000
  BY DEF Fee
<1> HIDE DEF x
<1>4. QED
  BY <1>2, <1>3

(* The costs of the open positions with one more, or one replaced.         *)
LEMMA CostsWith ==
  ASSUME NEW held, IsFiniteSet(DOMAIN held), held \in [DOMAIN held -> OpenPosition],
         NEW symbol, NEW bought \in OpenPosition, NEW after,
         after = [s \in DOMAIN held \cup {symbol} |-> IF s = symbol THEN bought ELSE held[s]]
  PROVE  /\ IsFiniteSet(DOMAIN after) /\ after \in [DOMAIN after -> OpenPosition]
         /\ Costs(after) = Costs(held) + bought.cost
                             - (IF symbol \in DOMAIN held THEN held[symbol].cost ELSE 0)
<1> DEFINE D == DOMAIN held
           cost == [s \in D |-> held[s].cost]
           newCost == [s \in DOMAIN after |-> after[s].cost]
<1>1. DOMAIN after = D \cup {symbol} /\ IsFiniteSet(D \cup {symbol})
  BY FS_AddElement
<1>2. after \in [DOMAIN after -> OpenPosition] /\ IsFiniteSet(DOMAIN after)
  BY <1>1
<1>3. /\ Costs(held) = SumFunctionOnSet(cost, D) /\ Costs(held) \in Int
      /\ Costs(after) = SumFunctionOnSet(newCost, DOMAIN after) /\ Costs(after) \in Int
  BY <1>2, CostsInt
<1>4. /\ \A s \in D : cost[s] = held[s].cost /\ cost[s] \in Int
      /\ newCost[symbol] = bought.cost /\ bought.cost \in Int
      /\ \A s \in D : s # symbol => newCost[s] = cost[s]
  BY <1>1 DEF OpenPosition
<1> HIDE DEF cost, newCost
<1>5. CASE symbol \in D
  <2>1. DOMAIN after = D
    BY <1>1, <1>5
  <2>2. DifferAt(cost, newCost, D, symbol)
    BY <1>4, <1>5 DEF DifferAt
  <2>3. SumFunctionOnSet(newCost, D) = SumFunctionOnSet(cost, D) - cost[symbol] + newCost[symbol]
    BY <2>2, SumChanged
  <2>4. PICK x, c, b \in Int : x = Costs(held) /\ c = held[symbol].cost /\ b = bought.cost
    BY <1>3, <1>4, <1>5
  <2>5. Costs(after) = x - c + b
    BY <1>3, <1>4, <1>5, <2>1, <2>3, <2>4
  <2>6. x - c + b = x + b - c
    OBVIOUS
  <2>7. QED
    BY <1>2, <1>5, <2>4, <2>5, <2>6
<1>6. CASE symbol \notin D
  <2> DEFINE E == D \cup {symbol}
  <2>1. \A s \in E : newCost[s] \in Int
    BY <1>4
  <2>2. D \in SUBSET E /\ symbol \in E \ D /\ IsFiniteSet(E)
    BY <1>1, <1>6
  <2> HIDE DEF E
  <2>3. SumFunctionOnSet(newCost, D \cup {symbol}) = newCost[symbol] + SumFunctionOnSet(newCost, D)
    BY <2>1, <2>2, SumRules
  <2>4. \A s \in D : cost[s] \in Int /\ newCost[s] = cost[s]
    BY <1>4, <1>6
  <2>5. SumFunctionOnSet(cost, D) = SumFunctionOnSet(newCost, D)
    <3> HIDE DEF D
    <3>1. IsFiniteSet(D)
      BY DEF D
    <3>2. QED
      BY <2>4, <3>1, SumEqual
  <2>6. Costs(after) = bought.cost + Costs(held)
    BY <1>1, <1>3, <1>4, <2>3, <2>5
  <2>7. PICK x, b \in Int : x = Costs(held) /\ b = bought.cost
    BY <1>3, <1>4
  <2>8. b + x = x + b - 0
    OBVIOUS
  <2>9. QED
    BY <1>2, <1>6, <2>6, <2>7, <2>8
<1>7. QED
  BY <1>5, <1>6

LEMMA BuyBalanced ==
  ASSUME BacktestInv, NEW symbol \in Tradables, NEW order \in Orders, Buy(symbol, order)
  PROVE  BacktestInv'
<1> USE DEF BacktestInv
<1> DEFINE price == FillPrice(order)
           cost == price * order.shares + Fee(price, order.shares)
           bought == [entry |-> price, shares |-> order.shares, cost |-> cost,
                      stop |-> order.stop, targets |-> order.targets]
           replaced == IF symbol \in DOMAIN open THEN open[symbol].cost ELSE 0
<1>1. /\ open' = [s \in DOMAIN open \cup {symbol} |-> IF s = symbol THEN bought ELSE open[s]]
      /\ cash' = cash - cost /\ unreported' = unreported + replaced
      /\ UNCHANGED <<backday, daybar, reference, trades, pending>>
  BY DEF Buy
<1>2. /\ price \in Int /\ order.shares \in Int /\ order.stop \in Int
      /\ order.targets \in Seq(Int)
  BY FillPriceInt
<1> HIDE DEF price
<1>3. cost \in Int
  <2>1. PICK x, n \in Int : x = price /\ n = order.shares
    BY <1>2
  <2>2. x * n \in Int /\ Fee(x, n) \in Int
    BY FeeInt
  <2>3. cost = x * n + Fee(x, n)
    BY <2>1
  <2>4. QED
    BY <2>2, <2>3
<1> HIDE DEF cost
<1>4. bought \in OpenPosition /\ bought.cost = cost
  BY <1>2, <1>3 DEF OpenPosition
<1>5. replaced \in Int
  BY DEF BacktestTypes, OpenPosition
<1>6. IsFiniteSet(DOMAIN open) /\ open \in [DOMAIN open -> OpenPosition]
  BY DEF BacktestTypes
<1> HIDE DEF bought
<1>7. /\ IsFiniteSet(DOMAIN open') /\ open' \in [DOMAIN open' -> OpenPosition]
      /\ Costs(open') = Costs(open) + bought.cost - replaced
  BY <1>1, <1>4, <1>6, CostsWith
<1> HIDE DEF replaced
<1>8. BacktestTypes'
  <2>1. cash' \in Int /\ unreported' \in Int
    BY <1>1, <1>3, <1>5 DEF BacktestTypes
  <2>2. IsFiniteSet(DOMAIN open') /\ open' \in [DOMAIN open' -> OpenPosition]
    BY <1>7
  <2>3. QED
    BY <1>1, <2>1, <2>2, Zenon DEF BacktestTypes
<1>9. cash' + SumFunction(pending) + Costs(open') = InitialCash + SumFunction(trades) - unreported'
  <2>1. cash + SumFunction(pending) + Costs(open) = InitialCash + SumFunction(trades) - unreported
    BY BalanceIsCapital DEF Balance
  <2>2. /\ SumFunction(pending) \in Int /\ SumFunction(trades) \in Int /\ Costs(open) \in Int
        /\ cash \in Int /\ unreported \in Int /\ InitialCash \in Int
    BY BooksInt, BacktestAssumption DEF BacktestTypes
  <2>3. PICK p, o, t \in Int : /\ p = SumFunction(pending) /\ o = Costs(open)
                               /\ t = SumFunction(trades)
    BY <2>2
  <2>4. PICK i, c, u \in Int : i = InitialCash /\ c = cash /\ u = unreported
    BY <2>2
  <2>5. PICK k, r \in Int : k = cost /\ r = replaced
    BY <1>3, <1>5
  <2>6. c + p + o = i + t - u
    BY <2>1, <2>3, <2>4
  <2>7. (c - k) + p + (o + k - r) = i + t - (u + r)
    BY ONLY <2>6, SMT
  <2>8. cash' = c - k /\ Costs(open') = o + k - r /\ unreported' = u + r
    BY <1>1, <1>4, <1>7, <2>3, <2>4, <2>5
  <2>9. QED
    BY <2>3, <2>4, <2>7, <2>8
<1>10. CapitalAccounted'
  BY <1>1, <1>9 DEF CapitalAccounted, Costs
<1>11. QED
  BY <1>8, <1>10

LEMMA SettleBalanced ==
  ASSUME BacktestInv, Settle
  PROVE  BacktestInv'
<1> USE DEF BacktestInv
<1> DEFINE amount == pending[backday]
           settled == [pending EXCEPT ![backday] = 0]
<1>1. backday \in 1..BacktestDays /\ amount \in Int
  BY DEF Settle, BacktestTypes
<1>2. /\ cash' = cash + amount /\ pending' = settled
      /\ UNCHANGED <<backday, daybar, reference, open, trades, unreported>>
  BY DEF Settle
<1>3. /\ settled \in [1..BacktestDays -> Int]
      /\ SumFunction(settled) = SumFunction(pending) - amount + 0
  <2>1. PICK day \in 1..BacktestDays : day = backday
    BY <1>1
  <2>2. /\ [pending EXCEPT ![day] = 0] \in [1..BacktestDays -> Int]
        /\ SumFunction([pending EXCEPT ![day] = 0]) = SumFunction(pending) - pending[day] + 0
    BY ReceivableChanged
  <2>3. QED
    BY <2>1, <2>2
<1> HIDE DEF amount, settled
<1>4. BacktestTypes'
  BY <1>1, <1>2, <1>3 DEF BacktestTypes
<1>5. cash' + SumFunction(pending') + Costs(open) = InitialCash + SumFunction(trades) - unreported
  <2>1. cash + SumFunction(pending) + Costs(open) = InitialCash + SumFunction(trades) - unreported
    BY BalanceIsCapital DEF Balance
  <2>2. SumFunction(pending) \in Int /\ Costs(open) \in Int /\ cash \in Int
    BY BooksInt DEF BacktestTypes
  <2>3. PICK p, o, c, a \in Int : /\ p = SumFunction(pending) /\ o = Costs(open)
                                  /\ c = cash /\ a = amount
    BY <1>1, <2>2
  <2>4. (c + a) + (p - a + 0) + o = c + p + o
    BY ONLY SMT
  <2>5. QED
    BY <1>2, <1>3, <2>1, <2>3, <2>4
<1>6. CapitalAccounted'
  BY <1>2, <1>5 DEF CapitalAccounted, Costs
<1>7. QED
  BY <1>4, <1>6

LEMMA FinishBalanced ==
  ASSUME BacktestInv, Finish
  PROVE  BacktestInv'
<1> USE DEF BacktestInv
<1>1. PICK closed \in SetToSeqs(DOMAIN open) : ClosePositions(closed, daybar.close, backday)
  BY DEF Finish
<1>2. /\ closed \in [1..Cardinality(DOMAIN open) -> DOMAIN open]
      /\ \A i, j \in 1..Cardinality(DOMAIN open) : i # j => closed[i] # closed[j]
  BY DEF SetToSeqs
<1>3. Cardinality(DOMAIN open) \in Nat
  BY FS_CardinalityType DEF BacktestTypes
<1>4. /\ closed \in Seq(DOMAIN open)
      /\ \A i, j \in DOMAIN closed : closed[i] = closed[j] => i = j
  BY <1>2, <1>3
<1>5. daybar.close \in Int /\ backday \in 1..BacktestDays
  BY BacktestAssumption DEF BacktestTypes, Finish
<1>6. /\ IsFiniteSet(DOMAIN open') /\ open' \in [DOMAIN open' -> OpenPosition]
      /\ trades' \in Seq(Int) /\ unreported' \in Int
      /\ pending' \in [1..BacktestDays -> Int]
      /\ SumFunction(pending)' + Costs(open)' - SumFunction(trades)' + unreported'
           = SumFunction(pending) + Costs(open) - SumFunction(trades) + unreported
  <2>1. PICK price \in Int, day \in 1..BacktestDays : price = daybar.close /\ day = backday
    BY <1>5
  <2>2. ClosePositions(closed, price, day)
    BY <1>1, <2>1
  <2>3. QED
    BY <1>4, <2>2, ClosingAccounted
<1>7. /\ backday' \in 0..(BacktestDays + 1) /\ cash' = cash
      /\ UNCHANGED <<daybar, reference>>
  BY <1>5, DaysFinite DEF Finish
<1>8. BacktestTypes'
  BY <1>6, <1>7 DEF BacktestTypes
<1>9. CapitalAccounted'
  BY <1>6, <1>7, <1>8, BooksClose
<1>10. QED
  BY <1>8, <1>9

LEMMA BacktestStep ==
  BacktestInv /\ [BacktestNext]_backtestVars => BacktestInv'
<1> SUFFICES ASSUME BacktestInv, [BacktestNext]_backtestVars PROVE BacktestInv'
  OBVIOUS
<1>1. CASE \E b \in DayBars : ProcessDay(b)
  BY <1>1, ProcessDayBalanced
<1>2. CASE \E s \in Tradables, o \in Orders : Buy(s, o)
  BY <1>2, BuyBalanced
<1>3. CASE Settle
  BY <1>3, SettleBalanced
<1>4. CASE Finish
  BY <1>4, FinishBalanced
<1>5. CASE UNCHANGED backtestVars
  BY <1>5 DEF backtestVars, BacktestInv, BacktestTypes, CapitalAccounted
<1>6. QED
  BY <1>1, <1>2, <1>3, <1>4, <1>5 DEF BacktestNext

(* No money appears or disappears in the books of a backtest               *)
(* (position_tracker.go, types.go).                                        *)
THEOREM BooksBalance == BacktestSpec => []CapitalAccounted
<1>1. BacktestInv => CapitalAccounted
  BY DEF BacktestInv
<1>2. QED
  BY <1>1, InitBalanced, BacktestStep, PTL DEF BacktestSpec

-----------------------------------------------------------------------------
(***************************************************************************)
(* Backtest: the metrics of any sequence of profits.  Each is a FoldLeft;  *)
(* what it computes is read off the states that the fold goes through.     *)
(***************************************************************************)

(* The equity curve starts with the initial capital.                       *)
CurveValues == {c \in Seq(Int) : Len(c) > 0 /\ c[1] = InitialCash}
Extended(c, x) == Append(c, Last(c) + x)

LEMMA CurveGrows ==
  ASSUME NEW c \in CurveValues, NEW x \in Int
  PROVE  Extended(c, x) \in CurveValues
<1>1. c \in Seq(Int) /\ Len(c) > 0 /\ c[1] = InitialCash
  BY DEF CurveValues
<1>2. Last(c) \in Int
  BY <1>1 DEF Last
<1>3. Last(c) + x \in Int
  BY <1>2
<1>4. PICK y \in Int : y = Last(c) + x
  BY <1>3
<1>5. Append(c, y) \in Seq(Int) /\ Len(Append(c, y)) > 0 /\ Append(c, y)[1] = InitialCash
  BY <1>1
<1>6. QED
  BY <1>4, <1>5 DEF CurveValues, Extended

(* buildEquityCurve, one trade at a time.                                  *)
LEMMA CurveRuns ==
  ASSUME NEW pnls \in Seq(Int)
  PROVE  \E run : /\ run \in [0..Len(pnls) -> CurveValues] /\ run[0] = <<InitialCash>>
                  /\ \A k \in 1..Len(pnls) : run[k] = Extended(run[k - 1], pnls[k])
                  /\ Curve(pnls) = run[Len(pnls)]
<1> DEFINE n == Len(pnls)
           base == <<InitialCash>>
           step == [p \in CurveValues \X (1..n) |-> Extended(p[1], pnls[p[2]])]
           g == CHOOSE g : g = [s \in SUBSET (DOMAIN pnls) |->
                  IF s = {} THEN base ELSE Extended(g[s \ {Max(s)}], pnls[Max(s)])]
<1>1. n \in Nat /\ DOMAIN pnls = 1..n /\ \A k \in 1..n : pnls[k] \in Int
  OBVIOUS
<1>2. base \in CurveValues
  BY BacktestAssumption DEF CurveValues
<1>3. ASSUME NEW c \in CurveValues, NEW k \in 1..n
      PROVE  step[<<c, k>>] = Extended(c, pnls[k]) /\ step[<<c, k>>] \in CurveValues
  <2>1. pnls[k] \in Int
    BY <1>1
  <2>2. Extended(c, pnls[k]) \in CurveValues
    BY <2>1, CurveGrows
  <2>3. step[<<c, k>>] = Extended(c, pnls[k])
    OBVIOUS
  <2>4. QED
    BY <2>2, <2>3
<1>4. step \in [CurveValues \X (1..n) -> CurveValues]
  <2>1. ASSUME NEW p \in CurveValues \X (1..n) PROVE step[p] \in CurveValues
    <3>1. p = <<p[1], p[2]>> /\ p[1] \in CurveValues /\ p[2] \in 1..n
      OBVIOUS
    <3> HIDE DEF step
    <3>2. step[<<p[1], p[2]>>] \in CurveValues
      BY <1>3, <3>1
    <3>3. QED
      BY <3>1, <3>2
  <2>2. QED
    BY <2>1
<1> HIDE DEF step, base, n
<1>5. PICK h \in [SUBSET (1..n) -> CurveValues] : IsFold(h, base, step, n)
  BY <1>1, <1>2, <1>4, FoldExists
<1>6. ASSUME NEW s \in SUBSET (1..n)
      PROVE  h[s] = IF s = {} THEN base ELSE Extended(h[s \ {Max(s)}], pnls[Max(s)])
  <2>1. h[s] = IF s = {} THEN base ELSE step[<<h[s \ {Max(s)}], Max(s)>>]
    BY <1>5 DEF IsFold
  <2>2. CASE s # {}
    <3>1. h[s \ {Max(s)}] \in CurveValues
      OBVIOUS
    <3>2. Max(s) \in 1..n
      BY <1>1, <2>2, GreatestOf
    <3>3. QED
      BY <1>3, <2>1, <2>2, <3>1, <3>2
  <2>3. QED
    BY <2>1, <2>2
<1>7. h = [s \in SUBSET (DOMAIN pnls) |->
             IF s = {} THEN base ELSE Extended(h[s \ {Max(s)}], pnls[Max(s)])]
  BY <1>1, <1>6
<1>8. g = [s \in SUBSET (DOMAIN pnls) |->
             IF s = {} THEN base ELSE Extended(g[s \ {Max(s)}], pnls[Max(s)])]
  BY <1>7
<1>9. Curve(pnls) = g[DOMAIN pnls]
  BY Zenon DEF Curve, FoldLeft, MapThenFoldSet, base, Extended
<1> HIDE DEF g
<1>10. Retraces(g, CurveValues, base, step, n)
  <2>1. g[{}] = base
    BY <1>8
  <2>2. ASSUME NEW s \in SUBSET (1..n), s # {}, g[s \ {Max(s)}] \in CurveValues
        PROVE  g[s] = step[<<g[s \ {Max(s)}], Max(s)>>]
    <3>1. g[s] = Extended(g[s \ {Max(s)}], pnls[Max(s)])
      BY <1>1, <1>8, <2>2
    <3>2. Max(s) \in 1..n
      BY <1>1, <2>2, GreatestOf
    <3>3. QED
      BY <1>3, <2>2, <3>1, <3>2
  <2>3. QED
    BY <2>1, <2>2 DEF Retraces
<1> DEFINE run == Run(g, n)
<1>11. IsRun(run, CurveValues, base, step, n)
  BY <1>1, <1>2, <1>4, <1>10, FoldRuns
<1>12. run[n] = g[DOMAIN pnls]
  BY <1>1 DEF Run
<1> HIDE DEF run
<1>13. \A k \in 1..n : run[k] = Extended(run[k - 1], pnls[k])
  <2>1. \A k \in 1..n : k - 1 \in 0..n /\ run[k - 1] \in CurveValues
    BY <1>1, <1>11 DEF IsRun
  <2>2. \A k \in 1..n : run[k] = step[<<run[k - 1], k>>]
    BY <1>11 DEF IsRun
  <2>3. QED
    BY <1>3, <2>1, <2>2
<1>14. run \in [0..n -> CurveValues] /\ run[0] = base
  BY <1>11 DEF IsRun
<1>15. Curve(pnls) = run[n]
  BY <1>9, <1>12
<1>16. QED
  BY <1>13, <1>14, <1>15 DEF n, base

LEMMA CurveIs ==
  ASSUME NEW pnls \in Seq(Int)
  PROVE  Curve(pnls) \in CurveValues /\ (pnls = <<>> => Curve(pnls) = <<InitialCash>>)
<1>1. PICK run : /\ run \in [0..Len(pnls) -> CurveValues] /\ run[0] = <<InitialCash>>
                 /\ Curve(pnls) = run[Len(pnls)]
  BY CurveRuns
<1>2. Len(pnls) \in 0..Len(pnls) /\ (pnls = <<>> => Len(pnls) = 0)
  OBVIOUS
<1>3. QED
  BY <1>1, <1>2

(* calculateDrawdown, one point of the curve at a time.                    *)
Peaks == [peak : Int, fall : Int]
Peaked(acc, e) ==
  LET peak == IF e > acc.peak THEN e ELSE acc.peak
  IN  [peak |-> peak, fall |-> IF peak > 0 /\ e - peak < acc.fall THEN e - peak ELSE acc.fall]

LEMMA PeakedIn ==
  ASSUME NEW acc \in Peaks, NEW e \in Int
  PROVE  Peaked(acc, e) \in Peaks
<1>1. acc.peak \in Int /\ acc.fall \in Int
  BY DEF Peaks
<1> DEFINE peak == IF e > acc.peak THEN e ELSE acc.peak
           fall == IF peak > 0 /\ e - peak < acc.fall THEN e - peak ELSE acc.fall
<1>2. peak \in Int
  BY <1>1
<1>3. fall \in Int
  <2> HIDE DEF peak
  <2>1. QED
    BY <1>1, <1>2
<1>4. Peaked(acc, e) = [peak |-> peak, fall |-> fall]
  BY DEF Peaked
<1> HIDE DEF peak, fall
<1>5. QED
  BY <1>2, <1>3, <1>4 DEF Peaks
LEMMA DrawdownRuns ==
  ASSUME NEW curve \in CurveValues
  PROVE  \E run : /\ run \in [0..Len(curve) -> Peaks] /\ run[0] = [peak |-> curve[1], fall |-> 0]
                  /\ \A k \in 1..Len(curve) : run[k] = Peaked(run[k - 1], curve[k])
                  /\ Drawdown(curve) = run[Len(curve)].fall
<1> DEFINE n == Len(curve)
           base == [peak |-> curve[1], fall |-> 0]
           step == [p \in Peaks \X (1..n) |-> Peaked(p[1], curve[p[2]])]
           g == CHOOSE g : g = [s \in SUBSET (DOMAIN curve) |->
                  IF s = {} THEN base ELSE Peaked(g[s \ {Max(s)}], curve[Max(s)])]
<1>1. n \in Nat /\ DOMAIN curve = 1..n /\ n > 0 /\ \A k \in 1..n : curve[k] \in Int
  BY DEF CurveValues
<1>2. base \in Peaks
  BY <1>1 DEF Peaks
<1>3. ASSUME NEW c \in Peaks, NEW k \in 1..n
      PROVE  step[<<c, k>>] = Peaked(c, curve[k]) /\ step[<<c, k>>] \in Peaks
  <2>1. curve[k] \in Int
    BY <1>1
  <2>2. Peaked(c, curve[k]) \in Peaks
    BY <2>1, PeakedIn
  <2>3. step[<<c, k>>] = Peaked(c, curve[k])
    OBVIOUS
  <2>4. QED
    BY <2>2, <2>3
<1>4. step \in [Peaks \X (1..n) -> Peaks]
  <2>1. ASSUME NEW p \in Peaks \X (1..n) PROVE step[p] \in Peaks
    <3>1. p = <<p[1], p[2]>> /\ p[1] \in Peaks /\ p[2] \in 1..n
      OBVIOUS
    <3> HIDE DEF step
    <3>2. step[<<p[1], p[2]>>] \in Peaks
      BY <1>3, <3>1
    <3>3. QED
      BY <3>1, <3>2
  <2>2. QED
    BY <2>1
<1> HIDE DEF step, base, n
<1>5. PICK h \in [SUBSET (1..n) -> Peaks] : IsFold(h, base, step, n)
  BY <1>1, <1>2, <1>4, FoldExists
<1>6. ASSUME NEW s \in SUBSET (1..n)
      PROVE  h[s] = IF s = {} THEN base ELSE Peaked(h[s \ {Max(s)}], curve[Max(s)])
  <2>1. h[s] = IF s = {} THEN base ELSE step[<<h[s \ {Max(s)}], Max(s)>>]
    BY <1>5 DEF IsFold
  <2>2. CASE s # {}
    <3>1. h[s \ {Max(s)}] \in Peaks
      OBVIOUS
    <3>2. Max(s) \in 1..n
      BY <1>1, <2>2, GreatestOf
    <3>3. QED
      BY <1>3, <2>1, <2>2, <3>1, <3>2
  <2>3. QED
    BY <2>1, <2>2
<1>7. h = [s \in SUBSET (DOMAIN curve) |->
             IF s = {} THEN base ELSE Peaked(h[s \ {Max(s)}], curve[Max(s)])]
  BY <1>1, <1>6
<1>8. g = [s \in SUBSET (DOMAIN curve) |->
             IF s = {} THEN base ELSE Peaked(g[s \ {Max(s)}], curve[Max(s)])]
  BY <1>7
<1>9. Drawdown(curve) = g[DOMAIN curve].fall
  BY Zenon DEF Drawdown, FoldLeft, MapThenFoldSet, base, Peaked
<1> HIDE DEF g
<1>10. Retraces(g, Peaks, base, step, n)
  <2>1. g[{}] = base
    BY <1>8
  <2>2. ASSUME NEW s \in SUBSET (1..n), s # {}, g[s \ {Max(s)}] \in Peaks
        PROVE  g[s] = step[<<g[s \ {Max(s)}], Max(s)>>]
    <3>1. g[s] = Peaked(g[s \ {Max(s)}], curve[Max(s)])
      BY <1>1, <1>8, <2>2
    <3>2. Max(s) \in 1..n
      BY <1>1, <2>2, GreatestOf
    <3>3. QED
      BY <1>3, <2>2, <3>1, <3>2
  <2>3. QED
    BY <2>1, <2>2 DEF Retraces
<1> DEFINE run == Run(g, n)
<1>11. IsRun(run, Peaks, base, step, n)
  BY <1>1, <1>2, <1>4, <1>10, FoldRuns
<1>12. run[n] = g[DOMAIN curve]
  BY <1>1 DEF Run
<1> HIDE DEF run
<1>13. \A k \in 1..n : run[k] = Peaked(run[k - 1], curve[k])
  <2>1. \A k \in 1..n : k - 1 \in 0..n /\ run[k - 1] \in Peaks
    BY <1>1, <1>11 DEF IsRun
  <2>2. \A k \in 1..n : run[k] = step[<<run[k - 1], k>>]
    BY <1>11 DEF IsRun
  <2>3. QED
    BY <1>3, <2>1, <2>2
<1>14. run \in [0..n -> Peaks] /\ run[0] = base
  BY <1>11 DEF IsRun
<1>15. Drawdown(curve) = run[n].fall
  BY <1>9, <1>12
<1>16. QED
  BY <1>13, <1>14, <1>15 DEF n, base

(* The drawdown is the worst fall between two points of the curve.         *)
FallUpTo(curve, k, acc) ==
  /\ \A i \in 1..k : curve[i] <= acc.peak
  /\ \E i \in 1..k : curve[i] = acc.peak
  /\ \A i, j \in 1..k : i <= j => curve[j] - curve[i] >= acc.fall
  /\ \E i, j \in 1..k : i <= j /\ curve[j] - curve[i] = acc.fall

LEMMA FallStep ==
  ASSUME NEW curve \in CurveValues, NEW k \in 1..Len(curve), k > 1, NEW acc \in Peaks,
         FallUpTo(curve, k - 1, acc)
  PROVE  FallUpTo(curve, k, Peaked(acc, curve[k]))
<1>1. \A i \in 1..k : curve[i] \in Int
  BY DEF CurveValues
<1>2. acc.peak \in Int /\ acc.fall \in Int
  BY DEF Peaks
<1>3. acc.peak > 0
  <2>1. curve[1] = InitialCash /\ 1 \in 1..(k - 1)
    BY DEF CurveValues
  <2>2. curve[1] <= acc.peak
    BY <2>1 DEF FallUpTo
  <2>3. QED
    BY <1>2, <2>1, <2>2, BacktestAssumption
<1> DEFINE e == curve[k]
           peak == IF e > acc.peak THEN e ELSE acc.peak
           fall == IF e - peak < acc.fall THEN e - peak ELSE acc.fall
<1>4. Peaked(acc, e) = [peak |-> peak, fall |-> fall] /\ peak \in Int /\ fall \in Int
  <2>1. e \in Int /\ peak \in Int /\ peak > 0
    BY <1>1, <1>2, <1>3
  <2>2. fall \in Int
    <3> HIDE DEF peak
    <3>1. QED
      BY <1>2, <2>1
  <2>3. QED
    BY <2>1, <2>2 DEF Peaked
<1>5. /\ e \in Int /\ peak >= e /\ peak >= acc.peak /\ (peak = e \/ peak = acc.peak)
      /\ fall <= e - peak /\ fall <= acc.fall /\ (fall = e - peak \/ fall = acc.fall)
  <2>1. e \in Int /\ peak >= e /\ peak >= acc.peak /\ (peak = e \/ peak = acc.peak) /\ peak \in Int
    BY <1>1, <1>2
  <2>2. fall <= e - peak /\ fall <= acc.fall /\ (fall = e - peak \/ fall = acc.fall)
    <3> HIDE DEF peak
    <3>1. QED
      BY <1>2, <2>1
  <2>3. QED
    BY <2>1, <2>2
<1> HIDE DEF peak, fall
<1>6. ASSUME NEW i \in 1..k PROVE curve[i] <= peak
  <2>1. CASE i = k
    BY <1>5, <2>1
  <2>2. CASE i # k
    <3>1. i \in 1..(k - 1)
      BY <2>2
    <3>2. curve[i] <= acc.peak
      BY <3>1 DEF FallUpTo
    <3>3. QED
      BY <1>1, <1>2, <1>4, <1>5, <3>2
  <2>3. QED
    BY <2>1, <2>2
<1>7. PICK m \in 1..k : curve[m] = peak
  <2>1. PICK i \in 1..(k - 1) : curve[i] = acc.peak
    BY DEF FallUpTo
  <2>2. i \in 1..k /\ k \in 1..k
    OBVIOUS
  <2>3. QED
    BY <1>5, <2>1, <2>2
<1>8. ASSUME NEW i \in 1..k, NEW j \in 1..k, i <= j PROVE curve[j] - curve[i] >= fall
  <2>1. CASE j = k
    <3>1. curve[i] <= peak /\ curve[j] = e /\ curve[i] \in Int
      BY <1>1, <1>6, <2>1
    <3>2. QED
      BY <1>4, <1>5, <3>1
  <2>2. CASE j # k
    <3>1. i \in 1..(k - 1) /\ j \in 1..(k - 1)
      BY <1>8, <2>2
    <3>2. curve[j] - curve[i] >= acc.fall
      BY <1>8, <3>1 DEF FallUpTo
    <3>3. curve[j] - curve[i] \in Int
      BY <1>1
    <3>4. QED
      BY <1>2, <1>4, <1>5, <3>2, <3>3
  <2>3. QED
    BY <2>1, <2>2
<1>9. \E i, j \in 1..k : i <= j /\ curve[j] - curve[i] = fall
  <2>1. CASE fall = e - peak
    <3>1. curve[k] - curve[m] = fall /\ m <= k /\ k \in 1..k
      BY <1>7, <2>1
    <3>2. QED
      BY <3>1
  <2>2. CASE fall = acc.fall
    <3>1. PICK i, j \in 1..(k - 1) : i <= j /\ curve[j] - curve[i] = acc.fall
      BY DEF FallUpTo
    <3>2. i \in 1..k /\ j \in 1..k
      OBVIOUS
    <3>3. QED
      BY <2>2, <3>1, <3>2
  <2>3. QED
    BY <1>5, <2>1, <2>2
<1>10. Peaked(acc, curve[k]).peak = peak /\ Peaked(acc, curve[k]).fall = fall
  BY <1>4
<1>11. QED
  BY <1>6, <1>7, <1>8, <1>9, <1>10 DEF FallUpTo

LEMMA DrawdownIs ==
  ASSUME NEW curve \in CurveValues
  PROVE  /\ \A i, j \in DOMAIN curve : i <= j => curve[j] - curve[i] >= Drawdown(curve)
         /\ \E i, j \in DOMAIN curve : i <= j /\ curve[j] - curve[i] = Drawdown(curve)
<1> DEFINE n == Len(curve)
<1>1. PICK run : /\ run \in [0..n -> Peaks] /\ run[0] = [peak |-> curve[1], fall |-> 0]
                 /\ \A k \in 1..n : run[k] = Peaked(run[k - 1], curve[k])
                 /\ Drawdown(curve) = run[n].fall
  BY DrawdownRuns
<1>2. n \in Nat /\ n > 0 /\ DOMAIN curve = 1..n /\ curve[1] \in Int
  BY DEF CurveValues
<1> DEFINE N == {k \in Nat : k + 1 \in 1..n => FallUpTo(curve, k + 1, run[k + 1])}
<1>3. 0 \in N
  <2>1. run[1] = Peaked(run[0], curve[1])
    <3>1. 1 \in 1..n /\ 1 - 1 = 0
      BY <1>2
    <3>2. QED
      BY <1>1, <3>1
  <2>2. run[1].peak = curve[1] /\ run[1].fall = 0
    BY <1>1, <1>2, <2>1 DEF Peaked
  <2>3. \A i \in 1..1 : i = 1
    OBVIOUS
  <2>4. 1 \in 1..1 /\ curve[1] - curve[1] = 0 /\ curve[1] <= curve[1]
    BY <1>2
  <2>5. FallUpTo(curve, 1, run[1])
    BY <2>2, <2>3, <2>4 DEF FallUpTo
  <2>6. QED
    BY <2>5
<1>4. ASSUME NEW m \in Nat, m \in N PROVE m + 1 \in N
  <2> DEFINE k == (m + 1) + 1
  <2>1. SUFFICES ASSUME k \in 1..n PROVE FallUpTo(curve, k, run[k])
    OBVIOUS
  <2>2. m + 1 \in 1..n /\ k - 1 = m + 1 /\ k > 1
    BY <2>1
  <2>3. FallUpTo(curve, k - 1, run[k - 1])
    BY <1>4, <2>2
  <2>4. run[k - 1] \in Peaks /\ run[k] = Peaked(run[k - 1], curve[k])
    <3>1. m + 1 \in 0..n
      BY <2>2
    <3>2. QED
      BY <1>1, <2>1, <2>2, <3>1
  <2> HIDE DEF k
  <2>5. QED
    BY <2>1, <2>2, <2>3, <2>4, FallStep
<1>5. \A k \in Nat : k \in N
  <2> HIDE DEF N
  <2>1. \A k \in Nat : k \in N => k + 1 \in N
    BY <1>4
  <2>2. QED
    BY <1>3, <2>1, NumbersByStep
<1>6. FallUpTo(curve, n, run[n])
  <2>1. n - 1 \in Nat /\ (n - 1) + 1 = n /\ n \in 1..n
    BY <1>2
  <2>2. n - 1 \in N
    <3> HIDE DEF N
    <3>1. QED
      BY <1>5, <2>1
  <2>3. (n - 1) + 1 \in 1..n
    BY <2>1
  <2>4. FallUpTo(curve, (n - 1) + 1, run[(n - 1) + 1])
    BY <2>2, <2>3
  <2>5. QED
    BY <2>1, <2>4
<1>7. QED
  BY <1>1, <1>2, <1>6 DEF FallUpTo

(* calculateStreaks, one trade at a time.                                  *)
Tallies == [win : Nat, loss : Nat, maxWin : Nat, maxLoss : Nat]
Tallied(a, x) ==
  IF x > 0 THEN [a EXCEPT !.win = @ + 1, !.loss = 0, !.maxWin = Max({@, a.win + 1})]
  ELSE IF x < 0 THEN [a EXCEPT !.loss = @ + 1, !.win = 0, !.maxLoss = Max({@, a.loss + 1})]
  ELSE a

LEMMA LargerOf ==
  ASSUME NEW x \in Nat, NEW y \in Nat
  PROVE  Max({x, y}) \in Nat /\ Max({x, y}) = IF x >= y THEN x ELSE y
<1>1. \E a \in {x, y} : \A b \in {x, y} : a >= b
  OBVIOUS
<1>2. Max({x, y}) \in {x, y} /\ \A b \in {x, y} : Max({x, y}) >= b
  BY <1>1 DEF Max
<1>3. QED
  BY <1>2

LEMMA TalliesWith ==
  ASSUME NEW a \in Tallies, NEW w \in Nat, NEW l \in Nat, NEW m \in Nat
  PROVE  /\ [a EXCEPT !.win = w, !.loss = l, !.maxWin = m] \in Tallies
         /\ [a EXCEPT !.loss = l, !.win = w, !.maxLoss = m] \in Tallies
  BY DEF Tallies

LEMMA TalliedIn ==
  ASSUME NEW a \in Tallies, NEW x \in Int
  PROVE  Tallied(a, x) \in Tallies
<1>1. a.win \in Nat /\ a.loss \in Nat /\ a.maxWin \in Nat /\ a.maxLoss \in Nat
  BY DEF Tallies
<1>2. PICK mw \in Nat : mw = Max({a.maxWin, a.win + 1})
  BY <1>1, LargerOf
<1>3. PICK ml \in Nat : ml = Max({a.maxLoss, a.loss + 1})
  BY <1>1, LargerOf
<1>4. CASE x > 0
  <2>1. Tallied(a, x) = [a EXCEPT !.win = a.win + 1, !.loss = 0, !.maxWin = mw]
    BY <1>2, <1>4 DEF Tallied
  <2>2. [a EXCEPT !.win = a.win + 1, !.loss = 0, !.maxWin = mw] \in Tallies
    <3>1. PICK w \in Nat : w = a.win + 1
      BY <1>1
    <3>2. [a EXCEPT !.win = w, !.loss = 0, !.maxWin = mw] \in Tallies
      BY TalliesWith
    <3>3. QED
      BY <3>1, <3>2, Zenon
  <2>3. QED
    BY <2>1, <2>2, Zenon
<1>5. CASE x < 0
  <2>1. Tallied(a, x) = [a EXCEPT !.loss = a.loss + 1, !.win = 0, !.maxLoss = ml]
    BY <1>3, <1>5 DEF Tallied
  <2>2. [a EXCEPT !.loss = a.loss + 1, !.win = 0, !.maxLoss = ml] \in Tallies
    <3>1. PICK l \in Nat : l = a.loss + 1
      BY <1>1
    <3>2. [a EXCEPT !.loss = l, !.win = 0, !.maxLoss = ml] \in Tallies
      BY TalliesWith
    <3>3. QED
      BY <3>1, <3>2, Zenon
  <2>3. QED
    BY <2>1, <2>2, Zenon
<1>6. CASE x = 0
  BY <1>6 DEF Tallied
<1>7. QED
  BY <1>4, <1>5, <1>6

LEMMA StreakRuns ==
  ASSUME NEW pnls \in Seq(Int)
  PROVE  \E run : /\ run \in [0..Len(pnls) -> Tallies] /\ run[0] = [win |-> 0, loss |-> 0, maxWin |-> 0, maxLoss |-> 0]
                  /\ \A k \in 1..Len(pnls) : run[k] = Tallied(run[k - 1], pnls[k])
                  /\ Streaks(pnls) = run[Len(pnls)]
<1> DEFINE n == Len(pnls)
           base == [win |-> 0, loss |-> 0, maxWin |-> 0, maxLoss |-> 0]
           step == [p \in Tallies \X (1..n) |-> Tallied(p[1], pnls[p[2]])]
           g == CHOOSE g : g = [s \in SUBSET (DOMAIN pnls) |->
                  IF s = {} THEN base ELSE Tallied(g[s \ {Max(s)}], pnls[Max(s)])]
<1>1. n \in Nat /\ DOMAIN pnls = 1..n /\ \A k \in 1..n : pnls[k] \in Int
  OBVIOUS
<1>2. base \in Tallies
  BY <1>1 DEF Tallies
<1>3. ASSUME NEW c \in Tallies, NEW k \in 1..n
      PROVE  step[<<c, k>>] = Tallied(c, pnls[k]) /\ step[<<c, k>>] \in Tallies
  <2>1. pnls[k] \in Int
    BY <1>1
  <2>2. Tallied(c, pnls[k]) \in Tallies
    BY <2>1, TalliedIn
  <2>3. step[<<c, k>>] = Tallied(c, pnls[k])
    OBVIOUS
  <2>4. QED
    BY <2>2, <2>3
<1>4. step \in [Tallies \X (1..n) -> Tallies]
  <2>1. ASSUME NEW p \in Tallies \X (1..n) PROVE step[p] \in Tallies
    <3>1. p = <<p[1], p[2]>> /\ p[1] \in Tallies /\ p[2] \in 1..n
      OBVIOUS
    <3> HIDE DEF step
    <3>2. step[<<p[1], p[2]>>] \in Tallies
      BY <1>3, <3>1
    <3>3. QED
      BY <3>1, <3>2
  <2>2. QED
    BY <2>1
<1> HIDE DEF step, base, n
<1>5. PICK h \in [SUBSET (1..n) -> Tallies] : IsFold(h, base, step, n)
  BY <1>1, <1>2, <1>4, FoldExists
<1>6. ASSUME NEW s \in SUBSET (1..n)
      PROVE  h[s] = IF s = {} THEN base ELSE Tallied(h[s \ {Max(s)}], pnls[Max(s)])
  <2>1. h[s] = IF s = {} THEN base ELSE step[<<h[s \ {Max(s)}], Max(s)>>]
    BY <1>5 DEF IsFold
  <2>2. CASE s # {}
    <3>1. h[s \ {Max(s)}] \in Tallies
      OBVIOUS
    <3>2. Max(s) \in 1..n
      BY <1>1, <2>2, GreatestOf
    <3>3. QED
      BY <1>3, <2>1, <2>2, <3>1, <3>2
  <2>3. QED
    BY <2>1, <2>2
<1>7. h = [s \in SUBSET (DOMAIN pnls) |->
             IF s = {} THEN base ELSE Tallied(h[s \ {Max(s)}], pnls[Max(s)])]
  BY <1>1, <1>6
<1>8. g = [s \in SUBSET (DOMAIN pnls) |->
             IF s = {} THEN base ELSE Tallied(g[s \ {Max(s)}], pnls[Max(s)])]
  BY <1>7
<1>9. Streaks(pnls) = g[DOMAIN pnls]
  BY Zenon DEF Streaks, FoldLeft, MapThenFoldSet, base, Tallied
<1> HIDE DEF g
<1>10. Retraces(g, Tallies, base, step, n)
  <2>1. g[{}] = base
    BY <1>8
  <2>2. ASSUME NEW s \in SUBSET (1..n), s # {}, g[s \ {Max(s)}] \in Tallies
        PROVE  g[s] = step[<<g[s \ {Max(s)}], Max(s)>>]
    <3>1. g[s] = Tallied(g[s \ {Max(s)}], pnls[Max(s)])
      BY <1>1, <1>8, <2>2
    <3>2. Max(s) \in 1..n
      BY <1>1, <2>2, GreatestOf
    <3>3. QED
      BY <1>3, <2>2, <3>1, <3>2
  <2>3. QED
    BY <2>1, <2>2 DEF Retraces
<1> DEFINE run == Run(g, n)
<1>11. IsRun(run, Tallies, base, step, n)
  BY <1>1, <1>2, <1>4, <1>10, FoldRuns
<1>12. run[n] = g[DOMAIN pnls]
  BY <1>1 DEF Run
<1> HIDE DEF run
<1>13. \A k \in 1..n : run[k] = Tallied(run[k - 1], pnls[k])
  <2>1. \A k \in 1..n : k - 1 \in 0..n /\ run[k - 1] \in Tallies
    BY <1>1, <1>11 DEF IsRun
  <2>2. \A k \in 1..n : run[k] = step[<<run[k - 1], k>>]
    BY <1>11 DEF IsRun
  <2>3. QED
    BY <1>3, <2>1, <2>2
<1>14. run \in [0..n -> Tallies] /\ run[0] = base
  BY <1>11 DEF IsRun
<1>15. Streaks(pnls) = run[n]
  BY <1>9, <1>12
<1>16. QED
  BY <1>13, <1>14, <1>15 DEF n, base

(* The most wins of a run of trades without a loss.                        *)
Wins(pnls, lo, hi) == Cardinality({j \in lo..hi : pnls[j] > 0})
Lossless(pnls, lo, hi) == \A j \in lo..hi : pnls[j] >= 0

LEMMA WinsAre ==
  ASSUME NEW pnls \in Seq(Int), NEW lo \in Nat, NEW hi \in Nat
  PROVE  /\ Wins(pnls, lo, hi) \in Nat
         /\ lo > hi => Wins(pnls, lo, hi) = 0
         /\ \A m \in Nat : m <= lo => Wins(pnls, lo, hi) <= Wins(pnls, m, hi)
         /\ lo <= hi + 1 =>
              Wins(pnls, lo, hi + 1) = Wins(pnls, lo, hi) + IF pnls[hi + 1] > 0 THEN 1 ELSE 0
<1> DEFINE W(m, k) == {j \in m..k : pnls[j] > 0}
<1>1. ASSUME NEW m \in Nat, NEW k \in Nat
      PROVE  IsFiniteSet(W(m, k)) /\ Cardinality(W(m, k)) \in Nat
  <2>1. IsFiniteSet(m..k) /\ W(m, k) \in SUBSET (m..k)
    BY FS_Interval
  <2> HIDE DEF W
  <2>2. IsFiniteSet(W(m, k))
    BY <2>1, FS_Subset
  <2>3. QED
    BY <2>2, FS_CardinalityType
<1>2. lo > hi => Cardinality(W(lo, hi)) = 0
  <2>1. lo > hi => W(lo, hi) = {}
    OBVIOUS
  <2>2. QED
    BY <2>1, FS_EmptySet
<1>3. ASSUME NEW m \in Nat, m <= lo PROVE Cardinality(W(lo, hi)) <= Cardinality(W(m, hi))
  <2>1. W(lo, hi) \in SUBSET W(m, hi)
    BY <1>3
  <2>2. IsFiniteSet(W(m, hi))
    BY <1>1
  <2> HIDE DEF W
  <2>3. QED
    BY <2>1, <2>2, FS_Subset
<1>4. ASSUME lo <= hi + 1
      PROVE  Cardinality(W(lo, hi + 1)) = Cardinality(W(lo, hi)) + IF pnls[hi + 1] > 0 THEN 1 ELSE 0
  <2>1. lo..(hi + 1) = (lo..hi) \cup {hi + 1} /\ hi + 1 \notin lo..hi
    BY <1>4
  <2>2. CASE pnls[hi + 1] > 0
    <3>1. W(lo, hi + 1) = W(lo, hi) \cup {hi + 1} /\ hi + 1 \notin W(lo, hi)
      BY <2>1, <2>2
    <3>2. IsFiniteSet(W(lo, hi))
      BY <1>1
    <3> HIDE DEF W
    <3>3. Cardinality(W(lo, hi) \cup {hi + 1}) = Cardinality(W(lo, hi)) + 1
      BY <3>1, <3>2, FS_AddElement
    <3>4. QED
      BY <2>2, <3>1, <3>3
  <2>3. CASE ~(pnls[hi + 1] > 0)
    <3>1. W(lo, hi + 1) = W(lo, hi)
      BY <2>1, <2>3
    <3>2. Cardinality(W(lo, hi)) \in Nat
      BY <1>1
    <3> HIDE DEF W
    <3>3. QED
      BY <2>3, <3>1, <3>2
  <2>4. QED
    BY <2>2, <2>3
<1>5. /\ Wins(pnls, lo, hi) = Cardinality(W(lo, hi))
      /\ Wins(pnls, lo, hi + 1) = Cardinality(W(lo, hi + 1))
      /\ \A m \in Nat : Wins(pnls, m, hi) = Cardinality(W(m, hi))
  BY DEF Wins
<1> HIDE DEF W
<1>6. QED
  BY <1>1, <1>2, <1>3, <1>4, <1>5

StreakUpTo(pnls, k, a) ==
  /\ \E m \in 1..(k + 1) : /\ Lossless(pnls, m, k) /\ (m = 1 \/ pnls[m - 1] < 0)
                           /\ a.win = Wins(pnls, m, k)
  /\ \A lo, hi \in 1..k : Lossless(pnls, lo, hi) => Wins(pnls, lo, hi) <= a.maxWin
  /\ \/ a.maxWin = 0
     \/ \E lo, hi \in 1..k : lo <= hi /\ Lossless(pnls, lo, hi) /\ a.maxWin = Wins(pnls, lo, hi)

LEMMA StreakStep ==
  ASSUME NEW pnls \in Seq(Int), NEW k \in Nat, k + 1 \in 1..Len(pnls), NEW a \in Tallies,
         StreakUpTo(pnls, k, a)
  PROVE  StreakUpTo(pnls, k + 1, Tallied(a, pnls[k + 1]))
<1> DEFINE x == pnls[k + 1]
           b == Tallied(a, x)
<1>1. x \in Int /\ \A j \in 1..(k + 1) : pnls[j] \in Int
  OBVIOUS
<1>2. a.win \in Nat /\ a.maxWin \in Nat
  BY DEF Tallies
<1>3. PICK m \in 1..(k + 1) : /\ Lossless(pnls, m, k) /\ (m = 1 \/ pnls[m - 1] < 0)
                              /\ a.win = Wins(pnls, m, k)
  BY DEF StreakUpTo
<1>4. /\ b.win = IF x > 0 THEN a.win + 1 ELSE IF x < 0 THEN 0 ELSE a.win
      /\ b.maxWin = IF x > 0 /\ a.win + 1 > a.maxWin THEN a.win + 1 ELSE a.maxWin
  <2>1. a = [win |-> a.win, loss |-> a.loss, maxWin |-> a.maxWin, maxLoss |-> a.maxLoss]
    BY DEF Tallies
  <2>2. x > 0 => Max({a.maxWin, a.win + 1}) = IF a.win + 1 > a.maxWin THEN a.win + 1 ELSE a.maxWin
    BY <1>2, LargerOf
  <2>3. CASE x > 0
    <3>1. b.win = a.win + 1 /\ b.maxWin = Max({a.maxWin, a.win + 1})
      BY <2>1, <2>3 DEF Tallied, Tallies
    <3>2. QED
      BY <2>2, <2>3, <3>1
  <2>4. CASE x < 0
    <3>1. b.win = 0 /\ b.maxWin = a.maxWin
      BY <1>1, <2>1, <2>4 DEF Tallied, Tallies
    <3>2. QED
      BY <1>1, <2>4, <3>1
  <2>5. CASE x = 0
    BY <2>5 DEF Tallied
  <2>6. QED
    BY <1>1, <2>3, <2>4, <2>5
<1> HIDE DEF b
<1>5. ASSUME NEW lo \in 1..(k + 1)
      PROVE  Lossless(pnls, lo, k + 1) <=> Lossless(pnls, lo, k) /\ x >= 0
  <2>1. lo..(k + 1) = (lo..k) \cup {k + 1}
    OBVIOUS
  <2>2. QED
    BY <2>1 DEF Lossless
<1>6. ASSUME NEW lo \in 1..(k + 1)
      PROVE  Wins(pnls, lo, k + 1) = Wins(pnls, lo, k) + (IF x > 0 THEN 1 ELSE 0)
  BY WinsAre
<1>7. \E mm \in 1..((k + 1) + 1) : /\ Lossless(pnls, mm, k + 1) /\ (mm = 1 \/ pnls[mm - 1] < 0)
                                  /\ b.win = Wins(pnls, mm, k + 1)
  <2>1. CASE x < 0
    <3>1. (k + 1) + 1 \in 1..((k + 1) + 1) /\ ((k + 1) + 1) - 1 = k + 1
      OBVIOUS
    <3>2. Lossless(pnls, (k + 1) + 1, k + 1)
      BY DEF Lossless
    <3>3. Wins(pnls, (k + 1) + 1, k + 1) = 0
      BY WinsAre
    <3>4. b.win = 0
      BY <1>1, <1>4, <2>1
    <3>5. QED
      BY <2>1, <3>1, <3>2, <3>3, <3>4
  <2>2. CASE x >= 0
    <3>1. Lossless(pnls, m, k + 1) /\ m \in 1..((k + 1) + 1)
      BY <1>3, <1>5, <2>2
    <3>2. b.win = Wins(pnls, m, k + 1)
      BY <1>1, <1>2, <1>3, <1>4, <1>6, <2>2
    <3>3. QED
      BY <1>3, <3>1, <3>2
  <2>3. QED
    BY <1>1, <2>1, <2>2
<1>8. ASSUME NEW lo \in 1..(k + 1), NEW hi \in 1..(k + 1), Lossless(pnls, lo, hi)
      PROVE  Wins(pnls, lo, hi) <= b.maxWin
  <2>1. b.maxWin >= a.maxWin /\ b.maxWin \in Nat
    BY <1>2, <1>4
  <2>2. Wins(pnls, lo, hi) \in Nat
    <3>1. lo \in Nat /\ hi \in Nat
      OBVIOUS
    <3>2. QED
      BY <3>1, WinsAre
  <2>3. CASE lo > hi
    <3>1. Wins(pnls, lo, hi) = 0
      BY <2>3, WinsAre
    <3>2. QED
      BY <2>1, <3>1
  <2>4. CASE hi <= k /\ lo <= hi
    <3>1. lo \in 1..k /\ hi \in 1..k
      BY <2>4
    <3>2. Wins(pnls, lo, hi) <= a.maxWin
      BY <1>8, <3>1 DEF StreakUpTo
    <3>3. QED
      BY <1>2, <2>1, <2>2, <3>2
  <2>5. CASE hi = k + 1
    <3>1. Lossless(pnls, lo, k) /\ x >= 0
      BY <1>5, <1>8, <2>5
    <3>2. Wins(pnls, lo, k) \in Nat
      <4>1. lo \in Nat
        OBVIOUS
      <4>2. QED
        BY <4>1, WinsAre
    <3>3. CASE x > 0
      <4>1. m <= lo
        <5>1. SUFFICES ASSUME lo < m PROVE FALSE
          OBVIOUS
        <5>2. m - 1 \in lo..k /\ pnls[m - 1] < 0 /\ m - 1 \in 1..(k + 1)
          BY <1>3, <5>1
        <5>3. pnls[m - 1] >= 0
          BY <3>1, <5>2 DEF Lossless
        <5>4. QED
          BY <1>1, <5>2, <5>3
      <4>2. Wins(pnls, lo, k) <= Wins(pnls, m, k)
        BY <4>1, WinsAre
      <4>3. Wins(pnls, lo, k + 1) = Wins(pnls, lo, k) + 1
        BY <1>6, <3>3
      <4>4. b.maxWin >= a.win + 1
        BY <1>2, <1>4, <3>3
      <4>5. QED
        BY <1>2, <1>3, <2>1, <2>5, <3>2, <4>2, <4>3, <4>4
    <3>4. CASE x = 0
      <4>1. Wins(pnls, lo, k + 1) = Wins(pnls, lo, k)
        BY <1>6, <3>2, <3>4
      <4>2. Wins(pnls, lo, k) <= a.maxWin
        <5>1. CASE lo = k + 1
          <6>1. k + 1 \in Nat /\ k + 1 > k
            OBVIOUS
          <6>2. Wins(pnls, k + 1, k) = 0
            BY <6>1, WinsAre
          <6>3. QED
            BY <1>2, <5>1, <6>2
        <5>2. CASE lo # k + 1
          <6>1. lo \in 1..k /\ k \in 1..k
            BY <5>2
          <6>2. QED
            BY <3>1, <6>1 DEF StreakUpTo
        <5>3. QED
          BY <5>1, <5>2
      <4>3. QED
        BY <1>2, <2>1, <2>5, <3>2, <4>1, <4>2
    <3>5. QED
      BY <1>1, <3>1, <3>3, <3>4
  <2>6. QED
    BY <2>3, <2>4, <2>5
<1>9. \/ b.maxWin = 0
      \/ \E lo, hi \in 1..(k + 1) : /\ lo <= hi /\ Lossless(pnls, lo, hi)
                                    /\ b.maxWin = Wins(pnls, lo, hi)
  <2>1. CASE b.maxWin = a.maxWin
    <3>1. CASE a.maxWin = 0
      BY <2>1, <3>1
    <3>2. CASE a.maxWin # 0
      <4>1. PICK lo, hi \in 1..k : lo <= hi /\ Lossless(pnls, lo, hi) /\ a.maxWin = Wins(pnls, lo, hi)
        BY <3>2 DEF StreakUpTo
      <4>2. lo \in 1..(k + 1) /\ hi \in 1..(k + 1)
        OBVIOUS
      <4>3. QED
        BY <2>1, <4>1, <4>2
    <3>3. QED
      BY <3>1, <3>2
  <2>2. CASE b.maxWin # a.maxWin
    <3>1. x > 0 /\ b.maxWin = a.win + 1
      BY <1>4, <2>2
    <3>2. Lossless(pnls, m, k + 1) /\ m <= k + 1 /\ k + 1 \in 1..(k + 1)
      BY <1>1, <1>3, <1>5, <3>1
    <3>3. b.maxWin = Wins(pnls, m, k + 1)
      BY <1>3, <1>6, <3>1
    <3>4. QED
      BY <3>2, <3>3
  <2>3. QED
    BY <2>1, <2>2
<1>10. QED
  BY <1>7, <1>8, <1>9 DEF StreakUpTo, b

LEMMA StreakIs ==
  ASSUME NEW pnls \in Seq(Int)
  PROVE  Streaks(pnls) \in Tallies /\ StreakUpTo(pnls, Len(pnls), Streaks(pnls))
<1> DEFINE n == Len(pnls)
<1>1. PICK run : /\ run \in [0..n -> Tallies]
                 /\ run[0] = [win |-> 0, loss |-> 0, maxWin |-> 0, maxLoss |-> 0]
                 /\ \A k \in 1..n : run[k] = Tallied(run[k - 1], pnls[k])
                 /\ Streaks(pnls) = run[n]
  BY StreakRuns
<1>2. n \in Nat
  OBVIOUS
<1> DEFINE N == {k \in Nat : k \in 0..n => StreakUpTo(pnls, k, run[k])}
<1>3. 0 \in N
  <2>1. run[0].win = 0 /\ run[0].maxWin = 0
    BY <1>1
  <2>2. Lossless(pnls, 1, 0)
    BY DEF Lossless
  <2>3. Wins(pnls, 1, 0) = 0
    BY WinsAre
  <2>4. 1 \in 1..(0 + 1) /\ 1..0 = {}
    OBVIOUS
  <2>5. StreakUpTo(pnls, 0, run[0])
    BY <2>1, <2>2, <2>3, <2>4 DEF StreakUpTo
  <2>6. QED
    BY <2>5
<1>4. ASSUME NEW k \in Nat, k \in N PROVE k + 1 \in N
  <2>1. SUFFICES ASSUME k + 1 \in 0..n PROVE StreakUpTo(pnls, k + 1, run[k + 1])
    OBVIOUS
  <2>2. k + 1 \in 1..n /\ (k + 1) - 1 = k /\ k \in 0..n
    BY <1>2, <2>1
  <2>3. StreakUpTo(pnls, k, run[k])
    BY <1>4, <2>2
  <2>4. run[k] \in Tallies /\ run[k + 1] = Tallied(run[k], pnls[k + 1])
    BY <1>1, <2>2
  <2>5. QED
    BY <2>2, <2>3, <2>4, StreakStep
<1>5. \A k \in Nat : k \in N
  <2> HIDE DEF N
  <2>1. \A k \in Nat : k \in N => k + 1 \in N
    BY <1>4
  <2>2. QED
    BY <1>3, <2>1, NumbersByStep
<1>6. n \in N /\ n \in 0..n
  <2> HIDE DEF N
  <2>1. QED
    BY <1>2, <1>5
<1>7. StreakUpTo(pnls, n, run[n])
  BY <1>6
<1>8. QED
  BY <1>1, <1>2, <1>7

LEMMA GreatestIs ==
  ASSUME NEW T \in SUBSET Int, NEW m \in T, \A y \in T : y <= m
  PROVE  Max(T) = m
<1>1. \E y \in T : \A z \in T : y >= z
  <2>1. \A z \in T : m >= z
    OBVIOUS
  <2>2. QED
    BY <2>1
<1>2. Max(T) \in T /\ \A z \in T : Max(T) >= z
  BY <1>1 DEF Max
<1>3. PICK g \in T : g = Max(T)
  BY <1>2
<1>4. g \in Int /\ m \in Int /\ g >= m /\ g <= m
  BY <1>2, <1>3
<1>5. QED
  BY <1>3, <1>4

-----------------------------------------------------------------------------
(* The metrics of a sequence of profits.                                   *)

(* MetricsMatchTrades of any profits.                                      *)
Matches(pnls, rep) ==
  LET curve == Curve(pnls)
      spans == {r \in (1..Len(pnls)) \X (1..Len(pnls)) : r[1] <= r[2]}
      winsIn(r) == Cardinality({k \in r[1]..r[2] : pnls[k] > 0})
  IN  /\ \A i, j \in DOMAIN curve : i <= j => curve[j] - curve[i] >= rep.drawdown
      /\ \E i, j \in DOMAIN curve : i <= j /\ curve[j] - curve[i] = rep.drawdown
      /\ rep.winStreak =
           Max({0} \cup {winsIn(r) : r \in {q \in spans : \A k \in q[1]..q[2] : pnls[k] >= 0}})

LEMMA MetricsMatch ==
  ASSUME NEW pnls \in Seq(Int)
  PROVE  Matches(pnls, Metrics(pnls))
<1> DEFINE curve == Curve(pnls)
           n == Len(pnls)
           rep == Metrics(pnls)
           spans == {r \in (1..n) \X (1..n) : r[1] <= r[2]}
           T == {0} \cup {Wins(pnls, r[1], r[2]) : r \in {q \in spans : Lossless(pnls, q[1], q[2])}}
<1>1. curve \in CurveValues /\ (pnls = <<>> => curve = <<InitialCash>>)
  BY CurveIs
<1>2. /\ rep.drawdown = IF pnls = <<>> THEN 0 ELSE Drawdown(curve)
      /\ rep.winStreak = Streaks(pnls).maxWin
  BY DEF Metrics
<1>3. /\ \A i, j \in DOMAIN curve : i <= j => curve[j] - curve[i] >= rep.drawdown
      /\ \E i, j \in DOMAIN curve : i <= j /\ curve[j] - curve[i] = rep.drawdown
  <2>1. CASE pnls # <<>>
    <3>1. rep.drawdown = Drawdown(curve)
      BY <1>2, <2>1
    <3> HIDE DEF curve, rep
    <3>2. QED
      BY <1>1, <3>1, DrawdownIs
  <2>2. CASE pnls = <<>>
    <3>1. rep.drawdown = 0 /\ curve = <<InitialCash>> /\ InitialCash \in Int
      BY <1>1, <1>2, <2>2, BacktestAssumption
    <3> HIDE DEF curve, rep
    <3>2. DOMAIN curve = {1} /\ curve[1] - curve[1] = 0
      BY <3>1
    <3>3. QED
      BY <3>1, <3>2
  <2>3. QED
    BY <2>1, <2>2
<1>4. Streaks(pnls).maxWin \in Nat /\ StreakUpTo(pnls, n, Streaks(pnls)) /\ n \in Nat
  BY StreakIs DEF Tallies
<1>5. T \in SUBSET Int
  <2>1. \A r \in spans : Wins(pnls, r[1], r[2]) \in Int
    BY WinsAre
  <2> HIDE DEF spans
  <2>2. QED
    BY <2>1
<1>6. Streaks(pnls).maxWin \in T
  <2>1. CASE Streaks(pnls).maxWin = 0
    BY <2>1
  <2>2. CASE Streaks(pnls).maxWin # 0
    <3>1. PICK lo, hi \in 1..n : /\ lo <= hi /\ Lossless(pnls, lo, hi)
                                 /\ Streaks(pnls).maxWin = Wins(pnls, lo, hi)
      BY <1>4, <2>2 DEF StreakUpTo
    <3>2. <<lo, hi>> \in {q \in spans : Lossless(pnls, q[1], q[2])}
      BY <3>1
    <3>3. Wins(pnls, <<lo, hi>>[1], <<lo, hi>>[2]) \in T
      BY <3>2
    <3>4. QED
      BY <3>1, <3>3
  <2>3. QED
    BY <2>1, <2>2
<1>7. \A y \in T : y <= Streaks(pnls).maxWin
  <2>1. ASSUME NEW r \in spans, Lossless(pnls, r[1], r[2])
        PROVE  Wins(pnls, r[1], r[2]) <= Streaks(pnls).maxWin
    <3>1. r[1] \in 1..n /\ r[2] \in 1..n
      OBVIOUS
    <3>2. QED
      BY <1>4, <2>1, <3>1 DEF StreakUpTo
  <2> HIDE DEF spans
  <2>2. QED
    BY <1>4, <2>1
<1>8. Max(T) = rep.winStreak
  <2> HIDE DEF T, rep
  <2>1. QED
    BY <1>2, <1>5, <1>6, <1>7, GreatestIs
<1>9. T = {0} \cup {Cardinality({k \in r[1]..r[2] : pnls[k] > 0}) :
                     r \in {q \in spans : \A k \in q[1]..q[2] : pnls[k] >= 0}}
  BY DEF Wins, Lossless
<1> HIDE DEF T, rep
<1>10. rep.winStreak = Max({0} \cup {Cardinality({k \in r[1]..r[2] : pnls[k] > 0}) :
                     r \in {q \in spans : \A k \in q[1]..q[2] : pnls[k] >= 0}})
  BY <1>8, <1>9
<1>11. Matches(pnls, rep)
  BY <1>3, <1>10, Zenon DEF Matches, curve, spans, n
<1>12. QED
  BY <1>11 DEF rep

(* What the program reports at the end is of the trades it recorded.       *)
ReportInv == Finished => report = Metrics(trades)

LEMMA ReportStep ==
  BacktestInv /\ ReportInv /\ [BacktestNext]_backtestVars => ReportInv'
<1> SUFFICES ASSUME BacktestInv, ReportInv, [BacktestNext]_backtestVars PROVE ReportInv'
  OBVIOUS
<1>1. BacktestDays \in Nat /\ backday \in 0..(BacktestDays + 1)
  BY BacktestAssumption DEF BacktestInv, BacktestTypes
<1>2. ASSUME NEW b \in DayBars, ProcessDay(b) PROVE ReportInv'
  BY <1>1, <1>2 DEF ProcessDay, ReportInv, Finished
<1>3. ASSUME NEW s \in Tradables, NEW o \in Orders, Buy(s, o) PROVE ReportInv'
  BY <1>3 DEF Buy, ReportInv, Finished
<1>4. CASE Settle
  BY <1>4 DEF Settle, ReportInv, Finished
<1>5. CASE Finish
  BY <1>5 DEF Finish, ReportInv
<1>6. CASE UNCHANGED backtestVars
  BY <1>6 DEF backtestVars, ReportInv, Finished
<1>7. QED
  BY <1>2, <1>3, <1>4, <1>5, <1>6 DEF BacktestNext

(* The report a backtest ends with holds of its trades: the drawdown is    *)
(* the worst fall of the equity curve and the win streak the most wins     *)
(* between two losses, however many trades there are (metrics.go).         *)
THEOREM MetricsAgree == BacktestSpec => []MetricsMatchTrades
<1>1. BacktestInit => ReportInv
  BY BacktestAssumption DEF BacktestInit, ReportInv, Finished
<1>2. BacktestInv /\ ReportInv => MetricsMatchTrades
  <2> SUFFICES ASSUME BacktestInv, ReportInv, Finished PROVE Matches(trades, report)
    BY Zenon DEF MetricsMatchTrades, Matches
  <2>1. trades \in Seq(Int) /\ report = Metrics(trades)
    BY DEF BacktestInv, BacktestTypes, ReportInv
  <2>2. Matches(trades, Metrics(trades))
    BY <2>1, MetricsMatch
  <2>3. QED
    BY <2>1, <2>2
<1>3. QED
  BY <1>1, <1>2, InitBalanced, BacktestStep, ReportStep, PTL DEF BacktestSpec

-----------------------------------------------------------------------------
(* Fills, fees and the counts of the report.                               *)

LEMMA SumNotNegative ==
  ASSUME NEW S, IsFiniteSet(S), NEW f, \A x \in S : f[x] \in Nat
  PROVE  SumFunctionOnSet(f, S) \in Nat
<1> DEFINE G == {s \in SUBSET S : SumFunctionOnSet(f, s) \in Nat}
<1>1. \A x \in S : f[x] \in Int
  OBVIOUS
<1>2. {} \in G
  BY <1>1, SumRules
<1>3. \A s \in SUBSET S : \A x \in S \ s : s \in G => s \cup {x} \in G
  <2>1. SUFFICES ASSUME NEW s \in SUBSET S, NEW x \in S \ s, SumFunctionOnSet(f, s) \in Nat
                 PROVE  SumFunctionOnSet(f, s \cup {x}) \in Nat
    OBVIOUS
  <2>2. SumFunctionOnSet(f, s \cup {x}) = f[x] + SumFunctionOnSet(f, s) /\ f[x] \in Nat
    BY <1>1, SumRules
  <2>3. QED
    BY <2>1, <2>2
<1>4. \A s \in SUBSET S : s \in G
  <2> HIDE DEF G
  <2>1. QED
    BY <1>2, <1>3, SubsetsByElement
<1>5. QED
  BY <1>4

(* What is bought costs at least its price: every fill is positive, every  *)
(* commission is not negative, and so nothing unreported is.               *)
Paid(p) == p.entry > 0 /\ p.shares >= 0 /\ p.cost >= p.entry * p.shares

BacktestBounds ==
  /\ DOMAIN open \subseteq Tradables /\ \A s \in DOMAIN open : Paid(open[s])
  /\ unreported >= 0
  /\ backday > 0 => daybar.low > 0 /\ daybar.open >= daybar.low
  /\ ~Finished => report = NoReport

LEMMA PaidCost ==
  ASSUME NEW p \in OpenPosition, Paid(p)
  PROVE  p.cost \in Nat /\ p.cost - p.entry * p.shares \in Nat
<1>1. PICK e, n, c \in Int : e = p.entry /\ n = p.shares /\ c = p.cost
  BY DEF OpenPosition
<1>2. e \in Nat /\ n \in Nat /\ c >= e * n
  BY <1>1 DEF Paid
<1>3. e * n \in Nat
  BY <1>2
<1> DEFINE x == e * n
<1>4. c \in Nat /\ c - x \in Nat
  <2> HIDE DEF x
  <2>1. x \in Nat /\ c >= x
    BY <1>2, <1>3 DEF x
  <2>2. QED
    BY <1>1, <2>1
<1>5. QED
  BY <1>1, <1>4

(* A fill is at least the low of the day's bar.                            *)
LEMMA FillPositive ==
  ASSUME BacktestTypes, daybar.low > 0, daybar.open >= daybar.low,
         NEW order \in Orders, Fills(order)
  PROVE  FillPrice(order) > 0
<1> DEFINE best == IF daybar.open < order.limit THEN daybar.open ELSE order.limit
           slipped == (best * (1000 + Slippage)) \div 1000
<1>1. order.limit \in Nat /\ Slippage \in Nat
  BY BacktestAssumption
<1>2. daybar.open \in Int /\ daybar.low \in Int /\ order.limit >= daybar.low
  BY DEF BacktestTypes, Fills
<1>3. best \in Nat /\ best > 0 /\ order.limit > 0
  BY <1>1, <1>2
<1>4. slipped >= best /\ slipped \in Int
  <2> HIDE DEF best
  <2>1. PICK b, s \in Nat : b = best /\ s = Slippage
    BY <1>1, <1>3
  <2>2. b * (1000 + s) = 1000 * b + b * s /\ b * s \in Nat
    BY ONLY b \in Nat, s \in Nat, SMT
  <2>3. PICK m \in Nat : m = b * s
    BY <2>2
  <2>4. (1000 * b + m) \div 1000 >= b /\ (1000 * b + m) \div 1000 \in Int
    OBVIOUS
  <2>5. QED
    BY <2>1, <2>2, <2>3, <2>4
<1>5. FillPrice(order) = IF slipped > order.limit THEN order.limit ELSE slipped
  BY DEF FillPrice
<1> HIDE DEF best, slipped
<1>6. QED
  BY <1>1, <1>3, <1>4, <1>5

LEMMA FeeNotNegative ==
  ASSUME NEW price \in Nat, NEW shares \in Nat
  PROVE  Fee(price, shares) \in Nat
<1>1. price * shares \in Nat /\ Commission \in Nat
  BY BacktestAssumption
<1>2. PICK k, c \in Nat : k = price * shares /\ c = Commission
  BY <1>1
<1>3. k * c \in Nat
  OBVIOUS
<1>4. PICK x \in Nat : x = k * c
  BY <1>3
<1>5. x \div 1000 \in Nat
  OBVIOUS
<1>6. QED
  BY <1>2, <1>4, <1>5 DEF Fee

LEMMA BuyBounds ==
  ASSUME BacktestInv, BacktestBounds, NEW symbol \in Tradables, NEW order \in Orders,
         Buy(symbol, order)
  PROVE  BacktestBounds'
<1> USE DEF BacktestInv
<1> DEFINE price == FillPrice(order)
           cost == price * order.shares + Fee(price, order.shares)
           bought == [entry |-> price, shares |-> order.shares, cost |-> cost,
                      stop |-> order.stop, targets |-> order.targets]
           replaced == IF symbol \in DOMAIN open THEN open[symbol].cost ELSE 0
<1>1. /\ open' = [s \in DOMAIN open \cup {symbol} |-> IF s = symbol THEN bought ELSE open[s]]
      /\ unreported' = unreported + replaced
      /\ UNCHANGED <<backday, daybar, report>> /\ backday > 1 /\ Fills(order)
  BY DEF Buy
<1>2. price \in Nat /\ price > 0 /\ order.shares \in Nat
  <2>1. price \in Int /\ order.shares \in Nat
    BY FillPriceInt, BacktestAssumption
  <2>2. backday > 0
    BY <1>1 DEF BacktestTypes
  <2>3. daybar.low > 0 /\ daybar.open >= daybar.low
    BY <2>2 DEF BacktestBounds
  <2>4. price > 0
    BY <1>1, <2>3, FillPositive
  <2> HIDE DEF price
  <2>5. QED
    BY <2>1, <2>4
<1> HIDE DEF price
<1>3. cost >= price * order.shares
  <2>1. PICK x, n \in Nat : x = price /\ n = order.shares
    BY <1>2
  <2>5. x * n \in Nat
    OBVIOUS
  <2>6. Fee(x, n) \in Nat
    BY FeeNotNegative
  <2>2. PICK k, f \in Nat : k = x * n /\ f = Fee(x, n)
    BY <2>5, <2>6
  <2>3. k + f >= k
    OBVIOUS
  <2>4. QED
    BY <2>1, <2>2, <2>3
<1> HIDE DEF cost
<1>4. Paid(bought)
  BY <1>2, <1>3 DEF Paid
<1> HIDE DEF bought
<1>5. DOMAIN open' \subseteq Tradables /\ \A s \in DOMAIN open' : Paid(open'[s])
  BY <1>1, <1>4 DEF BacktestBounds
<1>6. replaced \in Nat
  <2>1. ASSUME symbol \in DOMAIN open PROVE open[symbol] \in OpenPosition /\ Paid(open[symbol])
    BY <2>1 DEF BacktestTypes, BacktestBounds
  <2>2. QED
    BY <2>1, PaidCost
<1>7. unreported' >= 0
  <2> HIDE DEF replaced
  <2>1. QED
    BY <1>1, <1>6 DEF BacktestBounds, BacktestTypes
<1>8. QED
  BY <1>1, <1>5, <1>7 DEF BacktestBounds, Finished, Paid

LEMMA ClosingBounds ==
  ASSUME BacktestTypes, BacktestBounds, NEW closed \in Seq(DOMAIN open), NEW price, NEW day,
         ClosePositions(closed, price, day)
  PROVE  /\ DOMAIN open' \subseteq Tradables /\ \A s \in DOMAIN open' : Paid(open'[s])
         /\ unreported' >= 0
<1> DEFINE S == Range(closed)
           f == [s \in S |-> open[s].cost - open[s].entry * open[s].shares]
<1>1. S \in SUBSET (DOMAIN open)
  BY DEF Range
<1>2. IsFiniteSet(S)
  <2> HIDE DEF S
  <2>1. QED
    BY <1>1, FS_Subset DEF BacktestTypes
<1>3. \A s \in S : f[s] \in Nat
  <2>1. ASSUME NEW s \in S PROVE open[s].cost - open[s].entry * open[s].shares \in Nat
    <3>1. open[s] \in OpenPosition /\ Paid(open[s])
      BY <1>1 DEF BacktestTypes, BacktestBounds
    <3>2. QED
      BY <3>1, PaidCost
  <2>2. QED
    BY <2>1
<1>4. open' = [s \in DOMAIN open \ S |-> open[s]] /\ unreported' = unreported + SumFunction(f)
  BY DEF ClosePositions
<1>5. SumFunction(f) \in Nat
  <2>1. DOMAIN f = S
    OBVIOUS
  <2> HIDE DEF f, S
  <2>2. SumFunctionOnSet(f, S) \in Nat
    BY <1>2, <1>3, SumNotNegative
  <2>3. QED
    BY <2>1, <2>2 DEF SumFunction
<1> HIDE DEF f, S
<1>6. unreported' >= 0
  BY <1>4, <1>5 DEF BacktestTypes, BacktestBounds
<1>7. QED
  BY <1>4, <1>6 DEF BacktestBounds

LEMMA BacktestBoundsStep ==
  ASSUME BacktestInv, BacktestBounds, [BacktestNext]_backtestVars PROVE BacktestBounds'
<1> USE DEF BacktestInv
<1>0. BacktestDays \in Nat /\ backday \in 0..(BacktestDays + 1)
  BY BacktestAssumption DEF BacktestTypes
<1>1. ASSUME NEW b \in DayBars, ProcessDay(b) PROVE BacktestBounds'
  <2>1. b.low > 0 /\ b.open >= b.low
    <3>1. b \in [open : Nat, high : Nat, low : Nat, close : Nat] /\ ValidBar(b)
      BY BacktestAssumption
    <3>2. QED
      BY <3>1 DEF ValidBar
  <2>2. daybar' = b /\ ~Finished /\ report' = report
    BY <1>1 DEF ProcessDay
  <2>3. /\ DOMAIN open' \subseteq Tradables /\ \A s \in DOMAIN open' : Paid(open'[s])
        /\ unreported' >= 0
    <3>1. CASE UNCHANGED <<open, trades, pending, unreported>>
      BY <3>1 DEF BacktestBounds
    <3>2. ASSUME "VCB" \in DOMAIN open, NEW price, ClosePositions(<<"VCB">>, price, backday + 1)
          PROVE  /\ DOMAIN open' \subseteq Tradables /\ \A s \in DOMAIN open' : Paid(open'[s])
                 /\ unreported' >= 0
      <4> DEFINE closed == <<"VCB">>
      <4>1. closed \in Seq(DOMAIN open)
        BY <3>2
      <4> HIDE DEF closed
      <4>2. ClosePositions(closed, price, backday + 1)
        BY <3>2 DEF closed
      <4>3. QED
        BY <4>1, <4>2, ClosingBounds
    <3>3. QED
      BY <1>1, <3>1, <3>2 DEF ProcessDay
  <2>4. report' = NoReport
    BY <2>2 DEF BacktestBounds
  <2>5. QED
    BY <2>1, <2>2, <2>3, <2>4 DEF BacktestBounds, Paid
<1>2. ASSUME NEW s \in Tradables, NEW o \in Orders, Buy(s, o) PROVE BacktestBounds'
  BY <1>2, BuyBounds
<1>3. CASE Settle
  BY <1>3 DEF Settle, BacktestBounds, Finished, Paid
<1>4. CASE Finish
  <2>1. PICK closed \in SetToSeqs(DOMAIN open) : ClosePositions(closed, daybar.close, backday)
    BY <1>4 DEF Finish
  <2>2. closed \in Seq(DOMAIN open)
    <3>1. Cardinality(DOMAIN open) \in Nat
      BY FS_CardinalityType DEF BacktestTypes
    <3>2. closed \in [1..Cardinality(DOMAIN open) -> DOMAIN open]
      BY <2>1 DEF SetToSeqs
    <3>3. QED
      BY <3>1, <3>2
  <2>3. /\ DOMAIN open' \subseteq Tradables /\ \A s \in DOMAIN open' : Paid(open'[s])
        /\ unreported' >= 0
    BY <2>1, <2>2, ClosingBounds
  <2>4. backday > 0 /\ daybar' = daybar /\ Finished'
    BY <1>0, <1>4, BacktestAssumption DEF Finish, Finished
  <2>5. QED
    BY <2>3, <2>4 DEF BacktestBounds, Paid
<1>5. CASE UNCHANGED backtestVars
  BY <1>5 DEF backtestVars, BacktestBounds, Finished, Paid
<1>6. QED
  BY <1>1, <1>2, <1>3, <1>4, <1>5 DEF BacktestNext

(* Wins and losses are different trades.                                   *)
LEMMA WinsAndLosses ==
  ASSUME NEW pnls \in Seq(Int)
  PROVE  Metrics(pnls).wins + Metrics(pnls).losses <= Len(pnls)
<1> DEFINE won == {i \in DOMAIN pnls : pnls[i] > 0}
           lost == {i \in DOMAIN pnls : pnls[i] < 0}
<1>1. Metrics(pnls).wins = Cardinality(won) /\ Metrics(pnls).losses = Cardinality(lost)
  BY DEF Metrics
<1>2. Len(pnls) \in Nat /\ DOMAIN pnls = 1..Len(pnls) /\ \A i \in 1..Len(pnls) : pnls[i] \in Int
  OBVIOUS
<1>3. IsFiniteSet(1..Len(pnls)) /\ Cardinality(1..Len(pnls)) = Len(pnls)
  <2>1. PICK n \in Nat : n = Len(pnls)
    BY <1>2
  <2>2. 1 \in Int /\ n \in Int
    OBVIOUS
  <2>3. IsFiniteSet(1..n) /\ Cardinality(1..n) = IF 1 > n THEN 0 ELSE n - 1 + 1
    BY <2>2, FS_Interval
  <2>4. QED
    BY <2>1, <2>3
<1>4. won \subseteq 1..Len(pnls) /\ lost \subseteq 1..Len(pnls) /\ won \cap lost = {}
  BY <1>2
<1> HIDE DEF won, lost
<1>5. IsFiniteSet(won) /\ IsFiniteSet(lost) /\ IsFiniteSet(won \cup lost)
      /\ Cardinality(won) \in Nat /\ Cardinality(lost) \in Nat
  BY <1>3, <1>4, FS_Subset, FS_Union, FS_CardinalityType
<1>6. Cardinality(won \cup lost) = Cardinality(won) + Cardinality(lost)
  <2>1. Cardinality(won \cup lost)
          = Cardinality(won) + Cardinality(lost) - Cardinality(won \cap lost)
    BY <1>5, FS_Union
  <2>2. Cardinality(won \cap lost) = 0
    BY <1>4, FS_EmptySet
  <2>3. QED
    BY <1>5, <2>1, <2>2
<1>7. Cardinality(won \cup lost) <= Cardinality(1..Len(pnls))
  <2>1. won \cup lost \in SUBSET (1..Len(pnls))
    BY <1>4
  <2>2. QED
    BY <1>3, <2>1, FS_Subset
<1>8. QED
  BY <1>1, <1>3, <1>6, <1>7

(* Nothing is bought for nothing: every fill of the simulator is positive, *)
(* no fee is negative, and the trades counted as won and lost are trades   *)
(* (simulator.go, position_tracker.go, metrics.go).                        *)
THEOREM BacktestTypeCorrect == BacktestSpec => []BacktestTypeOK
<1>1. BacktestInit => BacktestBounds /\ ReportInv
  BY BacktestAssumption DEF BacktestInit, BacktestBounds, ReportInv, Finished
<1>2. BacktestInv /\ BacktestBounds /\ ReportInv => BacktestTypeOK
  <2> SUFFICES ASSUME BacktestInv, BacktestBounds, ReportInv PROVE BacktestTypeOK
    OBVIOUS
  <2> USE DEF BacktestInv
  <2>1. ASSUME NEW s \in DOMAIN open PROVE open[s].entry \in Nat \ {0} /\ open[s].cost \in Nat
    <3>1. open[s] \in OpenPosition /\ Paid(open[s])
      BY DEF BacktestTypes, BacktestBounds
    <3>2. open[s].entry \in Int /\ open[s].entry > 0
      BY <3>1 DEF OpenPosition, Paid
    <3>3. QED
      BY <3>1, <3>2, PaidCost
  <2>2. unreported \in Nat
    BY DEF BacktestTypes, BacktestBounds
  <2>3. report.wins + report.losses <= Len(trades)
    <3>1. trades \in Seq(Int)
      BY DEF BacktestTypes
    <3>2. CASE Finished
      <4>1. report = Metrics(trades)
        BY <3>2 DEF ReportInv
      <4>2. QED
        BY <3>1, <4>1, WinsAndLosses
    <3>3. CASE ~Finished
      <4>1. report.wins = 0 /\ report.losses = 0
        BY <3>3 DEF BacktestBounds, NoReport
      <4>2. Len(trades) \in Nat
        BY <3>1
      <4>3. QED
        BY <4>1, <4>2
    <3>4. QED
      BY <3>2, <3>3
  <2>4. QED
    BY <2>1, <2>2, <2>3 DEF BacktestTypes, BacktestBounds, BacktestTypeOK
<1>3. QED
  BY <1>1, <1>2, InitBalanced, BacktestStep, ReportStep, BacktestBoundsStep, PTL DEF BacktestSpec
=============================================================================
