-------------------------------- MODULE Sums --------------------------------
(***************************************************************************)
(* Sums over finite sets, as the folds of the community modules compute    *)
(* them, and numbers of a set put in order: what the invariants that       *)
(* account for money and for rows need to know of them.                    *)
(*                                                                         *)
(* The folds are recursive functions over subsets.  Every fact about them  *)
(* is proved from a least counterexample: a smallest subset that lacks it. *)
(***************************************************************************)
EXTENDS Integers, FiniteSets, Folds, FiniteSetTheorems, WellFoundedInduction,
        TLAPS

-----------------------------------------------------------------------------
\* Least numbers and smallest sets.

LEMMA LeastExists ==
  ASSUME NEW S \in SUBSET Nat, S # {}
  PROVE  \E x \in S : \A y \in S : x <= y
<1> DEFINE Less == OpToRel(<, Nat)
<1>1. ASSUME NEW x \in Nat, NEW y \in Nat, y < x PROVE <<y, x>> \in Less
  <2>1. <<y, x>> \in Nat \X Nat /\ <<y, x>>[1] < <<y, x>>[2]
    BY <1>1
  <2> QED
    BY <2>1, Zenon DEF OpToRel
<1>2. IsWellFoundedOn(Less, Nat)
  BY NatLessThanWellFounded
<1> HIDE DEF Less
<1>3. PICK x \in S : \A y \in S : ~(<<y, x>> \in Less)
  BY <1>2, WFMin
<1>4. x \in Nat /\ \A y \in S : y \in Nat /\ ~(y < x)
  BY <1>1, <1>3
<1> QED
  BY <1>4

\* Among subsets of a finite set one has fewest elements.
LEMMA SmallestExists ==
  ASSUME NEW S, IsFiniteSet(S), NEW Bad \in SUBSET (SUBSET S), Bad # {}
  PROVE  \E s \in Bad : \A u \in SUBSET S : u # s /\ u \subseteq s => u \notin Bad
<1>1. \A s \in SUBSET S : IsFiniteSet(s) /\ Cardinality(s) \in Nat
  BY FS_Subset, FS_CardinalityType
<1> DEFINE Sizes == {Cardinality(s) : s \in Bad}
<1>2. Sizes \in SUBSET Nat /\ Sizes # {}
  BY <1>1
<1>3. PICK n \in Sizes : \A m \in Sizes : n <= m
  BY <1>2, LeastExists
<1>4. PICK s \in Bad : n = Cardinality(s)
  BY <1>3
<1>5. ASSUME NEW u \in Bad, u # s, u \subseteq s PROVE FALSE
  <2>1. IsFiniteSet(s) /\ u \in SUBSET s
    BY <1>1, <1>5
  <2>2. Cardinality(u) <= Cardinality(s) /\ Cardinality(u) # Cardinality(s)
    BY <1>5, <2>1, FS_Subset
  <2>3. Cardinality(s) <= Cardinality(u)
    BY <1>3, <1>4
  <2> QED
    BY <1>1, <2>2, <2>3
<1> QED
  BY <1>5

-----------------------------------------------------------------------------
\* Sums.

Chosen(s) == CHOOSE x \in s : TRUE

\* g is the recursive function of the fold that adds f over S.
Adds(g, f, S) ==
    g = [s \in SUBSET S |-> IF s = {} THEN 0
                            ELSE f[Chosen(s)] + g[s \ {Chosen(s)}]]
Total(f, S) == (CHOOSE g : Adds(g, f, S))[S]

LEMMA ChosenIn == ASSUME NEW s, s # {} PROVE Chosen(s) \in s
  BY DEF Chosen

LEMMA AddsAgree ==
  ASSUME NEW S, IsFiniteSet(S), NEW f, NEW g, NEW T, NEW h,
         Adds(g, f, S), Adds(h, f, T)
  PROVE  \A u \in SUBSET S : u \subseteq T => g[u] = h[u]
<1> DEFINE Bad == {u \in SUBSET S : u \subseteq T /\ g[u] # h[u]}
<1> SUFFICES ASSUME Bad # {} PROVE FALSE
  OBVIOUS
<1>0. Bad \in SUBSET (SUBSET S)
  OBVIOUS
<1> HIDE DEF Bad
<1>1. PICK s \in Bad : \A u \in SUBSET S : u # s /\ u \subseteq s => u \notin Bad
  BY <1>0, SmallestExists
<1> USE DEF Bad
<1>2. s # {}
  <2>1. SUFFICES ASSUME s = {} PROVE FALSE
    OBVIOUS
  <2>2. g[s] = 0 /\ h[s] = 0
    BY <2>1 DEF Adds
  <2> QED
    BY <2>2
<1>3. PICK x : x = Chosen(s)
  OBVIOUS
<1>4. x \in s /\ s \ {x} \in SUBSET S /\ s \ {x} \subseteq T /\ s \ {x} # s
  BY <1>2, <1>3, ChosenIn
<1>5. g[s \ {x}] = h[s \ {x}]
  BY <1>1, <1>4
<1>6. g[s] = f[x] + g[s \ {x}] /\ h[s] = f[x] + h[s \ {x}]
  BY <1>2, <1>3 DEF Adds
<1> QED
  BY <1>5, <1>6

LEMMA AddsExists ==
  ASSUME NEW S, IsFiniteSet(S), NEW f
  PROVE  \E g : Adds(g, f, S)
<1> DEFINE Bad == {u \in SUBSET S : ~ \E g : Adds(g, f, u)}
<1> SUFFICES ASSUME Bad # {} PROVE FALSE
  OBVIOUS
<1>0. Bad \in SUBSET (SUBSET S)
  OBVIOUS
<1> HIDE DEF Bad
<1>1. PICK s \in Bad : \A u \in SUBSET S : u # s /\ u \subseteq s => u \notin Bad
  BY <1>0, SmallestExists
<1>2. \A u \in SUBSET S : u # s /\ u \subseteq s => \E g : Adds(g, f, u)
  BY <1>1 DEF Bad
<1>3. s \in SUBSET S /\ ~ \E g : Adds(g, f, s)
  BY DEF Bad
<1> DEFINE G(u) == CHOOSE g : Adds(g, f, u)
           g == [u \in SUBSET s |-> IF u = {} THEN 0
                     ELSE f[Chosen(u)] + G(u \ {Chosen(u)})[u \ {Chosen(u)}]]
<1>4. \A u \in SUBSET S : u # s /\ u \subseteq s => Adds(G(u), f, u)
  BY <1>2
<1>5. ASSUME NEW u \in SUBSET s, u # {}
      PROVE  G(u \ {Chosen(u)})[u \ {Chosen(u)}] = g[u \ {Chosen(u)}]
  <2>1. PICK v : v = u \ {Chosen(u)}
    OBVIOUS
  <2>2. v \in SUBSET S /\ v # s /\ v \subseteq s
    BY <1>3, <1>5, <2>1, ChosenIn
  <2>3. Adds(G(v), f, v)
    BY <1>4, <2>2
  <2>4. CASE v = {}
    <3>1. G(v)[v] = 0 /\ g[v] = 0
      BY <2>2, <2>3, <2>4 DEF Adds
    <3> QED
      BY <2>1, <3>1
  <2>5. CASE v # {}
    <3>1. PICK x : x = Chosen(v)
      OBVIOUS
    <3>2. PICK w : w = v \ {x}
      OBVIOUS
    <3>3. w \in SUBSET v /\ w \in SUBSET S /\ w # s /\ w \subseteq s
      BY <2>2, <2>5, <3>1, <3>2, ChosenIn
    <3>4. Adds(G(w), f, w) /\ IsFiniteSet(v)
      BY <1>4, <2>2, <3>3, FS_Subset
    <3>5. G(v)[w] = G(w)[w]
      BY <2>3, <3>3, <3>4, AddsAgree
    <3>6. G(v)[v] = f[x] + G(v)[w]
      BY <2>3, <2>5, <3>1, <3>2 DEF Adds
    <3>7. g[v] = f[x] + G(w)[w]
      BY <2>2, <2>5, <3>1, <3>2
    <3> QED
      BY <2>1, <3>5, <3>6, <3>7
  <2> QED
    BY <2>1, <2>4, <2>5
<1>6. \E k : Adds(k, f, s)
  <2>1. PICK k : k = g
    OBVIOUS
  <2>2. DOMAIN k = SUBSET s
    BY <2>1
  <2>3. ASSUME NEW u \in SUBSET s
        PROVE  k[u] = IF u = {} THEN 0 ELSE f[Chosen(u)] + k[u \ {Chosen(u)}]
    <3>1. CASE u = {}
      BY <2>1, <3>1
    <3>2. CASE u # {}
      <4>1. k[u] = f[Chosen(u)] + G(u \ {Chosen(u)})[u \ {Chosen(u)}]
        BY <2>1, <3>2
      <4>2. G(u \ {Chosen(u)})[u \ {Chosen(u)}] = g[u \ {Chosen(u)}]
        BY <1>5, <3>2
      <4> HIDE DEF g, G
      <4>3. g[u \ {Chosen(u)}] = k[u \ {Chosen(u)}]
        BY <2>1
      <4> QED
        BY <3>2, <4>1, <4>2, <4>3
    <3> QED
      BY <3>1, <3>2
  <2>4. k = [u \in SUBSET s |-> k[u]]
    BY <2>1
  <2> QED
    BY <2>3, <2>4 DEF Adds
<1> QED
  BY <1>3, <1>6 DEF Adds

\* The equations of a sum.
LEMMA TotalStep ==
  ASSUME NEW S, IsFiniteSet(S), NEW f
  PROVE  /\ Total(f, {}) = 0
         /\ S # {} => Total(f, S) = f[Chosen(S)] + Total(f, S \ {Chosen(S)})
<1> DEFINE G(u) == CHOOSE g : Adds(g, f, u)
<1>1. ASSUME NEW u, IsFiniteSet(u) PROVE Adds(G(u), f, u)
  BY <1>1, AddsExists
<1>2. G({})[{}] = 0
  <2>1. Adds(G({}), f, {})
    BY <1>1, FS_EmptySet
  <2> QED
    BY <2>1 DEF Adds
<1>3. ASSUME S # {}, NEW x, x = Chosen(S)
      PROVE  G(S)[S] = f[x] + G(S \ {x})[S \ {x}]
  <2>1. IsFiniteSet(S \ {x})
    BY FS_RemoveElement
  <2>2. Adds(G(S), f, S) /\ Adds(G(S \ {x}), f, S \ {x})
    BY <1>1, <2>1
  <2>3. G(S)[S \ {x}] = G(S \ {x})[S \ {x}]
    BY <2>2, AddsAgree
  <2>4. G(S)[S] = f[x] + G(S)[S \ {x}]
    BY <1>3, <2>2 DEF Adds
  <2> QED
    BY <2>3, <2>4
<1> QED
  BY <1>2, <1>3 DEF Total

LEMMA TotalInt ==
  ASSUME NEW S, IsFiniteSet(S), NEW f, \A x \in S : f[x] \in Int
  PROVE  Total(f, S) \in Int
<1> DEFINE Bad == {u \in SUBSET S : Total(f, u) \notin Int}
<1> SUFFICES ASSUME Bad # {} PROVE FALSE
  OBVIOUS
<1>0. Bad \in SUBSET (SUBSET S)
  OBVIOUS
<1> HIDE DEF Bad
<1>1. PICK s \in Bad : \A u \in SUBSET S : u # s /\ u \subseteq s => u \notin Bad
  BY <1>0, SmallestExists
<1> USE DEF Bad
<1>2. IsFiniteSet(s) /\ Total(f, {}) = 0
  BY FS_Subset, TotalStep
<1>3. s # {}
  <2>1. SUFFICES ASSUME s = {} PROVE FALSE
    OBVIOUS
  <2>2. Total(f, s) = 0
    BY <1>2, <2>1
  <2> QED
    BY <2>2
<1>4. PICK x : x = Chosen(s)
  OBVIOUS
<1>5. x \in s /\ s \ {x} \in SUBSET S /\ s \ {x} # s
  BY <1>3, <1>4, ChosenIn
<1>6. Total(f, s \ {x}) \in Int /\ f[x] \in Int
  BY <1>1, <1>5
<1>7. Total(f, s) = f[x] + Total(f, s \ {x})
  BY <1>2, <1>3, <1>4, TotalStep
<1> QED
  BY <1>6, <1>7

LEMMA TotalNat ==
  ASSUME NEW S, IsFiniteSet(S), NEW f, \A x \in S : f[x] \in Nat
  PROVE  Total(f, S) \in Nat
<1> DEFINE Bad == {u \in SUBSET S : Total(f, u) \notin Nat}
<1> SUFFICES ASSUME Bad # {} PROVE FALSE
  OBVIOUS
<1>0. Bad \in SUBSET (SUBSET S)
  OBVIOUS
<1> HIDE DEF Bad
<1>1. PICK s \in Bad : \A u \in SUBSET S : u # s /\ u \subseteq s => u \notin Bad
  BY <1>0, SmallestExists
<1> USE DEF Bad
<1>2. IsFiniteSet(s) /\ Total(f, {}) = 0
  BY FS_Subset, TotalStep
<1>3. s # {}
  <2>1. SUFFICES ASSUME s = {} PROVE FALSE
    OBVIOUS
  <2>2. Total(f, s) = 0
    BY <1>2, <2>1
  <2> QED
    BY <2>2
<1>4. PICK x : x = Chosen(s)
  OBVIOUS
<1>5. x \in s /\ s \ {x} \in SUBSET S /\ s \ {x} # s
  BY <1>3, <1>4, ChosenIn
<1>6. Total(f, s \ {x}) \in Nat /\ f[x] \in Nat
  BY <1>1, <1>5
<1>7. Total(f, s) = f[x] + Total(f, s \ {x})
  BY <1>2, <1>3, <1>4, TotalStep
<1> QED
  BY <1>6, <1>7

\* Any element may be taken out of a sum first.
LEMMA TotalTakesOut ==
  ASSUME NEW S, IsFiniteSet(S), NEW f, \A x \in S : f[x] \in Int, NEW x \in S
  PROVE  Total(f, S) = f[x] + Total(f, S \ {x})
<1> DEFINE Bad == {u \in SUBSET S : \E y \in u : Total(f, u) # f[y] + Total(f, u \ {y})}
<1> SUFFICES ASSUME Bad # {} PROVE FALSE
  OBVIOUS
<1>0. Bad \in SUBSET (SUBSET S)
  OBVIOUS
<1> HIDE DEF Bad
<1>1. PICK s \in Bad : \A u \in SUBSET S : u # s /\ u \subseteq s => u \notin Bad
  BY <1>0, SmallestExists
<1> USE DEF Bad
<1>2. PICK y \in s : Total(f, s) # f[y] + Total(f, s \ {y})
  OBVIOUS
<1>3. PICK c : c = Chosen(s)
  OBVIOUS
<1>4. c \in s
  BY <1>2, <1>3, ChosenIn
<1>5. IsFiniteSet(s) /\ Total(f, s) = f[c] + Total(f, s \ {c})
  BY <1>2, <1>3, FS_Subset, TotalStep
<1>6. c # y
  BY <1>2, <1>5
<1>7. Total(f, s \ {c}) = f[y] + Total(f, (s \ {c}) \ {y})
  BY <1>1, <1>2, <1>4, <1>6
<1>8. Total(f, s \ {y}) = f[c] + Total(f, (s \ {y}) \ {c})
  BY <1>1, <1>2, <1>4, <1>6
<1>9. (s \ {c}) \ {y} = (s \ {y}) \ {c}
  OBVIOUS
<1>10. Total(f, (s \ {y}) \ {c}) \in Int /\ f[c] \in Int /\ f[y] \in Int
  <2>1. PICK u : u = (s \ {y}) \ {c}
    OBVIOUS
  <2>2. u \in SUBSET S /\ \A z \in u : f[z] \in Int
    BY <2>1
  <2>3. IsFiniteSet(u)
    BY <2>2, FS_Subset
  <2> QED
    BY <1>2, <1>4, <2>1, <2>2, <2>3, TotalInt
<1>11. Total(f, s) = f[y] + Total(f, s \ {y})
  <2>1. PICK n : n = Total(f, (s \ {y}) \ {c})
    OBVIOUS
  <2>2. Total(f, s \ {c}) = f[y] + n /\ Total(f, s \ {y}) = f[c] + n
    BY <1>7, <1>8, <1>9, <2>1
  <2>3. Total(f, s) = f[c] + (f[y] + n) /\ n \in Int
    BY <1>5, <1>10, <2>1, <2>2
  <2> QED
    BY <1>10, <2>2, <2>3
<1> QED
  BY <1>2, <1>11

\* A sum depends on the values it adds only.
LEMMA TotalSame ==
  ASSUME NEW S, IsFiniteSet(S), NEW f, NEW h, \A x \in S : f[x] = h[x]
  PROVE  Total(f, S) = Total(h, S)
<1> DEFINE Bad == {u \in SUBSET S : Total(f, u) # Total(h, u)}
<1> SUFFICES ASSUME Bad # {} PROVE FALSE
  OBVIOUS
<1>0. Bad \in SUBSET (SUBSET S)
  OBVIOUS
<1> HIDE DEF Bad
<1>1. PICK s \in Bad : \A u \in SUBSET S : u # s /\ u \subseteq s => u \notin Bad
  BY <1>0, SmallestExists
<1> USE DEF Bad
<1>2. IsFiniteSet(s) /\ Total(f, {}) = 0 /\ Total(h, {}) = 0
  BY FS_Subset, TotalStep
<1>3. s # {}
  BY <1>2
<1>4. PICK x : x = Chosen(s)
  OBVIOUS
<1>5. x \in s /\ s \ {x} \in SUBSET S /\ s \ {x} # s
  BY <1>3, <1>4, ChosenIn
<1>6. Total(f, s \ {x}) = Total(h, s \ {x}) /\ f[x] = h[x]
  BY <1>1, <1>5
<1>7. Total(f, s) = f[x] + Total(f, s \ {x}) /\ Total(h, s) = h[x] + Total(h, s \ {x})
  BY <1>2, <1>3, <1>4, TotalStep
<1> QED
  BY <1>6, <1>7

\* Sums over a set that one element joins or leaves, when the terms of the
\* others stay.
LEMMA TotalTakesIn ==
  ASSUME NEW S, IsFiniteSet(S), NEW f, NEW g, NEW x, x \notin S,
         NEW T, T = S \cup {x},
         \A y \in S : f[y] \in Int /\ g[y] = f[y], g[x] \in Int
  PROVE  IsFiniteSet(T) /\ Total(g, T) = Total(f, S) + g[x]
<1>1. IsFiniteSet(T) /\ x \in T /\ T \ {x} = S /\ \A y \in T : g[y] \in Int
  BY FS_AddElement
<1>2. Total(g, T) = g[x] + Total(g, T \ {x})
  BY <1>1, TotalTakesOut
<1>3. Total(g, S) = Total(f, S) /\ Total(f, S) \in Int
  <2>1. \A y \in S : f[y] \in Int
    OBVIOUS
  <2>2. \A y \in S : g[y] = f[y]
    OBVIOUS
  <2> QED
    BY <2>1, <2>2, TotalSame, TotalInt
<1>4. Total(g, T) = Total(f, S) + g[x]
  <2>1. Total(g, T \ {x}) = Total(f, S)
    BY <1>1, <1>3
  <2> QED
    BY <1>2, <1>3, <2>1
<1> QED
  BY <1>1, <1>4

LEMMA TotalLetsOut ==
  ASSUME NEW S, IsFiniteSet(S), NEW f, NEW g, NEW T, NEW x, x \notin T,
         S = T \cup {x},
         \A y \in S : f[y] \in Int, \A y \in T : g[y] = f[y]
  PROVE  IsFiniteSet(T) /\ Total(g, T) = Total(f, S) - f[x]
<1>1. IsFiniteSet(T) /\ \A y \in T : f[y] \in Int /\ g[y] = f[y]
  BY FS_Subset
<1>2. Total(f, S) = f[x] + Total(f, T)
  <2>1. x \in S /\ T = S \ {x}
    OBVIOUS
  <2> QED
    BY <2>1, TotalTakesOut
<1>3. Total(g, T) = Total(f, T) /\ Total(f, T) \in Int
  BY <1>1, TotalSame, TotalInt
<1>4. Total(g, T) = Total(f, S) - f[x]
  BY <1>2, <1>3
<1> QED
  BY <1>1, <1>4

\* The fold of the community modules is the sum.
LEMMA FoldIsTotal ==
  ASSUME NEW S, IsFiniteSet(S), NEW f
  PROVE  MapThenFoldSet(+, 0, LAMBDA x : f[x], LAMBDA s : CHOOSE x \in s : TRUE, S)
           = Total(f, S)
<1>1. PICK g : Adds(g, f, S)
  BY AddsExists
<1> QED
  BY DEF MapThenFoldSet, Total, Adds, Chosen

-----------------------------------------------------------------------------
\* The numbers of a finite set can be put in order.

LEMMA SortedExists ==
  ASSUME NEW m \in Nat, NEW S \in SUBSET (1..m)
  PROVE  /\ IsFiniteSet(S) /\ Cardinality(S) \in Nat
         /\ \E s \in [1..Cardinality(S) -> S] :
               \A i, j \in DOMAIN s : i < j => s[i] < s[j]
<1> DEFINE Ordered(R) == \E s \in [1..Cardinality(R) -> R] :
                             \A i, j \in 1..Cardinality(R) : i < j => s[i] < s[j]
           Bad == {n \in Nat : \E R \in SUBSET (1..n) : ~Ordered(R)}
<1>1. ASSUME NEW n \in Nat, NEW R \in SUBSET (1..n)
      PROVE  IsFiniteSet(R) /\ Cardinality(R) \in Nat
  <2>1. 1 \in Int /\ n \in Int
    OBVIOUS
  <2>2. IsFiniteSet(1..n)
    BY <2>1, FS_Interval
  <2>3. IsFiniteSet(R)
    BY <2>2, FS_Subset
  <2> QED
    BY <2>3, FS_CardinalityType
<1>2. ASSUME Bad # {} PROVE FALSE
  <2>0. Bad \in SUBSET Nat
    OBVIOUS
  <2> HIDE DEF Bad
  <2>1. PICK n \in Bad : \A k \in Bad : n <= k
    BY <1>2, <2>0, LeastExists
  <2> USE DEF Bad
  <2>2. PICK R \in SUBSET (1..n) : ~Ordered(R)
    OBVIOUS
  <2>3. n \in Nat /\ Ordered({})
    <3>1. Cardinality({}) = 0 /\ 1..0 = {}
      BY FS_EmptySet
    <3>2. <<>> \in [1..0 -> {}]
      BY <3>1
    <3> QED
      BY <3>1, <3>2
  <2> HIDE DEF Ordered
  <2>4. n \in Nat \ {0} /\ n - 1 \in Nat /\ n - 1 \notin Bad
    <3>1. n # 0
      <4>1. SUFFICES ASSUME n = 0 PROVE FALSE
        OBVIOUS
      <4>2. R = {}
        BY <4>1
      <4> QED
        BY <2>2, <2>3, <4>2
    <3> QED
      BY <2>1, <2>3, <3>1
  <2>5. n \in R
    <3>1. SUFFICES ASSUME n \notin R PROVE FALSE
      OBVIOUS
    <3>2. R \in SUBSET (1..(n - 1))
      BY <2>4, <3>1
    <3> QED
      BY <2>2, <2>4, <3>2
  <2>6. PICK T : T = R \ {n}
    OBVIOUS
  <2>7. T \in SUBSET (1..(n - 1)) /\ Ordered(T)
    <3>1. T \in SUBSET (1..(n - 1))
      BY <2>4, <2>6
    <3> QED
      BY <2>4, <3>1
  <2>8. PICK c : c = Cardinality(T)
    OBVIOUS
  <2>9. c \in Nat /\ Cardinality(R) = c + 1
    <3>1. IsFiniteSet(R) /\ Cardinality(R) \in Nat /\ Cardinality(T) \in Nat
      BY <1>1, <2>3, <2>4, <2>7
    <3>2. Cardinality(T) = Cardinality(R) - 1
      BY <2>5, <2>6, <3>1, FS_RemoveElement
    <3> QED
      BY <2>8, <3>1, <3>2
  <2>10. PICK t \in [1..c -> T] : \A i, j \in 1..c : i < j => t[i] < t[j]
    BY <2>7, <2>8 DEF Ordered
  <2> DEFINE s == [i \in 1..(c + 1) |-> IF i = c + 1 THEN n ELSE t[i]]
  <2>11. s \in [1..(c + 1) -> R]
    BY <2>5, <2>6, <2>9, <2>10
  <2>12. ASSUME NEW i \in 1..(c + 1), NEW j \in 1..(c + 1), i < j
         PROVE  s[i] < s[j]
    <3>1. i \in 1..c /\ i # c + 1
      BY <2>9, <2>12
    <3>4. s[i] = t[i] /\ t[i] \in 1..(n - 1)
      BY <2>7, <2>10, <3>1
    <3>2. CASE j = c + 1
      BY <2>4, <3>2, <3>4
    <3>3. CASE j # c + 1
      <4>1. j \in 1..c /\ s[j] = t[j]
        BY <2>9, <3>3
      <4> QED
        BY <2>10, <2>12, <3>1, <3>4, <4>1
    <3> QED
      BY <3>2, <3>3
  <2> QED
    BY <2>2, <2>9, <2>11, <2>12 DEF Ordered
<1>3. Ordered(S)
  BY <1>2
<1> QED
  BY <1>1, <1>3

=============================================================================
