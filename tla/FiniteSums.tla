----------------------------- MODULE FiniteSums -----------------------------
(***************************************************************************)
(* What the sums over finite sets of the community modules are: the        *)
(* element that is added next is a CHOOSE there, and here it is shown not  *)
(* to matter.                                                              *)
(***************************************************************************)
EXTENDS Integers, FiniteSetsExt, FiniteSetTheorems, WellFoundedInduction, TLAPS

\* The recursive function that MapThenFoldSet defines on the subsets of S.
First(s) == CHOOSE x \in s : TRUE
Adds(f, g, s) == IF s = {} THEN 0 ELSE f[First(s)] + g[s \ {First(s)}]
Partial(f, S) == CHOOSE g : g = [s \in SUBSET S |-> Adds(f, g, s)]

(* Induction without an operator: a set of numbers has a least one.        *)
LEMMA LeastNumber ==
  ASSUME NEW T, T \subseteq Nat, T # {}
  PROVE  \E n \in T : \A m \in T : n <= m
<1> DEFINE R == OpToRel(<, Nat)
<1>1. IsWellFoundedOn(R, Nat)
  BY NatLessThanWellFounded
<1>2. \A m, n \in Nat : m < n => <<m, n>> \in R
  BY DEF OpToRel
<1> HIDE DEF R
<1>3. PICK n \in T : \A m \in T : ~(<<m, n>> \in R)
  BY <1>1, WFMin, Zenon
<1>4. ASSUME NEW m \in T PROVE n <= m
  <2>1. n \in Nat /\ m \in Nat
    OBVIOUS
  <2>2. ~(m < n)
    BY <1>2, <1>3, <2>1
  <2> QED BY <2>1, <2>2
<1> QED BY <1>4

(* Of the finite sets in a set of them, one has the fewest elements.       *)
LEMMA SmallestSet ==
  ASSUME NEW S, IsFiniteSet(S), NEW T \in SUBSET SUBSET S, T # {}
  PROVE  \E s \in T : \A t \in T : Cardinality(s) <= Cardinality(t)
<1> DEFINE N == {Cardinality(s) : s \in T}
<1>1. \A s \in T : IsFiniteSet(s) /\ Cardinality(s) \in Nat
  BY FS_Subset, FS_CardinalityType
<1>2. N \subseteq Nat /\ N # {}
  BY <1>1
<1>3. PICK n \in N : \A m \in N : n <= m
  <2> HIDE DEF N
  <2> QED BY <1>2, LeastNumber
<1> QED BY <1>3

(* To take an element of a finite set away.                                *)
LEMMA Less ==
  ASSUME NEW s, IsFiniteSet(s), NEW x \in s
  PROVE  /\ IsFiniteSet(s \ {x}) /\ Cardinality(s) \in Nat
         /\ Cardinality(s \ {x}) = Cardinality(s) - 1 /\ Cardinality(s) >= 1
<1>1. /\ IsFiniteSet(s \ {x}) /\ Cardinality(s \ {x}) = Cardinality(s) - 1
  BY FS_RemoveElement
<1>2. Cardinality(s) \in Nat /\ Cardinality(s \ {x}) \in Nat
  BY <1>1, FS_CardinalityType
<1> QED BY <1>1, <1>2

(* The recursive function exists: given its values on the sets of up to n  *)
(* elements, those on the sets of n + 1 elements are defined.              *)
LEMMA PartialExists ==
  ASSUME NEW S, IsFiniteSet(S), NEW f, \A x \in S : f[x] \in Int
  PROVE  \E g \in [SUBSET S -> Int] : \A s \in SUBSET S : g[s] = Adds(f, g, s)
<1> DEFINE UpTo(g, n) == \A s \in SUBSET S : Cardinality(s) <= n => g[s] = Adds(f, g, s)
<1> DEFINE Bad == {n \in Nat : ~\E g \in [SUBSET S -> Int] : UpTo(g, n)}
<1>1. \A s \in SUBSET S : IsFiniteSet(s) /\ Cardinality(s) \in Nat
                          /\ Cardinality(s) <= Cardinality(S)
  BY FS_Subset, FS_CardinalityType
<1>2. Cardinality(S) \in Nat
  BY FS_CardinalityType
<1>3. ASSUME NEW g \in [SUBSET S -> Int], NEW s \in SUBSET S PROVE Adds(f, g, s) \in Int
  <2>1. s # {} => First(s) \in s
    BY DEF First
  <2> QED BY <2>1 DEF Adds
<1>4. Bad = {}
  <2> SUFFICES ASSUME Bad # {} PROVE FALSE
    OBVIOUS
  <2>1. PICK n \in Bad : \A m \in Bad : n <= m
    <3>1. Bad \subseteq Nat
      OBVIOUS
    <3> HIDE DEF Bad
    <3> QED BY <3>1, LeastNumber
  <2>2. CASE n = 0
    <3> DEFINE z == [s \in SUBSET S |-> 0]
    <3>1. \A s \in SUBSET S : Cardinality(s) <= 0 => s = {}
      BY <1>1, FS_EmptySet
    <3>2. z \in [SUBSET S -> Int] /\ UpTo(z, 0)
      BY <3>1 DEF Adds
    <3> QED BY <2>2, <3>2
  <2>3. CASE n # 0
    <3>1. n \in Nat /\ n - 1 \in Nat /\ ~(n <= n - 1)
      BY <2>3
    <3>2. PICK g \in [SUBSET S -> Int] : UpTo(g, n - 1)
      BY <2>1, <3>1
    <3> DEFINE h == [s \in SUBSET S |-> IF Cardinality(s) <= n - 1 THEN g[s]
                                        ELSE Adds(f, g, s)]
    <3>3. h \in [SUBSET S -> Int]
      BY <1>3
    <3>4. \A s \in SUBSET S : Cardinality(s) <= n - 1 => h[s] = g[s]
      OBVIOUS
    <3>5. \A s \in SUBSET S : h[s] = Adds(f, g, s)
      BY <3>2
    <3> HIDE DEF h
    <3>6. ASSUME NEW s \in SUBSET S, Cardinality(s) <= n PROVE Adds(f, g, s) = Adds(f, h, s)
      <4>1. CASE s = {}
        BY <4>1 DEF Adds
      <4>2. CASE s # {}
        <5>1. First(s) \in s
          BY <4>2 DEF First
        <5>2. Cardinality(s \ {First(s)}) <= n - 1
          BY <1>1, <3>1, <3>6, <5>1, Less
        <5>3. h[s \ {First(s)}] = g[s \ {First(s)}]
          BY <3>4, <5>2
        <5> QED BY <4>2, <5>3 DEF Adds
      <4> QED BY <4>1, <4>2
    <3>7. UpTo(h, n)
      BY <3>5, <3>6
    <3> QED BY <3>3, <3>7
  <2> QED BY <2>2, <2>3
<1>5. PICK g \in [SUBSET S -> Int] : UpTo(g, Cardinality(S))
  BY <1>2, <1>4
<1>6. \A s \in SUBSET S : g[s] = Adds(f, g, s)
  BY <1>1, <1>5
<1> QED BY <1>6

LEMMA PartialIs ==
  ASSUME NEW S, IsFiniteSet(S), NEW f, \A x \in S : f[x] \in Int
  PROVE  /\ Partial(f, S) = [s \in SUBSET S |-> Adds(f, Partial(f, S), s)]
         /\ \A s \in SUBSET S : Partial(f, S)[s] = Adds(f, Partial(f, S), s)
<1>1. PICK h \in [SUBSET S -> Int] : \A s \in SUBSET S : h[s] = Adds(f, h, s)
  BY PartialExists
<1> DEFINE Is(g) == g = [s \in SUBSET S |-> Adds(f, g, s)]
<1>2. Partial(f, S) = CHOOSE g : Is(g)
  BY DEF Partial
<1>3. Is(Partial(f, S))
  <2>1. Is(h)
    BY <1>1
  <2> HIDE DEF Is
  <2> QED BY <1>2, <2>1
<1> QED BY <1>3

LEMMA SumIsPartial ==
  ASSUME NEW f, NEW S PROVE SumFunctionOnSet(f, S) = Partial(f, S)[S]
BY DEF SumFunctionOnSet, FoldFunctionOnSet, MapThenFoldSet, Partial, Adds, First

(* Its values are numbers.                                                 *)
LEMMA PartialType ==
  ASSUME NEW S, IsFiniteSet(S), NEW f, \A x \in S : f[x] \in Int
  PROVE  \A s \in SUBSET S : Partial(f, S)[s] \in Int
<1> DEFINE g == Partial(f, S)
<1> DEFINE Odd == {s \in SUBSET S : g[s] \notin Int}
<1>1. \A s \in SUBSET S : g[s] = Adds(f, g, s)
  BY PartialIs
<1> HIDE DEF g
<1> SUFFICES ASSUME Odd # {} PROVE FALSE
  BY DEF g
<1>2. PICK s \in Odd : \A r \in Odd : Cardinality(s) <= Cardinality(r)
  <2>1. Odd \in SUBSET SUBSET S
    OBVIOUS
  <2> HIDE DEF Odd
  <2> QED BY <2>1, SmallestSet
<1>3. g[s] = Adds(f, g, s) /\ g[s] \notin Int
  BY <1>1, <1>2
<1>4. s # {} /\ g[s] = f[First(s)] + g[s \ {First(s)}]
  BY <1>3 DEF Adds
<1>5. First(s) \in s /\ IsFiniteSet(s)
  BY <1>4, FS_Subset DEF First
<1>6. ~(Cardinality(s) <= Cardinality(s \ {First(s)}))
  BY <1>5, Less
<1>7. g[s \ {First(s)}] \in Int /\ f[First(s)] \in Int
  BY <1>2, <1>5, <1>6
<1> QED BY <1>3, <1>4, <1>7

(* On the subsets of a part it is the function of the part.                *)
LEMMA PartialOfPart ==
  ASSUME NEW S, IsFiniteSet(S), NEW f, \A x \in S : f[x] \in Int, NEW T \in SUBSET S
  PROVE  \A s \in SUBSET T : Partial(f, S)[s] = Partial(f, T)[s]
<1> DEFINE g == Partial(f, S)
<1> DEFINE h == Partial(f, T)
<1> DEFINE Odd == {s \in SUBSET T : g[s] # h[s]}
<1>1. IsFiniteSet(T)
  BY FS_Subset
<1>2. \A s \in SUBSET T : g[s] = Adds(f, g, s) /\ h[s] = Adds(f, h, s)
  BY <1>1, PartialIs
<1> HIDE DEF g, h
<1> SUFFICES ASSUME Odd # {} PROVE FALSE
  BY DEF g, h
<1>3. PICK s \in Odd : \A r \in Odd : Cardinality(s) <= Cardinality(r)
  <2>1. Odd \in SUBSET SUBSET T
    OBVIOUS
  <2> HIDE DEF Odd
  <2> QED BY <1>1, <2>1, SmallestSet
<1>4. Adds(f, g, s) # Adds(f, h, s)
  BY <1>2, <1>3
<1>5. s # {} /\ g[s \ {First(s)}] # h[s \ {First(s)}]
  BY <1>4 DEF Adds
<1>6. First(s) \in s /\ IsFiniteSet(s)
  BY <1>1, <1>5, FS_Subset DEF First
<1>7. ~(Cardinality(s) <= Cardinality(s \ {First(s)}))
  BY <1>6, Less
<1> QED BY <1>3, <1>5, <1>7

(* Whatever is taken first, a sum over more is the sum over less plus the  *)
(* rest.                                                                   *)
LEMMA PartialAdds ==
  ASSUME NEW S, IsFiniteSet(S), NEW f, \A x \in S : f[x] \in Int,
         NEW s \in SUBSET S, NEW x \in S, x \notin s
  PROVE  Partial(f, S)[s \cup {x}] = f[x] + Partial(f, S)[s]
<1> DEFINE g == Partial(f, S)
<1> DEFINE Bad == {t \in SUBSET S : \E y \in t : g[t] # f[y] + g[t \ {y}]}
<1>2. \A t \in SUBSET S : g[t] \in Int /\ g[t] = Adds(f, g, t)
  BY PartialIs, PartialType
<1> HIDE DEF g
<1>3. Bad = {}
  <2> SUFFICES ASSUME Bad # {} PROVE FALSE
    OBVIOUS
  <2>1. PICK t \in Bad : \A r \in Bad : Cardinality(t) <= Cardinality(r)
    <3>1. Bad \in SUBSET SUBSET S
      OBVIOUS
    <3> HIDE DEF Bad
    <3> QED BY <3>1, SmallestSet
  <2>2. PICK y \in t : g[t] # f[y] + g[t \ {y}]
    BY <2>1
  <2> DEFINE z == First(t)
  <2>3. z \in t /\ g[t] = f[z] + g[t \ {z}]
    <3>1. z \in t
      BY <2>2 DEF First
    <3> QED BY <1>2, <3>1 DEF Adds
  <2> HIDE DEF z
  <2>4. y # z
    BY <2>2, <2>3
  <2>5. \A r \in SUBSET S : Cardinality(r) < Cardinality(t) => \A x_1 \in r : g[r] = f[x_1] + g[r \ {x_1}]
    <3> SUFFICES ASSUME NEW r \in SUBSET S, Cardinality(r) < Cardinality(t)
                 PROVE  r \notin Bad
      OBVIOUS
    <3>1. Cardinality(r) \in Nat /\ Cardinality(t) \in Nat
      BY FS_Subset, FS_CardinalityType
    <3>2. ~(Cardinality(t) <= Cardinality(r))
      BY <3>1
    <3> HIDE DEF Bad
    <3> QED BY <2>1, <3>2
  <2>6. IsFiniteSet(t)
    BY FS_Subset
  <2>7. Cardinality(t \ {z}) < Cardinality(t) /\ Cardinality(t \ {y}) < Cardinality(t)
    BY <2>3, <2>6, Less
  <2>8. g[t \ {z}] = f[y] + g[(t \ {z}) \ {y}]
    BY <2>4, <2>5, <2>7
  <2>9. g[t \ {y}] = f[z] + g[(t \ {y}) \ {z}]
    BY <2>3, <2>4, <2>5, <2>7
  <2>10. (t \ {z}) \ {y} = (t \ {y}) \ {z}
    OBVIOUS
  <2>11. g[(t \ {z}) \ {y}] \in Int /\ f[y] \in Int /\ f[z] \in Int
    BY <1>2, <2>3
  <2>12. \A a, b, c \in Int : a + (b + c) = b + (a + c)
    OBVIOUS
  <2>13. g[t] = f[y] + (f[z] + g[(t \ {z}) \ {y}])
    BY <2>3, <2>8, <2>11, <2>12
  <2> QED BY <2>2, <2>9, <2>10, <2>13
<1>4. (s \cup {x}) \ {x} = s /\ s \cup {x} \in SUBSET S
  OBVIOUS
<1>5. s \cup {x} \notin Bad
  BY <1>3
<1>6. g[s \cup {x}] = f[x] + g[s]
  BY <1>4, <1>5
<1> QED BY <1>6 DEF g

-----------------------------------------------------------------------------
(* What is used elsewhere.                                                 *)

(* A sum is a number, of nothing zero.                                     *)
LEMMA SumType ==
  ASSUME NEW S, IsFiniteSet(S), NEW f, \A x \in S : f[x] \in Int
  PROVE  SumFunctionOnSet(f, S) \in Int /\ (S = {} => SumFunctionOnSet(f, S) = 0)
BY PartialIs, PartialType, SumIsPartial DEF Adds

(* It depends on what is added up only.                                    *)
LEMMA SumSame ==
  ASSUME NEW S, IsFiniteSet(S), NEW f, NEW g, \A x \in S : f[x] = g[x]
  PROVE  SumFunctionOnSet(f, S) = SumFunctionOnSet(g, S)
<1>1. \A s \in SUBSET S : \A p : Adds(f, p, s) = Adds(g, p, s)
  <2> SUFFICES ASSUME NEW s \in SUBSET S, NEW p PROVE Adds(f, p, s) = Adds(g, p, s)
    OBVIOUS
  <2>1. s # {} => First(s) \in S
    BY DEF First
  <2> QED BY <2>1 DEF Adds
<1>2. Partial(f, S) = Partial(g, S)
  BY <1>1 DEF Partial
<1> QED BY <1>2, SumIsPartial

(* One more adds what it counts for.                                       *)
LEMMA SumAdds ==
  ASSUME NEW S, IsFiniteSet(S), NEW x, x \notin S, NEW f, \A y \in S \cup {x} : f[y] \in Int
  PROVE  SumFunctionOnSet(f, S \cup {x}) = f[x] + SumFunctionOnSet(f, S)
<1> DEFINE W == S \cup {x}
<1>1. IsFiniteSet(W) /\ x \in W /\ S \in SUBSET W
  BY FS_AddElement
<1>2. Partial(f, W)[W] = f[x] + Partial(f, W)[S]
  BY <1>1, PartialAdds
<1>3. Partial(f, W)[S] = SumFunctionOnSet(f, S)
  <2>1. \A y \in W : f[y] \in Int
    OBVIOUS
  <2> HIDE DEF W
  <2>2. \A s \in SUBSET S : Partial(f, W)[s] = Partial(f, S)[s]
    BY <1>1, <2>1, PartialOfPart
  <2> QED BY <2>2, SumIsPartial
<1> QED BY <1>2, <1>3, SumIsPartial

(* What is added up of a part is no more than of the whole.                *)
LEMMA SumOfPart ==
  ASSUME NEW S, IsFiniteSet(S), NEW f, \A x \in S : f[x] \in Nat, NEW T \in SUBSET S
  PROVE  SumFunctionOnSet(f, T) \in Nat /\ SumFunctionOnSet(f, T) <= SumFunctionOnSet(f, S)
<1>1. IsFiniteSet(T)
  BY FS_Subset
<1> DEFINE Bad == {U \in SUBSET S : T \subseteq U /\ ~(SumFunctionOnSet(f, T) <= SumFunctionOnSet(f, U))}
<1> DEFINE Low == {U \in SUBSET S : ~(0 <= SumFunctionOnSet(f, U))}
<1>2. \A U \in SUBSET S : IsFiniteSet(U) /\ SumFunctionOnSet(f, U) \in Int
  BY FS_Subset, SumType
<1>3. \A U \in SUBSET S : \A x \in U :
        /\ SumFunctionOnSet(f, U) = f[x] + SumFunctionOnSet(f, U \ {x})
        /\ U \ {x} \in SUBSET S /\ ~(Cardinality(U) <= Cardinality(U \ {x}))
        /\ f[x] \in Nat
  <2> SUFFICES ASSUME NEW U \in SUBSET S, NEW x \in U
               PROVE  SumFunctionOnSet(f, U) = f[x] + SumFunctionOnSet(f, U \ {x})
                      /\ ~(Cardinality(U) <= Cardinality(U \ {x}))
    OBVIOUS
  <2> DEFINE V == U \ {x}
  <2>1. IsFiniteSet(V) /\ ~(Cardinality(U) <= Cardinality(V)) /\ V \cup {x} = U
    BY <1>2, Less
  <2>2. x \notin V /\ \A y \in V \cup {x} : f[y] \in Int
    OBVIOUS
  <2> HIDE DEF V
  <2>3. SumFunctionOnSet(f, V \cup {x}) = f[x] + SumFunctionOnSet(f, V)
    BY <2>1, <2>2, SumAdds
  <2> QED BY <2>1, <2>3 DEF V
<1>4. Low = {}
  <2> SUFFICES ASSUME Low # {} PROVE FALSE
    OBVIOUS
  <2>1. PICK U \in Low : \A V \in Low : Cardinality(U) <= Cardinality(V)
    <3>1. Low \in SUBSET SUBSET S
      OBVIOUS
    <3> HIDE DEF Low
    <3> QED BY <3>1, SmallestSet
  <2>2. U # {}
    BY FS_EmptySet, SumType
  <2>3. PICK x \in U : TRUE
    BY <2>2
  <2>4. 0 <= SumFunctionOnSet(f, U \ {x})
    BY <1>3, <2>1
  <2> QED BY <1>2, <1>3, <2>1, <2>4
<1>5. Bad = {}
  <2> SUFFICES ASSUME Bad # {} PROVE FALSE
    OBVIOUS
  <2>1. PICK U \in Bad : \A V \in Bad : Cardinality(U) <= Cardinality(V)
    <3>1. Bad \in SUBSET SUBSET S
      OBVIOUS
    <3> HIDE DEF Bad
    <3> QED BY <3>1, SmallestSet
  <2>2. U # T
    BY <1>2, <2>1
  <2>3. PICK x \in U : x \notin T
    BY <2>1, <2>2
  <2>4. SumFunctionOnSet(f, T) <= SumFunctionOnSet(f, U \ {x})
    BY <1>3, <2>1, <2>3
  <2> QED BY <1>2, <1>3, <2>1, <2>4
<1>6. S \notin Bad /\ T \notin Low
  BY <1>4, <1>5
<1> QED BY <1>2, <1>6

LEMMA Distributes ==
  ASSUME NEW m \in Int, NEW a \in Int, NEW b \in Int
  PROVE  m * (a + b) = m * a + m * b /\ m * a \in Int
OBVIOUS

(* Two sets apart from each other.                                         *)
LEMMA SumUnion ==
  ASSUME NEW S, IsFiniteSet(S), NEW T, IsFiniteSet(T), S \cap T = {},
         NEW f, \A x \in S \cup T : f[x] \in Int
  PROVE  SumFunctionOnSet(f, S \cup T) = SumFunctionOnSet(f, S) + SumFunctionOnSet(f, T)
<1> DEFINE Bad == {U \in SUBSET T : SumFunctionOnSet(f, S \cup U)
                     # SumFunctionOnSet(f, S) + SumFunctionOnSet(f, U)}
<1>1. \A U \in SUBSET T :
        /\ IsFiniteSet(U) /\ IsFiniteSet(S \cup U)
        /\ SumFunctionOnSet(f, U) \in Int /\ SumFunctionOnSet(f, S) \in Int
        /\ U = {} => SumFunctionOnSet(f, U) = 0 /\ S \cup U = S
  <2> SUFFICES ASSUME NEW U \in SUBSET T
               PROVE  /\ IsFiniteSet(U) /\ IsFiniteSet(S \cup U)
                      /\ SumFunctionOnSet(f, U) \in Int /\ SumFunctionOnSet(f, S) \in Int
                      /\ U = {} => SumFunctionOnSet(f, U) = 0 /\ S \cup U = S
    OBVIOUS
  <2>1. IsFiniteSet(U)
    BY FS_Subset
  <2>2. IsFiniteSet(S \cup U)
    BY <2>1, FS_Union
  <2>3. \A x \in U : f[x] \in Int
    OBVIOUS
  <2> QED BY <2>1, <2>2, <2>3, SumType
<1> SUFFICES ASSUME Bad # {} PROVE FALSE
  OBVIOUS
<1>2. PICK U \in Bad : \A V \in Bad : Cardinality(U) <= Cardinality(V)
  <2>1. Bad \in SUBSET SUBSET T
    OBVIOUS
  <2> HIDE DEF Bad
  <2> QED BY <2>1, SmallestSet
<1>3. PICK x \in U : TRUE
  <2>1. SumFunctionOnSet(f, S \cup U) # SumFunctionOnSet(f, S) + SumFunctionOnSet(f, U)
        /\ U \in SUBSET T
    BY <1>2
  <2> HIDE DEF Bad
  <2>2. ASSUME U = {} PROVE FALSE
    <3>1. S \cup U = S /\ SumFunctionOnSet(f, U) = 0 /\ SumFunctionOnSet(f, S) \in Int
      BY <1>1, <2>1, <2>2
    <3>2. SumFunctionOnSet(f, S \cup U) = SumFunctionOnSet(f, S)
      BY <3>1
    <3> QED BY <2>1, <3>1, <3>2
  <2> QED BY <2>2
<1> DEFINE V == U \ {x}
<1>4. U \in SUBSET T /\ V \in SUBSET T /\ V \cup {x} = U /\ x \notin V /\ x \notin S \cup V
      /\ (S \cup V) \cup {x} = S \cup U
  <2>1. U \in SUBSET T
    OBVIOUS
  <2> HIDE DEF Bad
  <2> QED BY <2>1
<1>5. ~(Cardinality(U) <= Cardinality(V))
  <2>1. IsFiniteSet(U)
    BY <1>1, <1>4
  <2> HIDE DEF Bad
  <2>2. /\ IsFiniteSet(U \ {x}) /\ Cardinality(U) \in Nat
        /\ Cardinality(U \ {x}) = Cardinality(U) - 1
    BY <2>1, Less, Zenon
  <2> QED BY <2>2
<1>6. SumFunctionOnSet(f, S \cup V) = SumFunctionOnSet(f, S) + SumFunctionOnSet(f, V)
  BY <1>2, <1>4, <1>5
<1>7. U \notin Bad
  <2> HIDE DEF V, Bad
  <2>1. /\ IsFiniteSet(V) /\ IsFiniteSet(S \cup V) /\ SumFunctionOnSet(f, V) \in Int
        /\ SumFunctionOnSet(f, S) \in Int
    BY <1>1, <1>4
  <2>2. \A y \in V \cup {x} : f[y] \in Int
    BY <1>4
  <2>3. \A y \in (S \cup V) \cup {x} : f[y] \in Int
    BY <1>4
  <2>4. f[x] \in Int /\ SumFunctionOnSet(f, U) = f[x] + SumFunctionOnSet(f, V)
    BY <1>4, <2>1, <2>2, SumAdds
  <2>5. SumFunctionOnSet(f, S \cup U) = f[x] + SumFunctionOnSet(f, S \cup V)
    BY <1>4, <2>1, <2>3, SumAdds
  <2>6. SumFunctionOnSet(f, S \cup U) = SumFunctionOnSet(f, S) + SumFunctionOnSet(f, U)
    BY <1>6, <2>1, <2>4, <2>5
  <2> QED BY <2>6 DEF Bad
<1> QED BY <1>2, <1>7

(* The sum of multiples of f, and g.                                       *)
LEMMA SumLinear ==
  ASSUME NEW S, IsFiniteSet(S), NEW m \in Int, NEW f, NEW g, NEW h,
         \A x \in S : f[x] \in Int /\ g[x] \in Int /\ h[x] = m * f[x] + g[x]
  PROVE  SumFunctionOnSet(h, S) = m * SumFunctionOnSet(f, S) + SumFunctionOnSet(g, S)
<1> DEFINE Bad == {U \in SUBSET S : SumFunctionOnSet(h, U)
                     # m * SumFunctionOnSet(f, U) + SumFunctionOnSet(g, U)}
<1>1. \A x \in S : h[x] \in Int
  OBVIOUS
<1>2. \A U \in SUBSET S : /\ IsFiniteSet(U) /\ SumFunctionOnSet(f, U) \in Int
                          /\ SumFunctionOnSet(g, U) \in Int /\ SumFunctionOnSet(h, U) \in Int
                          /\ U = {} => /\ SumFunctionOnSet(f, U) = 0
                                       /\ SumFunctionOnSet(g, U) = 0
                                       /\ SumFunctionOnSet(h, U) = 0
  BY <1>1, FS_Subset, SumType
<1> SUFFICES ASSUME Bad # {} PROVE FALSE
  OBVIOUS
<1>3. PICK U \in Bad : \A V \in Bad : Cardinality(U) <= Cardinality(V)
  <2>1. Bad \in SUBSET SUBSET S
    OBVIOUS
  <2> HIDE DEF Bad
  <2> QED BY <2>1, SmallestSet
<1>4. PICK x \in U : TRUE
  <2>1. U # {}
    BY <1>2, <1>3
  <2> QED BY <2>1
<1> DEFINE V == U \ {x}
<1>5. /\ V \cup {x} = U /\ x \notin V /\ V \in SUBSET S
      /\ ~(Cardinality(U) <= Cardinality(V)) /\ IsFiniteSet(V)
  <2>1. U \in SUBSET S /\ IsFiniteSet(U)
    BY <1>2
  <2> HIDE DEF Bad
  <2>2. /\ IsFiniteSet(U \ {x}) /\ Cardinality(U) \in Nat
        /\ Cardinality(U \ {x}) = Cardinality(U) - 1
    BY <2>1, Less, Zenon
  <2>3. ~(Cardinality(U) <= Cardinality(V)) /\ IsFiniteSet(V)
    BY <2>2
  <2> QED BY <2>1, <2>3
<1>6. SumFunctionOnSet(h, V) = m * SumFunctionOnSet(f, V) + SumFunctionOnSet(g, V)
  BY <1>3, <1>5
<1>7. \A y \in V \cup {x} : f[y] \in Int /\ g[y] \in Int /\ h[y] \in Int
  BY <1>1, <1>5
<1> HIDE DEF V
<1>8. /\ SumFunctionOnSet(f, U) = f[x] + SumFunctionOnSet(f, V)
      /\ SumFunctionOnSet(g, U) = g[x] + SumFunctionOnSet(g, V)
      /\ SumFunctionOnSet(h, U) = h[x] + SumFunctionOnSet(h, V)
  BY <1>5, <1>7, SumAdds
<1>9. /\ f[x] \in Int /\ g[x] \in Int /\ h[x] = m * f[x] + g[x]
      /\ SumFunctionOnSet(f, V) \in Int /\ SumFunctionOnSet(g, V) \in Int
  BY <1>2, <1>5
<1>10. ASSUME NEW a \in Int, NEW b \in Int
       PROVE  m * (a + b) = m * a + m * b /\ m * a \in Int
  BY Distributes
<1>11. SumFunctionOnSet(h, U) = m * SumFunctionOnSet(f, U) + SumFunctionOnSet(g, U)
  <2> DEFINE a == m * f[x]
             b == m * SumFunctionOnSet(f, V)
  <2>1. m * SumFunctionOnSet(f, U) = a + b /\ a \in Int /\ b \in Int
    BY <1>8, <1>9, <1>10
  <2>2. SumFunctionOnSet(h, U) = (a + g[x]) + (b + SumFunctionOnSet(g, V))
    BY <1>6, <1>8, <1>9
  <2> HIDE DEF a, b
  <2> QED BY <1>8, <1>9, <2>1, <2>2
<1> QED BY <1>3, <1>11

=============================================================================
