---------------------------- MODULE SumTheorems -----------------------------
(***************************************************************************)
(* Total is a fold over the domain in an unspecified order.  Its laws, for   *)
(* functions from a finite set to the naturals, come from counting: the      *)
(* total of f is the number of pairs <<x, k>> with k in 1 .. f[x].           *)
(***************************************************************************)
EXTENDS Sums, FiniteSetTheorems, FunctionTheorems, TLAPS

Cells(f, S) == {c \in S \X Nat : c[2] \in 1 .. f[c[1]]}

Column(f, x) == {x} \X (1 .. f[x])

SomeOf(s) == CHOOSE x \in s : TRUE

\* g is what the recursive function inside FoldFunction has to be.
Iterates(f, g) ==
    g = [s \in SUBSET DOMAIN f |->
            IF s = {} THEN 0 ELSE f[SomeOf(s)] + g[s \ {SomeOf(s)}]]

LEMMA TotalIterates ==
    ASSUME NEW f
    PROVE  Total(f) = (CHOOSE g : Iterates(f, g))[DOMAIN f]
  BY DEF Total, FoldFunction, FoldFunctionOnSet, MapThenFoldSet, Plus, Iterates, SomeOf

\* Among some subsets of a finite set there is a smallest one.
LEMMA SmallestSubset ==
    ASSUME NEW S, IsFiniteSet(S), NEW U \in SUBSET SUBSET S, U # {}
    PROVE  \E s \in U : \A t \in U : ~(t \subseteq s /\ t # s)
<1>1. IsWellFoundedOn(StrictSubsetOrdering(S), FiniteSubsetsOf(S))
  BY FS_StrictSubsetOrderingWellFounded
<1>2. U \subseteq FiniteSubsetsOf(S)
  BY FS_FiniteSubsetsOfFinite
<1>3. PICK s \in U : \A t \in U : ~(<<t, s>> \in StrictSubsetOrdering(S))
  BY <1>1, <1>2, WFMin
<1>4. ASSUME NEW t \in U, t \subseteq s, t # s PROVE FALSE
  <2>1. <<t, s>> \in StrictSubsetOrdering(S)
    BY <1>4 DEF StrictSubsetOrdering
  <2>2. QED
    BY <1>3, <2>1
<1>5. QED
  BY <1>4

-----------------------------------------------------------------------------
(* Counting cells.                                                          *)

LEMMA ColumnFinite ==
    ASSUME NEW S, NEW f \in [S -> Nat], NEW x \in S
    PROVE  IsFiniteSet(Column(f, x)) /\ Cardinality(Column(f, x)) = f[x]
<1>1. f[x] \in Nat
  OBVIOUS
<1>2. IsFiniteSet(1 .. f[x]) /\ Cardinality(1 .. f[x]) = f[x]
  BY <1>1, FS_Interval
<1>3. IsFiniteSet({x}) /\ Cardinality({x}) = 1
  BY FS_Singleton
<1>4. IsFiniteSet(Column(f, x)) /\ Cardinality(Column(f, x)) = 1 * f[x]
  BY <1>2, <1>3, FS_Product DEF Column
<1>5. QED
  BY <1>1, <1>4

LEMMA CellsColumn ==
    ASSUME NEW S, NEW f \in [S -> Nat], NEW s \in SUBSET S, NEW x \in s
    PROVE  /\ Cells(f, s) = Cells(f, s \ {x}) \cup Column(f, x)
           /\ Cells(f, s \ {x}) \cap Column(f, x) = {}
<1>1. 1 .. f[x] \subseteq Nat
  OBVIOUS
<1>2. QED
  BY <1>1 DEF Cells, Column

LEMMA CellsFinite ==
    ASSUME NEW S, IsFiniteSet(S), NEW f \in [S -> Nat], NEW s \in SUBSET S
    PROVE  IsFiniteSet(Cells(f, s)) /\ Cardinality(Cells(f, s)) \in Nat
<1> DEFINE U == {t \in SUBSET S : ~IsFiniteSet(Cells(f, t))}
<1>1. SUFFICES ASSUME s \in U PROVE FALSE
  BY FS_CardinalityType
<1>2. PICK t \in U : \A u \in U : ~(u \subseteq t /\ u # t)
  <2>1. U \in SUBSET SUBSET S /\ U # {}
    BY <1>1
  <2> HIDE DEF U
  <2>2. QED
    BY <2>1, SmallestSubset
<1>3. CASE t = {}
  <2>1. Cells(f, t) = {}
    BY <1>3 DEF Cells
  <2>2. QED
    BY <1>2, <2>1, FS_EmptySet
<1>4. CASE t # {}
  <2>1. PICK x \in t : TRUE
    BY <1>4
  <2>2. IsFiniteSet(Cells(f, t \ {x}))
    BY <1>2, <2>1
  <2>3. IsFiniteSet(Column(f, x))
    BY <2>1, <1>2, ColumnFinite
  <2>4. Cells(f, t) = Cells(f, t \ {x}) \cup Column(f, x)
    BY <2>1, <1>2, CellsColumn
  <2>5. IsFiniteSet(Cells(f, t \ {x}) \cup Column(f, x))
    BY <2>2, <2>3, FS_Union
  <2>6. ~IsFiniteSet(Cells(f, t))
    BY <1>2
  <2>7. QED
    BY <2>4, <2>5, <2>6
<1>5. QED
  BY <1>3, <1>4

LEMMA CellsAdd ==
    ASSUME NEW S, IsFiniteSet(S), NEW f \in [S -> Nat], NEW s \in SUBSET S, NEW x \in s
    PROVE  Cardinality(Cells(f, s)) = f[x] + Cardinality(Cells(f, s \ {x}))
<1> DEFINE A == Cells(f, s \ {x})
           B == Column(f, x)
<1>1. IsFiniteSet(A) /\ Cardinality(A) \in Nat
  BY CellsFinite
<1>2. IsFiniteSet(B) /\ Cardinality(B) = f[x] /\ f[x] \in Nat
  BY ColumnFinite
<1>3. Cells(f, s) = A \cup B /\ A \cap B = {}
  BY CellsColumn
<1> HIDE DEF A, B
<1>4. Cardinality(A \cup B) = Cardinality(A) + Cardinality(B) - Cardinality(A \cap B)
  BY <1>1, <1>2, FS_Union
<1>5. Cardinality(A \cap B) = 0
  BY <1>3, FS_EmptySet
<1>6. Cardinality(A \cup B) = f[x] + Cardinality(A)
  BY <1>1, <1>2, <1>4, <1>5
<1>7. QED
  BY <1>3, <1>6 DEF A

\* The fold counts the cells: it is the only function its equation allows.
LEMMA TotalIsCount ==
    ASSUME NEW S, IsFiniteSet(S), NEW f \in [S -> Nat]
    PROVE  Total(f) = Cardinality(Cells(f, S)) /\ Total(f) \in Nat
<1> DEFINE count == [s \in SUBSET S |-> Cardinality(Cells(f, s))]
<1>1. DOMAIN f = S
  OBVIOUS
<1>2. Iterates(f, count)
  <2>1. ASSUME NEW s \in SUBSET S
        PROVE  count[s] = IF s = {} THEN 0 ELSE f[SomeOf(s)] + count[s \ {SomeOf(s)}]
    <3>1. CASE s = {}
      <4>1. Cells(f, s) = {}
        BY <3>1 DEF Cells
      <4>2. QED
        BY <3>1, <4>1, FS_EmptySet
    <3>2. CASE s # {}
      <4>1. SomeOf(s) \in s
        BY <3>2 DEF SomeOf
      <4>2. QED
        BY <3>2, <4>1, CellsAdd
    <3>3. QED
      BY <3>1, <3>2
  <2> DEFINE rhs == [s \in SUBSET S |->
                        IF s = {} THEN 0 ELSE f[SomeOf(s)] + count[s \ {SomeOf(s)}]]
  <2>2. count = rhs
    BY <2>1
  <2>3. QED
    BY <1>1, <2>2 DEF Iterates
<1>3. ASSUME NEW g, Iterates(f, g) PROVE g[S] = count[S]
  <2> DEFINE U == {s \in SUBSET S : g[s] # count[s]}
  <2>1. ASSUME NEW s \in SUBSET S
        PROVE  /\ g[s] = IF s = {} THEN 0 ELSE f[SomeOf(s)] + g[s \ {SomeOf(s)}]
               /\ count[s] = IF s = {} THEN 0 ELSE f[SomeOf(s)] + count[s \ {SomeOf(s)}]
    BY <1>1, <1>2, <1>3 DEF Iterates
  <2> HIDE DEF count
  <2>2. SUFFICES ASSUME S \in U PROVE FALSE
    OBVIOUS
  <2>3. PICK s \in U : \A t \in U : ~(t \subseteq s /\ t # s)
    <3>1. U \in SUBSET SUBSET S /\ U # {}
      BY <2>2
    <3> HIDE DEF U
    <3>2. QED
      BY <3>1, SmallestSubset
  <2>4. s # {}
    BY <2>1, <2>3
  <2>5. SomeOf(s) \in s
    BY <2>4 DEF SomeOf
  <2>6. g[s \ {SomeOf(s)}] = count[s \ {SomeOf(s)}]
    BY <2>3, <2>5
  <2>7. QED
    BY <2>1, <2>3, <2>6
<1>4. Iterates(f, CHOOSE g : Iterates(f, g))
  BY <1>2
<1>5. Total(f) = count[S]
  BY <1>1, <1>3, <1>4, TotalIterates
<1>6. QED
  BY <1>5, CellsFinite

-----------------------------------------------------------------------------
(* The laws.                                                                *)

\* The total changes by as much as the one value that changes.
THEOREM TotalUpdate ==
    ASSUME NEW S, IsFiniteSet(S), NEW f \in [S -> Nat], NEW x \in S, NEW n \in Nat
    PROVE  /\ Total([f EXCEPT ![x] = n]) + f[x] = Total(f) + n
           /\ Total([f EXCEPT ![x] = n]) \in Nat
           /\ Total(f) \in Nat
<1> DEFINE g == [f EXCEPT ![x] = n]
<1>1. g \in [S -> Nat] /\ g[x] = n
  OBVIOUS
<1>2. Cells(g, S \ {x}) = Cells(f, S \ {x})
  BY DEF Cells
<1> HIDE DEF g
<1>3. Cardinality(Cells(g, S)) = n + Cardinality(Cells(g, S \ {x}))
  BY <1>1, CellsAdd
<1>4. Cardinality(Cells(f, S)) = f[x] + Cardinality(Cells(f, S \ {x}))
  BY CellsAdd
<1>5. /\ Total(g) = Cardinality(Cells(g, S)) /\ Total(g) \in Nat
      /\ Total(f) = Cardinality(Cells(f, S)) /\ Total(f) \in Nat
  BY <1>1, TotalIsCount
<1>6. Cardinality(Cells(f, S \ {x})) \in Nat /\ f[x] \in Nat
  BY CellsFinite
<1>7. Total(g) + f[x] = Total(f) + n
  BY <1>2, <1>3, <1>4, <1>5, <1>6
<1>8. QED
  BY <1>5, <1>7 DEF g

\* Larger values have a larger total.
THEOREM TotalMonotone ==
    ASSUME NEW S, IsFiniteSet(S), NEW f \in [S -> Nat], NEW g \in [S -> Nat],
           \A x \in S : f[x] <= g[x]
    PROVE  Total(f) <= Total(g) /\ Total(f) \in Nat /\ Total(g) \in Nat
<1>1. Cells(f, S) \subseteq Cells(g, S)
  <2>1. ASSUME NEW x \in S PROVE 1 .. f[x] \subseteq 1 .. g[x]
    <3>1. f[x] \in Nat /\ g[x] \in Nat /\ f[x] <= g[x]
      OBVIOUS
    <3>2. QED
      BY <3>1
  <2>2. QED
    BY <2>1 DEF Cells
<1>2. Cardinality(Cells(f, S)) <= Cardinality(Cells(g, S))
  BY <1>1, CellsFinite, FS_Subset
<1>3. QED
  BY <1>2, TotalIsCount

\* Nothing adds up to nothing.
THEOREM TotalZero ==
    ASSUME NEW S, IsFiniteSet(S)
    PROVE  Total([x \in S |-> 0]) = 0
<1> DEFINE f == [x \in S |-> 0]
<1>1. f \in [S -> Nat]
  OBVIOUS
<1>2. Cells(f, S) = {}
  BY DEF Cells
<1> HIDE DEF f
<1>3. Total(f) = 0
  BY <1>1, <1>2, TotalIsCount, FS_EmptySet
<1>4. QED
  BY <1>3 DEF f

\* Counting n more at x adds n to the total.
THEOREM TotalAdd ==
    ASSUME NEW S, IsFiniteSet(S), NEW f \in [S -> Nat], NEW g \in [S -> Nat],
           NEW x \in S, NEW n \in Nat,
           g[x] = f[x] + n, \A y \in S \ {x} : g[y] = f[y]
    PROVE  Total(g) = Total(f) + n /\ Total(f) \in Nat
<1>1. PICK m \in Nat : m = g[x]
  OBVIOUS
<1>2. g = [f EXCEPT ![x] = m]
  BY <1>1
<1>3. /\ Total([f EXCEPT ![x] = m]) + f[x] = Total(f) + m
      /\ Total([f EXCEPT ![x] = m]) \in Nat
      /\ Total(f) \in Nat
  BY TotalUpdate
<1>4. f[x] \in Nat
  OBVIOUS
<1>5. QED
  BY <1>1, <1>2, <1>3, <1>4

\* Moving what is at x to y keeps the total.
THEOREM TotalMove ==
    ASSUME NEW S, IsFiniteSet(S), NEW f \in [S -> Nat], NEW g \in [S -> Nat],
           NEW x \in S, NEW y \in S, x # y,
           g[x] = 0, g[y] = f[y] + f[x], \A z \in S \ {x, y} : g[z] = f[z]
    PROVE  Total(g) = Total(f) /\ Total(f) \in Nat
<1>1. PICK h \in [S -> Nat] : h = [f EXCEPT ![x] = 0]
  OBVIOUS
<1>2. h[x] = 0 /\ \A z \in S \ {x} : h[z] = f[z]
  BY <1>1
<1>3. PICK n \in Nat : n = f[x]
  OBVIOUS
<1>4. Total(f) = Total(h) + n /\ Total(h) \in Nat
  <2>1. f[x] = h[x] + n /\ \A z \in S \ {x} : f[z] = h[z]
    BY <1>2, <1>3
  <2>2. QED
    BY <2>1, TotalAdd
<1>5. Total(g) = Total(h) + n
  <2>1. g[y] = h[y] + n /\ \A z \in S \ {y} : g[z] = h[z]
    BY <1>2, <1>3
  <2>2. QED
    BY <2>1, TotalAdd
<1>6. QED
  BY <1>4, <1>5

\* The totals of two functions that are nowhere both positive add up.
THEOREM TotalDisjoint ==
    ASSUME NEW S, IsFiniteSet(S), NEW f \in [S -> Nat], NEW g \in [S -> Nat],
           NEW h \in [S -> Nat],
           \A x \in S : \/ f[x] = 0 /\ h[x] = g[x]
                        \/ g[x] = 0 /\ h[x] = f[x]
    PROVE  Total(h) = Total(f) + Total(g) /\ Total(f) \in Nat /\ Total(g) \in Nat
<1>1. ASSUME NEW x \in S
      PROVE  /\ 1 .. h[x] = (1 .. f[x]) \cup (1 .. g[x])
             /\ (1 .. f[x]) \cap (1 .. g[x]) = {}
  <2>1. 1 .. 0 = {}
    OBVIOUS
  <2>2. QED
    BY <2>1, Zenon
<1> DEFINE F == Cells(f, S)
           G == Cells(g, S)
<1>2. Cells(h, S) = F \cup G /\ F \cap G = {}
  BY <1>1 DEF Cells
<1>3. /\ IsFiniteSet(F) /\ Cardinality(F) \in Nat /\ Total(f) = Cardinality(F)
      /\ IsFiniteSet(G) /\ Cardinality(G) \in Nat /\ Total(g) = Cardinality(G)
      /\ Total(h) = Cardinality(Cells(h, S))
  BY CellsFinite, TotalIsCount
<1> HIDE DEF F, G
<1>4. Cardinality(F \cup G) = Cardinality(F) + Cardinality(G) - Cardinality(F \cap G)
  BY <1>3, FS_Union
<1>5. Cardinality(F \cap G) = 0
  BY <1>2, FS_EmptySet
<1>6. QED
  BY <1>2, <1>3, <1>4, <1>5

\* A total does not depend on how its places are numbered, and places that count
\* nothing may be left out.
THEOREM TotalReindex ==
    ASSUME NEW S, IsFiniteSet(S), NEW T, IsFiniteSet(T),
           NEW f \in [S -> Nat], NEW k \in [T -> S], NEW g \in [T -> Nat],
           \A t, u \in T : k[t] = k[u] => t = u,
           \A x \in S : (\A t \in T : k[t] # x) => f[x] = 0,
           \A t \in T : g[t] = f[k[t]]
    PROVE  Total(g) = Total(f) /\ Total(f) \in Nat
<1> DEFINE B == [c \in Cells(g, T) |-> <<k[c[1]], c[2]>>]
<1>1. ASSUME NEW c \in Cells(g, T)
      PROVE  c \in T \X Nat /\ c[2] \in 1 .. f[k[c[1]]] /\ B[c] \in Cells(f, S)
  <2>1. c \in T \X Nat /\ c[2] \in 1 .. g[c[1]]
    BY DEF Cells
  <2>2. c[1] \in T /\ c[2] \in Nat /\ c[2] \in 1 .. f[k[c[1]]]
    BY <2>1
  <2>3. <<k[c[1]], c[2]>> \in S \X Nat
    BY <2>2
  <2>4. <<k[c[1]], c[2]>> \in Cells(f, S)
    BY <2>2, <2>3 DEF Cells
  <2>5. QED
    BY <2>1, <2>2, <2>4
<1>2. B \in [Cells(g, T) -> Cells(f, S)]
  BY <1>1
<1>3. ASSUME NEW c \in Cells(g, T), NEW d \in Cells(g, T), B[c] = B[d]
      PROVE  c = d
  <2>1. k[c[1]] = k[d[1]] /\ c[2] = d[2]
    BY <1>3
  <2>2. c \in T \X Nat /\ d \in T \X Nat
    BY DEF Cells
  <2>3. QED
    BY <2>1, <2>2
<1>4. ASSUME NEW e \in Cells(f, S)
      PROVE  \E c \in Cells(g, T) : B[c] = e
  <2>1. e \in S \X Nat /\ e[2] \in 1 .. f[e[1]]
    BY DEF Cells
  <2>2. e[1] \in S /\ e[2] \in Nat /\ e = <<e[1], e[2]>> /\ f[e[1]] # 0
    BY <2>1
  <2>3. PICK t \in T : k[t] = e[1]
    BY <2>2
  <2>4. PICK c : c = <<t, e[2]>>
    OBVIOUS
  <2>5. c \in Cells(g, T)
    BY <2>1, <2>2, <2>3, <2>4 DEF Cells
  <2>6. B[c] = <<k[t], e[2]>>
    BY <2>4, <2>5
  <2>7. QED
    BY <2>2, <2>3, <2>5, <2>6
<1> HIDE DEF B
<1>5. ExistsBijection(Cells(g, T), Cells(f, S))
  <2>1. B \in Bijection(Cells(g, T), Cells(f, S))
    BY <1>2, <1>3, <1>4, Fun_IsBij
  <2>2. QED
    BY <2>1 DEF ExistsBijection
<1>6. IsFiniteSet(Cells(g, T))
  BY CellsFinite
<1>7. Cardinality(Cells(f, S)) = Cardinality(Cells(g, T))
  BY <1>5, <1>6, FS_Bijection
<1>8. QED
  BY <1>7, TotalIsCount

\* A function that counts at one place only.
THEOREM TotalSingle ==
    ASSUME NEW S, IsFiniteSet(S), NEW f \in [S -> Nat], NEW x \in S,
           \A y \in S \ {x} : f[y] = 0
    PROVE  Total(f) = f[x]
<1>1. PICK z \in [S -> Nat] : z = [y \in S |-> 0]
  OBVIOUS
<1>2. PICK n \in Nat : n = f[x]
  OBVIOUS
<1>3. f[x] = z[x] + n /\ \A y \in S \ {x} : f[y] = z[y]
  BY <1>1, <1>2
<1>4. Total(f) = Total(z) + n /\ Total(z) \in Nat
  BY <1>3, TotalAdd
<1>5. Total(z) = 0
  BY <1>1, TotalZero
<1>6. QED
  BY <1>2, <1>4, <1>5

-----------------------------------------------------------------------------
(* A set of naturals has a smallest element.                                *)

LEMMA LeastNatural ==
    ASSUME NEW N \in SUBSET Nat, N # {}
    PROVE  \E m \in N : \A n \in N : m <= n
<1>1. PICK m \in N : \A n \in N : ~(<<n, m>> \in OpToRel(<, Nat))
  BY NatLessThanWellFounded, WFMin
<1>2. \A n \in N : ~(n < m)
  BY <1>1 DEF OpToRel
<1>3. QED
  BY <1>2
=============================================================================
