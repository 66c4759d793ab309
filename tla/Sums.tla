-------------------------------- MODULE Sums --------------------------------
(***************************************************************************)
(* Sums of money and of quantities over finite sets: the facts about       *)
(* MapThenSumSet of the community modules that the proofs need.  A sum is   *)
(* taken of a function, so that no lemma has an operator for a parameter;  *)
(* in the place of induction stands the smallest set that is an exception. *)
(***************************************************************************)
EXTENDS Integers, FiniteSetsExt, FiniteSetTheorems, WellFoundedInduction, TLAPS

Sum(f, S) == MapThenSumSet(LAMBDA x : f[x], S)

Chosen(s) == CHOOSE x \in s : TRUE

\* The recursive function behind the sum, on some sets.
SumsOver(f, D, g) ==
    g = [s \in D |-> IF s = {} THEN 0 ELSE f[Chosen(s)] + g[s \ {Chosen(s)}]]

-----------------------------------------------------------------------------
(* The smallest exception *)

\* Among subsets of a finite set there is one that contains no other.
LEMMA SmallestSubset ==
    ASSUME NEW S, IsFiniteSet(S), NEW B \in SUBSET (SUBSET S), B # {}
    PROVE  \E s \in B : \A t \in B : t \subseteq s => t = s
<1> DEFINE N == {Cardinality(s) : s \in B}
<1>1. \A s \in SUBSET S : IsFiniteSet(s) /\ Cardinality(s) \in Nat
  BY FS_Subset, FS_CardinalityType
<1>2. N \subseteq Nat /\ N # {}
  BY <1>1
<1>3. PICK m \in N : \A n \in N : <<n, m>> \notin OpToRel(<, Nat)
  <2>1. IsWellFoundedOn(OpToRel(<, Nat), Nat)
    BY NatLessThanWellFounded
  <2>. HIDE DEF N
  <2>. QED
    BY <1>2, <2>1, WFMin
<1>4. PICK s \in B : m = Cardinality(s)
  OBVIOUS
<1>5. ASSUME NEW t \in B, t \subseteq s PROVE t = s
  <2>1. Cardinality(t) \in N /\ ~(Cardinality(t) < m)
    BY <1>2, <1>3 DEF OpToRel
  <2>. QED
    BY <1>1, <1>4, <1>5, <2>1, FS_Subset
<1>. QED
  BY <1>5

LEMMA ChosenIsIn ==
    ASSUME NEW s, s # {}
    PROVE  Chosen(s) \in s
BY DEF Chosen

-----------------------------------------------------------------------------
(* The sum is the recursive function it is defined by *)

LEMMA SumIsFunction ==
    ASSUME NEW f, NEW S
    PROVE  Sum(f, S) = (CHOOSE g : SumsOver(f, SUBSET S, g))[S]
BY DEF Sum, MapThenSumSet, MapThenFoldSet, SumsOver, Chosen

\* Such a function exists: on the sets of up to n elements, for every n.
LEMMA SumsExist ==
    ASSUME NEW f, NEW S, IsFiniteSet(S)
    PROVE  \E g : SumsOver(f, SUBSET S, g)
<1> DEFINE Small(n) == {s \in SUBSET S : Cardinality(s) <= n}
           N == {n \in Nat : ~ \E g : SumsOver(f, Small(n), g)}
<1>1. \A s \in SUBSET S : IsFiniteSet(s) /\ Cardinality(s) \in Nat
  BY FS_Subset, FS_CardinalityType
<1>2. CASE N # {}
  <2>1. PICK m \in N : \A n \in N : <<n, m>> \notin OpToRel(<, Nat)
    BY <1>2, NatLessThanWellFounded, WFMin
  <2>2. CASE m = 0
    <3>1. \A s \in Small(0) : s = {}
      BY <1>1, FS_EmptySet
    <3>2. SumsOver(f, Small(0), [s \in Small(0) |-> 0])
      BY <3>1 DEF SumsOver
    <3>. QED
      BY <2>2, <3>2
  <2>3. CASE m # 0
    <3>1. m \in Nat /\ m - 1 \in Nat
      BY <2>3
    <3>2. m - 1 \notin N
      <4>1. <<m - 1, m>> \in OpToRel(<, Nat)
        BY <3>1 DEF OpToRel
      <4>. QED
        BY <2>1, <4>1
    <3>3. PICK g : SumsOver(f, Small(m - 1), g)
      BY <3>1, <3>2
    <3> DEFINE h == [s \in Small(m) |-> IF s = {} THEN 0 ELSE f[Chosen(s)] + g[s \ {Chosen(s)}]]
    <3>4. ASSUME NEW s \in Small(m - 1) PROVE g[s] = h[s]
      <4>1. s \in Small(m)
        BY <1>1, <3>1
      <4>. QED
        BY <3>3, <4>1 DEF SumsOver
    <3>5. ASSUME NEW s \in Small(m), s # {} PROVE s \ {Chosen(s)} \in Small(m - 1)
      <4>1. Chosen(s) \in s
        BY <3>5, ChosenIsIn
      <4>2. Cardinality(s \ {Chosen(s)}) = Cardinality(s) - 1
        BY <1>1, <4>1, FS_RemoveElement
      <4>. QED
        BY <1>1, <3>1, <4>2
    <3>6. SumsOver(f, Small(m), h)
      <4>1. \A s \in Small(m) : s # {} => h[s \ {Chosen(s)}] = g[s \ {Chosen(s)}]
        BY <3>4, <3>5
      <4>. QED
        BY <4>1 DEF SumsOver
    <3>. QED
      BY <3>6
  <2>. QED
    BY <2>2, <2>3
<1>3. CASE N = {}
  <2>1. Small(Cardinality(S)) = SUBSET S
    BY <1>1, FS_Subset
  <2>2. Cardinality(S) \notin N /\ Cardinality(S) \in Nat
    BY <1>1, <1>3
  <2>. QED
    BY <2>1, <2>2
<1>. QED
  BY <1>2, <1>3

\* ... and there is only one, whatever finite set it is taken from.
LEMMA SumsAgree ==
    ASSUME NEW f, NEW S, IsFiniteSet(S), NEW T \in SUBSET S, NEW g, NEW h,
           SumsOver(f, SUBSET S, g), SumsOver(f, SUBSET T, h)
    PROVE  \A s \in SUBSET T : g[s] = h[s]
<1> DEFINE B == {s \in SUBSET T : g[s] # h[s]}
<1>1. SUFFICES ASSUME B # {} PROVE FALSE
  OBVIOUS
<1>2. PICK s \in B : \A t \in B : t \subseteq s => t = s
  <2>1. IsFiniteSet(T) /\ B \in SUBSET (SUBSET T)
    BY FS_Subset
  <2>. HIDE DEF B
  <2>. QED
    BY <1>1, <2>1, SmallestSubset
<1>3. s # {}
  BY DEF SumsOver
<1>4. Chosen(s) \in s
  BY <1>3, ChosenIsIn
<1>5. s \ {Chosen(s)} \notin B /\ s \ {Chosen(s)} \in SUBSET T
  BY <1>2, <1>4
<1>6. /\ g[s] = f[Chosen(s)] + g[s \ {Chosen(s)}]
      /\ h[s] = f[Chosen(s)] + h[s \ {Chosen(s)}]
  BY <1>3 DEF SumsOver
<1>. QED
  BY <1>5, <1>6

\* The sum of nothing.
LEMMA SumEmpty ==
    ASSUME NEW f
    PROVE  Sum(f, {}) = 0
<1> DEFINE F == CHOOSE g : SumsOver(f, SUBSET {}, g)
<1>1. SumsOver(f, SUBSET {}, F)
  BY SumsExist, FS_EmptySet
<1>2. F[{}] = 0
  BY <1>1 DEF SumsOver
<1>. QED
  BY <1>2, SumIsFunction

\* The definition, read as an equation.
LEMMA SumChosen ==
    ASSUME NEW f, NEW S, IsFiniteSet(S), S # {}
    PROVE  Sum(f, S) = f[Chosen(S)] + Sum(f, S \ {Chosen(S)})
<1> DEFINE T == S \ {Chosen(S)}
           F == CHOOSE g : SumsOver(f, SUBSET S, g)
           G == CHOOSE g : SumsOver(f, SUBSET T, g)
<1>1. SumsOver(f, SUBSET S, F)
  BY SumsExist
<1>2. IsFiniteSet(T) /\ T \in SUBSET S
  BY FS_Subset
<1>3. SumsOver(f, SUBSET T, G)
  BY <1>2, SumsExist
<1>4. F[S] = f[Chosen(S)] + F[T]
  BY <1>1 DEF SumsOver
<1>5. F[T] = G[T]
  <2>. HIDE DEF F, G, T
  <2>. QED
    BY <1>1, <1>2, <1>3, SumsAgree
<1>6. Sum(f, S) = F[S] /\ Sum(f, T) = G[T]
  BY SumIsFunction
<1>. QED
  BY <1>4, <1>5, <1>6

-----------------------------------------------------------------------------
(* Values *)

LEMMA SumInt ==
    ASSUME NEW S, IsFiniteSet(S), NEW f, \A x \in S : f[x] \in Int
    PROVE  Sum(f, S) \in Int
<1> DEFINE B == {s \in SUBSET S : Sum(f, s) \notin Int}
<1>1. SUFFICES ASSUME B # {} PROVE FALSE
  OBVIOUS
<1>2. PICK s \in B : \A t \in B : t \subseteq s => t = s
  <2>. HIDE DEF B
  <2>1. B \in SUBSET (SUBSET S)
    BY DEF B
  <2>. QED
    BY <1>1, <2>1, SmallestSubset
<1>3. s # {}
  BY SumEmpty
<1>4. Chosen(s) \in s /\ IsFiniteSet(s)
  BY <1>3, ChosenIsIn, FS_Subset
<1>5. Sum(f, s \ {Chosen(s)}) \in Int
  BY <1>2, <1>4
<1>. QED
  BY <1>3, <1>4, <1>5, SumChosen

LEMMA SumNat ==
    ASSUME NEW S, IsFiniteSet(S), NEW f, \A x \in S : f[x] \in Nat
    PROVE  Sum(f, S) \in Nat
<1> DEFINE B == {s \in SUBSET S : Sum(f, s) \notin Nat}
<1>1. SUFFICES ASSUME B # {} PROVE FALSE
  OBVIOUS
<1>2. PICK s \in B : \A t \in B : t \subseteq s => t = s
  <2>. HIDE DEF B
  <2>1. B \in SUBSET (SUBSET S)
    BY DEF B
  <2>. QED
    BY <1>1, <2>1, SmallestSubset
<1>3. s # {}
  BY SumEmpty
<1>4. Chosen(s) \in s /\ IsFiniteSet(s)
  BY <1>3, ChosenIsIn, FS_Subset
<1>5. Sum(f, s \ {Chosen(s)}) \in Nat
  BY <1>2, <1>4
<1>. QED
  BY <1>3, <1>4, <1>5, SumChosen

\* Any element may be taken out first.
LEMMA SumRemove ==
    ASSUME NEW S, IsFiniteSet(S), NEW f, \A x \in S : f[x] \in Int, NEW x \in S
    PROVE  Sum(f, S) = f[x] + Sum(f, S \ {x})
<1> DEFINE B == {s \in SUBSET S : \E y \in s : Sum(f, s) # f[y] + Sum(f, s \ {y})}
<1>1. SUFFICES ASSUME B # {} PROVE FALSE
  OBVIOUS
<1>2. PICK s \in B : \A t \in B : t \subseteq s => t = s
  <2>. HIDE DEF B
  <2>1. B \in SUBSET (SUBSET S)
    BY DEF B
  <2>. QED
    BY <1>1, <2>1, SmallestSubset
<1>3. PICK y \in s : Sum(f, s) # f[y] + Sum(f, s \ {y})
  BY <1>2
<1> DEFINE p == Chosen(s)
<1>4. p \in s /\ \A t \in SUBSET s : IsFiniteSet(t) /\ Sum(f, t) \in Int
  BY ChosenIsIn, FS_Subset, SumInt
<1>5. Sum(f, s) = f[p] + Sum(f, s \ {p})
  BY <1>4, SumChosen
<1>6. p # y
  BY <1>3, <1>5
<1>. HIDE DEF p
<1>7. Sum(f, s \ {p}) = f[y] + Sum(f, (s \ {p}) \ {y})
  <2>1. s \ {p} \notin B
    BY <1>2, <1>4
  <2>. QED
    BY <1>6, <2>1
<1>8. Sum(f, s \ {y}) = f[p] + Sum(f, (s \ {y}) \ {p})
  <2>1. s \ {y} \notin B
    BY <1>2, <1>3
  <2>. QED
    BY <1>4, <1>6, <2>1
<1>9. Sum(f, (s \ {p}) \ {y}) = Sum(f, (s \ {y}) \ {p})
  <2>1. (s \ {p}) \ {y} = (s \ {y}) \ {p}
    OBVIOUS
  <2>. QED
    BY <2>1
<1>10. /\ f[p] \in Int /\ f[y] \in Int
       /\ Sum(f, (s \ {y}) \ {p}) \in Int
  BY <1>4
<1>. QED
  BY <1>3, <1>5, <1>7, <1>8, <1>9, <1>10

-----------------------------------------------------------------------------
(* Two sums *)

LEMMA SumEqual ==
    ASSUME NEW S, IsFiniteSet(S), NEW f, NEW g, \A x \in S : f[x] = g[x]
    PROVE  Sum(f, S) = Sum(g, S)
<1> DEFINE B == {s \in SUBSET S : Sum(f, s) # Sum(g, s)}
<1>1. SUFFICES ASSUME B # {} PROVE FALSE
  OBVIOUS
<1>2. PICK s \in B : \A t \in B : t \subseteq s => t = s
  <2>. HIDE DEF B
  <2>1. B \in SUBSET (SUBSET S)
    BY DEF B
  <2>. QED
    BY <1>1, <2>1, SmallestSubset
<1>3. s # {}
  BY SumEmpty
<1>4. Chosen(s) \in s /\ IsFiniteSet(s)
  BY <1>3, ChosenIsIn, FS_Subset
<1>5. Sum(f, s \ {Chosen(s)}) = Sum(g, s \ {Chosen(s)})
  BY <1>2, <1>4
<1>. QED
  BY <1>3, <1>4, <1>5, SumChosen

LEMMA SumAdd ==
    ASSUME NEW S, IsFiniteSet(S), NEW f, NEW g, NEW h,
           \A x \in S : f[x] \in Int /\ g[x] \in Int /\ h[x] = f[x] + g[x]
    PROVE  Sum(h, S) = Sum(f, S) + Sum(g, S)
<1> DEFINE B == {s \in SUBSET S : Sum(h, s) # Sum(f, s) + Sum(g, s)}
<1>1. SUFFICES ASSUME B # {} PROVE FALSE
  OBVIOUS
<1>2. PICK s \in B : \A t \in B : t \subseteq s => t = s
  <2>. HIDE DEF B
  <2>1. B \in SUBSET (SUBSET S)
    BY DEF B
  <2>. QED
    BY <1>1, <2>1, SmallestSubset
<1>3. s # {}
  <2>1. Sum(f, {}) = 0 /\ Sum(g, {}) = 0 /\ Sum(h, {}) = 0
    BY SumEmpty
  <2>2. Sum(h, {}) = Sum(f, {}) + Sum(g, {})
    BY <2>1
  <2>3. Sum(h, s) # Sum(f, s) + Sum(g, s)
    BY <1>2
  <2>. QED
    BY ONLY <2>2, <2>3, Zenon
<1>4. Chosen(s) \in s /\ IsFiniteSet(s)
  BY <1>3, ChosenIsIn, FS_Subset
<1> DEFINE t == s \ {Chosen(s)}
<1>5. Sum(h, t) = Sum(f, t) + Sum(g, t)
  BY <1>2, <1>4
<1>6. IsFiniteSet(t) /\ Sum(f, t) \in Int /\ Sum(g, t) \in Int
  BY <1>4, FS_Subset, SumInt
<1>7. /\ Sum(f, s) = f[Chosen(s)] + Sum(f, t)
      /\ Sum(g, s) = g[Chosen(s)] + Sum(g, t)
      /\ Sum(h, s) = h[Chosen(s)] + Sum(h, t)
  BY <1>3, <1>4, SumChosen
<1>8. f[Chosen(s)] \in Int /\ g[Chosen(s)] \in Int /\ h[Chosen(s)] = f[Chosen(s)] + g[Chosen(s)]
  BY <1>4
<1>. HIDE DEF t
<1>. QED
  BY <1>5, <1>6, <1>7, <1>8

LEMMA SumMonotonic ==
    ASSUME NEW S, IsFiniteSet(S), NEW f, NEW g,
           \A x \in S : f[x] \in Int /\ g[x] \in Int /\ f[x] <= g[x]
    PROVE  Sum(f, S) <= Sum(g, S)
<1> DEFINE d == [x \in S |-> g[x] - f[x]]
<1>1. \A x \in S : d[x] \in Nat /\ g[x] = f[x] + d[x]
  OBVIOUS
<1>. HIDE DEF d
<1>2. Sum(d, S) \in Nat /\ Sum(f, S) \in Int
  BY <1>1, SumNat, SumInt
<1>3. Sum(g, S) = Sum(f, S) + Sum(d, S)
  BY <1>1, SumAdd
<1>. QED
  BY <1>2, <1>3

\* One term changes.
LEMMA SumChange ==
    ASSUME NEW S, IsFiniteSet(S), NEW f, NEW g, NEW x \in S,
           \A y \in S : f[y] \in Int /\ g[y] \in Int,
           \A y \in S \ {x} : g[y] = f[y]
    PROVE  Sum(g, S) = Sum(f, S) + (g[x] - f[x])
<1>1. /\ Sum(f, S) = f[x] + Sum(f, S \ {x})
      /\ Sum(g, S) = g[x] + Sum(g, S \ {x})
  BY SumRemove
<1>2. IsFiniteSet(S \ {x})
  BY FS_Subset
<1>3. Sum(g, S \ {x}) = Sum(f, S \ {x}) /\ Sum(f, S \ {x}) \in Int
  BY <1>2, SumEqual, SumInt
<1>. QED
  BY <1>1, <1>3

\* Terms that are 0 may be left out.
LEMMA SumZeros ==
    ASSUME NEW S, IsFiniteSet(S), NEW T \in SUBSET S, NEW f,
           \A x \in T : f[x] \in Int, \A x \in S \ T : f[x] = 0
    PROVE  Sum(f, S) = Sum(f, T)
<1> DEFINE B == {s \in SUBSET S : T \subseteq s /\ Sum(f, s) # Sum(f, T)}
<1>1. SUFFICES ASSUME B # {} PROVE FALSE
  OBVIOUS
<1>2. PICK s \in B : \A t \in B : t \subseteq s => t = s
  <2>. HIDE DEF B
  <2>1. B \in SUBSET (SUBSET S)
    BY DEF B
  <2>. QED
    BY <1>1, <2>1, SmallestSubset
<1>3. PICK x \in s : x \notin T
  BY <1>2
<1>4. IsFiniteSet(s) /\ IsFiniteSet(s \ {x}) /\ \A y \in s : f[y] \in Int
  BY FS_Subset
<1>5. Sum(f, s) = f[x] + Sum(f, s \ {x}) /\ Sum(f, s \ {x}) \in Int
  BY <1>4, SumRemove, SumInt
<1>6. Sum(f, s \ {x}) = Sum(f, T)
  BY <1>2, <1>3
<1>. QED
  BY <1>2, <1>3, <1>5, <1>6

\* A term is no more than the sum of terms none of which is negative.
LEMMA SumAtLeast ==
    ASSUME NEW S, IsFiniteSet(S), NEW f, \A y \in S : f[y] \in Nat, NEW x \in S
    PROVE  f[x] <= Sum(f, S)
<1>1. Sum(f, S) = f[x] + Sum(f, S \ {x})
  BY SumRemove
<1>2. Sum(f, S \ {x}) \in Nat
  BY FS_Subset, SumNat
<1>. QED
  BY <1>1, <1>2

\* The terms may be taken by other names.
LEMMA SumReindex ==
    ASSUME NEW S, IsFiniteSet(S), NEW h, \A x, y \in S : h[x] = h[y] => x = y,
           NEW f, NEW g, \A x \in S : g[x] \in Int /\ f[h[x]] = g[x]
    PROVE  /\ IsFiniteSet({h[x] : x \in S})
           /\ Sum(f, {h[x] : x \in S}) = Sum(g, S)
<1> DEFINE Image(s) == {h[x] : x \in s}
           B == {s \in SUBSET S : Sum(f, Image(s)) # Sum(g, s)}
<1>1. \A s \in SUBSET S : IsFiniteSet(s)
  BY FS_Subset
<1>2. \A s \in SUBSET S : IsFiniteSet(Image(s))
  <2>1. ASSUME NEW s \in SUBSET S PROVE IsFiniteSet(Image(s))
    <3>1. [x \in s |-> h[x]] \in Surjection(s, Image(s))
      BY DEF Surjection
    <3> HIDE DEF Image
    <3>. QED
      BY <1>1, <3>1, FS_Surjection
  <2>. QED
    BY <2>1
<1>3. B = {}
  <2> SUFFICES ASSUME B # {} PROVE FALSE
    OBVIOUS
  <2>1. PICK s \in B : \A t \in B : t \subseteq s => t = s
    <3>1. B \in SUBSET (SUBSET S)
      OBVIOUS
    <3> HIDE DEF B
    <3>. QED
      BY <3>1, SmallestSubset
  <2>2. s \in SUBSET S /\ Sum(f, Image(s)) # Sum(g, s)
    OBVIOUS
  <2>3. s # {}
    <3> SUFFICES ASSUME s = {} PROVE FALSE
      OBVIOUS
    <3>1. Image(s) = {}
      OBVIOUS
    <3>. QED
      BY <2>2, <3>1, SumEmpty
  <2>4. PICK x \in s : TRUE
    BY <2>3
  <2> DEFINE t == s \ {x}
  <2>5. t \in SUBSET S /\ t \notin B
    BY <2>1, <2>2, <2>4
  <2>6. Sum(f, Image(t)) = Sum(g, t)
    BY <2>5
  <2>7. Image(s) \ {h[x]} = Image(t) /\ h[x] \in Image(s)
    BY <2>2, <2>4
  <2>8. \A z \in Image(s) : f[z] \in Int
    BY <2>2
  <2>9. \A z \in s : g[z] \in Int
    BY <2>2
  <2>10. IsFiniteSet(s) /\ IsFiniteSet(Image(s))
    BY <1>1, <1>2, <2>2
  <2>11. Sum(f, Image(s)) = f[h[x]] + Sum(f, Image(s) \ {h[x]})
    <3> HIDE DEF Image, B
    <3>. QED
      BY <2>7, <2>8, <2>10, SumRemove
  <2>12. Sum(g, s) = g[x] + Sum(g, t)
    BY <2>4, <2>9, <2>10, SumRemove
  <2>13. f[h[x]] = g[x]
    BY <2>2, <2>4
  <2> HIDE DEF Image, B, t
  <2>. QED
    BY <2>2, <2>6, <2>7, <2>11, <2>12, <2>13
<1>4. Sum(f, Image(S)) = Sum(g, S)
  BY <1>3
<1>. QED
  BY <1>2, <1>4
=============================================================================
