--------------------------- MODULE GatewayProofs ---------------------------
(***************************************************************************)
(* Proofs about Gateway, for every size of the book, every set of accounts *)
(* and prices, all limits and all sequences of commands: book and risk     *)
(* never contradict each other, no command ends in the error for a         *)
(* contradiction, refusals leave no trace, and orders trade in the order   *)
(* of price and time.                                                      *)
(*                                                                         *)
(* The argument follows the code.  GatewayInv is what holds between two    *)
(* commands: the book and the risk state are valid, every resting order    *)
(* has exactly its reservation, older sequences and ids, and settled       *)
(* positions sum to zero.  The fills of an order are a plan (IsPlan), be   *)
(* they from build_plan or from the fast path.  Book and risk go through a *)
(* plan side by side (Trading), and what is left is discarded or rests.    *)
(***************************************************************************)
EXTENDS Gateway, SequenceTheorems, FiniteSetTheorems, WellFoundedInduction,
        NaturalsInduction, TLAPS

-----------------------------------------------------------------------------
(* Induction over the naturals and over the subsets of a finite set, with  *)
(* sets in place of predicates.                                            *)

\* A non-empty set of naturals has a least element.
LEMMA HasMinimum ==
  ASSUME NEW T \in SUBSET Nat, T # {}
  PROVE  \E m \in T : \A k \in T : m <= k
<1>1. IsWellFoundedOn(OpToRel(<, Nat), Nat)
  BY NatLessThanWellFounded
<1>2. \E x \in T : \A y \in T : ~ (<<y, x>> \in OpToRel(<, Nat))
  BY <1>1, WFMin, Zenon
<1>3. OpToRel(<, Nat) = {ss \in Nat \X Nat : ss[1] < ss[2]}
  BY Zenon DEF OpToRel
<1>4. PICK x \in T : \A y \in T : ~ (<<y, x>> \in {ss \in Nat \X Nat : ss[1] < ss[2]})
  BY <1>2, <1>3, Zenon
<1>5. ASSUME NEW y \in T PROVE x <= y
  <2>1. ~ (<<y, x>> \in {ss \in Nat \X Nat : ss[1] < ss[2]})
    BY <1>4
  <2>2. <<y, x>> \in Nat \X Nat /\ <<y, x>>[1] = y /\ <<y, x>>[2] = x
    OBVIOUS
  <2>3. ~ (y < x)
    BY <2>1, <2>2
  <2>. QED BY <2>3
<1>. QED BY <1>5

\* Induction on the naturals
LEMMA SetInduction ==
  ASSUME NEW T, 0 \in T, \A k \in Nat : k \in T => k + 1 \in T
  PROVE  \A k \in Nat : k \in T
<1>. SUFFICES ASSUME Nat \ T # {} PROVE FALSE
  OBVIOUS
<1>1. PICK m \in Nat \ T : \A k \in Nat \ T : m <= k
  BY HasMinimum
<1>2. m # 0 /\ m - 1 \in Nat
  OBVIOUS
<1>3. m - 1 \in T
  BY <1>1, <1>2
<1>4. (m - 1) + 1 = m
  BY <1>2
<1>. QED BY <1>2, <1>3, <1>4

\* Induction on the subsets of a finite set
LEMMA FiniteInduction ==
  ASSUME NEW D, IsFiniteSet(D), NEW T, {} \in T,
         \A S \in SUBSET D : S # {} /\ (\A x \in S : S \ {x} \in T) => S \in T
  PROVE  \A S \in SUBSET D : S \in T
<1>. DEFINE K == {k \in Nat : \A S \in SUBSET D : Cardinality(S) = k => S \in T}
<1>0. \A S \in SUBSET D : IsFiniteSet(S) /\ Cardinality(S) \in Nat
  BY FS_Subset, FS_CardinalityType
<1>1. 0 \in K
  <2>1. \A S \in SUBSET D : Cardinality(S) = 0 => S = {}
    BY <1>0, FS_EmptySet
  <2>. QED BY <2>1
<1>2. ASSUME NEW k \in Nat, k \in K PROVE k + 1 \in K
  <2>1. ASSUME NEW S \in SUBSET D, Cardinality(S) = k + 1 PROVE S \in T
    <3>1. IsFiniteSet(S)
      BY <1>0
    <3>2. S # {}
      <4>1. S = {} => Cardinality(S) = 0
        BY FS_EmptySet
      <4>. QED BY <4>1, <2>1
    <3>3. ASSUME NEW x \in S PROVE S \ {x} \in T
      <4>1. Cardinality(S \ {x}) = Cardinality(S) - 1
        BY <3>1, FS_RemoveElement
      <4>2. S \ {x} \in SUBSET D /\ Cardinality(S \ {x}) = k
        BY <4>1, <2>1
      <4>. QED BY <1>2, <4>2
    <3>. QED BY <3>2, <3>3
  <2>. QED BY <2>1
<1>3. \A k \in Nat : k \in K
  <2>. HIDE DEF K
  <2>. QED BY <1>1, <1>2, SetInduction
<1>. QED BY <1>0, <1>3

-----------------------------------------------------------------------------
(* What the recursive functions of the model compute, step by step.        *)

LEMMA TotalSteps ==
  ASSUME NEW level, Len(level) \in Nat
  PROVE  \E sum : /\ sum = [n \in 0 .. Len(level) |->
                              IF n = 0 THEN 0 ELSE sum[n - 1] + level[n].quantity]
                  /\ Total(level) = sum[Len(level)]
<1>. DEFINE IsSum(s, k) == s = [n \in 0 .. k |-> IF n = 0 THEN 0 ELSE s[n - 1] + level[n].quantity]
            T == {k \in Nat : \E s : IsSum(s, k)}
<1>1. 0 \in T
  <2>. DEFINE s == [n \in 0 .. 0 |-> 0]
  <2>1. IsSum(s, 0)
    OBVIOUS
  <2>. QED BY <2>1
<1>2. ASSUME NEW k \in Nat, k \in T PROVE k + 1 \in T
  <2>1. PICK s : IsSum(s, k)
    BY <1>2
  <2>. DEFINE t == [n \in 0 .. k + 1 |-> IF n = 0 THEN 0 ELSE s[n - 1] + level[n].quantity]
  <2>2. \A n \in 0 .. k : t[n] = s[n]
    BY <2>1
  <2>3. \A n \in 0 .. k + 1 : n # 0 => t[n - 1] = s[n - 1]
    BY <2>2
  <2>4. IsSum(t, k + 1)
    BY <2>3
  <2>5. k + 1 \in Nat
    OBVIOUS
  <2>. HIDE DEF t, IsSum
  <2>. QED BY <2>4, <2>5
<1>3. Len(level) \in T
  <2>. HIDE DEF T
  <2>. QED BY <1>1, <1>2, SetInduction
<1>. DEFINE sum == CHOOSE s : IsSum(s, Len(level))
<1>4. IsSum(sum, Len(level))
  BY <1>3
<1>5. Total(level) = sum[Len(level)]
  BY DEF Total
<1>. HIDE DEF sum
<1>. QED BY <1>4, <1>5

\* What is left of an order, maker by maker
LEMMA LeftSteps ==
  ASSUME NEW b, NEW makers, NEW quantity, Len(makers) \in Nat
  PROVE  \E f : /\ f = [i \in 0 .. Len(makers) |-> IF i = 0 THEN quantity
                     ELSE f[i - 1] - Least(f[i - 1], OrderAt(b, makers[i]).quantity)]
                /\ LeftAfter(b, makers, quantity) = f
<1>. DEFINE Is(f, k) == f = [i \in 0 .. k |-> IF i = 0 THEN quantity
            ELSE f[i - 1] - Least(f[i - 1], OrderAt(b, makers[i]).quantity)]
            T == {k \in Nat : \E f : Is(f, k)}
<1>1. 0 \in T
  <2>. DEFINE f == [i \in 0 .. 0 |-> quantity]
  <2>1. Is(f, 0)
    OBVIOUS
  <2>. QED BY <2>1
<1>2. ASSUME NEW k \in Nat, k \in T PROVE k + 1 \in T
  <2>1. PICK f : Is(f, k)
    BY <1>2
  <2>. DEFINE g == [i \in 0 .. k + 1 |-> IF i = 0 THEN quantity
              ELSE f[i - 1] - Least(f[i - 1], OrderAt(b, makers[i]).quantity)]
  <2>2. \A i \in 0 .. k : g[i] = f[i]
    <3>1. \A i \in 0 .. k : f[i] = IF i = 0 THEN quantity
          ELSE f[i - 1] - Least(f[i - 1], OrderAt(b, makers[i]).quantity)
      BY <2>1
    <3>2. \A i \in 0 .. k : g[i] = IF i = 0 THEN quantity
          ELSE f[i - 1] - Least(f[i - 1], OrderAt(b, makers[i]).quantity)
      OBVIOUS
    <3>. HIDE DEF g
    <3>. QED BY <3>1, <3>2, Zenon
  <2>3. \A i \in 0 .. k + 1 : i # 0 => g[i - 1] = f[i - 1]
    <3>1. \A i \in 0 .. k + 1 : i # 0 => i - 1 \in 0 .. k
      OBVIOUS
    <3>. HIDE DEF g
    <3>. QED BY <2>2, <3>1, Zenon
  <2>4. Is(g, k + 1)
    BY <2>3
  <2>5. k + 1 \in Nat
    OBVIOUS
  <2>. HIDE DEF g, Is
  <2>. QED BY <2>4, <2>5
<1>3. Len(makers) \in T
  <2>. HIDE DEF T
  <2>. QED BY <1>1, <1>2, SetInduction
<1>. DEFINE f == CHOOSE f : Is(f, Len(makers))
<1>4. Is(f, Len(makers))
  BY <1>3
<1>5. LeftAfter(b, makers, quantity) = f
  BY DEF LeftAfter
<1>. HIDE DEF f
<1>. QED BY <1>4, <1>5

\* The book, fill by fill
LEMMA ApplySteps ==
  ASSUME NEW b, NEW fills, Len(fills) \in Nat
  PROVE  \E f : /\ f = [i \in 0 .. Len(fills) |-> IF i = 0 THEN b
                     ELSE FillMaker(f[i - 1], fills[i])]
                /\ ApplyFills(b, fills) = f[Len(fills)]
<1>. DEFINE Is(f, k) == f = [i \in 0 .. k |-> IF i = 0 THEN b ELSE FillMaker(f[i - 1], fills[i])]
            T == {k \in Nat : \E f : Is(f, k)}
<1>1. 0 \in T
  <2>. DEFINE f == [i \in 0 .. 0 |-> b]
  <2>1. Is(f, 0)
    OBVIOUS
  <2>. QED BY <2>1
<1>2. ASSUME NEW k \in Nat, k \in T PROVE k + 1 \in T
  <2>1. PICK f : Is(f, k)
    BY <1>2
  <2>. DEFINE g == [i \in 0 .. k + 1 |-> IF i = 0 THEN b ELSE FillMaker(f[i - 1], fills[i])]
  <2>2. \A i \in 0 .. k : g[i] = f[i]
    <3>1. \A i \in 0 .. k : f[i] = IF i = 0 THEN b ELSE FillMaker(f[i - 1], fills[i])
      BY <2>1
    <3>2. \A i \in 0 .. k : g[i] = IF i = 0 THEN b ELSE FillMaker(f[i - 1], fills[i])
      OBVIOUS
    <3>. HIDE DEF g
    <3>. QED BY <3>1, <3>2, Zenon
  <2>3. \A i \in 0 .. k + 1 : i # 0 => g[i - 1] = f[i - 1]
    <3>1. \A i \in 0 .. k + 1 : i # 0 => i - 1 \in 0 .. k
      OBVIOUS
    <3>. HIDE DEF g
    <3>. QED BY <2>2, <3>1, Zenon
  <2>4. Is(g, k + 1)
    BY <2>3
  <2>5. k + 1 \in Nat
    OBVIOUS
  <2>. HIDE DEF g, Is
  <2>. QED BY <2>4, <2>5
<1>3. Len(fills) \in T
  <2>. HIDE DEF T
  <2>. QED BY <1>1, <1>2, SetInduction
<1>. DEFINE f == CHOOSE f : Is(f, Len(fills))
<1>4. Is(f, Len(fills))
  BY <1>3
<1>5. ApplyFills(b, fills) = f[Len(fills)]
  BY DEF ApplyFills
<1>. HIDE DEF f
<1>. QED BY <1>4, <1>5

\* The risk state, fill by fill
LEMMA RecordSteps ==
  ASSUME NEW r, NEW fills, NEW taker, Len(fills) \in Nat
  PROVE  \E f : /\ f = [i \in 0 .. Len(fills) |-> IF i = 0 THEN [ok |-> TRUE, risk |-> r]
                     ELSE FillStep(f[i - 1], fills[i], taker)]
                /\ RecordFills(r, fills, taker) = f[Len(fills)]
<1>. DEFINE Is(f, k) == f = [i \in 0 .. k |-> IF i = 0 THEN [ok |-> TRUE, risk |-> r]
            ELSE FillStep(f[i - 1], fills[i], taker)]
            T == {k \in Nat : \E f : Is(f, k)}
<1>1. 0 \in T
  <2>. DEFINE f == [i \in 0 .. 0 |-> [ok |-> TRUE, risk |-> r]]
  <2>1. Is(f, 0)
    OBVIOUS
  <2>. QED BY <2>1
<1>2. ASSUME NEW k \in Nat, k \in T PROVE k + 1 \in T
  <2>1. PICK f : Is(f, k)
    BY <1>2
  <2>. DEFINE g == [i \in 0 .. k + 1 |-> IF i = 0 THEN [ok |-> TRUE, risk |-> r]
              ELSE FillStep(f[i - 1], fills[i], taker)]
  <2>2. \A i \in 0 .. k : g[i] = f[i]
    <3>1. \A i \in 0 .. k : f[i] = IF i = 0 THEN [ok |-> TRUE, risk |-> r]
          ELSE FillStep(f[i - 1], fills[i], taker)
      BY <2>1
    <3>2. \A i \in 0 .. k : g[i] = IF i = 0 THEN [ok |-> TRUE, risk |-> r]
          ELSE FillStep(f[i - 1], fills[i], taker)
      OBVIOUS
    <3>. HIDE DEF g
    <3>. QED BY <3>1, <3>2, Zenon
  <2>3. \A i \in 0 .. k + 1 : i # 0 => g[i - 1] = f[i - 1]
    <3>1. \A i \in 0 .. k + 1 : i # 0 => i - 1 \in 0 .. k
      OBVIOUS
    <3>. HIDE DEF g
    <3>. QED BY <2>2, <3>1, Zenon
  <2>4. Is(g, k + 1)
    BY <2>3
  <2>5. k + 1 \in Nat
    OBVIOUS
  <2>. HIDE DEF g, Is
  <2>. QED BY <2>4, <2>5
<1>3. Len(fills) \in T
  <2>. HIDE DEF T
  <2>. QED BY <1>1, <1>2, SetInduction
<1>. DEFINE f == CHOOSE f : Is(f, Len(fills))
<1>4. Is(f, Len(fills))
  BY <1>3
<1>5. RecordFills(r, fills, taker) = f[Len(fills)]
  BY DEF RecordFills
<1>. HIDE DEF f
<1>. QED BY <1>4, <1>5

-----------------------------------------------------------------------------
(* Sums over finite sets.                                                  *)

Chosen(s) == CHOOSE x \in s : TRUE
\* g is the table of the sums of f over the members of D.
IsSumOn(g, f, D) ==
  g = [s \in D |-> IF s = {} THEN 0 ELSE f[Chosen(s)] + g[s \ {Chosen(s)}]]

LEMMA SumUnfolds ==
  ASSUME NEW f, NEW S, IsFiniteSet(S)
  PROVE  \E g : IsSumOn(g, f, SUBSET S) /\ SumOver(f, S) = g[S]
<1>. DEFINE Upto(k) == {s \in SUBSET S : Cardinality(s) <= k}
            T == {k \in Nat : \E g : IsSumOn(g, f, Upto(k))}
<1>0. \A s \in SUBSET S : /\ IsFiniteSet(s) /\ Cardinality(s) \in Nat
                          /\ Cardinality(s) <= Cardinality(S)
  BY FS_Subset, FS_CardinalityType
<1>1. \A s \in SUBSET S : s # {} =>
        /\ s \ {Chosen(s)} \in SUBSET S
        /\ Cardinality(s \ {Chosen(s)}) = Cardinality(s) - 1
  <2>1. ASSUME NEW s \in SUBSET S, s # {}
        PROVE  s \ {Chosen(s)} \in SUBSET S /\ Cardinality(s \ {Chosen(s)}) = Cardinality(s) - 1
    <3>1. Chosen(s) \in s
      BY <2>1 DEF Chosen
    <3>. QED BY <1>0, <3>1, FS_RemoveElement
  <2>. QED BY <2>1
<1>2. 0 \in T
  <2>. DEFINE g == [s \in Upto(0) |-> 0]
  <2>1. \A s \in Upto(0) : s = {}
    BY <1>0, FS_EmptySet
  <2>2. IsSumOn(g, f, Upto(0))
    BY <2>1 DEF IsSumOn
  <2>. HIDE DEF g, Upto
  <2>. QED BY <2>2
<1>3. ASSUME NEW k \in Nat, k \in T PROVE k + 1 \in T
  <2>1. PICK g : IsSumOn(g, f, Upto(k))
    BY <1>3
  <2>. DEFINE h == [s \in Upto(k + 1) |-> IF s = {} THEN 0 ELSE f[Chosen(s)] + g[s \ {Chosen(s)}]]
  <2>2. Upto(k) \subseteq Upto(k + 1)
    BY <1>0
  <2>3. \A s \in Upto(k + 1) : s # {} => s \ {Chosen(s)} \in Upto(k)
    BY <1>0, <1>1
  <2>. HIDE DEF Upto
  <2>4. \A s \in Upto(k) : h[s] = g[s]
    <3>1. \A s \in Upto(k) : g[s] = IF s = {} THEN 0 ELSE f[Chosen(s)] + g[s \ {Chosen(s)}]
      BY <2>1 DEF IsSumOn
    <3>2. \A s \in Upto(k) : h[s] = IF s = {} THEN 0 ELSE f[Chosen(s)] + g[s \ {Chosen(s)}]
      BY <2>2
    <3>. HIDE DEF h
    <3>. QED BY <3>1, <3>2
  <2>5. \A s \in Upto(k + 1) : s # {} => h[s \ {Chosen(s)}] = g[s \ {Chosen(s)}]
    <3>. HIDE DEF h
    <3>. QED BY <2>3, <2>4
  <2>6. IsSumOn(h, f, Upto(k + 1))
    BY <2>5 DEF IsSumOn
  <2>7. k + 1 \in Nat
    OBVIOUS
  <2>. HIDE DEF h
  <2>. QED BY <2>6, <2>7
<1>4. Cardinality(S) \in T
  <2>1. Cardinality(S) \in Nat
    BY FS_CardinalityType
  <2>. HIDE DEF T
  <2>. QED BY <1>2, <1>3, <2>1, SetInduction
<1>5. Upto(Cardinality(S)) = SUBSET S
  BY <1>0
<1>6. \E g : IsSumOn(g, f, SUBSET S)
  <2>. HIDE DEF Upto
  <2>. QED BY <1>4, <1>5
<1>. DEFINE g == CHOOSE g : g = [s \in SUBSET S |-> IF s = {} THEN 0
            ELSE f[Chosen(s)] + g[s \ {Chosen(s)}]]
<1>7. IsSumOn(g, f, SUBSET S)
  BY <1>6 DEF IsSumOn
<1>8. SumOver(f, S) = g[S]
  BY DEF SumOver, MapThenSumSet, MapThenFoldSet, Chosen
<1>. QED BY <1>7, <1>8, Zenon

LEMMA SumAgrees ==
  ASSUME NEW f, NEW g, NEW h, NEW S, NEW U \in SUBSET S, IsFiniteSet(S),
         IsSumOn(g, f, SUBSET S), IsSumOn(h, f, SUBSET U)
  PROVE  g[U] = h[U]
<1>. DEFINE T == {s \in SUBSET U : g[s] = h[s]}
<1>0. IsFiniteSet(U)
  BY FS_Subset
<1>1. /\ \A s \in SUBSET S : g[s] = IF s = {} THEN 0 ELSE f[Chosen(s)] + g[s \ {Chosen(s)}]
      /\ \A s \in SUBSET U : h[s] = IF s = {} THEN 0 ELSE f[Chosen(s)] + h[s \ {Chosen(s)}]
  BY DEF IsSumOn
<1>2. {} \in T
  BY <1>1
<1>3. \A s \in SUBSET U : s # {} /\ (\A x \in s : s \ {x} \in T) => s \in T
  <2>1. ASSUME NEW s \in SUBSET U, s # {}, \A x \in s : s \ {x} \in T PROVE s \in T
    <3>1. Chosen(s) \in s
      BY <2>1 DEF Chosen
    <3>2. g[s \ {Chosen(s)}] = h[s \ {Chosen(s)}]
      BY <2>1, <3>1
    <3>. QED BY <1>1, <2>1, <3>2
  <2>. QED BY <2>1
<1>4. \A s \in SUBSET U : s \in T
  <2>. HIDE DEF T
  <2>. QED BY <1>0, <1>2, <1>3, FiniteInduction
<1>. QED BY <1>4

\* Sums of nothing, of one element more, and of integers
LEMMA SumEmpty == ASSUME NEW f PROVE SumOver(f, {}) = 0
<1>1. PICK g : IsSumOn(g, f, SUBSET {}) /\ SumOver(f, {}) = g[{}]
  BY SumUnfolds, FS_EmptySet
<1>. QED BY <1>1 DEF IsSumOn

LEMMA SumChosen ==
  ASSUME NEW f, NEW S, IsFiniteSet(S), S # {}
  PROVE  SumOver(f, S) = f[Chosen(S)] + SumOver(f, S \ {Chosen(S)})
<1>. DEFINE U == S \ {Chosen(S)}
<1>0. U \in SUBSET S /\ IsFiniteSet(U)
  BY FS_Subset
<1>1. PICK g : IsSumOn(g, f, SUBSET S) /\ SumOver(f, S) = g[S]
  BY SumUnfolds
<1>. HIDE DEF U
<1>2. PICK h : IsSumOn(h, f, SUBSET U) /\ SumOver(f, U) = h[U]
  BY <1>0, SumUnfolds
<1>3. g[U] = h[U]
  BY <1>0, <1>1, <1>2, SumAgrees
<1>4. g[S] = f[Chosen(S)] + g[U]
  BY <1>1 DEF IsSumOn, U
<1>5. SumOver(f, S) = f[Chosen(S)] + SumOver(f, U)
  BY <1>1, <1>2, <1>3, <1>4
<1>. QED BY <1>5 DEF U

\* Only the values on S matter.
LEMMA SumCongruence ==
  ASSUME NEW f, NEW g, NEW S, IsFiniteSet(S), \A x \in S : f[x] = g[x]
  PROVE  SumOver(f, S) = SumOver(g, S)
<1>. DEFINE T == {s \in SUBSET S : SumOver(f, s) = SumOver(g, s)}
<1>1. {} \in T
  BY SumEmpty
<1>2. ASSUME NEW s \in SUBSET S, s # {}, \A x \in s : s \ {x} \in T PROVE s \in T
  <2>1. Chosen(s) \in s
    BY <1>2 DEF Chosen
  <2>2. SumOver(f, s \ {Chosen(s)}) = SumOver(g, s \ {Chosen(s)})
    BY <1>2, <2>1
  <2>3. IsFiniteSet(s)
    BY FS_Subset
  <2>4. SumOver(f, s) = f[Chosen(s)] + SumOver(f, s \ {Chosen(s)})
    BY <1>2, <2>3, SumChosen
  <2>5. SumOver(g, s) = g[Chosen(s)] + SumOver(g, s \ {Chosen(s)})
    BY <1>2, <2>3, SumChosen
  <2>6. f[Chosen(s)] = g[Chosen(s)]
    BY <2>1
  <2>7. SumOver(f, s) = SumOver(g, s)
    BY <2>2, <2>4, <2>5, <2>6, Zenon
  <2>. QED BY <2>7
<1>3. \A s \in SUBSET S : s \in T
  <2>. HIDE DEF T
  <2>. QED BY <1>1, <1>2, FiniteInduction
<1>. QED BY <1>3

LEMMA SumInt ==
  ASSUME NEW f, NEW S, IsFiniteSet(S), \A x \in S : f[x] \in Int
  PROVE  SumOver(f, S) \in Int
<1>. DEFINE T == {s \in SUBSET S : SumOver(f, s) \in Int}
<1>1. {} \in T
  BY SumEmpty
<1>2. ASSUME NEW s \in SUBSET S, s # {}, \A x \in s : s \ {x} \in T PROVE s \in T
  <2>1. Chosen(s) \in s
    BY <1>2 DEF Chosen
  <2>2. SumOver(f, s \ {Chosen(s)}) \in Int
    BY <1>2, <2>1
  <2>3. IsFiniteSet(s)
    BY FS_Subset
  <2>4. SumOver(f, s) = f[Chosen(s)] + SumOver(f, s \ {Chosen(s)})
    BY <1>2, <2>3, SumChosen
  <2>5. f[Chosen(s)] \in Int
    BY <2>1
  <2>. QED BY <2>2, <2>4, <2>5
<1>3. \A s \in SUBSET S : s \in T
  <2>. HIDE DEF T
  <2>. QED BY <1>1, <1>2, FiniteInduction
<1>. QED BY <1>3

\* Any element may be taken out first.
LEMMA SumSplit ==
  ASSUME NEW f, NEW S, IsFiniteSet(S), \A x \in S : f[x] \in Int, NEW y \in S
  PROVE  SumOver(f, S) = f[y] + SumOver(f, S \ {y})
<1>. DEFINE T == {s \in SUBSET S : \A x \in s : SumOver(f, s) = f[x] + SumOver(f, s \ {x})}
<1>0. \A s \in SUBSET S : IsFiniteSet(s)
  BY FS_Subset
<1>1. {} \in T
  OBVIOUS
<1>2. ASSUME NEW s \in SUBSET S, s # {}, \A x \in s : s \ {x} \in T PROVE s \in T
  <2>. DEFINE c == Chosen(s)
  <2>1. c \in s
    BY <1>2 DEF Chosen
  <2>. HIDE DEF c
  <2>2. SumOver(f, s) = f[c] + SumOver(f, s \ {c})
    BY <1>0, <1>2, SumChosen DEF c
  <2>3. ASSUME NEW x \in s PROVE SumOver(f, s) = f[x] + SumOver(f, s \ {x})
    <3>1. CASE x = c
      BY <2>2, <3>1
    <3>2. CASE x # c
      <4>. DEFINE u == s \ {x, c}
      <4>1. SumOver(f, s \ {c}) = f[x] + SumOver(f, (s \ {c}) \ {x})
        BY <1>2, <2>1, <3>2
      <4>2. SumOver(f, s \ {x}) = f[c] + SumOver(f, (s \ {x}) \ {c})
        BY <1>2, <2>1, <3>2
      <4>3. (s \ {c}) \ {x} = u /\ (s \ {x}) \ {c} = u
        OBVIOUS
      <4>4. SumOver(f, u) \in Int
        <5>1. u \in SUBSET S
          OBVIOUS
        <5>. HIDE DEF u
        <5>. QED BY <1>0, <5>1, SumInt
      <4>5. f[x] \in Int /\ f[c] \in Int
        BY <2>1
      <4>. HIDE DEF u
      <4>6. SumOver(f, s \ {c}) = f[x] + SumOver(f, u)
        BY <4>1, <4>3, Zenon
      <4>7. SumOver(f, s \ {x}) = f[c] + SumOver(f, u)
        BY <4>2, <4>3, Zenon
      <4>8. SumOver(f, s) = f[c] + (f[x] + SumOver(f, u))
        BY <2>2, <4>6, Zenon
      <4>9. f[c] + (f[x] + SumOver(f, u)) = f[x] + (f[c] + SumOver(f, u))
        BY <4>4, <4>5
      <4>. QED BY <4>7, <4>8, <4>9, Zenon
    <3>. QED BY <3>1, <3>2
  <2>. QED BY <2>3
<1>3. \A s \in SUBSET S : s \in T
  <2>. HIDE DEF T
  <2>. QED BY <1>1, <1>2, FiniteInduction
<1>4. S \in T
  BY <1>3
<1>. QED BY <1>4

\* A sum of naturals is a natural, and no less than any of them.
LEMMA SumBounds ==
  ASSUME NEW f, NEW S, IsFiniteSet(S), \A x \in S : f[x] \in Nat
  PROVE  SumOver(f, S) \in Nat /\ \A y \in S : f[y] <= SumOver(f, S)
<1>. DEFINE T == {s \in SUBSET S : SumOver(f, s) \in Nat}
<1>0. \A s \in SUBSET S : IsFiniteSet(s)
  BY FS_Subset
<1>1. {} \in T
  BY SumEmpty
<1>2. ASSUME NEW s \in SUBSET S, s # {}, \A x \in s : s \ {x} \in T PROVE s \in T
  <2>1. Chosen(s) \in s
    BY <1>2 DEF Chosen
  <2>2. SumOver(f, s \ {Chosen(s)}) \in Nat /\ f[Chosen(s)] \in Nat
    BY <1>2, <2>1
  <2>3. SumOver(f, s) = f[Chosen(s)] + SumOver(f, s \ {Chosen(s)})
    BY <1>0, <1>2, SumChosen
  <2>. QED BY <2>2, <2>3
<1>3. \A s \in SUBSET S : s \in T
  <2>. HIDE DEF T
  <2>. QED BY <1>1, <1>2, FiniteInduction
<1>4. ASSUME NEW y \in S PROVE f[y] <= SumOver(f, S)
  <2>1. SumOver(f, S) = f[y] + SumOver(f, S \ {y})
    BY SumSplit
  <2>2. S \ {y} \in T
    <3>1. S \ {y} \in SUBSET S
      OBVIOUS
    <3>. QED BY <1>3, <3>1
  <2>3. SumOver(f, S \ {y}) \in Nat /\ f[y] \in Nat
    BY <2>2
  <2>. QED BY <2>1, <2>3
<1>5. S \in T
  BY <1>3
<1>. QED BY <1>4, <1>5

\* Two sums that differ in one element differ by what it adds to each.
Part(f, S, y) == IF y \in S THEN f[y] ELSE 0
DifferAt(f, S, g, T, y) ==
  /\ IsFiniteSet(S) /\ IsFiniteSet(T) /\ S \ {y} = T \ {y}
  /\ \A x \in S : f[x] \in Int
  /\ \A x \in T : g[x] \in Int
  /\ \A x \in S \ {y} : f[x] = g[x]

LEMMA SumPart ==
  ASSUME NEW f, NEW S, NEW y, IsFiniteSet(S), \A x \in S : f[x] \in Int
  PROVE  /\ SumOver(f, S) \in Int /\ Part(f, S, y) \in Int
         /\ SumOver(f, S \ {y}) = SumOver(f, S) - Part(f, S, y)
<1>1. SumOver(f, S) \in Int
  BY SumInt
<1>2. CASE y \in S
  <2>1. SumOver(f, S) = f[y] + SumOver(f, S \ {y})
    BY <1>2, SumSplit
  <2>2. SumOver(f, S \ {y}) \in Int
    <3>1. IsFiniteSet(S \ {y})
      BY FS_RemoveElement
    <3>. QED BY <3>1, SumInt
  <2>3. f[y] \in Int /\ Part(f, S, y) = f[y]
    BY <1>2 DEF Part
  <2>. QED BY <1>1, <2>1, <2>2, <2>3
<1>3. CASE y \notin S
  <2>1. S \ {y} = S /\ Part(f, S, y) = 0
    BY <1>3 DEF Part
  <2>. QED BY <1>1, <2>1
<1>. QED BY <1>2, <1>3

LEMMA SumDiffers ==
  ASSUME NEW f, NEW S, NEW g, NEW T, NEW y, DifferAt(f, S, g, T, y)
  PROVE  /\ SumOver(f, S) \in Int /\ Part(f, S, y) \in Int
         /\ SumOver(g, T) \in Int /\ Part(g, T, y) \in Int
         /\ SumOver(f, S) - Part(f, S, y) = SumOver(g, T) - Part(g, T, y)
<1>. DEFINE U == S \ {y}
            W == T \ {y}
<1>1. /\ SumOver(f, S) \in Int /\ Part(f, S, y) \in Int
      /\ SumOver(f, U) = SumOver(f, S) - Part(f, S, y)
  BY SumPart DEF DifferAt
<1>2. /\ SumOver(g, T) \in Int /\ Part(g, T, y) \in Int
      /\ SumOver(g, W) = SumOver(g, T) - Part(g, T, y)
  BY SumPart DEF DifferAt
<1>3. IsFiniteSet(U) /\ U = W /\ \A x \in U : f[x] = g[x]
  BY FS_RemoveElement DEF DifferAt
<1>. HIDE DEF U, W
<1>4. SumOver(f, U) = SumOver(g, U)
  BY <1>3, SumCongruence
<1>. QED BY <1>1, <1>2, <1>3, <1>4

-----------------------------------------------------------------------------
(* Risk.                                                                   *)

Reservation == [account : Accounts, side : Sides, quantity : Nat]

\* The types of a risk state
RiskType(r) ==
  /\ DOMAIN r = {"accounts", "reservations", "maximum_order_id", "killed"}
  /\ r.accounts \in [Accounts -> Account]
  /\ r.reservations \in [Live(r) -> Reservation]
  /\ Live(r) \in SUBSET Nat /\ IsFiniteSet(Live(r))
  /\ r.maximum_order_id \in Nat

Own(r, a) == {id \in Live(r) : r.reservations[id].account = a}
OwnSide(r, a, side) == {id \in Live(r) : r.reservations[id].account = a /\ r.reservations[id].side
  = side}

\* What one reservation adds to the totals of an account
Share(r, id, a, side) ==
  IF id \in OwnSide(r, a, side) THEN r.reservations[id].quantity ELSE 0
OneOf(r, id, a) == IF id \in Own(r, a) THEN 1 ELSE 0

\* Only the reservation of id may differ.
SameBut(r, t, id) ==
  /\ Live(t) \ {id} = Live(r) \ {id}
  /\ \A x \in Live(r) \ {id} : t.reservations[x] = r.reservations[x]

\* The totals of two states that differ in one reservation differ by what that one adds.
LEMMA OneReservation ==
  ASSUME NEW r, NEW t, NEW id, RiskType(r), RiskType(t), SameBut(r, t, id), NEW a, NEW side
  PROVE  /\ ReservedBy(r, a, side) \in Nat /\ ReservedBy(t, a, side) \in Nat
         /\ Share(r, id, a, side) \in Nat /\ Share(t, id, a, side) \in Nat
         /\ ReservedBy(r, a, side) - Share(r, id, a, side)
              = ReservedBy(t, a, side) - Share(t, id, a, side)
         /\ Share(r, id, a, side) <= ReservedBy(r, a, side)
<1>. DEFINE R == OwnSide(r, a, side)
            T == OwnSide(t, a, side)
            q == Quantities(r)
            p == Quantities(t)
<1>1. IsFiniteSet(R) /\ IsFiniteSet(T)
  BY FS_Subset DEF RiskType, OwnSide
<1>2. (\A x \in Live(r) : q[x] = r.reservations[x].quantity)
      /\ (\A x \in Live(t) : p[x] = t.reservations[x].quantity)
  BY DEF Quantities
<1>3. (\A x \in Live(r) : r.reservations[x].quantity \in Nat)
      /\ (\A x \in Live(t) : t.reservations[x].quantity \in Nat)
  BY DEF RiskType, Reservation
<1>4. R \in SUBSET Live(r) /\ T \in SUBSET Live(t)
  BY DEF OwnSide
<1>5. (\A x \in R : q[x] \in Nat) /\ (\A x \in T : p[x] \in Nat)
  BY <1>2, <1>3, <1>4
<1>6. R \ {id} = T \ {id} /\ \A x \in R \ {id} : q[x] = p[x]
  BY <1>2, <1>4 DEF SameBut, OwnSide
<1>7. ReservedBy(r, a, side) = SumOver(q, R) /\ ReservedBy(t, a, side) = SumOver(p, T)
  BY DEF ReservedBy, OwnSide
<1>8. /\ Share(r, id, a, side) = IF id \in R THEN q[id] ELSE 0
      /\ Share(t, id, a, side) = IF id \in T THEN p[id] ELSE 0
  BY <1>2, <1>4 DEF Share
<1>. HIDE DEF R, T, p, q
<1>9. SumOver(q, R) \in Nat /\ SumOver(p, T) \in Nat /\ \A y \in R : q[y] <= SumOver(q, R)
  BY <1>1, <1>5, SumBounds
<1>10. DifferAt(q, R, p, T, id)
  BY <1>1, <1>5, <1>6 DEF DifferAt
<1>11. SumOver(q, R) - Part(q, R, id) = SumOver(p, T) - Part(p, T, id)
  BY <1>10, SumDiffers
<1>12. /\ Part(q, R, id) \in Nat /\ Part(p, T, id) \in Nat
       /\ Part(q, R, id) <= SumOver(q, R)
  BY <1>5, <1>9 DEF Part
<1>13. Share(r, id, a, side) = Part(q, R, id) /\ Share(t, id, a, side) = Part(p, T, id)
  BY <1>8 DEF Part
<1>. QED BY <1>7, <1>9, <1>11, <1>12, <1>13

\* The same for the number of open orders
LEMMA OneOwner ==
  ASSUME NEW r, NEW t, NEW id, RiskType(r), RiskType(t), SameBut(r, t, id), NEW a
  PROVE  /\ OpenOf(r, a) \in Nat /\ OpenOf(t, a) \in Nat
         /\ OpenOf(r, a) - OneOf(r, id, a) = OpenOf(t, a) - OneOf(t, id, a)
         /\ OneOf(r, id, a) <= OpenOf(r, a)
<1>. DEFINE R == Own(r, a)
            T == Own(t, a)
<1>1. IsFiniteSet(R) /\ IsFiniteSet(T)
  BY FS_Subset DEF RiskType, Own
<1>2. R \ {id} = T \ {id}
  BY DEF SameBut, Own
<1>3. OpenOf(r, a) = Cardinality(R) /\ OpenOf(t, a) = Cardinality(T)
  BY DEF OpenOf, Own
<1>4. /\ OneOf(r, id, a) = IF id \in R THEN 1 ELSE 0
      /\ OneOf(t, id, a) = IF id \in T THEN 1 ELSE 0
  BY DEF OneOf
<1>. HIDE DEF R, T
<1>5. Cardinality(R) \in Nat /\ Cardinality(T) \in Nat
  BY <1>1, FS_CardinalityType
<1>6. Cardinality(R \ {id}) = (IF id \in R THEN Cardinality(R) - 1 ELSE Cardinality(R))
  BY <1>1, FS_RemoveElement
<1>7. Cardinality(T \ {id}) = (IF id \in T THEN Cardinality(T) - 1 ELSE Cardinality(T))
  BY <1>1, FS_RemoveElement
<1>8. Cardinality(R \ {id}) = Cardinality(T \ {id}) /\ Cardinality(R \ {id}) \in Nat
  <2>1. IsFiniteSet(R \ {id})
    BY <1>1, FS_RemoveElement
  <2>. QED BY <1>2, <2>1, FS_CardinalityType
<1>. QED BY <1>3, <1>4, <1>5, <1>6, <1>7, <1>8

\* The sum of the settled positions
SettledSum(r) == SumOver([a \in Accounts |-> r.accounts[a].settled], Accounts)

\* The sum moves as the one account that changes.
LEMMA OneSettled ==
  ASSUME NEW r, NEW t, NEW a \in Accounts, RiskType(r), RiskType(t),
         \A x \in Accounts \ {a} : t.accounts[x].settled = r.accounts[x].settled
  PROVE  /\ SettledSum(r) \in Int
         /\ SettledSum(t) = SettledSum(r) + (t.accounts[a].settled - r.accounts[a].settled)
<1>. DEFINE f == [x \in Accounts |-> r.accounts[x].settled]
            g == [x \in Accounts |-> t.accounts[x].settled]
<1>1. \A x \in Accounts : f[x] = r.accounts[x].settled /\ g[x] = t.accounts[x].settled
  OBVIOUS
<1>2. \A x \in Accounts : r.accounts[x].settled \in Int /\ t.accounts[x].settled \in Int
  BY DEF RiskType, Account
<1>3. IsFiniteSet(Accounts)
  BY RiskAssumption
<1>4. SettledSum(r) = SumOver(f, Accounts) /\ SettledSum(t) = SumOver(g, Accounts)
  BY DEF SettledSum
<1>. HIDE DEF f, g
<1>5. DifferAt(f, Accounts, g, Accounts, a)
  BY <1>1, <1>2, <1>3 DEF DifferAt
<1>6. /\ SumOver(f, Accounts) \in Int /\ SumOver(g, Accounts) \in Int
      /\ SumOver(f, Accounts) - Part(f, Accounts, a) = SumOver(g, Accounts) - Part(g, Accounts, a)
  BY <1>5, SumDiffers
<1>7. Part(f, Accounts, a) = r.accounts[a].settled /\ Part(g, Accounts, a) = t.accounts[a].settled
  BY <1>1 DEF Part
<1>. QED BY <1>2, <1>4, <1>6, <1>7

-----------------------------------------------------------------------------
(* What one change of one reservation does to the validity of a risk state. *)

\* What restore demands of a risk state, with its types
RiskOK(r) == RiskType(r) /\ RiskStateValid(r)

\* One reservation of one account changes, with the account's totals.
Adjusts(r, t, id, a) ==
  /\ RiskType(t) /\ SameBut(r, t, id) /\ a \in Accounts
  /\ \A x \in Accounts \ {a} : t.accounts[x] = r.accounts[x]
  /\ id \in Live(r) => r.reservations[id].account = a
  /\ id \in Live(t) => /\ t.reservations[id].account = a /\ t.reservations[id].quantity > 0
                       /\ id <= t.maximum_order_id
  /\ r.maximum_order_id <= t.maximum_order_id
  /\ t.accounts[a].buys - Share(t, id, a, "Buy") = r.accounts[a].buys - Share(r, id, a, "Buy")
  /\ t.accounts[a].sells - Share(t, id, a, "Sell") = r.accounts[a].sells - Share(r, id, a, "Sell")
  /\ t.accounts[a].open - OneOf(t, id, a) = r.accounts[a].open - OneOf(r, id, a)

\* The account is within its limits, and there is a slot for every reservation.
Fits(t, a) ==
  /\ Cardinality(Live(t)) <= RiskOrders
  /\ t.accounts[a].open <= Limits[a].max_open_orders
  /\ WithinPosition(a, t.accounts[a].settled, t.accounts[a].buys, t.accounts[a].sells)

LEMMA AccountsTyped ==
  ASSUME NEW r, RiskType(r), NEW a \in Accounts
  PROVE  /\ r.accounts[a].buys \in Nat /\ r.accounts[a].sells \in Nat
         /\ r.accounts[a].open \in Nat /\ r.accounts[a].settled \in Int
<1>1. r.accounts[a] \in Account
  BY DEF RiskType
<1>. QED BY <1>1 DEF Account

\* Validity survives the change of one reservation.
LEMMA AdjustedIsValid ==
  ASSUME NEW r, NEW t, NEW id, NEW a, RiskOK(r), Adjusts(r, t, id, a), Fits(t, a)
  PROVE  RiskOK(t)
<1>1. /\ RiskType(r) /\ RiskType(t) /\ SameBut(r, t, id) /\ a \in Accounts
      /\ \A x \in Accounts : AccountValid(r, x)
  BY DEF RiskOK, Adjusts, RiskStateValid
<1>2. \A x \in Live(t) : /\ t.reservations[x].quantity > 0
                         /\ x <= t.maximum_order_id
                         /\ t.reservations[x].account \in Accounts
  <2>1. \A x \in Live(t) \ {id} : x \in Live(r) /\ t.reservations[x] = r.reservations[x]
    BY <1>1 DEF SameBut
  <2>2. \A x \in Live(r) : /\ r.reservations[x].quantity > 0 /\ x <= r.maximum_order_id
                           /\ r.reservations[x].account \in Accounts
    BY DEF RiskOK, RiskStateValid
  <2>3. id \in Live(t) => /\ t.reservations[id].account = a /\ t.reservations[id].quantity > 0
                          /\ id <= t.maximum_order_id
    BY DEF Adjusts
  <2>4. /\ r.maximum_order_id <= t.maximum_order_id /\ r.maximum_order_id \in Nat
        /\ t.maximum_order_id \in Nat /\ Live(t) \in SUBSET Nat
    BY <1>1 DEF Adjusts, RiskType
  <2>5. \A x \in Live(t) \ {id} : x <= t.maximum_order_id
    BY <2>1, <2>2, <2>4
  <2>. QED BY <1>1, <2>1, <2>2, <2>3, <2>5
<1>3. ASSUME NEW x \in Accounts PROVE AccountValid(t, x)
  <2>1. /\ r.accounts[x].buys = ReservedBy(r, x, "Buy")
        /\ r.accounts[x].sells = ReservedBy(r, x, "Sell")
        /\ r.accounts[x].open = OpenOf(r, x) /\ r.accounts[x].open <= Limits[x].max_open_orders
        /\ WithinPosition(x, r.accounts[x].settled, r.accounts[x].buys, r.accounts[x].sells)
    BY <1>1 DEF AccountValid
  <2>2. /\ ReservedBy(r, x, "Buy") \in Nat /\ ReservedBy(t, x, "Buy") \in Nat
        /\ Share(r, id, x, "Buy") \in Nat /\ Share(t, id, x, "Buy") \in Nat
        /\ ReservedBy(r, x, "Buy") - Share(r, id, x, "Buy")
             = ReservedBy(t, x, "Buy") - Share(t, id, x, "Buy")
    BY <1>1, OneReservation
  <2>3. /\ ReservedBy(r, x, "Sell") \in Nat /\ ReservedBy(t, x, "Sell") \in Nat
        /\ Share(r, id, x, "Sell") \in Nat /\ Share(t, id, x, "Sell") \in Nat
        /\ ReservedBy(r, x, "Sell") - Share(r, id, x, "Sell")
             = ReservedBy(t, x, "Sell") - Share(t, id, x, "Sell")
    BY <1>1, OneReservation
  <2>4. /\ OpenOf(r, x) \in Nat /\ OpenOf(t, x) \in Nat
        /\ OpenOf(r, x) - OneOf(r, id, x) = OpenOf(t, x) - OneOf(t, id, x)
    BY <1>1, OneOwner
  <2>5. OneOf(r, id, x) \in Nat /\ OneOf(t, id, x) \in Nat
    BY DEF OneOf
  <2>6. CASE x = a
    <3>1. /\ t.accounts[a].buys \in Nat /\ t.accounts[a].sells \in Nat /\ t.accounts[a].open \in Nat
      BY <1>1, AccountsTyped
    <3>2. t.accounts[a].buys = ReservedBy(t, a, "Buy")
      BY <2>1, <2>2, <2>6, <3>1 DEF Adjusts
    <3>3. t.accounts[a].sells = ReservedBy(t, a, "Sell")
      BY <2>1, <2>3, <2>6, <3>1 DEF Adjusts
    <3>4. t.accounts[a].open = OpenOf(t, a)
      BY <2>1, <2>4, <2>5, <2>6, <3>1 DEF Adjusts
    <3>. QED BY <2>6, <3>2, <3>3, <3>4 DEF AccountValid, Fits
  <2>7. CASE x # a
    <3>1. t.accounts[x] = r.accounts[x]
      BY <2>7 DEF Adjusts
    <3>2. /\ Share(r, id, x, "Buy") = 0 /\ Share(t, id, x, "Buy") = 0
          /\ Share(r, id, x, "Sell") = 0 /\ Share(t, id, x, "Sell") = 0
          /\ OneOf(r, id, x) = 0 /\ OneOf(t, id, x) = 0
      BY <2>7 DEF Adjusts, Share, OneOf, Own, OwnSide
    <3>. QED BY <2>1, <2>2, <2>3, <2>4, <3>1, <3>2 DEF AccountValid
  <2>. QED BY <2>6, <2>7
<1>. QED BY <1>1, <1>2, <1>3 DEF RiskOK, RiskStateValid, Fits

\* A reservation is covered by its account's totals.
LEMMA Covered ==
  ASSUME NEW r, RiskOK(r), NEW id \in Live(r)
  PROVE  /\ r.reservations[id] \in Reservation /\ id \in Nat
         /\ r.reservations[id].account \in Accounts /\ r.reservations[id].side \in Sides
         /\ r.reservations[id].quantity \in Nat /\ r.reservations[id].quantity > 0
         /\ r.accounts[r.reservations[id].account] \in Account
         /\ SideTotal(r.accounts[r.reservations[id].account], r.reservations[id].side)
              >= r.reservations[id].quantity
         /\ r.accounts[r.reservations[id].account].open >= 1
<1>. DEFINE res == r.reservations[id]
<1>1. RiskType(r) /\ SameBut(r, r, id)
  BY DEF RiskOK, SameBut
<1>2. res \in Reservation /\ id \in Nat
  BY <1>1 DEF RiskType
<1>3. res.account \in Accounts /\ res.side \in Sides /\ res.quantity \in Nat
  BY <1>2 DEF Reservation
<1>4. res.quantity > 0
  BY DEF RiskOK, RiskStateValid
<1>5. r.accounts[res.account] \in Account
  BY <1>1, <1>3 DEF RiskType
<1>6. AccountValid(r, res.account)
  BY <1>3 DEF RiskOK, RiskStateValid
<1>7. Share(r, id, res.account, res.side) = res.quantity /\ OneOf(r, id, res.account) = 1
  BY DEF Share, OneOf, Own, OwnSide
<1>8. res.quantity <= ReservedBy(r, res.account, res.side)
  BY <1>1, <1>7, OneReservation
<1>9. OpenOf(r, res.account) >= 1
  BY <1>1, <1>7, OneOwner
<1>10. SideTotal(r.accounts[res.account], res.side) = ReservedBy(r, res.account, res.side)
  BY <1>3, <1>6 DEF SideTotal, AccountValid, Sides
<1>11. r.accounts[res.account].open = OpenOf(r, res.account)
  BY <1>6 DEF AccountValid
<1>12. ReservedBy(r, res.account, res.side) \in Nat
  BY <1>1, OneReservation
<1>. HIDE DEF res
<1>13. SideTotal(r.accounts[res.account], res.side) >= res.quantity
  BY <1>3, <1>8, <1>10, <1>12
<1>. QED BY <1>2, <1>3, <1>4, <1>5, <1>9, <1>11, <1>13 DEF res

-----------------------------------------------------------------------------
(* Accounts, field by field, after a reservation, a fill and a release.    *)

Acct(s, b, l, n, k) == [settled |-> s, buys |-> b, sells |-> l, open |-> n, killed |-> k]

LEMMA AcctFields ==
  ASSUME NEW s, NEW b, NEW l, NEW n, NEW k
  PROVE  /\ Acct(s, b, l, n, k).settled = s /\ Acct(s, b, l, n, k).buys = b
         /\ Acct(s, b, l, n, k).sells = l /\ Acct(s, b, l, n, k).open = n
         /\ \A v : [Acct(s, b, l, n, k) EXCEPT !.settled = v] = Acct(v, b, l, n, k)
         /\ \A v : [Acct(s, b, l, n, k) EXCEPT !.buys = v] = Acct(s, v, l, n, k)
         /\ \A v : [Acct(s, b, l, n, k) EXCEPT !.sells = v] = Acct(s, b, v, n, k)
         /\ \A v : [Acct(s, b, l, n, k) EXCEPT !.open = v] = Acct(s, b, l, v, k)
         /\ (s \in Int /\ b \in Nat /\ l \in Nat /\ n \in Nat /\ k \in BOOLEAN)
              => Acct(s, b, l, n, k) \in Account
BY DEF Acct, Account

LEMMA AcctRecord ==
  ASSUME NEW x \in Account
  PROVE  /\ x = Acct(x.settled, x.buys, x.sells, x.open, x.killed)
         /\ x.settled \in Int /\ x.buys \in Nat /\ x.sells \in Nat /\ x.open \in Nat
         /\ x.killed \in BOOLEAN
BY DEF Acct, Account

\* What reserving and filling do to an account
LEMMA ReservedAcct ==
  ASSUME NEW x \in Account, NEW side, NEW d
  PROVE  Reserved(x, side, d) =
           IF side = "Buy" THEN Acct(x.settled, x.buys + d, x.sells, x.open, x.killed)
                           ELSE Acct(x.settled, x.buys, x.sells + d, x.open, x.killed)
<1>1. x = Acct(x.settled, x.buys, x.sells, x.open, x.killed)
  BY AcctRecord
<1>2. [x EXCEPT !.buys = x.buys + d] = Acct(x.settled, x.buys + d, x.sells, x.open, x.killed)
  BY DEF Acct, Account
<1>3. [x EXCEPT !.sells = x.sells + d] = Acct(x.settled, x.buys, x.sells + d, x.open, x.killed)
  BY DEF Acct, Account
<1>. QED BY <1>2, <1>3 DEF Reserved

LEMMA ExposureAcct ==
  ASSUME NEW x \in Account, NEW side, NEW filled, NEW released
  PROVE  Exposure(x, side, filled, released) =
           IF side = "Buy"
           THEN Acct(x.settled + filled, x.buys + (-released), x.sells, x.open, x.killed)
           ELSE Acct(x.settled - filled, x.buys, x.sells + (-released), x.open, x.killed)
<1>. DEFINE w == Reserved(x, side, -released)
<1>1. CASE side = "Buy"
  <2>1. w = Acct(x.settled, x.buys + (-released), x.sells, x.open, x.killed)
    BY <1>1, ReservedAcct
  <2>2. w.settled = x.settled
    BY <2>1 DEF Acct
  <2>3. Exposure(x, side, filled, released) = [w EXCEPT !.settled = w.settled + filled]
    BY <1>1 DEF Exposure
  <2>. HIDE DEF w
  <2>4. [w EXCEPT !.settled = x.settled + filled]
          = Acct(x.settled + filled, x.buys + (-released), x.sells, x.open, x.killed)
    BY <2>1 DEF Acct
  <2>. QED BY <1>1, <2>2, <2>3, <2>4
<1>2. CASE side # "Buy"
  <2>1. w = Acct(x.settled, x.buys, x.sells + (-released), x.open, x.killed)
    BY <1>2, ReservedAcct
  <2>2. w.settled = x.settled
    BY <2>1 DEF Acct
  <2>3. Exposure(x, side, filled, released) = [w EXCEPT !.settled = w.settled - filled]
    BY <1>2 DEF Exposure
  <2>. HIDE DEF w
  <2>4. [w EXCEPT !.settled = x.settled - filled]
          = Acct(x.settled - filled, x.buys, x.sells + (-released), x.open, x.killed)
    BY <2>1 DEF Acct
  <2>. QED BY <1>2, <2>2, <2>3, <2>4
<1>. QED BY <1>1, <1>2

LEMMA OpenedAcct ==
  ASSUME NEW s, NEW b, NEW l, NEW n, NEW k, NEW d
  PROVE  Opened(Acct(s, b, l, n, k), d) = Acct(s, b, l, n + d, k)
BY DEF Opened, Acct

\* What a fill of `filled' that releases `released' does to the account
After(x, side, filled, released, n) == Opened(Exposure(x, side, filled, released), n)

LEMMA AfterFields ==
  ASSUME NEW x \in Account, NEW side \in Sides, NEW filled \in Nat, NEW released \in Nat,
         NEW n \in Int,
         SideTotal(x, side) >= released, x.open + n \in Nat
  PROVE  /\ After(x, side, filled, released, n) \in Account
         /\ After(x, side, filled, released, n).open = x.open + n
         /\ side = "Buy" => /\ After(x, side, filled, released, n).settled = x.settled + filled
                            /\ After(x, side, filled, released, n).buys = x.buys - released
                            /\ After(x, side, filled, released, n).sells = x.sells
         /\ side = "Sell" => /\ After(x, side, filled, released, n).settled = x.settled - filled
                             /\ After(x, side, filled, released, n).buys = x.buys
                             /\ After(x, side, filled, released, n).sells = x.sells - released
<1>0. /\ x.settled \in Int /\ x.buys \in Nat /\ x.sells \in Nat /\ x.open \in Nat
      /\ x.killed \in BOOLEAN
  BY AcctRecord
<1>. DEFINE y == After(x, side, filled, released, n)
<1>1. CASE side = "Buy"
  <2>1. Exposure(x, side, filled, released)
          = Acct(x.settled + filled, x.buys + (-released), x.sells, x.open, x.killed)
    BY <1>1, ExposureAcct
  <2>2. y = Acct(x.settled + filled, x.buys + (-released), x.sells, x.open + n, x.killed)
    BY <2>1 DEF Opened, Acct, After
  <2>4. x.buys + (-released) = x.buys - released /\ x.buys - released \in Nat
    BY <1>0, <1>1 DEF SideTotal
  <2>5. x.settled + filled \in Int
    BY <1>0
  <2>. HIDE DEF y
  <2>6. y = Acct(x.settled + filled, x.buys - released, x.sells, x.open + n, x.killed)
    BY <2>2, <2>4
  <2>7. y \in Account
    BY <1>0, <2>4, <2>5, <2>6 DEF Acct, Account
  <2>. QED BY <1>1, <2>6, <2>7 DEF Acct, y
<1>2. CASE side = "Sell"
  <2>1. Exposure(x, side, filled, released)
          = Acct(x.settled - filled, x.buys, x.sells + (-released), x.open, x.killed)
    BY <1>2, ExposureAcct
  <2>2. y = Acct(x.settled - filled, x.buys, x.sells + (-released), x.open + n, x.killed)
    BY <2>1 DEF Opened, Acct, After
  <2>4. x.sells + (-released) = x.sells - released /\ x.sells - released \in Nat
    BY <1>0, <1>2 DEF SideTotal
  <2>5. x.settled - filled \in Int
    BY <1>0
  <2>. HIDE DEF y
  <2>6. y = Acct(x.settled - filled, x.buys, x.sells - released, x.open + n, x.killed)
    BY <2>2, <2>4
  <2>7. y \in Account
    BY <1>0, <2>4, <2>5, <2>6 DEF Acct, Account
  <2>. QED BY <1>2, <2>6, <2>7 DEF Acct, y
<1>. QED BY <1>1, <1>2 DEF Sides

\* A risk state by its fields: accounts, reservations, highest id
Fields(r, accounts, reservations, max) ==
  /\ DOMAIN r = {"accounts", "reservations", "maximum_order_id", "killed"}
  /\ r.accounts = accounts /\ r.reservations = reservations /\ r.maximum_order_id = max

\* The fields after record_fill
Left(r, id) == [x \in Live(r) \ {id} |-> r.reservations[x]]
Smaller(r, id, quantity) == [r.reservations EXCEPT ![id].quantity = quantity]
Changed(r, a, x) == [r.accounts EXCEPT ![a] = x]

LEMMA ReleaseFields ==
  ASSUME NEW r, NEW a, NEW x, NEW id, DOMAIN r = {"accounts", "reservations", "maximum_order_id",
         "killed"}
  PROVE  Fields(Release([r EXCEPT !.accounts[a] = x], id), Changed(r, a, x), Left(r, id),
    r.maximum_order_id)
BY DEF Fields, Release, Restrict, Left, Live, Changed

LEMMA RecordFillFields ==
  ASSUME NEW r, NEW id, NEW filled, DOMAIN r = {"accounts", "reservations", "maximum_order_id",
         "killed"}
  PROVE  LET res  == r.reservations[id]
             x    == r.accounts[res.account]
         IN  /\ filled = res.quantity =>
                  Fields(RecordFill(r, id, filled),
                    Changed(r, res.account, After(x, res.side, filled, filled, -1)),
                         Left(r, id), r.maximum_order_id)
             /\ filled # res.quantity =>
                  Fields(RecordFill(r, id, filled),
                    Changed(r, res.account, After(x, res.side, filled, filled, 0)),
                         Smaller(r, id, res.quantity - filled), r.maximum_order_id)
<1>. DEFINE res  == r.reservations[id]
            x    == r.accounts[res.account]
            y(n) == After(x, res.side, filled, filled, n)
<1>1. CASE filled = res.quantity
  <2>1. RecordFill(r, id, filled) = Release([r EXCEPT !.accounts[res.account] = y(-1)], id)
    BY <1>1 DEF RecordFill, After
  <2>. HIDE DEF y
  <2>2. Fields(RecordFill(r, id, filled), Changed(r, res.account, y(-1)), Left(r, id),
        r.maximum_order_id)
    BY <2>1 DEF Fields, Release, Restrict, Left, Live, Changed
  <2>. QED BY <1>1, <2>2 DEF y
<1>2. CASE filled # res.quantity
  <2>1. RecordFill(r, id, filled)
          = [[r EXCEPT !.accounts[res.account] = y(0)] EXCEPT !.reservations[id].quantity
            = @ - filled]
    BY <1>2 DEF RecordFill, After
  <2>. HIDE DEF y
  <2>2. Fields(RecordFill(r, id, filled), Changed(r, res.account, y(0)),
               Smaller(r, id, res.quantity - filled), r.maximum_order_id)
    BY <2>1 DEF Fields, Smaller, Changed
  <2>. QED BY <1>2, <2>2 DEF y
<1>. QED BY <1>1, <1>2

Triple(a, s, q) == [account |-> a, side |-> s, quantity |-> q]

\* The reservations when one is removed or resized
LEMMA LeftTyped ==
  ASSUME NEW r, RiskType(r), NEW id \in Live(r)
  PROVE  /\ Left(r, id) \in [Live(r) \ {id} -> Reservation]
         /\ Live(r) \ {id} \in SUBSET Nat /\ IsFiniteSet(Live(r) \ {id})
         /\ Cardinality(Live(r) \ {id}) = Cardinality(Live(r)) - 1
         /\ Cardinality(Live(r)) \in Nat
<1>1. \A x \in Live(r) \ {id} : r.reservations[x] \in Reservation
  BY DEF RiskType
<1>2. IsFiniteSet(Live(r)) /\ Live(r) \in SUBSET Nat
  BY DEF RiskType
<1>3. IsFiniteSet(Live(r) \ {id}) /\ Cardinality(Live(r) \ {id}) = Cardinality(Live(r)) - 1
  BY <1>2, FS_RemoveElement
<1>. QED BY <1>1, <1>2, <1>3, FS_CardinalityType DEF Left

LEMMA SmallerTyped ==
  ASSUME NEW r, RiskType(r), NEW id \in Live(r), NEW q \in Nat
  PROVE  /\ Smaller(r, id, q) \in [Live(r) -> Reservation]
         /\ Smaller(r, id, q)[id] = Triple(r.reservations[id].account, r.reservations[id].side, q)
         /\ \A x \in Live(r) \ {id} : Smaller(r, id, q)[x] = r.reservations[x]
<1>1. /\ r.reservations \in [Live(r) -> Reservation] /\ r.reservations[id] \in Reservation
  BY DEF RiskType
<1>2. [r.reservations[id] EXCEPT !.quantity = q]
      = Triple(r.reservations[id].account, r.reservations[id].side, q)
  BY <1>1 DEF Reservation, Triple
<1>3. Triple(r.reservations[id].account, r.reservations[id].side, q) \in Reservation
  BY <1>1 DEF Reservation, Triple
<1>. QED BY <1>1, <1>2, <1>3 DEF Smaller

LEMMA ChangedTyped ==
  ASSUME NEW r, RiskType(r), NEW a \in Accounts, NEW x \in Account
  PROVE  /\ Changed(r, a, x) \in [Accounts -> Account] /\ Changed(r, a, x)[a] = x
         /\ \A y \in Accounts \ {a} : Changed(r, a, x)[y] = r.accounts[y]
BY DEF RiskType, Changed

\* The state in which a reservation has gone, or has been resized, is typed.
LEMMA GoneTyped ==
  ASSUME NEW r, RiskType(r), NEW id \in Live(r), NEW a \in Accounts, NEW x \in Account, NEW t,
         Fields(t, Changed(r, a, x), Left(r, id), r.maximum_order_id)
  PROVE  /\ RiskType(t) /\ Live(t) = Live(r) \ {id} /\ SameBut(r, t, id)
         /\ t.accounts[a] = x /\ \A y \in Accounts \ {a} : t.accounts[y] = r.accounts[y]
         /\ t.maximum_order_id = r.maximum_order_id
<1>1. t.reservations = Left(r, id) /\ t.accounts = Changed(r, a, x) /\ t.maximum_order_id
      = r.maximum_order_id
  BY DEF Fields
<1>2. Live(t) = Live(r) \ {id}
  BY <1>1 DEF Live, Left
<1>3. RiskType(t)
  <2>1. Left(r, id) \in [Live(t) -> Reservation] /\ Live(t) \in SUBSET Nat /\ IsFiniteSet(Live(t))
    BY <1>2, LeftTyped
  <2>2. Changed(r, a, x) \in [Accounts -> Account]
    BY ChangedTyped
  <2>. QED BY <1>1, <2>1, <2>2 DEF RiskType, Fields
<1>4. SameBut(r, t, id)
  BY <1>1, <1>2 DEF SameBut, Left
<1>. QED BY <1>1, <1>2, <1>3, <1>4, ChangedTyped

LEMMA ResizedTyped ==
  ASSUME NEW r, RiskType(r), NEW id \in Live(r), NEW a \in Accounts, NEW x \in Account,
         NEW q \in Nat, NEW t,
         Fields(t, Changed(r, a, x), Smaller(r, id, q), r.maximum_order_id)
  PROVE  /\ RiskType(t) /\ Live(t) = Live(r) /\ SameBut(r, t, id)
         /\ t.reservations[id] = Triple(r.reservations[id].account, r.reservations[id].side, q)
         /\ t.accounts[a] = x /\ \A y \in Accounts \ {a} : t.accounts[y] = r.accounts[y]
         /\ t.maximum_order_id = r.maximum_order_id
<1>1. t.reservations = Smaller(r, id, q) /\ t.accounts = Changed(r, a, x) /\ t.maximum_order_id
      = r.maximum_order_id
  BY DEF Fields
<1>2. /\ Smaller(r, id, q) \in [Live(r) -> Reservation]
      /\ Smaller(r, id, q)[id] = Triple(r.reservations[id].account, r.reservations[id].side, q)
      /\ \A y \in Live(r) \ {id} : Smaller(r, id, q)[y] = r.reservations[y]
  BY SmallerTyped
<1>3. Live(t) = Live(r)
  BY <1>1, <1>2 DEF Live
<1>4. /\ Changed(r, a, x) \in [Accounts -> Account] /\ Changed(r, a, x)[a] = x
      /\ \A y \in Accounts \ {a} : Changed(r, a, x)[y] = r.accounts[y]
  BY ChangedTyped
<1>5. RiskType(t)
  BY <1>1, <1>2, <1>3, <1>4 DEF RiskType, Fields
<1>6. SameBut(r, t, id)
  BY <1>1, <1>2, <1>3 DEF SameBut
<1>. QED BY <1>1, <1>2, <1>3, <1>4, <1>5, <1>6

Signed(side, n) == IF side = "Buy" THEN n ELSE -n

LEMMA LimitsTyped ==
  ASSUME NEW a \in Accounts
  PROVE  /\ Limits[a].max_abs_position \in Nat /\ Limits[a].max_open_orders \in Nat
BY RiskAssumption

\* Filling never brings an account nearer to its position limit.
LEMMA FillWithin ==
  ASSUME NEW a \in Accounts, NEW x \in Account, NEW side \in Sides, NEW filled \in Nat,
         NEW released \in Nat,
         NEW n \in Int, filled <= released, SideTotal(x, side) >= released, x.open + n \in Nat,
         n <= 0,
         WithinPosition(a, x.settled, x.buys, x.sells), x.open <= Limits[a].max_open_orders
  PROVE  LET y == After(x, side, filled, released, n)
         IN  /\ WithinPosition(a, y.settled, y.buys, y.sells)
             /\ y.open <= Limits[a].max_open_orders
<1>. DEFINE y == After(x, side, filled, released, n)
<1>0. /\ x.settled \in Int /\ x.buys \in Nat /\ x.sells \in Nat /\ x.open \in Nat
  BY AcctRecord
<1>1. Limits[a].max_abs_position \in Nat /\ Limits[a].max_open_orders \in Nat
  BY LimitsTyped
<1>2. /\ y.open = x.open + n
      /\ side = "Buy" => y.settled = x.settled + filled /\ y.buys = x.buys - released /\ y.sells
           = x.sells
      /\ side = "Sell" => y.settled = x.settled - filled /\ y.buys = x.buys /\ y.sells
           = x.sells - released
  BY AfterFields
<1>. HIDE DEF y
<1>3. side = "Buy" \/ side = "Sell"
  BY DEF Sides
<1>4. y.open <= Limits[a].max_open_orders
  BY <1>0, <1>1, <1>2
<1>5. WithinPosition(a, y.settled, y.buys, y.sells)
  BY <1>0, <1>1, <1>2, <1>3 DEF WithinPosition
<1>. QED BY <1>4, <1>5 DEF y

\* A reservation that goes, part of it filled
LEMMA GoneOK ==
  ASSUME NEW r, RiskOK(r), NEW id \in Live(r), NEW filled \in Nat,
         filled <= r.reservations[id].quantity, NEW t,
         Fields(t, Changed(r, r.reservations[id].account,
                     After(r.accounts[r.reservations[id].account], r.reservations[id].side, filled,
                           r.reservations[id].quantity, -1)),
                Left(r, id), r.maximum_order_id)
  PROVE  /\ RiskOK(t) /\ Live(t) = Live(r) \ {id} /\ SameBut(r, t, id)
         /\ t.maximum_order_id = r.maximum_order_id
         /\ SettledSum(r) \in Int
         /\ SettledSum(t) = SettledSum(r) + Signed(r.reservations[id].side, filled)
         /\ t.accounts = Changed(r, r.reservations[id].account,
                           After(r.accounts[r.reservations[id].account], r.reservations[id].side,
                             filled,
                                 r.reservations[id].quantity, -1))
<1>. DEFINE res == r.reservations[id]
            a == res.account
            x == r.accounts[a]
            q == res.quantity
            y == After(x, res.side, filled, q, -1)
<1>0. /\ a \in Accounts /\ res.side \in Sides /\ q \in Nat /\ q > 0 /\ x \in Account
      /\ SideTotal(x, res.side) >= q /\ x.open >= 1
  BY Covered
<1>1. RiskType(r) /\ AccountValid(r, a)
  BY <1>0 DEF RiskOK, RiskStateValid
<1>2. /\ x.settled \in Int /\ x.buys \in Nat /\ x.sells \in Nat /\ x.open \in Nat
      /\ x.open + (-1) \in Nat /\ -1 \in Int
  <2>1. x.settled \in Int /\ x.buys \in Nat /\ x.sells \in Nat /\ x.open \in Nat
    BY <1>0, AcctRecord
  <2>. QED BY <1>0, <2>1
<1>. HIDE DEF x, a, q
<1>3. /\ y \in Account
      /\ y.open = x.open + (-1)
      /\ res.side = "Buy" => y.settled = x.settled + filled /\ y.buys = x.buys - q /\ y.sells
           = x.sells
      /\ res.side = "Sell" => y.settled = x.settled - filled /\ y.buys = x.buys /\ y.sells
           = x.sells - q
  BY <1>0, <1>2, AfterFields
<1>. HIDE DEF y
<1>4. Fields(t, Changed(r, a, y), Left(r, id), r.maximum_order_id)
  BY DEF y, x, a, q
<1>5. /\ RiskType(t) /\ Live(t) = Live(r) \ {id} /\ SameBut(r, t, id)
      /\ t.accounts[a] = y /\ \A z \in Accounts \ {a} : t.accounts[z] = r.accounts[z]
      /\ t.maximum_order_id = r.maximum_order_id
  BY <1>0, <1>1, <1>3, <1>4, GoneTyped
<1>6. WithinPosition(a, x.settled, x.buys, x.sells) /\ x.open <= Limits[a].max_open_orders
  BY <1>1 DEF AccountValid, x
<1>7. WithinPosition(a, y.settled, y.buys, y.sells) /\ y.open <= Limits[a].max_open_orders
  <2>1. filled <= q /\ -1 <= 0
    BY DEF q
  <2>. QED BY <1>0, <1>2, <1>6, <2>1, FillWithin DEF y
<1>8. Cardinality(Live(t)) <= RiskOrders
  <2>1. Cardinality(Live(t)) = Cardinality(Live(r)) - 1 /\ Cardinality(Live(r)) \in Nat
    BY <1>1, <1>5, LeftTyped
  <2>2. Cardinality(Live(r)) <= RiskOrders /\ RiskOrders \in Nat
    BY RiskAssumption DEF RiskOK, RiskStateValid
  <2>. QED BY <2>1, <2>2
<1>9. /\ Share(t, id, a, "Buy") = 0 /\ Share(t, id, a, "Sell") = 0 /\ OneOf(t, id, a) = 0
      /\ Share(r, id, a, "Buy") = (IF res.side = "Buy" THEN q ELSE 0)
      /\ Share(r, id, a, "Sell") = (IF res.side = "Sell" THEN q ELSE 0)
      /\ OneOf(r, id, a) = 1
  BY <1>5 DEF Share, OneOf, Own, OwnSide, a, q
<1>10. /\ y.buys - 0 = x.buys - (IF res.side = "Buy" THEN q ELSE 0)
       /\ y.sells - 0 = x.sells - (IF res.side = "Sell" THEN q ELSE 0)
       /\ y.open - 0 = x.open - 1
  BY <1>0, <1>2, <1>3 DEF Sides
<1>11. Adjusts(r, t, id, a)
  <2>1. r.maximum_order_id <= t.maximum_order_id
    BY <1>1, <1>5 DEF RiskType
  <2>2. id \notin Live(t) /\ r.reservations[id].account = a
    BY <1>5 DEF a
  <2>3. /\ t.accounts[a].buys - Share(t, id, a, "Buy") = r.accounts[a].buys - Share(r, id, a, "Buy")
        /\ t.accounts[a].sells - Share(t, id, a, "Sell")
             = r.accounts[a].sells - Share(r, id, a, "Sell")
        /\ t.accounts[a].open - OneOf(t, id, a) = r.accounts[a].open - OneOf(r, id, a)
    BY <1>5, <1>9, <1>10 DEF x
  <2>. QED BY <1>0, <1>5, <2>1, <2>2, <2>3 DEF Adjusts
<1>12. Fits(t, a)
  BY <1>5, <1>7, <1>8 DEF Fits
<1>13. RiskOK(t)
  BY <1>11, <1>12, AdjustedIsValid
<1>14. SettledSum(r) \in Int /\ SettledSum(t)
       = SettledSum(r) + (t.accounts[a].settled - r.accounts[a].settled)
  BY <1>0, <1>1, <1>5, OneSettled
<1>15. y.settled - x.settled = Signed(res.side, filled)
  BY <1>0, <1>2, <1>3 DEF Signed, Sides
<1>16. SettledSum(t) = SettledSum(r) + Signed(res.side, filled)
  BY <1>5, <1>14, <1>15 DEF x
<1>17. t.accounts = Changed(r, a, y)
  BY <1>4 DEF Fields
<1>. QED BY <1>5, <1>13, <1>14, <1>16, <1>17 DEF y, x, a, q

\* The account y after a reservation of it changed to the quantity p
Regrown(r, id, p, y) ==
  LET res == r.reservations[id]
      x   == r.accounts[res.account]
  IN  /\ y.open = x.open
      /\ y.buys = x.buys + (IF res.side = "Buy" THEN p - res.quantity ELSE 0)
      /\ y.sells = x.sells + (IF res.side = "Sell" THEN p - res.quantity ELSE 0)
      /\ WithinPosition(res.account, y.settled, y.buys, y.sells)

\* A reservation that changes its quantity
LEMMA ResizedOK ==
  ASSUME NEW r, RiskOK(r), NEW id \in Live(r), NEW p \in Nat, p > 0, NEW y \in Account, NEW t,
         Fields(t, Changed(r, r.reservations[id].account, y), Smaller(r, id, p),
           r.maximum_order_id),
         Regrown(r, id, p, y)
  PROVE  /\ RiskOK(t) /\ Live(t) = Live(r) /\ SameBut(r, t, id)
         /\ t.reservations[id] = Triple(r.reservations[id].account, r.reservations[id].side, p)
         /\ t.maximum_order_id = r.maximum_order_id
         /\ SettledSum(r) \in Int
         /\ SettledSum(t) = SettledSum(r)
              + (y.settled - r.accounts[r.reservations[id].account].settled)
<1>. DEFINE res == r.reservations[id]
            a == res.account
            x == r.accounts[a]
            q == res.quantity
<1>0. /\ a \in Accounts /\ res.side \in Sides /\ q \in Nat /\ q > 0 /\ x \in Account
      /\ SideTotal(x, res.side) >= q /\ x.open >= 1
  BY Covered
<1>1. RiskType(r) /\ AccountValid(r, a)
  BY <1>0 DEF RiskOK, RiskStateValid
<1>2. /\ x.settled \in Int /\ x.buys \in Nat /\ x.sells \in Nat /\ x.open \in Nat
      /\ y.settled \in Int /\ y.buys \in Nat /\ y.sells \in Nat /\ y.open \in Nat
  BY <1>0, AcctRecord
<1>. HIDE DEF x, a, q
<1>3. /\ y.open = x.open
      /\ y.buys = x.buys + (IF res.side = "Buy" THEN p - q ELSE 0)
      /\ y.sells = x.sells + (IF res.side = "Sell" THEN p - q ELSE 0)
      /\ WithinPosition(a, y.settled, y.buys, y.sells)
  BY DEF Regrown, x, a, q
<1>4. Fields(t, Changed(r, a, y), Smaller(r, id, p), r.maximum_order_id)
  BY DEF a
<1>5. /\ RiskType(t) /\ Live(t) = Live(r) /\ SameBut(r, t, id)
      /\ t.reservations[id] = Triple(r.reservations[id].account, r.reservations[id].side, p)
      /\ t.accounts[a] = y /\ \A z \in Accounts \ {a} : t.accounts[z] = r.accounts[z]
      /\ t.maximum_order_id = r.maximum_order_id
  BY <1>0, <1>1, <1>4, ResizedTyped
<1>6. x.open <= Limits[a].max_open_orders
  BY <1>1 DEF AccountValid, x
<1>8. Cardinality(Live(t)) <= RiskOrders
  BY <1>5 DEF RiskOK, RiskStateValid
<1>9. t.reservations[id].account = a /\ t.reservations[id].side = res.side
      /\ t.reservations[id].quantity = p
  BY <1>5 DEF Triple, a
<1>10. /\ Share(t, id, a, "Buy") = (IF res.side = "Buy" THEN p ELSE 0)
       /\ Share(t, id, a, "Sell") = (IF res.side = "Sell" THEN p ELSE 0)
       /\ Share(r, id, a, "Buy") = (IF res.side = "Buy" THEN q ELSE 0)
       /\ Share(r, id, a, "Sell") = (IF res.side = "Sell" THEN q ELSE 0)
       /\ OneOf(r, id, a) = 1 /\ OneOf(t, id, a) = 1
  BY <1>5, <1>9 DEF Share, OneOf, Own, OwnSide, a, q
<1>11. /\ y.buys - (IF res.side = "Buy" THEN p ELSE 0)
            = x.buys - (IF res.side = "Buy" THEN q ELSE 0)
       /\ y.sells - (IF res.side = "Sell" THEN p ELSE 0)
            = x.sells - (IF res.side = "Sell" THEN q ELSE 0)
       /\ y.open - 1 = x.open - 1
  BY <1>0, <1>2, <1>3
<1>12. Adjusts(r, t, id, a)
  <2>1. r.maximum_order_id <= t.maximum_order_id /\ id <= t.maximum_order_id
    BY <1>1, <1>5 DEF RiskType, RiskOK, RiskStateValid
  <2>2. r.reservations[id].account = a
    BY DEF a
  <2>3. /\ t.accounts[a].buys - Share(t, id, a, "Buy") = r.accounts[a].buys - Share(r, id, a, "Buy")
        /\ t.accounts[a].sells - Share(t, id, a, "Sell")
             = r.accounts[a].sells - Share(r, id, a, "Sell")
        /\ t.accounts[a].open - OneOf(t, id, a) = r.accounts[a].open - OneOf(r, id, a)
    BY <1>5, <1>10, <1>11 DEF x
  <2>. QED BY <1>0, <1>5, <1>9, <2>1, <2>2, <2>3 DEF Adjusts
<1>13. Fits(t, a)
  BY <1>3, <1>5, <1>6, <1>8 DEF Fits, a
<1>14. RiskOK(t)
  BY <1>12, <1>13, AdjustedIsValid
<1>15. SettledSum(r) \in Int /\ SettledSum(t)
       = SettledSum(r) + (t.accounts[a].settled - r.accounts[a].settled)
  BY <1>0, <1>1, <1>5, OneSettled
<1>. QED BY <1>5, <1>14, <1>15 DEF x, a

\* record_fill succeeds on a reservation that is large enough, and keeps the state valid.
LEMMA RecordFillOK ==
  ASSUME NEW r, RiskOK(r), NEW id \in Live(r), NEW filled \in Nat, filled > 0,
         filled <= r.reservations[id].quantity
  PROVE  /\ CanRecordFill(r, id, filled)
         /\ RiskOK(RecordFill(r, id, filled)) /\ SameBut(r, RecordFill(r, id, filled), id)
         /\ id \in Live(RecordFill(r, id, filled)) <=> filled # r.reservations[id].quantity
         /\ filled # r.reservations[id].quantity =>
              RecordFill(r, id, filled).reservations[id]
                = Triple(r.reservations[id].account, r.reservations[id].side,
                         r.reservations[id].quantity - filled)
         /\ RecordFill(r, id, filled).maximum_order_id = r.maximum_order_id
         /\ SettledSum(r) \in Int
         /\ SettledSum(RecordFill(r, id, filled))
              = SettledSum(r) + Signed(r.reservations[id].side, filled)
<1>. DEFINE res == r.reservations[id]
            a == res.account
            x == r.accounts[a]
            q == res.quantity
            t == RecordFill(r, id, filled)
<1>0. /\ a \in Accounts /\ res.side \in Sides /\ q \in Nat /\ q > 0 /\ x \in Account
      /\ SideTotal(x, res.side) >= q /\ x.open >= 1
  BY Covered
<1>1. RiskType(r) /\ AccountValid(r, a) /\ DOMAIN r
      = {"accounts", "reservations", "maximum_order_id", "killed"}
  BY <1>0 DEF RiskOK, RiskStateValid, RiskType
<1>2. /\ x.settled \in Int /\ x.buys \in Nat /\ x.sells \in Nat /\ x.open \in Nat
  BY <1>0, AcctRecord
<1>3. SideTotal(x, res.side) \in Nat
  BY <1>2 DEF SideTotal
<1>4. CanRecordFill(r, id, filled)
  <2>1. SideTotal(x, res.side) >= filled
    BY <1>0, <1>3
  <2>. QED BY <1>0, <2>1 DEF CanRecordFill
<1>5. CASE filled = q
  <2>1. Fields(t, Changed(r, a, After(x, res.side, filled, q, -1)), Left(r, id), r.maximum_order_id)
    BY <1>1, <1>5, RecordFillFields
  <2>2. /\ RiskOK(t) /\ Live(t) = Live(r) \ {id} /\ SameBut(r, t, id)
        /\ t.maximum_order_id = r.maximum_order_id
        /\ SettledSum(r) \in Int
        /\ SettledSum(t) = SettledSum(r) + Signed(res.side, filled)
    BY <2>1, GoneOK
  <2>. QED BY <1>4, <1>5, <2>2
<1>6. CASE filled # q
  <2>. DEFINE y == After(x, res.side, filled, filled, 0)
              p == q - filled
  <2>1. Fields(t, Changed(r, a, y), Smaller(r, id, p), r.maximum_order_id)
    BY <1>1, <1>6, RecordFillFields
  <2>2. SideTotal(x, res.side) >= filled /\ x.open + 0 \in Nat /\ 0 \in Int /\ x.open + 0 = x.open
    BY <1>0, <1>2, <1>3
  <2>3. /\ y \in Account
        /\ y.open = x.open + 0
        /\ res.side = "Buy" => y.settled = x.settled + filled /\ y.buys = x.buys - filled
             /\ y.sells = x.sells
        /\ res.side = "Sell" => y.settled = x.settled - filled /\ y.buys = x.buys /\ y.sells
             = x.sells - filled
    BY <1>0, <2>2, AfterFields
  <2>4. WithinPosition(a, y.settled, y.buys, y.sells)
    <3>1. WithinPosition(a, x.settled, x.buys, x.sells) /\ x.open <= Limits[a].max_open_orders
      BY <1>1 DEF AccountValid
    <3>2. filled <= filled /\ 0 <= 0
      OBVIOUS
    <3>. HIDE DEF x, a
    <3>. QED BY <1>0, <2>2, <3>1, <3>2, FillWithin
  <2>5. p \in Nat /\ p > 0
    BY <1>0, <1>6
  <2>6. p - q = -filled
    BY <1>0
  <2>. HIDE DEF y, t, p
  <2>7. /\ y.open = x.open
        /\ y.buys = x.buys + (IF res.side = "Buy" THEN p - q ELSE 0)
        /\ y.sells = x.sells + (IF res.side = "Sell" THEN p - q ELSE 0)
    BY <1>0, <1>2, <2>2, <2>3, <2>6 DEF Sides
  <2>8. /\ RiskOK(t) /\ Live(t) = Live(r) /\ SameBut(r, t, id)
        /\ t.reservations[id] = Triple(r.reservations[id].account, r.reservations[id].side, p)
        /\ t.maximum_order_id = r.maximum_order_id
        /\ SettledSum(r) \in Int
        /\ SettledSum(t) = SettledSum(r)
             + (y.settled - r.accounts[r.reservations[id].account].settled)
    <3>1. Regrown(r, id, p, y)
      BY <2>4, <2>7 DEF Regrown
    <3>. QED BY <2>1, <2>3, <2>5, <3>1, ResizedOK
  <2>9. y.settled - x.settled = Signed(res.side, filled)
    BY <1>0, <1>2, <2>3 DEF Signed, Sides
  <2>. QED BY <1>4, <1>6, <2>8, <2>9 DEF t, p
<1>. QED BY <1>5, <1>6

\* settle releases a reservation and its account's share of it.
LEMMA SettleOK ==
  ASSUME NEW r, RiskOK(r), NEW id \in Live(r)
  PROVE  /\ CanSettle(r, id)
         /\ RiskOK(Settle(r, id)) /\ Live(Settle(r, id)) = Live(r) \ {id}
              /\ SameBut(r, Settle(r, id), id)
         /\ Settle(r, id).maximum_order_id = r.maximum_order_id
         /\ SettledSum(r) \in Int
         /\ SettledSum(Settle(r, id)) = SettledSum(r)
<1>. DEFINE res == r.reservations[id]
            a == res.account
            x == r.accounts[a]
            q == res.quantity
            t == Settle(r, id)
<1>0. /\ a \in Accounts /\ res.side \in Sides /\ q \in Nat /\ q > 0 /\ x \in Account
      /\ SideTotal(x, res.side) >= q /\ x.open >= 1
  BY Covered
<1>1. RiskType(r) /\ DOMAIN r = {"accounts", "reservations", "maximum_order_id", "killed"}
  BY DEF RiskOK, RiskType
<1>2. CanSettle(r, id)
  BY <1>0 DEF CanSettle
<1>3. Fields(t, Changed(r, a, After(x, res.side, 0, q, -1)), Left(r, id), r.maximum_order_id)
  <2>1. t = Release([r EXCEPT !.accounts[a] = After(x, res.side, 0, q, -1)], id)
    BY DEF Settle, After
  <2>. QED BY <1>1, <2>1, ReleaseFields
<1>4. 0 \in Nat /\ 0 <= r.reservations[id].quantity
  BY <1>0
<1>. HIDE DEF t
<1>5. /\ RiskOK(t) /\ Live(t) = Live(r) \ {id} /\ SameBut(r, t, id)
      /\ t.maximum_order_id = r.maximum_order_id
      /\ SettledSum(r) \in Int
      /\ SettledSum(t) = SettledSum(r) + Signed(r.reservations[id].side, 0)
  BY <1>3, <1>4, GoneOK
<1>6. Signed(res.side, 0) = 0
  <2>1. \A n \in Nat : n < 1 => Signed(res.side, n) \in Int /\ Signed(res.side, n) < 1
        /\ Signed(res.side, n) > 0 - 1
    BY DEF Signed
  <2>. QED BY <2>1
<1>. QED BY <1>2, <1>5, <1>6 DEF t

-----------------------------------------------------------------------------
\* The reservations when one is added
Added(r, id, v) == [x \in Live(r) \cup {id} |-> IF x = id THEN v ELSE r.reservations[x]]

LEMMA AddedTyped ==
  ASSUME NEW r, RiskType(r), NEW id \in Nat, id \notin Live(r), NEW v \in Reservation
  PROVE  /\ Added(r, id, v) \in [Live(r) \cup {id} -> Reservation]
         /\ Added(r, id, v)[id] = v
         /\ \A x \in Live(r) : Added(r, id, v)[x] = r.reservations[x]
         /\ Live(r) \cup {id} \in SUBSET Nat /\ IsFiniteSet(Live(r) \cup {id})
         /\ Cardinality(Live(r) \cup {id}) = Cardinality(Live(r)) + 1
         /\ Cardinality(Live(r)) \in Nat
<1>1. /\ r.reservations \in [Live(r) -> Reservation] /\ Live(r) \in SUBSET Nat
           /\ IsFiniteSet(Live(r))
  BY DEF RiskType
<1>2. /\ IsFiniteSet(Live(r) \cup {id}) /\ Cardinality(Live(r) \cup {id}) = Cardinality(Live(r)) + 1
      /\ Cardinality(Live(r)) \in Nat
  BY <1>1, FS_AddElement, FS_CardinalityType
<1>. QED BY <1>1, <1>2 DEF Added

LEMMA AddedFields ==
  ASSUME NEW r, RiskType(r), NEW id \in Nat, id \notin Live(r), NEW v \in Reservation,
         NEW a \in Accounts, NEW x \in Account, NEW m \in Nat, NEW t,
         Fields(t, Changed(r, a, x), Added(r, id, v), m)
  PROVE  /\ RiskType(t) /\ Live(t) = Live(r) \cup {id} /\ SameBut(r, t, id)
         /\ t.reservations[id] = v
         /\ t.accounts[a] = x /\ \A y \in Accounts \ {a} : t.accounts[y] = r.accounts[y]
         /\ t.maximum_order_id = m
         /\ Cardinality(Live(t)) = Cardinality(Live(r)) + 1 /\ Cardinality(Live(r)) \in Nat
<1>1. /\ DOMAIN t = {"accounts", "reservations", "maximum_order_id", "killed"}
      /\ t.accounts = Changed(r, a, x) /\ t.reservations = Added(r, id, v) /\ t.maximum_order_id = m
  BY DEF Fields
<1>2. /\ Added(r, id, v) \in [Live(r) \cup {id} -> Reservation]
      /\ Added(r, id, v)[id] = v
      /\ \A y \in Live(r) : Added(r, id, v)[y] = r.reservations[y]
      /\ Live(r) \cup {id} \in SUBSET Nat /\ IsFiniteSet(Live(r) \cup {id})
      /\ Cardinality(Live(r) \cup {id}) = Cardinality(Live(r)) + 1
      /\ Cardinality(Live(r)) \in Nat
  BY AddedTyped
<1>3. Live(t) = Live(r) \cup {id}
  BY <1>1, <1>2 DEF Live
<1>4. /\ Changed(r, a, x) \in [Accounts -> Account] /\ Changed(r, a, x)[a] = x
      /\ \A y \in Accounts \ {a} : Changed(r, a, x)[y] = r.accounts[y]
  BY ChangedTyped
<1>5. RiskType(t)
  BY <1>1, <1>2, <1>3, <1>4 DEF RiskType
<1>6. SameBut(r, t, id)
  BY <1>1, <1>2, <1>3 DEF SameBut
<1>. QED BY <1>1, <1>2, <1>3, <1>4, <1>5, <1>6

\* The order may reserve
MayReserve(r, o) ==
  /\ o.id \in Nat /\ o.id > r.maximum_order_id /\ Cardinality(Live(r)) < RiskOrders
  /\ o.account \in Accounts /\ o.side \in Sides /\ o.quantity \in Nat /\ o.quantity > 0
  /\ r.accounts[o.account].open + 1 <= Limits[o.account].max_open_orders
  /\ LET y == Reserved(r.accounts[o.account], o.side, o.quantity)
     IN  WithinPosition(o.account, r.accounts[o.account].settled, y.buys, y.sells)

Reserving(x, side, q) == Opened(Reserved(x, side, q), 1)

LEMMA ReservingFields ==
  ASSUME NEW x \in Account, NEW side \in Sides, NEW q \in Nat
  PROVE  /\ Reserving(x, side, q) \in Account
         /\ Reserving(x, side, q).open = x.open + 1
         /\ Reserving(x, side, q).settled = x.settled
         /\ Reserving(x, side, q).buys = x.buys + (IF side = "Buy" THEN q ELSE 0)
         /\ Reserving(x, side, q).sells = x.sells + (IF side = "Sell" THEN q ELSE 0)
         /\ Reserving(x, side, q).buys = Reserved(x, side, q).buys
         /\ Reserving(x, side, q).sells = Reserved(x, side, q).sells
         /\ After(Reserving(x, side, q), side, 0, q, -1) = x
<1>1. /\ x.settled \in Int /\ x.buys \in Nat /\ x.sells \in Nat /\ x.open \in Nat
      /\ x.killed \in BOOLEAN /\ x = Acct(x.settled, x.buys, x.sells, x.open, x.killed)
  BY AcctRecord
<1>2. CASE side = "Buy"
  <2>. DEFINE y == Acct(x.settled, x.buys + q, x.sells, x.open + 1, x.killed)
  <2>1. Reserved(x, side, q) = Acct(x.settled, x.buys + q, x.sells, x.open, x.killed)
    BY <1>2, ReservedAcct
  <2>2. Reserving(x, side, q) = y
    BY <2>1, OpenedAcct DEF Reserving
  <2>3. /\ y \in Account /\ y.open = x.open + 1 /\ y.settled = x.settled /\ y.buys = x.buys + q
        /\ y.sells = x.sells /\ y.killed = x.killed
    BY <1>1 DEF Acct, Account
  <2>4. Exposure(y, side, 0, q) = Acct(y.settled + 0, y.buys + (-q), y.sells, y.open, y.killed)
    BY <1>2, <2>3, ExposureAcct
  <2>5. After(y, side, 0, q, -1) = Acct(y.settled + 0, y.buys + (-q), y.sells, y.open + (-1),
        y.killed)
    BY <2>4, OpenedAcct DEF After
  <2>6. y.settled + 0 = x.settled /\ y.buys + (-q) = x.buys /\ y.open + (-1) = x.open
    BY <1>1, <2>3
  <2>7. After(y, side, 0, q, -1) = x
    BY <1>1, <2>3, <2>5, <2>6
  <2>8. Reserved(x, side, q).buys = x.buys + q /\ Reserved(x, side, q).sells = x.sells
    BY <2>1 DEF Acct
  <2>9. x.sells = x.sells + 0
    BY <1>1
  <2>. QED BY <1>2, <2>2, <2>3, <2>7, <2>8, <2>9
<1>3. CASE side = "Sell"
  <2>. DEFINE y == Acct(x.settled, x.buys, x.sells + q, x.open + 1, x.killed)
  <2>1. Reserved(x, side, q) = Acct(x.settled, x.buys, x.sells + q, x.open, x.killed)
    BY <1>3, ReservedAcct
  <2>2. Reserving(x, side, q) = y
    BY <2>1, OpenedAcct DEF Reserving
  <2>3. /\ y \in Account /\ y.open = x.open + 1 /\ y.settled = x.settled /\ y.buys = x.buys
        /\ y.sells = x.sells + q /\ y.killed = x.killed
    BY <1>1 DEF Acct, Account
  <2>4. Exposure(y, side, 0, q) = Acct(y.settled - 0, y.buys, y.sells + (-q), y.open, y.killed)
    BY <1>3, <2>3, ExposureAcct
  <2>5. After(y, side, 0, q, -1) = Acct(y.settled - 0, y.buys, y.sells + (-q), y.open + (-1),
        y.killed)
    BY <2>4, OpenedAcct DEF After
  <2>6. y.settled - 0 = x.settled /\ y.sells + (-q) = x.sells /\ y.open + (-1) = x.open
    BY <1>1, <2>3
  <2>7. After(y, side, 0, q, -1) = x
    BY <1>1, <2>3, <2>5, <2>6
  <2>8. Reserved(x, side, q).sells = x.sells + q /\ Reserved(x, side, q).buys = x.buys
    BY <2>1 DEF Acct
  <2>9. x.buys = x.buys + 0
    BY <1>1
  <2>. QED BY <1>3, <2>2, <2>3, <2>7, <2>8, <2>9
<1>. QED BY <1>2, <1>3 DEF Sides

\* What check_and_reserve leaves when it accepts
LEMMA ReserveFields ==
  ASSUME NEW r, RiskOK(r), NEW o, MayReserve(r, o)
  PROVE  /\ Fields(Reserve(r, o), Changed(r, o.account,
              Reserving(r.accounts[o.account], o.side, o.quantity)),
                   Added(r, o.id, Triple(o.account, o.side, o.quantity)), o.id)
         /\ o.id \notin Live(r)
         /\ Triple(o.account, o.side, o.quantity) \in Reservation
         /\ r.accounts[o.account] \in Account
<1>1. RiskType(r) /\ DOMAIN r = {"accounts", "reservations", "maximum_order_id", "killed"}
  BY DEF RiskOK, RiskType
<1>2. Fields(Reserve(r, o), Changed(r, o.account,
      Reserving(r.accounts[o.account], o.side, o.quantity)),
             Added(r, o.id, Triple(o.account, o.side, o.quantity)), o.id)
  BY <1>1 DEF Reserve, Fields, Changed, Reserving, Added, Triple
<1>3. \A id \in Live(r) : id \in Nat /\ id <= r.maximum_order_id
  BY <1>1 DEF RiskOK, RiskStateValid, RiskType
<1>4. o.id \notin Live(r)
  BY <1>1, <1>3 DEF MayReserve, RiskType
<1>5. Triple(o.account, o.side, o.quantity) \in Reservation
  BY DEF MayReserve, Triple, Reservation
<1>6. r.accounts[o.account] \in Account
  BY <1>1 DEF MayReserve, RiskType
<1>. QED BY <1>2, <1>4, <1>5, <1>6

\* check_and_reserve keeps a valid state valid.
LEMMA ReserveOK ==
  ASSUME NEW r, RiskOK(r), NEW o, MayReserve(r, o)
  PROVE  /\ RiskOK(Reserve(r, o)) /\ Live(Reserve(r, o)) = Live(r) \cup {o.id}
         /\ SameBut(r, Reserve(r, o), o.id) /\ o.id \notin Live(r)
         /\ Reserve(r, o).reservations[o.id] = Triple(o.account, o.side, o.quantity)
         /\ Reserve(r, o).maximum_order_id = o.id
         /\ SettledSum(r) \in Int /\ SettledSum(Reserve(r, o)) = SettledSum(r)
<1>. DEFINE id == o.id
            a == o.account
            x == r.accounts[a]
            y == Reserving(x, o.side, o.quantity)
            v == Triple(a, o.side, o.quantity)
            t == Reserve(r, o)
<1>1. /\ Fields(t, Changed(r, a, y), Added(r, id, v), id) /\ id \notin Live(r)
      /\ v \in Reservation /\ x \in Account
  BY ReserveFields
<1>2. /\ id \in Nat /\ id > r.maximum_order_id /\ Cardinality(Live(r)) < RiskOrders
      /\ a \in Accounts /\ o.side \in Sides /\ o.quantity \in Nat /\ o.quantity > 0
      /\ x.open + 1 <= Limits[a].max_open_orders
      /\ WithinPosition(a, x.settled, Reserved(x, o.side, o.quantity).buys,
           Reserved(x, o.side, o.quantity).sells)
  BY DEF MayReserve
<1>3. /\ y \in Account /\ y.open = x.open + 1 /\ y.settled = x.settled
      /\ y.buys = x.buys + (IF o.side = "Buy" THEN o.quantity ELSE 0)
      /\ y.sells = x.sells + (IF o.side = "Sell" THEN o.quantity ELSE 0)
      /\ y.buys = Reserved(x, o.side, o.quantity).buys
      /\ y.sells = Reserved(x, o.side, o.quantity).sells
  <2>. DEFINE s == o.side
              q == o.quantity
  <2>1. x \in Account /\ s \in Sides /\ q \in Nat
    BY <1>1, <1>2
  <2>. HIDE DEF x, s, q
  <2>2. /\ Reserving(x, s, q) \in Account
         /\ Reserving(x, s, q).open = x.open + 1
         /\ Reserving(x, s, q).settled = x.settled
         /\ Reserving(x, s, q).buys = x.buys + (IF s = "Buy" THEN q ELSE 0)
         /\ Reserving(x, s, q).sells = x.sells + (IF s = "Sell" THEN q ELSE 0)
         /\ Reserving(x, s, q).buys = Reserved(x, s, q).buys
         /\ Reserving(x, s, q).sells = Reserved(x, s, q).sells
    BY <2>1, ReservingFields
  <2>. QED BY <2>2 DEF s, q
<1>4. RiskType(r)
  BY DEF RiskOK
<1>5. v.account = a /\ v.side = o.side /\ v.quantity = o.quantity
  BY DEF Triple
<1>. HIDE DEF t, v, y, x, a, id
<1>6. /\ RiskType(t) /\ Live(t) = Live(r) \cup {id} /\ SameBut(r, t, id)
      /\ t.reservations[id] = v
      /\ t.accounts[a] = y /\ \A z \in Accounts \ {a} : t.accounts[z] = r.accounts[z]
      /\ t.maximum_order_id = id
      /\ Cardinality(Live(t)) = Cardinality(Live(r)) + 1 /\ Cardinality(Live(r)) \in Nat
  BY <1>1, <1>2, <1>3, <1>4, AddedFields
<1>7. /\ x.settled \in Int /\ x.buys \in Nat /\ x.sells \in Nat /\ x.open \in Nat
  BY <1>1, AcctRecord
<1>8. /\ Share(t, id, a, "Buy") = (IF o.side = "Buy" THEN o.quantity ELSE 0)
      /\ Share(t, id, a, "Sell") = (IF o.side = "Sell" THEN o.quantity ELSE 0)
      /\ Share(r, id, a, "Buy") = 0 /\ Share(r, id, a, "Sell") = 0
      /\ OneOf(r, id, a) = 0 /\ OneOf(t, id, a) = 1
  <2>1. id \in Live(t)
    BY <1>6
  <2>. QED BY <1>1, <1>5, <1>6, <2>1 DEF Share, OneOf, Own, OwnSide
<1>9. Adjusts(r, t, id, a)
  <2>1. /\ t.accounts[a].buys - Share(t, id, a, "Buy") = r.accounts[a].buys - Share(r, id, a, "Buy")
        /\ t.accounts[a].sells - Share(t, id, a, "Sell")
             = r.accounts[a].sells - Share(r, id, a, "Sell")
        /\ t.accounts[a].open - OneOf(t, id, a) = r.accounts[a].open - OneOf(r, id, a)
    BY <1>2, <1>3, <1>6, <1>7, <1>8 DEF x
  <2>2. r.maximum_order_id <= t.maximum_order_id /\ id <= t.maximum_order_id
    BY <1>2, <1>4, <1>6 DEF RiskType
  <2>3. t.reservations[id].account = a /\ t.reservations[id].quantity > 0
    BY <1>2, <1>5, <1>6
  <2>. QED BY <1>1, <1>2, <1>6, <2>1, <2>2, <2>3 DEF Adjusts
<1>10. Fits(t, a)
  <2>1. Cardinality(Live(t)) <= RiskOrders
    BY <1>2, <1>6, RiskAssumption
  <2>. QED BY <1>2, <1>3, <1>6, <2>1 DEF Fits
<1>11. RiskOK(t)
  BY <1>9, <1>10, AdjustedIsValid
<1>12. SettledSum(r) \in Int /\ SettledSum(t)
       = SettledSum(r) + (t.accounts[a].settled - r.accounts[a].settled)
  BY <1>2, <1>4, <1>6, OneSettled
<1>13. SettledSum(t) = SettledSum(r)
  BY <1>3, <1>6, <1>7, <1>12 DEF x
<1>. QED BY <1>1, <1>6, <1>11, <1>12, <1>13 DEF t, id, v, a

\* What is reserved and then settled with nothing filled leaves no trace but the watermark.
LEMMA ReserveSettle ==
  ASSUME NEW r, RiskOK(r), NEW o, MayReserve(r, o)
  PROVE  /\ CanSettle(Reserve(r, o), o.id)
         /\ RiskOK(Settle(Reserve(r, o), o.id))
         /\ Settle(Reserve(r, o), o.id).accounts = r.accounts
         /\ Settle(Reserve(r, o), o.id).reservations = r.reservations
         /\ Settle(Reserve(r, o), o.id).maximum_order_id = o.id
         /\ SettledSum(Settle(Reserve(r, o), o.id)) = SettledSum(r)
<1>. DEFINE id == o.id
            a == o.account
            x == r.accounts[a]
            y == Reserving(x, o.side, o.quantity)
            v == Triple(a, o.side, o.quantity)
            t == Reserve(r, o)
            u == Settle(t, id)
<1>1. /\ Fields(t, Changed(r, a, y), Added(r, id, v), id) /\ id \notin Live(r)
      /\ v \in Reservation /\ x \in Account
  BY ReserveFields
<1>2. /\ id \in Nat /\ a \in Accounts /\ o.side \in Sides /\ o.quantity \in Nat
  BY DEF MayReserve
<1>3. y \in Account /\ After(y, o.side, 0, o.quantity, -1) = x
  BY <1>1, <1>2, ReservingFields
<1>4. RiskType(r) /\ r.accounts \in [Accounts -> Account]
      /\ r.reservations \in [Live(r) -> Reservation]
  BY DEF RiskOK, RiskType
<1>5. v.account = a /\ v.side = o.side /\ v.quantity = o.quantity
  BY DEF Triple
<1>6. /\ RiskOK(t) /\ Live(t) = Live(r) \cup {id} /\ t.reservations[id] = v /\ t.maximum_order_id
           = id
      /\ SettledSum(t) = SettledSum(r)
  BY ReserveOK
<1>7. /\ CanSettle(t, id) /\ RiskOK(u) /\ u.maximum_order_id = id /\ SettledSum(u) = SettledSum(r)
  BY <1>6, SettleOK
<1>8. t.accounts = Changed(r, a, y) /\ t.reservations = Added(r, id, v)
      /\ DOMAIN t = {"accounts", "reservations", "maximum_order_id", "killed"}
  BY <1>1 DEF Fields
<1>9. t.accounts[a] = y
  BY <1>2, <1>4, <1>8 DEF Changed
<1>10. Fields(u, Changed(t, a, x), Left(t, id), t.maximum_order_id)
  <2>1. u = Release([t EXCEPT !.accounts[a] = After(y, o.side, 0, o.quantity, -1)], id)
    <3>. HIDE DEF t, y
    <3>. QED BY <1>5, <1>6, <1>9 DEF Settle, After
  <2>2. u = Release([t EXCEPT !.accounts[a] = x], id)
    BY <1>3, <2>1
  <2>. HIDE DEF t, u, x, a, id
  <2>. QED BY <1>8, <2>2, ReleaseFields
<1>11. u.accounts = r.accounts
  <2>1. u.accounts = [t.accounts EXCEPT ![a] = x]
    BY <1>10 DEF Fields, Changed
  <2>. QED BY <1>2, <1>4, <1>8, <2>1 DEF Changed
<1>12. u.reservations = r.reservations
  <2>1. u.reservations = [z \in Live(t) \ {id} |-> t.reservations[z]]
    BY <1>10 DEF Fields, Left
  <2>2. Live(t) \ {id} = Live(r)
    BY <1>1, <1>6
  <2>3. \A z \in Live(r) : t.reservations[z] = r.reservations[z]
    BY <1>1, <1>8 DEF Added
  <2>. QED BY <1>4, <2>1, <2>2, <2>3
<1>. QED BY <1>7, <1>11, <1>12

\* The fields after adjust_reservation
LEMMA SetReservationFields ==
  ASSUME NEW r, NEW id, NEW p, DOMAIN r = {"accounts", "reservations", "maximum_order_id", "killed"}
  PROVE  LET res == r.reservations[id]
         IN  Fields(SetReservation(r, id, p),
               Changed(r, res.account, Reserved(r.accounts[res.account], res.side,
                 p - res.quantity)),
               Smaller(r, id, p), r.maximum_order_id)
BY DEF SetReservation, Fields, Changed, Smaller

\* What a change of a reservation from q to p does to the account
LEMMA RegrownFields ==
  ASSUME NEW x \in Account, NEW side \in Sides, NEW q \in Nat, NEW p \in Nat,
         SideTotal(x, side) >= q
  PROVE  /\ Reserved(x, side, p - q) \in Account
         /\ Reserved(x, side, p - q).open = x.open
         /\ Reserved(x, side, p - q).settled = x.settled
         /\ Reserved(x, side, p - q).buys = x.buys + (IF side = "Buy" THEN p - q ELSE 0)
         /\ Reserved(x, side, p - q).sells = x.sells + (IF side = "Sell" THEN p - q ELSE 0)
         /\ Reserved(Reserved(x, side, p - q), side, q - p) = x
<1>1. /\ x.settled \in Int /\ x.buys \in Nat /\ x.sells \in Nat /\ x.open \in Nat
      /\ x.killed \in BOOLEAN /\ x = Acct(x.settled, x.buys, x.sells, x.open, x.killed)
  BY AcctRecord
<1>2. CASE side = "Buy"
  <2>. DEFINE y == Acct(x.settled, x.buys + (p - q), x.sells, x.open, x.killed)
  <2>1. Reserved(x, side, p - q) = y
    BY <1>2, ReservedAcct
  <2>2. x.buys + (p - q) \in Nat
    BY <1>1, <1>2 DEF SideTotal
  <2>3. /\ y \in Account /\ y.open = x.open /\ y.settled = x.settled /\ y.buys = x.buys + (p - q)
        /\ y.sells = x.sells /\ y.killed = x.killed
    BY <1>1, <2>2 DEF Acct, Account
  <2>4. Reserved(y, side, q - p) = Acct(y.settled, y.buys + (q - p), y.sells, y.open, y.killed)
    BY <1>2, <2>3, ReservedAcct
  <2>5. y.buys + (q - p) = x.buys
    BY <1>1, <2>3
  <2>6. Reserved(y, side, q - p) = x
    BY <1>1, <2>3, <2>4, <2>5
  <2>7. x.sells = x.sells + 0
    BY <1>1
  <2>. QED BY <1>2, <2>1, <2>3, <2>6, <2>7
<1>3. CASE side = "Sell"
  <2>. DEFINE y == Acct(x.settled, x.buys, x.sells + (p - q), x.open, x.killed)
  <2>1. Reserved(x, side, p - q) = y
    BY <1>3, ReservedAcct
  <2>2. x.sells + (p - q) \in Nat
    BY <1>1, <1>3 DEF SideTotal
  <2>3. /\ y \in Account /\ y.open = x.open /\ y.settled = x.settled /\ y.sells = x.sells + (p - q)
        /\ y.buys = x.buys /\ y.killed = x.killed
    BY <1>1, <2>2 DEF Acct, Account
  <2>4. Reserved(y, side, q - p) = Acct(y.settled, y.buys, y.sells + (q - p), y.open, y.killed)
    BY <1>3, <2>3, ReservedAcct
  <2>5. y.sells + (q - p) = x.sells
    BY <1>1, <2>3
  <2>6. Reserved(y, side, q - p) = x
    BY <1>1, <2>3, <2>4, <2>5
  <2>7. x.buys = x.buys + 0
    BY <1>1
  <2>. QED BY <1>3, <2>1, <2>3, <2>6, <2>7
<1>. QED BY <1>2, <1>3 DEF Sides

\* The new quantity is one adjust_reservation accepts: a smaller one always is.
MayAdjust(r, id, p) ==
  LET res == r.reservations[id]
      x   == r.accounts[res.account]
      y   == Reserved(x, res.side, p - res.quantity)
  IN  p > res.quantity => WithinPosition(res.account, x.settled, y.buys, y.sells)

\* adjust_reservation keeps a valid state valid.
LEMMA SetReservationOK ==
  ASSUME NEW r, RiskOK(r), NEW id \in Live(r), NEW p \in Nat, p > 0, MayAdjust(r, id, p)
  PROVE  /\ RiskOK(SetReservation(r, id, p)) /\ Live(SetReservation(r, id, p)) = Live(r)
         /\ SameBut(r, SetReservation(r, id, p), id)
         /\ SetReservation(r, id, p).reservations[id]
              = Triple(r.reservations[id].account, r.reservations[id].side, p)
         /\ SetReservation(r, id, p).maximum_order_id = r.maximum_order_id
         /\ SettledSum(r) \in Int /\ SettledSum(SetReservation(r, id, p)) = SettledSum(r)
<1>. DEFINE res == r.reservations[id]
            a == res.account
            s == res.side
            x == r.accounts[a]
            q == res.quantity
            d == p - q
            y == Reserved(x, s, d)
            t == SetReservation(r, id, p)
<1>0. /\ a \in Accounts /\ s \in Sides /\ q \in Nat /\ q > 0 /\ x \in Account
      /\ SideTotal(x, s) >= q /\ x.open >= 1
  BY Covered
<1>1. RiskType(r) /\ AccountValid(r, a) /\ DOMAIN r
      = {"accounts", "reservations", "maximum_order_id", "killed"}
  BY <1>0 DEF RiskOK, RiskStateValid, RiskType
<1>2. /\ x.settled \in Int /\ x.buys \in Nat /\ x.sells \in Nat /\ x.open \in Nat
  BY <1>0, AcctRecord
<1>3. Fields(t, Changed(r, a, y), Smaller(r, id, p), r.maximum_order_id)
  BY <1>1, SetReservationFields
<1>4. /\ y \in Account /\ y.open = x.open /\ y.settled = x.settled
      /\ y.buys = x.buys + (IF s = "Buy" THEN d ELSE 0)
      /\ y.sells = x.sells + (IF s = "Sell" THEN d ELSE 0)
  <2>. HIDE DEF x, s, q
  <2>. QED BY <1>0, RegrownFields
<1>5. p > q => WithinPosition(a, x.settled, y.buys, y.sells)
  BY DEF MayAdjust
<1>6. WithinPosition(a, x.settled, x.buys, x.sells)
  BY <1>1 DEF AccountValid
<1>7. WithinPosition(a, y.settled, y.buys, y.sells)
  <2>0. Limits[a].max_abs_position \in Nat
    BY <1>0, LimitsTyped
  <2>1. CASE p > q
    BY <1>4, <1>5, <2>1
  <2>2. CASE ~(p > q)
    <3>1. d \in Int /\ d <= 0
      BY <1>0, <2>2
    <3>. HIDE DEF d, y, x, a, s
    <3>. QED BY <1>2, <1>4, <1>6, <2>0, <3>1 DEF WithinPosition
  <2>. QED BY <2>1, <2>2
<1>8. Regrown(r, id, p, y)
  BY <1>4, <1>7 DEF Regrown
<1>. HIDE DEF t, y
<1>9. /\ RiskOK(t) /\ Live(t) = Live(r) /\ SameBut(r, t, id)
      /\ t.reservations[id] = Triple(r.reservations[id].account, r.reservations[id].side, p)
      /\ t.maximum_order_id = r.maximum_order_id
      /\ SettledSum(r) \in Int
      /\ SettledSum(t) = SettledSum(r)
           + (y.settled - r.accounts[r.reservations[id].account].settled)
  BY <1>3, <1>4, <1>8, ResizedOK
<1>10. SettledSum(t) = SettledSum(r)
  BY <1>2, <1>4, <1>9
<1>. QED BY <1>9, <1>10 DEF t

\* restore_reservation undoes adjust_reservation.
LEMMA SetReservationBack ==
  ASSUME NEW r, RiskOK(r), NEW id \in Live(r), NEW p \in Nat
  PROVE  LET t == SetReservation(SetReservation(r, id, p), id, r.reservations[id].quantity)
         IN  Fields(t, r.accounts, r.reservations, r.maximum_order_id)
<1>. DEFINE res == r.reservations[id]
            a == res.account
            s == res.side
            x == r.accounts[a]
            q == res.quantity
            d == p - q
            y == Reserved(x, s, d)
            t == SetReservation(r, id, p)
            u == SetReservation(t, id, q)
<1>0. /\ a \in Accounts /\ s \in Sides /\ q \in Nat /\ q > 0 /\ x \in Account
      /\ SideTotal(x, s) >= q /\ res \in Reservation
  BY Covered
<1>1. /\ RiskType(r) /\ DOMAIN r = {"accounts", "reservations", "maximum_order_id", "killed"}
      /\ r.accounts \in [Accounts -> Account] /\ r.reservations \in [Live(r) -> Reservation]
  BY <1>0 DEF RiskOK, RiskType
<1>2. Fields(t, Changed(r, a, y), Smaller(r, id, p), r.maximum_order_id)
  BY <1>1, SetReservationFields
<1>3. y \in Account /\ Reserved(y, s, q - p) = x
  <2>. HIDE DEF x, s, q
  <2>. QED BY <1>0, RegrownFields
<1>. HIDE DEF t, y
<1>4. /\ t.reservations[id] = Triple(a, s, p)
      /\ t.accounts[a] = y /\ \A z \in Accounts \ {a} : t.accounts[z] = r.accounts[z]
      /\ t.maximum_order_id = r.maximum_order_id
      /\ DOMAIN t = {"accounts", "reservations", "maximum_order_id", "killed"}
      /\ t.accounts = Changed(r, a, y) /\ t.reservations = Smaller(r, id, p)
  BY <1>0, <1>1, <1>2, <1>3, ResizedTyped DEF Fields
<1>5. t.reservations[id].account = a /\ t.reservations[id].side = s /\ t.reservations[id].quantity
      = p
  BY <1>4 DEF Triple
<1>6. Fields(u, Changed(t, a, x), Smaller(t, id, q), t.maximum_order_id)
  <2>1. Fields(u, Changed(t, a, Reserved(y, s, q - p)), Smaller(t, id, q), t.maximum_order_id)
    BY <1>4, <1>5, SetReservationFields
  <2>. QED BY <1>3, <2>1
<1>7. Changed(t, a, x) = r.accounts
  <2>. HIDE DEF a
  <2>1. x = r.accounts[a]
    OBVIOUS
  <2>. HIDE DEF x
  <2>. QED BY <1>0, <1>1, <1>4, <2>1 DEF Changed
<1>8. Smaller(t, id, q) = r.reservations
  <2>1. Smaller(t, id, q) = [r.reservations EXCEPT ![id]
        = [[res EXCEPT !.quantity = p] EXCEPT !.quantity = q]]
    BY <1>1, <1>4 DEF Smaller
  <2>2. [[res EXCEPT !.quantity = p] EXCEPT !.quantity = q] = res
    <3>. HIDE DEF res
    <3>. QED BY <1>0 DEF Reservation
  <2>. QED BY <1>1, <2>1, <2>2
<1>. QED BY <1>4, <1>6, <1>7, <1>8 DEF u, t, Fields

\* What is valid does not depend on the kill switch.
LEMMA SameFields ==
  ASSUME NEW r, RiskOK(r), NEW t, Fields(t, r.accounts, r.reservations, r.maximum_order_id)
  PROVE  /\ RiskOK(t) /\ Live(t) = Live(r) /\ SettledSum(t) = SettledSum(r)
<1>1. /\ t.accounts = r.accounts /\ t.reservations = r.reservations
      /\ t.maximum_order_id = r.maximum_order_id
      /\ DOMAIN t = {"accounts", "reservations", "maximum_order_id", "killed"}
  BY DEF Fields
<1>2. Live(t) = Live(r)
  BY <1>1 DEF Live
<1>3. RiskType(t)
  BY <1>1, <1>2 DEF RiskOK, RiskType
<1>4. SettledSum(t) = SettledSum(r)
  BY <1>1 DEF SettledSum
<1>5. Quantities(t) = Quantities(r)
  BY <1>1, <1>2 DEF Quantities
<1>6. ASSUME NEW a \in Accounts
      PROVE  AccountValid(t, a)
  <2>1. AccountValid(r, a)
    BY DEF RiskOK, RiskStateValid
  <2>. QED BY <1>1, <1>2, <1>5, <2>1 DEF AccountValid, ReservedBy, OpenOf
<1>. QED BY <1>1, <1>2, <1>3, <1>4, <1>6 DEF RiskOK, RiskStateValid

-----------------------------------------------------------------------------
(* What it means that every check of a list passes.                        *)

\* FirstReject passes only when no check fails.
LEMMA PassMeansNone ==
  ASSUME NEW checks, Len(checks) \in Nat, FirstReject(checks) = Pass,
         \A k \in 1 .. Len(checks) : checks[k][1] => checks[k][2] # Pass
  PROVE  \A k \in 1 .. Len(checks) : ~checks[k][1]
<1>. DEFINE I == {k \in 1 .. Len(checks) : checks[k][1]}
<1>1. CASE I = {}
  BY <1>1
<1>2. CASE I # {}
  <2>1. SelectInSeq(checks, LAMBDA check : check[1]) = Min(I)
    BY <1>2 DEF SelectInSeq
  <2>2. I \in SUBSET Nat
    OBVIOUS
  <2>3. \E m \in I : \A k \in I : m <= k
    <3>. HIDE DEF I
    <3>. QED BY <1>2, <2>2, HasMinimum
  <2>4. Min(I) \in I
    <3>. HIDE DEF I
    <3>. QED BY <2>3 DEF Min
  <2>5. Min(I) # 0
    BY <2>4
  <2>6. checks[Min(I)][2] = Pass
    <3>. HIDE DEF I
    <3>. QED BY <2>1, <2>5 DEF FirstReject
  <2>7. checks[Min(I)][1]
    BY <2>4
  <2>. QED BY <2>4, <2>6, <2>7
<1>. QED BY <1>1, <1>2

\* The checks of check_and_reserve, of the limits, and of the others, in turn
LEMMA ReservePasses ==
  ASSUME NEW r, NEW o, FirstReject(ReserveRejects(r, o)) = Pass
  PROVE  /\ ~(r.killed)
         /\ ~(o.quantity = 0)
         /\ ~(o.id <= r.maximum_order_id)
         /\ ~(Cardinality(Live(r)) >= RiskOrders)
         /\ ~(o.account \notin Accounts)
<1>. DEFINE c == ReserveRejects(r, o)
<1>1. Len(c) = 5 /\ Len(c) \in Nat
  BY DEF ReserveRejects
<1>2. /\ c[1][1] <=> (r.killed)
      /\ c[2][1] <=> (o.quantity = 0)
      /\ c[3][1] <=> (o.id <= r.maximum_order_id)
      /\ c[4][1] <=> (Cardinality(Live(r)) >= RiskOrders)
      /\ c[5][1] <=> (o.account \notin Accounts)
  BY DEF ReserveRejects
<1>3. \A k \in 1 .. 5 : c[k][1] => c[k][2] # Pass
  BY DEF Pass, ReserveRejects
<1>4. FirstReject(c) = Pass
  OBVIOUS
<1>. HIDE DEF c
<1>5. \A k \in 1 .. 5 : ~c[k][1]
  BY <1>1, <1>3, <1>4, PassMeansNone
<1>6. ~c[1][1] /\ ~c[2][1] /\ ~c[3][1] /\ ~c[4][1] /\ ~c[5][1]
  BY <1>5
<1>. QED BY <1>2, <1>6

LEMMA LimitsPass ==
  ASSUME NEW x, NEW o, FirstReject(LimitRejects(x, o)) = Pass
  PROVE  /\ ~(x.killed)
         /\ ~(o.quantity > Limits[o.account].max_quantity)
         /\ ~(o.price < Limits[o.account].minimum_price \/ o.price > Limits[o.account].maximum_price)
         /\ ~(Abs(o.price) * o.quantity > Limits[o.account].max_notional)
         /\ ~(~WithinPosition(o.account, x.settled, Reserved(x, o.side, o.quantity).buys,
              Reserved(x, o.side, o.quantity).sells))
         /\ ~(x.open + 1 > Limits[o.account].max_open_orders)
<1>. DEFINE c == LimitRejects(x, o)
<1>1. Len(c) = 6 /\ Len(c) \in Nat
  BY DEF LimitRejects
<1>2. /\ c[1][1] <=> (x.killed)
      /\ c[2][1] <=> (o.quantity > Limits[o.account].max_quantity)
      /\ c[3][1]
           <=> (o.price < Limits[o.account].minimum_price \/ o.price > Limits[o.account].maximum_price)
      /\ c[4][1] <=> (Abs(o.price) * o.quantity > Limits[o.account].max_notional)
      /\ c[5][1] <=> (~WithinPosition(o.account, x.settled, Reserved(x, o.side, o.quantity).buys,
           Reserved(x, o.side, o.quantity).sells))
      /\ c[6][1] <=> (x.open + 1 > Limits[o.account].max_open_orders)
  BY DEF LimitRejects
<1>3. \A k \in 1 .. 6 : c[k][1] => c[k][2] # Pass
  BY DEF Pass, LimitRejects
<1>4. FirstReject(c) = Pass
  OBVIOUS
<1>. HIDE DEF c
<1>5. \A k \in 1 .. 6 : ~c[k][1]
  BY <1>1, <1>3, <1>4, PassMeansNone
<1>6. ~c[1][1] /\ ~c[2][1] /\ ~c[3][1] /\ ~c[4][1] /\ ~c[5][1] /\ ~c[6][1]
  BY <1>5
<1>. QED BY <1>2, <1>6

LEMMA OwnedPasses ==
  ASSUME NEW r, NEW id, NEW account, FirstReject(OwnedRejects(r, id, account)) = Pass
  PROVE  /\ ~(id \notin Live(r))
         /\ ~(id \in Live(r) /\ r.reservations[id].account # account)
<1>. DEFINE c == OwnedRejects(r, id, account)
<1>1. Len(c) = 2 /\ Len(c) \in Nat
  BY DEF OwnedRejects
<1>2. /\ c[1][1] <=> (id \notin Live(r))
      /\ c[2][1] <=> (id \in Live(r) /\ r.reservations[id].account # account)
  BY DEF OwnedRejects
<1>3. \A k \in 1 .. 2 : c[k][1] => c[k][2] # Pass
  BY DEF Pass, OwnedRejects
<1>4. FirstReject(c) = Pass
  OBVIOUS
<1>. HIDE DEF c
<1>5. \A k \in 1 .. 2 : ~c[k][1]
  BY <1>1, <1>3, <1>4, PassMeansNone
<1>6. ~c[1][1] /\ ~c[2][1]
  BY <1>5
<1>. QED BY <1>2, <1>6

LEMMA AdjustPasses ==
  ASSUME NEW r, NEW id, NEW price, NEW quantity,
         FirstReject(AdjustRejects(r, id, price, quantity)) = Pass
  PROVE  /\ ~(quantity > r.reservations[id].quantity
              /\ Abs(price) * quantity > Limits[r.reservations[id].account].max_notional)
         /\ ~(quantity > r.reservations[id].quantity
              /\ ~WithinPosition(r.reservations[id].account,
              r.accounts[r.reservations[id].account].settled,
              Reserved(r.accounts[r.reservations[id].account], r.reservations[id].side,
              quantity - r.reservations[id].quantity).buys,
              Reserved(r.accounts[r.reservations[id].account], r.reservations[id].side,
              quantity - r.reservations[id].quantity).sells))
<1>. DEFINE c == AdjustRejects(r, id, price, quantity)
<1>1. Len(c) = 2 /\ Len(c) \in Nat
  BY DEF AdjustRejects
<1>2. /\ c[1][1] <=> (quantity > r.reservations[id].quantity
           /\ Abs(price) * quantity > Limits[r.reservations[id].account].max_notional)
      /\ c[2][1] <=> (quantity > r.reservations[id].quantity
           /\ ~WithinPosition(r.reservations[id].account,
           r.accounts[r.reservations[id].account].settled,
           Reserved(r.accounts[r.reservations[id].account], r.reservations[id].side,
           quantity - r.reservations[id].quantity).buys,
           Reserved(r.accounts[r.reservations[id].account], r.reservations[id].side,
           quantity - r.reservations[id].quantity).sells))
  BY DEF AdjustRejects
<1>3. \A k \in 1 .. 2 : c[k][1] => c[k][2] # Pass
  <2>1. c[1][2] = "NotionalLimit" /\ c[2][2] = "PositionLimit"
    BY DEF AdjustRejects
  <2>. HIDE DEF c
  <2>2. (c[1][1] => c[1][2] # Pass) /\ (c[2][1] => c[2][2] # Pass)
    BY <1>2, <2>1 DEF Pass
  <2>. QED BY <2>2
<1>4. FirstReject(c) = Pass
  OBVIOUS
<1>. HIDE DEF c
<1>5. \A k \in 1 .. 2 : ~c[k][1]
  BY <1>1, <1>3, <1>4, PassMeansNone
<1>6. ~c[1][1] /\ ~c[2][1]
  BY <1>5
<1>. QED BY <1>2, <1>6

LEMMA OrderPasses ==
  ASSUME NEW b, NEW o, OrderReject(b, o) = Pass
  PROVE  /\ ~(o.instrument # Instrument)
         /\ ~(o.price <= 0)
         /\ ~(o.quantity = 0)
         /\ ~(Located(b, o.id) # {})
         /\ ~(o.tif = "PostOnly" /\ BestCrosses(b, o.side, o.price))
<1>. DEFINE c == << <<o.instrument # Instrument, "InvalidInstrument">>,
                    <<o.price <= 0, "InvalidPrice">>, <<o.quantity = 0, "InvalidQuantity">>,
                    <<Located(b, o.id) # {}, "DuplicateOrderId">>,
                    <<o.tif = "PostOnly" /\ BestCrosses(b, o.side, o.price),
                    "PostOnlyWouldTrade">> >>
<1>1. Len(c) = 5 /\ Len(c) \in Nat
  OBVIOUS
<1>2. /\ c[1][1] <=> (o.instrument # Instrument)
      /\ c[2][1] <=> (o.price <= 0)
      /\ c[3][1] <=> (o.quantity = 0)
      /\ c[4][1] <=> (Located(b, o.id) # {})
      /\ c[5][1] <=> (o.tif = "PostOnly" /\ BestCrosses(b, o.side, o.price))
  OBVIOUS
<1>3. \A k \in 1 .. 5 : c[k][1] => c[k][2] # Pass
  BY DEF Pass
<1>4. FirstReject(c) = Pass
  BY DEF OrderReject
<1>. HIDE DEF c
<1>5. \A k \in 1 .. 5 : ~c[k][1]
  BY <1>1, <1>3, <1>4, PassMeansNone
<1>6. ~c[1][1] /\ ~c[2][1] /\ ~c[3][1] /\ ~c[4][1] /\ ~c[5][1]
  BY <1>5
<1>. QED BY <1>2, <1>6

LEMMA RestPasses ==
  ASSUME NEW b, NEW side, NEW price, RestReject(b, side, price) = Pass
  PROVE  /\ ~(price \in LevelPrices(b, side) /\ Len(b[side][price]) = OrdersPerLevel)
         /\ ~(price \notin LevelPrices(b, side) /\ Cardinality(LevelPrices(b, side)) = Levels)
<1>. DEFINE c == << <<price \in LevelPrices(b, side) /\ Len(b[side][price]) = OrdersPerLevel,
                    "PriceLevelOrderCapacity">>,
                    <<price \notin LevelPrices(b, side) /\ Cardinality(LevelPrices(b, side))
                    = Levels, "PriceLevelCapacity">> >>
<1>1. Len(c) = 2 /\ Len(c) \in Nat
  OBVIOUS
<1>2. /\ c[1][1] <=> (price \in LevelPrices(b, side) /\ Len(b[side][price]) = OrdersPerLevel)
      /\ c[2][1] <=> (price \notin LevelPrices(b, side) /\ Cardinality(LevelPrices(b, side))
           = Levels)
  OBVIOUS
<1>3. \A k \in 1 .. 2 : c[k][1] => c[k][2] # Pass
  BY DEF Pass
<1>4. FirstReject(c) = Pass
  BY DEF RestReject
<1>. HIDE DEF c
<1>5. \A k \in 1 .. 2 : ~c[k][1]
  BY <1>1, <1>3, <1>4, PassMeansNone
<1>6. ~c[1][1] /\ ~c[2][1]
  BY <1>5
<1>. QED BY <1>2, <1>6

LEMMA SubmitPasses ==
  ASSUME NEW b, NEW o, SubmitReject(b, o) = Pass
  PROVE  /\ ~(~ReportsFit(Fills(b, o)))
         /\ ~(o.tif = "Fok" /\ Remaining(b, o) > 0)
         /\ ~(o.tif \in {"Gtc", "PostOnly"} /\ Remaining(b, o) > 0
              /\ RestReject(b, o.side, o.price) # Pass)
<1>. DEFINE c == << <<~ReportsFit(Fills(b, o)), "ReportCapacity">>,
                    <<o.tif = "Fok" /\ Remaining(b, o) > 0, "InsufficientLiquidity">>,
                    <<o.tif \in {"Gtc", "PostOnly"} /\ Remaining(b, o) > 0
                    /\ RestReject(b, o.side, o.price) # Pass, RestReject(b, o.side, o.price)>> >>
<1>1. Len(c) = 3 /\ Len(c) \in Nat
  OBVIOUS
<1>2. /\ c[1][1] <=> (~ReportsFit(Fills(b, o)))
      /\ c[2][1] <=> (o.tif = "Fok" /\ Remaining(b, o) > 0)
      /\ c[3][1] <=> (o.tif \in {"Gtc", "PostOnly"} /\ Remaining(b, o) > 0
           /\ RestReject(b, o.side, o.price) # Pass)
  OBVIOUS
<1>3. \A k \in 1 .. 3 : c[k][1] => c[k][2] # Pass
  <2>1. c[1][2] = "ReportCapacity" /\ c[2][2] = "InsufficientLiquidity" /\ c[3][2]
        = RestReject(b, o.side, o.price)
    OBVIOUS
  <2>. HIDE DEF c
  <2>2. (c[1][1] => c[1][2] # Pass) /\ (c[2][1] => c[2][2] # Pass) /\ (c[3][1] => c[3][2] # Pass)
    BY <1>2, <2>1 DEF Pass
  <2>. QED BY <2>2
<1>4. FirstReject(c) = Pass
  BY DEF SubmitReject
<1>. HIDE DEF c
<1>5. \A k \in 1 .. 3 : ~c[k][1]
  BY <1>1, <1>3, <1>4, PassMeansNone
<1>6. ~c[1][1] /\ ~c[2][1] /\ ~c[3][1]
  BY <1>5
<1>. QED BY <1>2, <1>6

LEMMA OwnerPasses ==
  ASSUME NEW b, NEW id, NEW account, NEW instrument, OwnerReject(b, id, account, instrument) = Pass
  PROVE  /\ ~(instrument # Instrument)
         /\ ~(Located(b, id) = {})
         /\ ~(\E at \in Located(b, id) : OrderAt(b, at).account # account)
<1>. DEFINE c == << <<instrument # Instrument, "InvalidInstrument">>,
                    <<Located(b, id) = {}, "UnknownOrder">>,
                    <<\E at \in Located(b, id) : OrderAt(b, at).account # account,
                    "NotOrderOwner">> >>
<1>1. Len(c) = 3 /\ Len(c) \in Nat
  OBVIOUS
<1>2. /\ c[1][1] <=> (instrument # Instrument)
      /\ c[2][1] <=> (Located(b, id) = {})
      /\ c[3][1] <=> (\E at \in Located(b, id) : OrderAt(b, at).account # account)
  OBVIOUS
<1>3. \A k \in 1 .. 3 : c[k][1] => c[k][2] # Pass
  BY DEF Pass
<1>4. FirstReject(c) = Pass
  BY DEF OwnerReject
<1>. HIDE DEF c
<1>5. \A k \in 1 .. 3 : ~c[k][1]
  BY <1>1, <1>3, <1>4, PassMeansNone
<1>6. ~c[1][1] /\ ~c[2][1] /\ ~c[3][1]
  BY <1>5
<1>. QED BY <1>2, <1>6

LEMMA MovePasses ==
  ASSUME NEW b, NEW r, MoveReject(b, r) = Pass
  PROVE  /\ ~(r.price # Locate(b, r.id)[2] /\ BestCrosses(b, Locate(b, r.id)[1], r.price))
         /\ ~(r.price \in LevelPrices(b, Locate(b, r.id)[1]) /\ r.price # Locate(b, r.id)[2]
              /\ Len(b[Locate(b, r.id)[1]][r.price]) = OrdersPerLevel)
         /\ ~(r.price \notin LevelPrices(b, Locate(b, r.id)[1])
              /\ Len(b[Locate(b, r.id)[1]][Locate(b, r.id)[2]]) # 1
              /\ Cardinality(LevelPrices(b, Locate(b, r.id)[1])) = Levels)
<1>. DEFINE c == << <<r.price # Locate(b, r.id)[2] /\ BestCrosses(b, Locate(b, r.id)[1], r.price),
                    "ReplaceWouldCross">>,
                    <<r.price \in LevelPrices(b, Locate(b, r.id)[1])
                    /\ r.price # Locate(b, r.id)[2] /\ Len(b[Locate(b, r.id)[1]][r.price])
                    = OrdersPerLevel, "PriceLevelOrderCapacity">>,
                    <<r.price \notin LevelPrices(b, Locate(b, r.id)[1])
                    /\ Len(b[Locate(b, r.id)[1]][Locate(b, r.id)[2]]) # 1
                    /\ Cardinality(LevelPrices(b, Locate(b, r.id)[1])) = Levels,
                    "PriceLevelCapacity">> >>
<1>1. Len(c) = 3 /\ Len(c) \in Nat
  OBVIOUS
<1>2. /\ c[1][1] <=> (r.price # Locate(b, r.id)[2] /\ BestCrosses(b, Locate(b, r.id)[1], r.price))
      /\ c[2][1] <=> (r.price \in LevelPrices(b, Locate(b, r.id)[1])
           /\ r.price # Locate(b, r.id)[2] /\ Len(b[Locate(b, r.id)[1]][r.price]) = OrdersPerLevel)
      /\ c[3][1] <=> (r.price \notin LevelPrices(b, Locate(b, r.id)[1])
           /\ Len(b[Locate(b, r.id)[1]][Locate(b, r.id)[2]]) # 1
           /\ Cardinality(LevelPrices(b, Locate(b, r.id)[1])) = Levels)
  OBVIOUS
<1>3. \A k \in 1 .. 3 : c[k][1] => c[k][2] # Pass
  BY DEF Pass
<1>4. FirstReject(c) = Pass
  BY DEF MoveReject
<1>. HIDE DEF c
<1>5. \A k \in 1 .. 3 : ~c[k][1]
  BY <1>1, <1>3, <1>4, PassMeansNone
<1>6. ~c[1][1] /\ ~c[2][1] /\ ~c[3][1]
  BY <1>5
<1>. QED BY <1>2, <1>6

-----------------------------------------------------------------------------
(* Books.  What validate_state asks of a book, by side, price and place.   *)

Order == [id : Nat, account : Accounts, quantity : Nat, sequence : Nat]
BookType(b) == b \in [Sides -> [Prices -> Seq(Order)]]

\* A level: within its capacity, no empty order, in the order of arrival
LevelOK(level) ==
  /\ Len(level) <= OrdersPerLevel
  /\ \A i \in 1 .. Len(level) : level[i].quantity > 0 /\ level[i].sequence > 0
  /\ \A i, j \in 1 .. Len(level) : i < j => level[i].sequence < level[j].sequence

\* No two places hold orders with the same id or sequence.
Apart(b) ==
  \A s, t \in Sides, p, q \in Prices :
    \A i \in 1 .. Len(b[s][p]), j \in 1 .. Len(b[t][q]) :
      (b[s][p][i].id = b[t][q][j].id \/ b[s][p][i].sequence = b[t][q][j].sequence)
        => s = t /\ p = q /\ i = j

\* A valid book, by side, price and place
BookOK(b) ==
  /\ BookType(b)
  /\ \A s \in Sides, p \in Prices : LevelOK(b[s][p])
  /\ \A s \in Sides : Cardinality(LevelPrices(b, s)) <= Levels
  /\ Uncrossed(b)
  /\ Apart(b)

LEMMA LevelTyped ==
  ASSUME NEW b, BookType(b), NEW s \in Sides, NEW p \in Prices
  PROVE  /\ b[s][p] \in Seq(Order) /\ Len(b[s][p]) \in Nat /\ DOMAIN b[s][p] = 1 .. Len(b[s][p])
         /\ \A i \in 1 .. Len(b[s][p]) : b[s][p][i] \in Order
         /\ b[s][p] = <<>> <=> Len(b[s][p]) = 0
<1>1. b[s][p] \in Seq(Order)
  BY DEF BookType
<1>. QED BY <1>1

LEMMA OrderFields ==
  ASSUME NEW o \in Order
  PROVE  o.id \in Nat /\ o.account \in Accounts /\ o.quantity \in Nat /\ o.sequence \in Nat
BY DEF Order

LEMMA ApartAt ==
  ASSUME NEW b, Apart(b), NEW s \in Sides, NEW t \in Sides, NEW p \in Prices, NEW q \in Prices,
         NEW i \in 1 .. Len(b[s][p]), NEW j \in 1 .. Len(b[t][q]),
         b[s][p][i].id = b[t][q][j].id \/ b[s][p][i].sequence = b[t][q][j].sequence
  PROVE  s = t /\ p = q /\ i = j
<1>1. CASE b[s][p][i].id = b[t][q][j].id
  BY <1>1 DEF Apart
<1>2. CASE b[s][p][i].sequence = b[t][q][j].sequence
  BY <1>2 DEF Apart
<1>. QED BY <1>1, <1>2

\* The resting orders are the places of the levels.
LEMMA Places ==
  ASSUME NEW b, BookType(b), \A s \in Sides, p \in Prices : LevelOK(b[s][p])
  PROVE  /\ \A s \in Sides, p \in Prices : \A i \in 1 .. Len(b[s][p]) :
              <<s, p, i>> \in RestingOrders(b) /\ OrderAt(b, <<s, p, i>>) = b[s][p][i]
         /\ \A at \in RestingOrders(b) :
              /\ at[1] \in Sides /\ at[2] \in Prices /\ at[3] \in 1 .. Len(b[at[1]][at[2]])
              /\ at = <<at[1], at[2], at[3]>> /\ OrderAt(b, at) = b[at[1]][at[2]][at[3]]
              /\ OrderAt(b, at) \in Order
<1>1. ASSUME NEW s \in Sides, NEW p \in Prices, NEW i \in 1 .. Len(b[s][p])
      PROVE  <<s, p, i>> \in RestingOrders(b) /\ OrderAt(b, <<s, p, i>>) = b[s][p][i]
  <2>1. Len(b[s][p]) \in Nat /\ DOMAIN b[s][p] = 1 .. Len(b[s][p]) /\ Len(b[s][p]) <= OrdersPerLevel
    BY LevelTyped DEF LevelOK
  <2>2. i \in 1 .. OrdersPerLevel /\ i \in DOMAIN b[s][p]
    BY <2>1, BookAssumption
  <2>3. <<s, p, i>> \in Sides \X Prices \X (1 .. OrdersPerLevel)
    BY <2>2
  <2>. QED BY <2>2, <2>3 DEF RestingOrders, OrderAt
<1>2. ASSUME NEW at \in RestingOrders(b)
      PROVE  /\ at[1] \in Sides /\ at[2] \in Prices /\ at[3] \in 1 .. Len(b[at[1]][at[2]])
             /\ at = <<at[1], at[2], at[3]>> /\ OrderAt(b, at) = b[at[1]][at[2]][at[3]]
             /\ OrderAt(b, at) \in Order
  <2>1. at \in Sides \X Prices \X (1 .. OrdersPerLevel) /\ at[3] \in DOMAIN b[at[1]][at[2]]
    BY DEF RestingOrders
  <2>2. at[1] \in Sides /\ at[2] \in Prices /\ at = <<at[1], at[2], at[3]>>
    BY <2>1
  <2>3. /\ DOMAIN b[at[1]][at[2]] = 1 .. Len(b[at[1]][at[2]])
        /\ \A i \in 1 .. Len(b[at[1]][at[2]]) : b[at[1]][at[2]][i] \in Order
    BY <2>2, LevelTyped
  <2>. QED BY <2>1, <2>2, <2>3 DEF OrderAt
<1>. QED BY <1>1, <1>2

\* It is what validate_state accepts.
LEMMA BookFlat ==
  ASSUME NEW b, BookType(b)
  PROVE  BookOK(b) <=> BookStateValid(b)
<1>0. \A s \in Sides, p \in Prices :
        /\ Len(b[s][p]) \in Nat /\ DOMAIN b[s][p] = 1 .. Len(b[s][p])
        /\ b[s][p] = <<>> <=> Len(b[s][p]) = 0
  BY LevelTyped
<1>1. ASSUME NEW s \in Sides
      PROVE  SideValid(b, s) <=> /\ \A p \in Prices : LevelOK(b[s][p])
                                 /\ Cardinality(LevelPrices(b, s)) <= Levels
  <2>1. ASSUME NEW p \in Prices, p \notin LevelPrices(b, s)
        PROVE  LevelOK(b[s][p])
    <3>1. Len(b[s][p]) = 0
      BY <1>0, <2>1 DEF LevelPrices
    <3>2. Len(b[s][p]) <= OrdersPerLevel /\ 1 .. Len(b[s][p]) = {}
      BY <3>1, BookAssumption
    <3>. QED BY <3>2 DEF LevelOK
  <2>2. ASSUME NEW p \in LevelPrices(b, s)
        PROVE  LevelOK(b[s][p]) <=>
                 /\ Len(b[s][p]) <= OrdersPerLevel
                 /\ \A i \in DOMAIN b[s][p] :
                      b[s][p][i].quantity > 0 /\ b[s][p][i].sequence > 0
                 /\ \A i, j \in DOMAIN b[s][p] :
                      i < j => b[s][p][i].sequence < b[s][p][j].sequence
    <3>1. DOMAIN b[s][p] = 1 .. Len(b[s][p])
      BY <1>0 DEF LevelPrices
    <3>. QED BY <3>1 DEF LevelOK
  <2>3. \A p \in LevelPrices(b, s) : p \in Prices
    BY DEF LevelPrices
  <2>. QED BY <2>1, <2>2, <2>3, Zenon DEF SideValid
<1>2. ASSUME \A s \in Sides, p \in Prices : LevelOK(b[s][p])
      PROVE  Apart(b) <=> UniqueIds(b)
  <2>1. /\ \A s \in Sides, p \in Prices : \A i \in 1 .. Len(b[s][p]) :
              <<s, p, i>> \in RestingOrders(b) /\ OrderAt(b, <<s, p, i>>) = b[s][p][i]
        /\ \A at \in RestingOrders(b) :
              /\ at[1] \in Sides /\ at[2] \in Prices /\ at[3] \in 1 .. Len(b[at[1]][at[2]])
              /\ at = <<at[1], at[2], at[3]>> /\ OrderAt(b, at) = b[at[1]][at[2]][at[3]]
    BY <1>2, Places
  <2>2. ASSUME Apart(b), NEW x \in RestingOrders(b), NEW y \in RestingOrders(b), x # y
        PROVE  OrderAt(b, x).id # OrderAt(b, y).id
          /\ OrderAt(b, x).sequence # OrderAt(b, y).sequence
    <3>1. PICK s \in Sides, p \in Prices, i \in Nat : i \in 1 .. Len(b[s][p]) /\
            x = <<s, p, i>> /\ OrderAt(b, x) = b[s][p][i]
      <4>1. /\ x[1] \in Sides /\ x[2] \in Prices /\ x[3] \in 1 .. Len(b[x[1]][x[2]])
            /\ x = <<x[1], x[2], x[3]>> /\ OrderAt(b, x) = b[x[1]][x[2]][x[3]]
        BY <2>1, Zenon
      <4>. DEFINE v1 == x[1] v2 == x[2] v3 == x[3]
      <4>2. v1 \in Sides /\ v2 \in Prices /\ v3 \in Nat /\ v3 \in 1 .. Len(b[v1][v2]) /\ x
            = <<v1, v2, v3>> /\ OrderAt(b, x) = b[v1][v2][v3]
        BY <1>0, <4>1
      <4>. HIDE DEF v1, v2, v3
      <4>. QED BY <4>2, Zenon
    <3>2. PICK t \in Sides, q \in Prices, j \in Nat : j \in 1 .. Len(b[t][q]) /\
            y = <<t, q, j>> /\ OrderAt(b, y) = b[t][q][j]
      <4>1. /\ y[1] \in Sides /\ y[2] \in Prices /\ y[3] \in 1 .. Len(b[y[1]][y[2]])
            /\ y = <<y[1], y[2], y[3]>> /\ OrderAt(b, y) = b[y[1]][y[2]][y[3]]
        BY <2>1, Zenon
      <4>. DEFINE v1 == y[1] v2 == y[2] v3 == y[3]
      <4>2. v1 \in Sides /\ v2 \in Prices /\ v3 \in Nat /\ v3 \in 1 .. Len(b[v1][v2]) /\ y
            = <<v1, v2, v3>> /\ OrderAt(b, y) = b[v1][v2][v3]
        BY <1>0, <4>1
      <4>. HIDE DEF v1, v2, v3
      <4>. QED BY <4>2, Zenon
    <3>3. ~(s = t /\ p = q /\ i = j)
      BY <2>2, <3>1, <3>2, Zenon
    <3>4. b[s][p][i].id # b[t][q][j].id /\ b[s][p][i].sequence # b[t][q][j].sequence
      BY <2>2, <3>1, <3>2, <3>3 DEF Apart
    <3>. QED BY <3>1, <3>2, <3>4
  <2>3. ASSUME UniqueIds(b), NEW s \in Sides, NEW t \in Sides, NEW p \in Prices, NEW q \in Prices,
               NEW i \in 1 .. Len(b[s][p]), NEW j \in 1 .. Len(b[t][q]),
               b[s][p][i].id = b[t][q][j].id \/ b[s][p][i].sequence = b[t][q][j].sequence
        PROVE  s = t /\ p = q /\ i = j
    <3>1. /\ <<s, p, i>> \in RestingOrders(b) /\ OrderAt(b, <<s, p, i>>) = b[s][p][i]
          /\ <<t, q, j>> \in RestingOrders(b) /\ OrderAt(b, <<t, q, j>>) = b[t][q][j]
      BY <2>1
    <3>2. <<s, p, i>> = <<t, q, j>>
      BY <2>3, <3>1 DEF UniqueIds
    <3>. QED BY <3>2
  <2>. QED BY <2>2, <2>3 DEF Apart, UniqueIds
<1>. QED BY <1>1, <1>2, Zenon DEF BookOK, BookStateValid, Sides

-----------------------------------------------------------------------------
(* Places of a book, and books whose orders all come from another.         *)

\* A resting order with its place
LEMMA PlaceOf ==
  ASSUME NEW b, BookOK(b), NEW at \in RestingOrders(b)
  PROVE  \E s \in Sides, p \in Prices, i \in Nat :
           /\ i \in 1 .. Len(b[s][p]) /\ at = <<s, p, i>> /\ OrderAt(b, at) = b[s][p][i]
           /\ at[1] = s /\ at[2] = p /\ at[3] = i /\ b[s][p][i] \in Order
<1>1. /\ at[1] \in Sides /\ at[2] \in Prices /\ at[3] \in 1 .. Len(b[at[1]][at[2]])
      /\ at = <<at[1], at[2], at[3]>> /\ OrderAt(b, at) = b[at[1]][at[2]][at[3]]
      /\ OrderAt(b, at) \in Order
  BY Places DEF BookOK
<1>2. Len(b[at[1]][at[2]]) \in Nat
  BY <1>1, LevelTyped DEF BookOK
<1>3. at[3] \in Nat
  BY <1>1, <1>2
<1>. DEFINE v1 == at[1] v2 == at[2] v3 == at[3]
<1>4. /\ v1 \in Sides /\ v2 \in Prices /\ v3 \in 1 .. Len(b[v1][v2]) /\ v3 \in Nat
      /\ at = <<v1, v2, v3>> /\ OrderAt(b, at) = b[v1][v2][v3]
      /\ at[1] = v1 /\ at[2] = v2 /\ at[3] = v3 /\ b[v1][v2][v3] \in Order
  BY <1>1, <1>3
<1>. HIDE DEF v1, v2, v3
<1>. QED BY <1>4, Zenon

LEMMA AtPlace ==
  ASSUME NEW b, BookOK(b), NEW s \in Sides, NEW p \in Prices, NEW i \in 1 .. Len(b[s][p])
  PROVE  /\ <<s, p, i>> \in RestingOrders(b) /\ OrderAt(b, <<s, p, i>>) = b[s][p][i]
         /\ b[s][p][i] \in Order
BY Places, LevelTyped DEF BookOK

\* The same order, of which something may have traded
Same(x, y) ==
  /\ x.id = y.id /\ x.account = y.account /\ x.sequence = y.sequence
  /\ x.quantity > 0 /\ x.quantity <= y.quantity

\* The orders of c are orders of b, those of a level in their order: the one at s, p, i
\* was at s, p, src[s][p][i].
Taken(b, c, src) ==
  \A s \in Sides, p \in Prices :
    /\ Len(c[s][p]) <= Len(b[s][p])
    /\ \A i \in 1 .. Len(c[s][p]) :
         src[s][p][i] \in 1 .. Len(b[s][p]) /\ Same(c[s][p][i], b[s][p][src[s][p][i]])
    /\ \A i, j \in 1 .. Len(c[s][p]) : i < j => src[s][p][i] < src[s][p][j]

\* A book whose orders come from a valid one is valid.
LEMMA TakenOK ==
  ASSUME NEW b, BookOK(b), NEW c, BookType(c), NEW src, Taken(b, c, src)
  PROVE  BookOK(c)
<1>0. BookType(b) /\ (\A s \in Sides, p \in Prices : LevelOK(b[s][p])) /\ Apart(b)
  BY DEF BookOK
<1>1. ASSUME NEW s \in Sides, NEW p \in Prices
      PROVE  /\ Len(c[s][p]) \in Nat /\ Len(b[s][p]) \in Nat /\ Len(c[s][p]) <= Len(b[s][p])
             /\ \A i \in 1 .. Len(c[s][p]) :
                  /\ src[s][p][i] \in 1 .. Len(b[s][p]) /\ src[s][p][i] \in Nat
                  /\ Same(c[s][p][i], b[s][p][src[s][p][i]])
             /\ \A i, j \in 1 .. Len(c[s][p]) : i < j => src[s][p][i] < src[s][p][j]
  BY <1>0, LevelTyped DEF Taken
<1>2. ASSUME NEW s \in Sides, NEW p \in Prices
      PROVE  LevelOK(c[s][p])
  <2>. DEFINE lb == b[s][p]
              lc == c[s][p]
              f == src[s][p]
  <2>1. /\ Len(lc) \in Nat /\ Len(lb) \in Nat /\ Len(lc) <= Len(lb)
        /\ \A i \in 1 .. Len(lc) :
             f[i] \in 1 .. Len(lb) /\ f[i] \in Nat /\ Same(lc[i], lb[f[i]])
        /\ \A i, j \in 1 .. Len(lc) : i < j => f[i] < f[j]
    BY <1>1
  <2>2. /\ Len(lb) <= OrdersPerLevel
        /\ \A i \in 1 .. Len(lb) : lb[i].quantity > 0 /\ lb[i].sequence > 0
        /\ \A i, j \in 1 .. Len(lb) : i < j => lb[i].sequence < lb[j].sequence
    BY <1>0 DEF LevelOK
  <2>. HIDE DEF lb, lc, f
  <2>3. Len(lc) <= OrdersPerLevel
    BY <2>1, <2>2, BookAssumption
  <2>4. ASSUME NEW i \in 1 .. Len(lc)
        PROVE  lc[i].quantity > 0 /\ lc[i].sequence > 0
    BY <2>1, <2>2 DEF Same
  <2>5. ASSUME NEW i \in 1 .. Len(lc), NEW j \in 1 .. Len(lc), i < j
        PROVE  lc[i].sequence < lc[j].sequence
    <3>1. f[i] < f[j] /\ f[i] \in 1 .. Len(lb) /\ f[j] \in 1 .. Len(lb)
      BY <2>1, <2>5
    <3>2. lc[i].sequence = lb[f[i]].sequence /\ lc[j].sequence = lb[f[j]].sequence
      BY <2>1 DEF Same
    <3>. QED BY <2>2, <3>1, <3>2
  <2>6. LevelOK(lc)
    BY <2>3, <2>4, <2>5 DEF LevelOK
  <2>. QED BY <2>6 DEF lc
<1>3. \A s \in Sides : LevelPrices(c, s) \subseteq LevelPrices(b, s)
  <2>. SUFFICES ASSUME NEW s \in Sides, NEW p \in Prices, c[s][p] # <<>>
                PROVE  b[s][p] # <<>>
    BY DEF LevelPrices
  <2>1. Len(c[s][p]) # 0 /\ Len(c[s][p]) \in Nat
    BY LevelTyped
  <2>2. Len(b[s][p]) # 0
    BY <1>1, <2>1
  <2>. QED BY <1>0, <2>2, LevelTyped
<1>4. ASSUME NEW s \in Sides
      PROVE  Cardinality(LevelPrices(c, s)) <= Levels
  <2>. DEFINE pc == LevelPrices(c, s)
              pb == LevelPrices(b, s)
  <2>1. IsFiniteSet(pb)
    BY BookAssumption, FS_Subset DEF LevelPrices
  <2>2. pc \subseteq pb
    BY <1>3
  <2>. HIDE DEF pc, pb
  <2>3. IsFiniteSet(pc) /\ Cardinality(pc) <= Cardinality(pb)
    BY <2>1, <2>2, FS_Subset
  <2>4. Cardinality(pb) \in Nat /\ Cardinality(pc) \in Nat
    BY <2>1, <2>3, FS_CardinalityType
  <2>5. Cardinality(pb) <= Levels
    BY DEF BookOK, pb
  <2>6. Cardinality(pc) <= Levels
    BY <2>3, <2>4, <2>5, BookAssumption
  <2>. QED BY <2>6 DEF pc
<1>5. Uncrossed(c)
  BY <1>3 DEF BookOK, Uncrossed, Sides
<1>6. Apart(c)
  <2>. SUFFICES ASSUME NEW s \in Sides, NEW t \in Sides, NEW p \in Prices, NEW q \in Prices,
                       NEW i \in 1 .. Len(c[s][p]), NEW j \in 1 .. Len(c[t][q]),
                       c[s][p][i].id = c[t][q][j].id \/ c[s][p][i].sequence = c[t][q][j].sequence
                PROVE  s = t /\ p = q /\ i = j
    BY DEF Apart
  <2>. DEFINE k == src[s][p][i]
              l == src[t][q][j]
  <2>1. /\ k \in 1 .. Len(b[s][p]) /\ Same(c[s][p][i], b[s][p][k])
        /\ l \in 1 .. Len(b[t][q]) /\ Same(c[t][q][j], b[t][q][l])
        /\ k \in Nat /\ l \in Nat
    BY <1>1
  <2>2. b[s][p][k].id = b[t][q][l].id \/ b[s][p][k].sequence = b[t][q][l].sequence
    BY <2>1 DEF Same
  <2>3. s = t /\ p = q /\ k = l
    <3>. HIDE DEF k, l
    <3>1. Apart(b) /\ k \in 1 .. Len(b[s][p]) /\ l \in 1 .. Len(b[t][q])
      BY <1>0, <2>1
    <3>. QED BY <3>1, <2>2, ApartAt
  <2>4. ~(i < j) /\ ~(j < i)
    <3>1. /\ i < j => src[s][p][i] < src[s][p][j]
          /\ j < i => src[s][p][j] < src[s][p][i]
      BY <1>1, <2>3
    <3>2. ~(k < l) /\ ~(l < k)
      BY <2>1, <2>3
    <3>. QED BY <2>3, <3>1, <3>2
  <2>5. i \in Nat /\ j \in Nat
    BY <1>1
  <2>. QED BY <2>3, <2>4, <2>5
<1>. QED BY <1>2, <1>4, <1>5, <1>6 DEF BookOK

\* What is left of a level without its k-th order
LEMMA RemoveAtIs ==
  ASSUME NEW level \in Seq(Order), NEW k \in 1 .. Len(level)
  PROVE  /\ RemoveAt(level, k) \in Seq(Order) /\ Len(RemoveAt(level, k)) = Len(level) - 1
         /\ \A i \in 1 .. Len(level) - 1 :
              RemoveAt(level, k)[i] = level[IF i < k THEN i ELSE i + 1]
<1>. DEFINE n == Len(level)
            front == SubSeq(level, 1, k - 1)
            back == SubSeq(level, k + 1, n)
<1>0. n \in Nat /\ k \in Nat /\ 1 <= k /\ k <= n
  OBVIOUS
<1>1. front \in Seq(Order) /\ Len(front) = k - 1 /\ \A i \in 1 .. k - 1 : front[i] = level[i]
  <2>1. \A i \in 1 .. k - 1 : i \in 1 .. n
    BY <1>0
  <2>. QED BY <1>0, <2>1, SubSeqProperties
<1>2. back \in Seq(Order) /\ Len(back) = n - k /\ \A i \in 1 .. n - k : back[i] = level[k + i]
  <2>1. CASE k = n
    <3>1. back = <<>>
      BY <1>0, <2>1, SubSeqProperties
    <3>. QED BY <1>0, <2>1, <3>1
  <2>2. CASE k < n
    <3>1. back \in Seq(Order) /\ Len(back) = n - (k + 1) + 1
      BY <1>0, <2>2, SubSeqProperties
    <3>2. \A i \in 1 .. n - (k + 1) + 1 : back[i] = level[(k + 1) + i - 1]
      BY <1>0, <2>2, SubSeqProperties
    <3>3. n - (k + 1) + 1 = n - k /\ \A i \in 1 .. n - k : (k + 1) + i - 1 = k + i
      BY <1>0
    <3>. HIDE DEF back
    <3>. QED BY <3>1, <3>2, <3>3
  <2>. QED BY <1>0, <2>1, <2>2
<1>. HIDE DEF front, back
<1>3. /\ front \o back \in Seq(Order) /\ Len(front \o back) = n - 1
      /\ \A i \in 1 .. n - 1 : (front \o back)[i] = IF i <= k - 1 THEN front[i]
           ELSE back[i - (k - 1)]
  <2>1. /\ front \o back \in Seq(Order) /\ Len(front \o back) = Len(front) + Len(back)
        /\ \A i \in 1 .. Len(front) + Len(back) :
             (front \o back)[i] = IF i <= Len(front) THEN front[i] ELSE back[i - Len(front)]
    BY <1>1, <1>2, ConcatProperties
  <2>2. Len(front) = k - 1 /\ Len(front) + Len(back) = n - 1
    BY <1>0, <1>1, <1>2
  <2>. QED BY <2>1, <2>2
<1>4. ASSUME NEW i \in 1 .. n - 1
      PROVE  (front \o back)[i] = level[IF i < k THEN i ELSE i + 1]
  <2>1. CASE i < k
    BY <1>0, <1>1, <1>3, <2>1
  <2>2. CASE ~(i < k)
    <3>1. i - (k - 1) \in 1 .. n - k /\ k + (i - (k - 1)) = i + 1 /\ ~(i <= k - 1)
      BY <1>0, <2>2
    <3>. QED BY <1>2, <1>3, <2>2, <3>1
  <2>. QED BY <2>1, <2>2
<1>. QED BY <1>3, <1>4 DEF RemoveAt, front, back

\* One level is replaced.
OneLevel(b, c, s, p, level) ==
  /\ BookType(c) /\ c[s][p] = level
  /\ \A t \in Sides, q \in Prices : ~(t = s /\ q = p) => c[t][q] = b[t][q]

LEMMA OneLevelIs ==
  ASSUME NEW b, BookType(b), NEW s \in Sides, NEW p \in Prices, NEW level \in Seq(Order)
  PROVE  OneLevel(b, [b EXCEPT ![s][p] = level], s, p, level)
BY DEF BookType, OneLevel

\* The order x rests on side s at price p.
In(b, s, p, x) == \E i \in 1 .. Len(b[s][p]) : b[s][p][i] = x

\* An id, and a sequence, has one order.
LEMMA InUnique ==
  ASSUME NEW b, BookOK(b), NEW s \in Sides, NEW t \in Sides, NEW p \in Prices, NEW q \in Prices,
         NEW x, NEW y, In(b, s, p, x), In(b, t, q, y), x.id = y.id \/ x.sequence = y.sequence
  PROVE  s = t /\ p = q /\ x = y
<1>1. PICK i \in 1 .. Len(b[s][p]) : b[s][p][i] = x
  BY DEF In
<1>2. PICK j \in 1 .. Len(b[t][q]) : b[t][q][j] = y
  BY DEF In
<1>3. b[s][p][i].id = b[t][q][j].id \/ b[s][p][i].sequence = b[t][q][j].sequence
  BY <1>1, <1>2
<1>4. s = t /\ p = q /\ i = j
  BY <1>3, ApartAt DEF BookOK
<1>. QED BY <1>1, <1>2, <1>4

LEMMA InTyped ==
  ASSUME NEW b, BookOK(b), NEW s \in Sides, NEW p \in Prices, NEW x, In(b, s, p, x)
  PROVE  /\ x \in Order /\ x.id \in Nat /\ x.account \in Accounts /\ x.quantity \in Nat
              /\ x.sequence \in Nat
         /\ x.quantity > 0 /\ x.sequence > 0 /\ p \in LevelPrices(b, s)
<1>1. PICK i \in 1 .. Len(b[s][p]) : b[s][p][i] = x
  BY DEF In
<1>2. x \in Order /\ Len(b[s][p]) \in Nat /\ (b[s][p] = <<>> <=> Len(b[s][p]) = 0)
  BY <1>1, LevelTyped DEF BookOK
<1>3. x.quantity > 0 /\ x.sequence > 0
  BY <1>1 DEF BookOK, LevelOK
<1>4. p \in LevelPrices(b, s)
  BY <1>1, <1>2 DEF LevelPrices
<1>. QED BY <1>2, <1>3, <1>4, OrderFields

-----------------------------------------------------------------------------
(* The three changes of a book: an order leaves, is reduced, or is added.  *)

\* A level whose orders are taken from the one it replaces
LEMMA OneLevelTaken ==
  ASSUME NEW b, BookOK(b), NEW s \in Sides, NEW p \in Prices, NEW c, NEW level,
         OneLevel(b, c, s, p, level),
         NEW f, Len(level) <= Len(b[s][p]),
         \A i \in 1 .. Len(level) : f[i] \in 1 .. Len(b[s][p]) /\ Same(level[i], b[s][p][f[i]]),
         \A i, j \in 1 .. Len(level) : i < j => f[i] < f[j]
  PROVE  BookOK(c)
<1>. DEFINE id == [i \in Nat |-> i]
            src == [t \in Sides |-> [q \in Prices |-> IF t = s /\ q = p THEN f ELSE id]]
<1>1. ASSUME NEW t \in Sides, NEW q \in Prices
      PROVE  /\ Len(c[t][q]) <= Len(b[t][q])
             /\ \A i \in 1 .. Len(c[t][q]) :
                  src[t][q][i] \in 1 .. Len(b[t][q]) /\ Same(c[t][q][i], b[t][q][src[t][q][i]])
             /\ \A i, j \in 1 .. Len(c[t][q]) : i < j => src[t][q][i] < src[t][q][j]
  <2>1. CASE t = s /\ q = p
    <3>1. src[t][q] = f /\ c[t][q] = level /\ b[t][q] = b[s][p]
      BY <2>1 DEF OneLevel
    <3>. HIDE DEF src
    <3>. QED BY <3>1
  <2>2. CASE ~(t = s /\ q = p)
    <3>1. src[t][q] = id /\ c[t][q] = b[t][q]
      BY <2>2 DEF OneLevel
    <3>2. /\ Len(b[t][q]) \in Nat /\ \A i \in 1 .. Len(b[t][q]) : b[t][q][i] \in Order
      BY LevelTyped DEF BookOK
    <3>3. \A i \in 1 .. Len(b[t][q]) : id[i] = i
      BY <3>2
    <3>4. ASSUME NEW i \in 1 .. Len(b[t][q]) PROVE Same(b[t][q][i], b[t][q][i])
      <4>1. LevelOK(b[t][q])
        BY DEF BookOK
      <4>2. b[t][q][i].quantity > 0 /\ b[t][q][i].quantity \in Nat
        BY <3>2, <4>1, OrderFields DEF LevelOK
      <4>. QED BY <4>2 DEF Same
    <3>. HIDE DEF src, id
    <3>. QED BY <3>1, <3>2, <3>3, <3>4
  <2>. QED BY <2>1, <2>2
<1>2. Taken(b, c, src)
  <2>. HIDE DEF src
  <2>. QED BY <1>1 DEF Taken
<1>. HIDE DEF src
<1>. QED BY <1>2, TakenOK DEF OneLevel

LEMMA SameItself ==
  ASSUME NEW b, BookOK(b), NEW s \in Sides, NEW p \in Prices, NEW i \in 1 .. Len(b[s][p])
  PROVE  Same(b[s][p][i], b[s][p][i])
<1>1. LevelOK(b[s][p]) /\ b[s][p][i] \in Order
  BY LevelTyped DEF BookOK
<1>2. b[s][p][i].quantity > 0 /\ b[s][p][i].quantity \in Nat
  BY <1>1, OrderFields DEF LevelOK
<1>. QED BY <1>2 DEF Same

\* What rests after Unlink: the other orders
Without(b, c, s, p, id) ==
  /\ \A t \in Sides, q \in Prices : ~(t = s /\ q = p) => c[t][q] = b[t][q]
  /\ Len(c[s][p]) = Len(b[s][p]) - 1
  /\ \A t \in Sides, q \in Prices : \A y : In(c, t, q, y) <=> In(b, t, q, y) /\ y.id # id

\* Unlinking keeps a book valid.
LEMMA UnlinkOK ==
  ASSUME NEW b, BookOK(b), NEW s \in Sides, NEW p \in Prices, NEW k \in 1 .. Len(b[s][p])
  PROVE  BookOK(Unlink(b, <<s, p, k>>)) /\ Without(b, Unlink(b, <<s, p, k>>), s, p, b[s][p][k].id)
<1>. DEFINE lb == b[s][p]
            c == Unlink(b, <<s, p, k>>)
            lc == RemoveAt(lb, k)
            f == [i \in Nat |-> IF i < k THEN i ELSE i + 1]
            n == Len(lb)
<1>0. BookType(b) /\ lb \in Seq(Order) /\ n \in Nat /\ k \in Nat /\ 1 <= k /\ k <= n
  BY LevelTyped DEF BookOK
<1>1. lc \in Seq(Order) /\ Len(lc) = n - 1 /\ \A i \in 1 .. n - 1 : lc[i]
      = lb[IF i < k THEN i ELSE i + 1]
  BY <1>0, RemoveAtIs
<1>2. OneLevel(b, c, s, p, lc)
  <2>1. c = [b EXCEPT ![s][p] = lc]
    BY DEF Unlink
  <2>. HIDE DEF c, lc
  <2>. QED BY <1>0, <1>1, <2>1, OneLevelIs
<1>3. \A i \in 1 .. n - 1 : f[i] = (IF i < k THEN i ELSE i + 1) /\ f[i] \in 1 .. n /\ f[i] # k
  BY <1>0
<1>4. \A i, j \in 1 .. n - 1 : i < j => f[i] < f[j]
  BY <1>0
<1>5. \A i \in 1 .. n - 1 : lc[i] = lb[f[i]]
  <2>. HIDE DEF lc, f, lb, n
  <2>. QED BY <1>1, <1>3
<1>6. \A j \in 1 .. n : j # k => \E i \in 1 .. n - 1 : f[i] = j
  <2>. SUFFICES ASSUME NEW j \in 1 .. n, j # k PROVE \E i \in 1 .. n - 1 : f[i] = j
    OBVIOUS
  <2>1. CASE j < k
    <3>1. j \in 1 .. n - 1 /\ f[j] = j
      BY <1>0, <2>1
    <3>. QED BY <3>1
  <2>2. CASE j > k
    <3>1. j - 1 \in 1 .. n - 1 /\ f[j - 1] = j
      BY <1>0, <2>2
    <3>. QED BY <3>1
  <2>3. j < k \/ j > k
    BY <1>0
  <2>. QED BY <2>1, <2>2, <2>3
<1>. HIDE DEF f, lc, c
<1>7. \A i \in 1 .. Len(lc) : f[i] \in 1 .. Len(b[s][p]) /\ Same(lc[i], b[s][p][f[i]])
  BY <1>1, <1>3, <1>5, SameItself
<1>8. Len(lc) <= Len(b[s][p]) /\ \A i, j \in 1 .. Len(lc) : i < j => f[i] < f[j]
  <2>1. 1 .. Len(lc) = 1 .. n - 1 /\ Len(lc) <= n
    BY <1>0, <1>1
  <2>. HIDE DEF n
  <2>2. \A i, j \in 1 .. Len(lc) : i < j => f[i] < f[j]
    BY <1>4, <2>1
  <2>. QED BY <2>1, <2>2 DEF n
<1>9. BookOK(c)
  BY <1>2, <1>7, <1>8, OneLevelTaken
<1>10. c[s][p] = lc /\ \A t \in Sides, q \in Prices : ~(t = s /\ q = p) => c[t][q] = b[t][q]
  BY <1>2 DEF OneLevel
<1>11. ASSUME NEW t \in Sides, NEW q \in Prices, NEW y
       PROVE  In(c, t, q, y) <=> In(b, t, q, y) /\ y.id # lb[k].id
  <2>0. In(b, s, p, lb[k])
    BY DEF In
  <2>1. CASE t = s /\ q = p
    <3>1. ASSUME In(c, s, p, y) PROVE In(b, s, p, y) /\ y.id # lb[k].id
      <4>1. PICK i \in 1 .. n - 1 : lc[i] = y
        BY <1>1, <1>10, <3>1 DEF In
      <4>2. f[i] \in 1 .. n /\ f[i] # k /\ lb[f[i]] = y
        BY <1>3, <1>5, <4>1
      <4>3. In(b, s, p, y)
        BY <4>2 DEF In
      <4>4. y.id # lb[k].id
        <5>. DEFINE g == f[i]
        <5>1. g \in 1 .. Len(b[s][p]) /\ g # k /\ b[s][p][g] = y
          BY <4>2
        <5>. HIDE DEF g
        <5>2. Apart(b)
          BY DEF BookOK
        <5>. QED BY <5>1, <5>2, ApartAt
      <4>. QED BY <4>3, <4>4
    <3>2. ASSUME In(b, s, p, y), y.id # lb[k].id PROVE In(c, s, p, y)
      <4>1. PICK j \in 1 .. n : lb[j] = y
        BY <3>2 DEF In
      <4>2. j # k
        BY <3>2, <4>1
      <4>3. PICK i \in 1 .. n - 1 : f[i] = j
        BY <1>6, <4>2
      <4>. QED BY <1>1, <1>5, <1>10, <4>1, <4>3 DEF In
    <3>. QED BY <2>1, <3>1, <3>2
  <2>2. CASE ~(t = s /\ q = p)
    <3>1. In(c, t, q, y) <=> In(b, t, q, y)
      BY <1>10, <2>2 DEF In
    <3>2. In(b, t, q, y) => y.id # lb[k].id
      BY <2>0, <2>2, InUnique
    <3>. QED BY <3>1, <3>2
  <2>. QED BY <2>1, <2>2
<1>12. Without(b, c, s, p, b[s][p][k].id)
  BY <1>1, <1>10, <1>11 DEF Without
<1>. QED BY <1>9, <1>12 DEF c

Cut(x, q) == [x EXCEPT !.quantity = q]

LEMMA CutIs ==
  ASSUME NEW x \in Order, NEW q \in Nat
  PROVE  /\ Cut(x, q) \in Order /\ Cut(x, q).id = x.id /\ Cut(x, q).account = x.account
         /\ Cut(x, q).sequence = x.sequence /\ Cut(x, q).quantity = q
BY DEF Cut, Order

\* What rests after Resize: the other orders, and the order with its new quantity
Resized(b, c, s, p, x, q) ==
  /\ \A t \in Sides, r \in Prices : ~(t = s /\ r = p) => c[t][r] = b[t][r]
  /\ Len(c[s][p]) = Len(b[s][p])
  /\ \A t \in Sides, r \in Prices : \A y :
       In(c, t, r, y) <=> (In(b, t, r, y) /\ y.id # x.id) \/ (t = s /\ r = p /\ y = Cut(x, q))

\* Reducing an order keeps a book valid.
LEMMA ResizeOK ==
  ASSUME NEW b, BookOK(b), NEW s \in Sides, NEW p \in Prices, NEW k \in 1 .. Len(b[s][p]),
         NEW q \in Nat, q > 0, q <= b[s][p][k].quantity
  PROVE  BookOK(Resize(b, <<s, p, k>>, q))
    /\ Resized(b, Resize(b, <<s, p, k>>, q), s, p, b[s][p][k], q)
<1>. DEFINE lb == b[s][p]
            x == lb[k]
            c == Resize(b, <<s, p, k>>, q)
            lc == [lb EXCEPT ![k] = Cut(x, q)]
            f == [i \in Nat |-> i]
            n == Len(lb)
<1>0. BookType(b) /\ lb \in Seq(Order) /\ n \in Nat /\ k \in Nat /\ x \in Order
  BY LevelTyped DEF BookOK
<1>1. Cut(x, q) \in Order /\ Cut(x, q).id = x.id /\ Same(Cut(x, q), x)
  <2>. HIDE DEF x
  <2>1. q <= x.quantity
    BY DEF x
  <2>. QED BY <1>0, <2>1, CutIs DEF Same
<1>2. /\ lc \in Seq(Order) /\ Len(lc) = n /\ lc[k] = Cut(x, q)
      /\ \A i \in 1 .. n : i # k => lc[i] = lb[i]
  <2>. HIDE DEF x, lb
  <2>. QED BY <1>0, <1>1 DEF lb
<1>3. OneLevel(b, c, s, p, lc)
  <2>1. c = [b EXCEPT ![s][p] = lc]
    BY <1>0 DEF Resize, Cut, BookType
  <2>. HIDE DEF c, lc
  <2>. QED BY <1>0, <1>2, <2>1, OneLevelIs
<1>4. \A i \in 1 .. n : f[i] = i
  BY <1>0
<1>. HIDE DEF lc, c, f
<1>5. \A i \in 1 .. Len(lc) : f[i] \in 1 .. Len(b[s][p]) /\ Same(lc[i], b[s][p][f[i]])
  <2>. SUFFICES ASSUME NEW i \in 1 .. n PROVE Same(lc[i], b[s][p][i])
    BY <1>2, <1>4
  <2>1. CASE i = k
    BY <1>1, <1>2, <2>1
  <2>2. CASE i # k
    <3>1. lc[i] = b[s][p][i]
      BY <1>2, <2>2
    <3>. QED BY <3>1, SameItself
  <2>. QED BY <2>1, <2>2
<1>6. Len(lc) <= Len(b[s][p]) /\ \A i, j \in 1 .. Len(lc) : i < j => f[i] < f[j]
  BY <1>0, <1>2, <1>4
<1>7. BookOK(c)
  BY <1>3, <1>5, <1>6, OneLevelTaken
<1>8. c[s][p] = lc /\ \A t \in Sides, r \in Prices : ~(t = s /\ r = p) => c[t][r] = b[t][r]
  BY <1>3 DEF OneLevel
<1>9. ASSUME NEW t \in Sides, NEW r \in Prices, NEW y
      PROVE  In(c, t, r, y) <=> (In(b, t, r, y) /\ y.id # x.id) \/ (t = s /\ r = p /\ y = Cut(x, q))
  <2>0. In(b, s, p, x)
    BY DEF In
  <2>1. CASE t = s /\ r = p
    <3>1. ASSUME In(c, s, p, y) PROVE (In(b, s, p, y) /\ y.id # x.id) \/ y = Cut(x, q)
      <4>1. PICK i \in 1 .. n : lc[i] = y
        BY <1>2, <1>8, <3>1 DEF In
      <4>2. CASE i = k
        BY <1>2, <4>1, <4>2
      <4>3. CASE i # k
        <5>1. b[s][p][i] = y /\ i \in 1 .. Len(b[s][p])
          BY <1>2, <4>1, <4>3
        <5>2. In(b, s, p, y)
          BY <5>1 DEF In
        <5>3. y.id # b[s][p][k].id
          <6>1. Apart(b)
            BY DEF BookOK
          <6>. QED BY <4>3, <5>1, <6>1, ApartAt
        <5>. QED BY <5>2, <5>3
      <4>. QED BY <4>2, <4>3
    <3>2. ASSUME In(b, s, p, y), y.id # x.id PROVE In(c, s, p, y)
      <4>1. PICK j \in 1 .. n : lb[j] = y
        BY <3>2 DEF In
      <4>2. j # k
        BY <3>2, <4>1
      <4>3. lc[j] = y
        BY <1>2, <4>1, <4>2
      <4>. QED BY <1>2, <1>8, <4>3 DEF In
    <3>3. In(c, s, p, Cut(x, q))
      BY <1>2, <1>8 DEF In
    <3>. QED BY <2>1, <3>1, <3>2, <3>3
  <2>2. CASE ~(t = s /\ r = p)
    <3>1. In(c, t, r, y) <=> In(b, t, r, y)
      BY <1>8, <2>2 DEF In
    <3>2. In(b, t, r, y) => y.id # x.id
      <4>. HIDE DEF x
      <4>. QED BY <2>0, <2>2, InUnique
    <3>. QED BY <2>2, <3>1, <3>2
  <2>. QED BY <2>1, <2>2
<1>10. Resized(b, c, s, p, x, q)
  BY <1>2, <1>8, <1>9 DEF Resized
<1>. QED BY <1>7, <1>10 DEF c

\* An order may join the tail of a level.
MayRest(b, s, p, x) ==
  /\ x \in Order /\ x.quantity > 0 /\ x.sequence > 0
  /\ Len(b[s][p]) < OrdersPerLevel
  /\ p \in LevelPrices(b, s) \/ Cardinality(LevelPrices(b, s)) < Levels
  /\ \A t \in Sides, q \in Prices : \A y : In(b, t, q, y) => y.id # x.id /\ y.sequence < x.sequence
  /\ s = "Buy" => \A q \in LevelPrices(b, "Sell") : p < q
  /\ s = "Sell" => \A q \in LevelPrices(b, "Buy") : q < p

\* What rests after an order joined
Joined(b, c, s, p, x) ==
  \A t \in Sides, q \in Prices : \A y : In(c, t, q, y)
    <=> In(b, t, q, y) \/ (t = s /\ q = p /\ y = x)

\* An order that may join leaves the book valid.
LEMMA RestOK ==
  ASSUME NEW b, BookOK(b), NEW s \in Sides, NEW p \in Prices, NEW x, MayRest(b, s, p, x)
  PROVE  BookOK(RestAtTail(b, s, p, x)) /\ Joined(b, RestAtTail(b, s, p, x), s, p, x)
<1>. DEFINE lb == b[s][p]
            c == RestAtTail(b, s, p, x)
            lc == Append(lb, x)
            n == Len(lb)
<1>0. BookType(b) /\ lb \in Seq(Order) /\ n \in Nat /\ x \in Order /\ LevelOK(lb) /\ Apart(b)
  BY LevelTyped DEF BookOK, MayRest
<1>1. /\ lc \in Seq(Order) /\ Len(lc) = n + 1 /\ lc[n + 1] = x
      /\ \A i \in 1 .. n : lc[i] = lb[i]
  BY <1>0, AppendProperties
<1>2. OneLevel(b, c, s, p, lc)
  <2>1. c = [b EXCEPT ![s][p] = lc]
    BY DEF RestAtTail
  <2>. HIDE DEF c, lc
  <2>. QED BY <1>0, <1>1, <2>1, OneLevelIs
<1>3. BookType(c) /\ c[s][p] = lc /\ \A t \in Sides, q \in Prices : ~(t = s /\ q = p) => c[t][q]
      = b[t][q]
  BY <1>2 DEF OneLevel
<1>. HIDE DEF lc, c
<1>4. \A i \in 1 .. n + 1 : i \in 1 .. n \/ i = n + 1
  BY <1>0
<1>5. \A i \in 1 .. n : In(b, s, p, lb[i])
  BY DEF In
<1>6. ASSUME NEW t \in Sides, NEW q \in Prices
      PROVE  LevelOK(c[t][q])
  <2>1. CASE t = s /\ q = p
    <3>1. Len(lc) <= OrdersPerLevel
      BY <1>0, <1>1, BookAssumption DEF MayRest
    <3>2. /\ \A i \in 1 .. n : lb[i].quantity > 0 /\ lb[i].sequence > 0
               /\ lb[i].sequence < x.sequence
          /\ \A i, j \in 1 .. n : i < j => lb[i].sequence < lb[j].sequence
      BY <1>0, <1>5 DEF LevelOK, MayRest
    <3>3. x.quantity > 0 /\ x.sequence > 0
      BY DEF MayRest
    <3>. HIDE DEF lb, n
    <3>4. \A i \in 1 .. n + 1 : lc[i].quantity > 0 /\ lc[i].sequence > 0
      BY <1>1, <1>4, <3>2, <3>3
    <3>5. ASSUME NEW i \in 1 .. n + 1, NEW j \in 1 .. n + 1, i < j
          PROVE  lc[i].sequence < lc[j].sequence
      <4>1. i \in 1 .. n
        BY <1>0, <3>5
      <4>. QED BY <1>1, <1>4, <3>2, <3>5, <4>1
    <3>. QED BY <1>1, <1>3, <2>1, <3>1, <3>4, <3>5 DEF LevelOK
  <2>2. CASE ~(t = s /\ q = p)
    BY <1>3, <2>2 DEF BookOK
  <2>. QED BY <2>1, <2>2
<1>7. ASSUME NEW t \in Sides, NEW q \in Prices, NEW y
      PROVE  In(c, t, q, y) <=> In(b, t, q, y) \/ (t = s /\ q = p /\ y = x)
  <2>1. CASE t = s /\ q = p
    <3>1. ASSUME In(c, s, p, y) PROVE In(b, s, p, y) \/ y = x
      <4>1. PICK i \in 1 .. n + 1 : lc[i] = y
        BY <1>1, <1>3, <3>1 DEF In
      <4>2. CASE i = n + 1
        BY <1>1, <4>1, <4>2
      <4>3. CASE i \in 1 .. n
        BY <1>1, <4>1, <4>3 DEF In
      <4>. QED BY <1>4, <4>2, <4>3
    <3>2. ASSUME In(b, s, p, y) PROVE In(c, s, p, y)
      <4>1. PICK j \in 1 .. n : lb[j] = y
        BY <3>2 DEF In
      <4>2. lc[j] = y /\ j \in 1 .. n + 1
        BY <1>0, <1>1, <4>1
      <4>. QED BY <1>1, <1>3, <4>2 DEF In
    <3>3. In(c, s, p, x)
      <4>1. n + 1 \in 1 .. n + 1
        BY <1>0
      <4>. QED BY <1>1, <1>3, <4>1 DEF In
    <3>. QED BY <2>1, <3>1, <3>2, <3>3
  <2>2. CASE ~(t = s /\ q = p)
    <3>1. In(c, t, q, y) <=> In(b, t, q, y)
      BY <1>3, <2>2 DEF In
    <3>. QED BY <2>2, <3>1
  <2>. QED BY <2>1, <2>2
<1>8. Joined(b, c, s, p, x)
  BY <1>7 DEF Joined
<1>9. Apart(c)
  <2>. SUFFICES ASSUME NEW t \in Sides, NEW u \in Sides, NEW q \in Prices, NEW r \in Prices,
                       NEW i \in 1 .. Len(c[t][q]), NEW j \in 1 .. Len(c[u][r]),
                       c[t][q][i].id = c[u][r][j].id \/ c[t][q][i].sequence = c[u][r][j].sequence
                PROVE  t = u /\ q = r /\ i = j
    BY DEF Apart
  <2>1. ASSUME NEW v \in Sides, NEW w \in Prices, NEW l \in 1 .. Len(c[v][w])
        PROVE  \/ /\ l \in 1 .. Len(b[v][w]) /\ c[v][w][l] = b[v][w][l]
                  /\ c[v][w][l].id # x.id /\ c[v][w][l].sequence # x.sequence
               \/ v = s /\ w = p /\ l = n + 1 /\ c[v][w][l] = x
    <3>1. ASSUME NEW m \in 1 .. Len(b[v][w])
          PROVE  b[v][w][m].id # x.id /\ b[v][w][m].sequence # x.sequence
      <4>. DEFINE y == b[v][w][m]
      <4>1. In(b, v, w, y)
        BY DEF In
      <4>2. y.sequence \in Nat /\ x.sequence \in Nat
        BY <1>0, <4>1, InTyped, OrderFields
      <4>3. y.id # x.id /\ y.sequence < x.sequence
        BY <4>1 DEF MayRest
      <4>. QED BY <4>2, <4>3
    <3>2. CASE v = s /\ w = p
      <4>1. l \in 1 .. n \/ l = n + 1
        BY <1>1, <1>3, <1>4, <3>2
      <4>. QED BY <1>1, <1>3, <3>1, <3>2, <4>1, SMTT(40)
    <3>3. CASE ~(v = s /\ w = p)
      BY <1>3, <3>1, <3>3
    <3>. QED BY <3>2, <3>3
  <2>2. CASE /\ i \in 1 .. Len(b[t][q]) /\ c[t][q][i] = b[t][q][i]
             /\ j \in 1 .. Len(b[u][r]) /\ c[u][r][j] = b[u][r][j]
    BY <1>0, <2>2, ApartAt
  <2>3. CASE t = s /\ q = p /\ i = n + 1 /\ c[t][q][i] = x
    <3>1. \/ c[u][r][j].id # x.id /\ c[u][r][j].sequence # x.sequence
          \/ u = s /\ r = p /\ j = n + 1
      BY <2>1
    <3>. QED BY <2>3, <3>1
  <2>4. CASE u = s /\ r = p /\ j = n + 1 /\ c[u][r][j] = x
    <3>1. \/ c[t][q][i].id # x.id /\ c[t][q][i].sequence # x.sequence
          \/ t = s /\ q = p /\ i = n + 1
      BY <2>1
    <3>. QED BY <2>4, <3>1
  <2>. QED BY <2>1, <2>2, <2>3, <2>4
<1>10. /\ LevelPrices(c, s) = LevelPrices(b, s) \cup {p}
       /\ \A t \in Sides : t # s => LevelPrices(c, t) = LevelPrices(b, t)
  <2>1. lc # <<>>
    BY <1>0, <1>1, LevelTyped
  <2>. QED BY <1>3, <2>1 DEF LevelPrices
<1>11. ASSUME NEW t \in Sides
       PROVE  Cardinality(LevelPrices(c, t)) <= Levels
  <2>0. Cardinality(LevelPrices(b, t)) <= Levels
    BY DEF BookOK
  <2>1. CASE t # s
    BY <1>10, <2>0, <2>1
  <2>2. CASE t = s /\ p \in LevelPrices(b, s)
    <3>1. LevelPrices(c, s) = LevelPrices(b, s)
      BY <1>10, <2>2
    <3>. QED BY <2>0, <2>2, <3>1
  <2>3. CASE t = s /\ p \notin LevelPrices(b, s)
    <3>. DEFINE S == LevelPrices(b, s)
    <3>1. IsFiniteSet(S)
      BY BookAssumption, FS_Subset DEF LevelPrices
    <3>2. p \notin S /\ Cardinality(S) < Levels
      BY <2>3 DEF MayRest
    <3>. HIDE DEF S
    <3>3. Cardinality(S \cup {p}) = Cardinality(S) + 1 /\ Cardinality(S) \in Nat
      BY <3>1, <3>2, FS_AddElement, FS_CardinalityType
    <3>4. Cardinality(S \cup {p}) <= Levels
      BY <3>2, <3>3, BookAssumption
    <3>. QED BY <1>10, <2>3, <3>4 DEF S
  <2>. QED BY <2>1, <2>2, <2>3
<1>12. Uncrossed(c)
  <2>1. Uncrossed(b) /\ s \in {"Buy", "Sell"}
    BY DEF BookOK, Sides
  <2>2. /\ s = "Buy" => \A q \in LevelPrices(b, "Sell") : p < q
        /\ s = "Sell" => \A q \in LevelPrices(b, "Buy") : q < p
    BY DEF MayRest
  <2>3. CASE s = "Buy"
    <3>1. LevelPrices(c, "Buy") = LevelPrices(b, "Buy") \cup {p} /\ LevelPrices(c, "Sell")
          = LevelPrices(b, "Sell")
      BY <1>10, <2>3 DEF Sides
    <3>. QED BY <2>1, <2>2, <2>3, <3>1 DEF Uncrossed
  <2>4. CASE s = "Sell"
    <3>1. LevelPrices(c, "Sell") = LevelPrices(b, "Sell") \cup {p} /\ LevelPrices(c, "Buy")
          = LevelPrices(b, "Buy")
      BY <1>10, <2>4 DEF Sides
    <3>. QED BY <2>1, <2>2, <2>4, <3>1 DEF Uncrossed
  <2>. QED BY <2>1, <2>3, <2>4
<1>13. BookOK(c)
  BY <1>3, <1>6, <1>9, <1>11, <1>12 DEF BookOK
<1>. QED BY <1>8, <1>13 DEF c

-----------------------------------------------------------------------------
(* Orders found by their id.                                               *)

\* A resting order is found by its id.
LEMMA LocateIs ==
  ASSUME NEW b, BookOK(b), NEW s \in Sides, NEW p \in Prices, NEW x, In(b, s, p, x)
  PROVE  /\ \E k \in 1 .. Len(b[s][p]) : Locate(b, x.id) = <<s, p, k>> /\ b[s][p][k] = x
         /\ OrderAt(b, Locate(b, x.id)) = x
         /\ Located(b, x.id) = {Locate(b, x.id)}
<1>1. PICK k \in 1 .. Len(b[s][p]) : b[s][p][k] = x
  BY DEF In
<1>. DEFINE at == <<s, p, k>>
<1>2. at \in RestingOrders(b) /\ OrderAt(b, at) = x
  BY <1>1, AtPlace
<1>3. ASSUME NEW y \in Located(b, x.id) PROVE y = at
  <2>1. y \in RestingOrders(b) /\ OrderAt(b, y).id = x.id
    BY DEF Located, OrderAt
  <2>2. PICK t \in Sides, q \in Prices, j \in Nat :
          /\ j \in 1 .. Len(b[t][q]) /\ y = <<t, q, j>> /\ OrderAt(b, y) = b[t][q][j]
          /\ y[1] = t /\ y[2] = q /\ y[3] = j /\ b[t][q][j] \in Order
    <3>. HIDE DEF at
    <3>. QED BY <2>1, PlaceOf, Zenon
  <2>3. b[t][q][j].id = b[s][p][k].id
    BY <1>1, <2>1, <2>2
  <2>4. t = s /\ q = p /\ j = k
    BY <2>2, <2>3, ApartAt DEF BookOK
  <2>. QED BY <2>2, <2>4
<1>4. at \in Located(b, x.id)
  <2>1. OrderAt(b, at).id = x.id
    BY <1>2
  <2>. QED BY <1>2, <2>1, Zenon DEF Located, OrderAt
<1>. HIDE DEF at
<1>5. Located(b, x.id) = {at}
  BY <1>3, <1>4
<1>6. Locate(b, x.id) = at
  BY <1>5 DEF Locate
<1>. QED BY <1>1, <1>2, <1>5, <1>6 DEF at

LEMMA LocatedNone ==
  ASSUME NEW b, BookOK(b), NEW id
  PROVE  Located(b, id) = {} <=> \A s \in Sides, p \in Prices : \A x : In(b, s, p, x) => x.id # id
<1>1. ASSUME Located(b, id) = {}, NEW s \in Sides, NEW p \in Prices, NEW x, In(b, s, p, x), x.id
             = id
      PROVE  FALSE
  <2>1. Located(b, x.id) = {Locate(b, x.id)}
    BY <1>1, LocateIs
  <2>. QED BY <1>1, <2>1
<1>2. ASSUME NEW at \in Located(b, id)
      PROVE  \E s \in Sides, p \in Prices, x \in Order : In(b, s, p, x) /\ x.id = id
  <2>1. at \in RestingOrders(b) /\ OrderAt(b, at).id = id
    BY DEF Located, OrderAt
  <2>2. PICK t \in Sides, q \in Prices, j \in Nat :
          j \in 1 .. Len(b[t][q]) /\ OrderAt(b, at) = b[t][q][j] /\ b[t][q][j] \in Order
    BY <2>1, PlaceOf, Zenon
  <2>3. In(b, t, q, b[t][q][j])
    BY <2>2 DEF In
  <2>. QED BY <2>1, <2>2, <2>3
<1>. QED BY <1>1, <1>2

\* What rests, by place and by In
LEMMA InPlace ==
  ASSUME NEW b, BookOK(b), NEW at \in RestingOrders(b)
  PROVE  /\ at[1] \in Sides /\ at[2] \in Prices /\ In(b, at[1], at[2], OrderAt(b, at))
         /\ OrderAt(b, at) \in Order
<1>1. PICK s \in Sides, p \in Prices, i \in Nat :
           /\ i \in 1 .. Len(b[s][p]) /\ at = <<s, p, i>> /\ OrderAt(b, at) = b[s][p][i]
           /\ at[1] = s /\ at[2] = p /\ at[3] = i /\ b[s][p][i] \in Order
  BY PlaceOf, Zenon
<1>2. In(b, s, p, b[s][p][i])
  BY <1>1 DEF In
<1>. QED BY <1>1, <1>2

LEMMA PlaceIn ==
  ASSUME NEW b, BookOK(b), NEW s \in Sides, NEW p \in Prices, NEW x, In(b, s, p, x)
  PROVE  \E at \in RestingOrders(b) : at[1] = s /\ at[2] = p /\ OrderAt(b, at) = x
<1>1. PICK k \in 1 .. Len(b[s][p]) : b[s][p][k] = x
  BY DEF In
<1>2. <<s, p, k>> \in RestingOrders(b) /\ OrderAt(b, <<s, p, k>>) = x
  BY <1>1, AtPlace
<1>3. <<s, p, k>>[1] = s /\ <<s, p, k>>[2] = p
  OBVIOUS
<1>. QED BY <1>2, <1>3

\* What rests after `quantity' of the order x on side s at price p was filled
Reduced(b, c, s, p, x, quantity) ==
  /\ \A t \in Sides, r \in Prices : ~(t = s /\ r = p) => c[t][r] = b[t][r]
  /\ \A t \in Sides, r \in Prices : \A y :
       In(c, t, r, y) <=> \/ In(b, t, r, y) /\ y.id # x.id
                          \/ /\ quantity # x.quantity /\ t = s /\ r = p
                             /\ y = Cut(x, x.quantity - quantity)

\* A fill takes its quantity from one order, and nothing else.
LEMMA FillMakerOK ==
  ASSUME NEW b, BookOK(b), NEW s \in Sides, NEW p \in Prices, NEW x, In(b, s, p, x), NEW fill,
         fill.id = x.id, fill.quantity \in Nat, fill.quantity > 0, fill.quantity <= x.quantity
  PROVE  BookOK(FillMaker(b, fill)) /\ Reduced(b, FillMaker(b, fill), s, p, x, fill.quantity)
<1>. DEFINE c == FillMaker(b, fill)
            n == fill.quantity
            m == x.quantity - n
<1>1. PICK k \in 1 .. Len(b[s][p]) : Locate(b, x.id) = <<s, p, k>> /\ b[s][p][k] = x
  BY LocateIs
<1>2. OrderAt(b, Locate(b, fill.id)) = x
  BY LocateIs
<1>3. x.quantity \in Nat
  BY InTyped
<1>4. CASE x.quantity = n
  <2>1. c = Unlink(b, <<s, p, k>>)
    BY <1>1, <1>2, <1>4 DEF FillMaker
  <2>2. BookOK(c) /\ Without(b, c, s, p, x.id)
    BY <1>1, <2>1, UnlinkOK
  <2>. HIDE DEF c
  <2>. QED BY <1>4, <2>2 DEF Without, Reduced, c
<1>5. CASE x.quantity # n
  <2>1. c = Resize(b, <<s, p, k>>, m)
    BY <1>1, <1>2, <1>5 DEF FillMaker
  <2>2. m \in Nat /\ m > 0 /\ m <= b[s][p][k].quantity
    BY <1>1, <1>3, <1>5
  <2>. HIDE DEF m
  <2>3. BookOK(c) /\ Resized(b, c, s, p, x, m)
    BY <1>1, <2>1, <2>2, ResizeOK
  <2>. HIDE DEF c
  <2>. QED BY <1>5, <2>3 DEF Resized, Reduced, c, m
<1>. QED BY <1>4, <1>5

-----------------------------------------------------------------------------
(* Book and risk agree, but for the order being submitted: every resting   *)
(* order has a reservation of its account, side and quantity, and there is *)
(* no other.                                                               *)
AgreeBut(b, r, taker) ==
  /\ \A s \in Sides, p \in Prices : \A x : In(b, s, p, x) =>
       /\ x.id # taker /\ x.id \in Live(r)
       /\ r.reservations[x.id] = Triple(x.account, s, x.quantity)
  /\ \A id \in Live(r) \ {taker} :
       \E s \in Sides, p \in Prices, x \in Order : In(b, s, p, x) /\ x.id = id

LEMMA TripleFields ==
  ASSUME NEW a, NEW s, NEW q
  PROVE  Triple(a, s, q).account = a /\ Triple(a, s, q).side = s /\ Triple(a, s, q).quantity = q
BY DEF Triple

LEMMA SameButFields ==
  ASSUME NEW r, NEW t, NEW id, SameBut(r, t, id), NEW other, other # id
  PROVE  /\ other \in Live(t) <=> other \in Live(r)
         /\ other \in Live(r) => t.reservations[other] = r.reservations[other]
BY DEF SameBut

\* One fill, in book and risk
LEMMA PairOK ==
  ASSUME NEW b, BookOK(b), NEW r, RiskOK(r), NEW taker, AgreeBut(b, r, taker),
         NEW s \in Sides, NEW p \in Prices, NEW x, In(b, s, p, x),
         NEW a, NEW side, NEW left, taker \in Live(r),
         r.reservations[taker] = Triple(a, side, left),
         NEW fill, fill.id = x.id, fill.quantity \in Nat, fill.quantity > 0,
         fill.quantity <= x.quantity, fill.quantity <= left, left \in Nat
  PROVE  LET m == RecordFill(r, fill.id, fill.quantity)
             t == RecordFill(m, taker, fill.quantity)
         IN  /\ CanRecordFill(r, fill.id, fill.quantity) /\ CanRecordFill(m, taker, fill.quantity)
             /\ RiskOK(t) /\ AgreeBut(FillMaker(b, fill), t, taker)
             /\ taker \in Live(t) <=> fill.quantity # left
             /\ fill.quantity # left => t.reservations[taker]
                  = Triple(a, side, left - fill.quantity)
             /\ t.maximum_order_id = r.maximum_order_id
             /\ SettledSum(r) \in Int
             /\ SettledSum(t) = (SettledSum(r) + Signed(s, fill.quantity)) + Signed(side,
                  fill.quantity)
<1>. DEFINE id == fill.id
            n == fill.quantity
            m == RecordFill(r, id, n)
            t == RecordFill(m, taker, n)
            c == FillMaker(b, fill)
<1>1. /\ x.id # taker /\ x.id \in Live(r) /\ r.reservations[x.id] = Triple(x.account, s, x.quantity)
  BY DEF AgreeBut
<1>2. /\ id \in Live(r) /\ id # taker /\ r.reservations[id].account = x.account
      /\ r.reservations[id].side = s /\ r.reservations[id].quantity = x.quantity
  BY <1>1, TripleFields
<1>3. n \in Nat /\ n > 0 /\ n <= x.quantity /\ n <= left /\ left \in Nat /\ x.quantity \in Nat
      /\ id = x.id
  BY InTyped
<1>. HIDE DEF id, n
<1>4. /\ CanRecordFill(r, id, n)
      /\ RiskOK(m) /\ SameBut(r, m, id)
      /\ id \in Live(m) <=> n # r.reservations[id].quantity
      /\ n # r.reservations[id].quantity =>
           m.reservations[id] = Triple(r.reservations[id].account, r.reservations[id].side,
                                       r.reservations[id].quantity - n)
      /\ m.maximum_order_id = r.maximum_order_id
      /\ SettledSum(r) \in Int
      /\ SettledSum(m) = SettledSum(r) + Signed(r.reservations[id].side, n)
  BY <1>2, <1>3, RecordFillOK
<1>5. id \in Live(m) <=> n # x.quantity
  BY <1>2, <1>4
<1>6. n # x.quantity => m.reservations[id] = Triple(x.account, s, x.quantity - n)
  BY <1>2, <1>4
<1>7. SettledSum(m) = SettledSum(r) + Signed(s, n)
  BY <1>2, <1>4
<1>. HIDE DEF m
<1>8. taker \in Live(m) /\ m.reservations[taker] = Triple(a, side, left)
  BY <1>2, <1>4, SameButFields
<1>9. /\ m.reservations[taker].account = a /\ m.reservations[taker].side = side
      /\ m.reservations[taker].quantity = left
  BY <1>8, TripleFields
<1>10. /\ CanRecordFill(m, taker, n)
       /\ RiskOK(t) /\ SameBut(m, t, taker)
       /\ taker \in Live(t) <=> n # m.reservations[taker].quantity
       /\ n # m.reservations[taker].quantity =>
            t.reservations[taker] = Triple(m.reservations[taker].account,
              m.reservations[taker].side,
                                           m.reservations[taker].quantity - n)
       /\ t.maximum_order_id = m.maximum_order_id
       /\ SettledSum(t) = SettledSum(m) + Signed(m.reservations[taker].side, n)
  BY <1>3, <1>4, <1>8, <1>9, RecordFillOK
<1>11. /\ taker \in Live(t) <=> n # left
       /\ n # left => t.reservations[taker] = Triple(a, side, left - n)
       /\ SettledSum(t) = (SettledSum(r) + Signed(s, n)) + Signed(side, n)
  BY <1>7, <1>9, <1>10
<1>. HIDE DEF t
<1>12. BookOK(c) /\ Reduced(b, c, s, p, x, n)
  BY FillMakerOK DEF n
<1>. HIDE DEF c
<1>13. \A u \in Sides, q \in Prices : \A y :
         In(c, u, q, y) <=> \/ In(b, u, q, y) /\ y.id # x.id
                            \/ n # x.quantity /\ u = s /\ q = p /\ y = Cut(x, x.quantity - n)
  BY <1>12 DEF Reduced
<1>14. n # x.quantity => /\ Cut(x, x.quantity - n) \in Order /\ Cut(x, x.quantity - n).id = x.id
                         /\ Cut(x, x.quantity - n).account = x.account
                         /\ Cut(x, x.quantity - n).quantity = x.quantity - n
  <2>1. x \in Order /\ x.quantity - n \in Nat
    BY <1>3, InTyped
  <2>. QED BY <2>1, CutIs
<1>15. ASSUME NEW u \in Sides, NEW q \in Prices, NEW y, In(c, u, q, y)
       PROVE  y.id # taker /\ y.id \in Live(t) /\ t.reservations[y.id]
         = Triple(y.account, u, y.quantity)
  <2>1. CASE In(b, u, q, y) /\ y.id # x.id
    <3>1. y.id # taker /\ y.id \in Live(r) /\ r.reservations[y.id]
          = Triple(y.account, u, y.quantity)
      BY <2>1 DEF AgreeBut
    <3>2. y.id # id
      BY <1>3, <2>1
    <3>. DEFINE v == y.id
    <3>3. v # taker /\ v \in Live(r) /\ v # id
      BY <3>1, <3>2
    <3>. HIDE DEF v
    <3>4. v \in Live(t) /\ t.reservations[v] = r.reservations[v]
      BY <1>4, <1>10, <3>3, SameButFields
    <3>. QED BY <3>1, <3>4 DEF v
  <2>2. CASE n # x.quantity /\ u = s /\ q = p /\ y = Cut(x, x.quantity - n)
    <3>1. y.id = id /\ y.account = x.account /\ y.quantity = x.quantity - n
      BY <1>3, <1>14, <2>2
    <3>2. id \in Live(m) /\ m.reservations[id] = Triple(x.account, s, x.quantity - n)
      BY <1>5, <1>6, <2>2
    <3>3. id \in Live(t) /\ t.reservations[id] = m.reservations[id]
      BY <1>2, <1>10, <3>2, SameButFields
    <3>. QED BY <1>2, <2>2, <3>1, <3>2, <3>3
  <2>. QED BY <1>13, <1>15, <2>1, <2>2
<1>16. ASSUME NEW v \in Live(t) \ {taker}
       PROVE  \E u \in Sides, q \in Prices, y \in Order : In(c, u, q, y) /\ y.id = v
  <2>0. v \in Live(m)
    BY <1>10, SameButFields
  <2>1. CASE v = id
    <3>1. n # x.quantity
      BY <1>5, <2>0, <2>1
    <3>2. In(c, s, p, Cut(x, x.quantity - n)) /\ Cut(x, x.quantity - n) \in Order
           /\ Cut(x, x.quantity - n).id = v
      BY <1>3, <1>13, <1>14, <2>1, <3>1
    <3>. QED BY <3>2
  <2>2. CASE v # id
    <3>1. v \in Live(r)
      BY <1>4, <2>0, <2>2, SameButFields
    <3>2. PICK u \in Sides, q \in Prices, y \in Order : In(b, u, q, y) /\ y.id = v
      BY <3>1 DEF AgreeBut
    <3>3. In(c, u, q, y)
      BY <1>3, <1>13, <2>2, <3>2
    <3>. QED BY <3>2, <3>3
  <2>. QED BY <2>1, <2>2
<1>17. AgreeBut(c, t, taker)
  BY <1>15, <1>16 DEF AgreeBut
<1>. QED BY <1>4, <1>10, <1>11, <1>17 DEF t, m, c, id, n

-----------------------------------------------------------------------------
(* The fills of an order o, and what is left of it after each of them.     *)

\* The maker of a fill
MakerOf(b, o, fill, p, x) ==
  /\ In(b, Opposite(o.side), p, x) /\ Crosses(o.side, o.price, p)
  /\ fill.id = x.id /\ fill.price = p /\ fill.quantity <= x.quantity

\* A maker is used up.
UsedUp(fills, x) == \E j \in 1 .. Len(fills) : fills[j].id = x.id /\ fills[j].quantity = x.quantity

\* The fills of o: each takes from one maker that crosses, no maker trades twice, what is
\* left goes down by each, a maker ahead of one that trades is used up, and when something
\* is left in the end every maker that crosses is.
IsPlan(b, o, fills, left) ==
  /\ Len(fills) \in Nat /\ DOMAIN fills = 1 .. Len(fills)
  /\ left[0] = o.quantity
  /\ \A i \in 0 .. Len(fills) : left[i] \in Nat
  /\ \A i \in 1 .. Len(fills) :
       /\ fills[i].quantity \in Nat /\ fills[i].quantity > 0
       /\ left[i] = left[i - 1] - fills[i].quantity
       /\ \E p \in Prices, x \in Order : MakerOf(b, o, fills[i], p, x)
  /\ \A i, j \in 1 .. Len(fills) : fills[i].id = fills[j].id => i = j
  /\ left[Len(fills)] > 0 =>
       \A p \in Prices, x \in Order :
         In(b, Opposite(o.side), p, x) /\ Crosses(o.side, o.price, p) => UsedUp(fills, x)
  /\ \A i \in 1 .. Len(fills), p, q \in Prices, x, y \in Order :
       MakerOf(b, o, fills[i], p, x) /\ In(b, Opposite(o.side), q, y)
         /\ (Better(Opposite(o.side), q, p) \/ (q = p /\ y.sequence < x.sequence))
       => UsedUp(fills, y)

LEMMA OppositeSide ==
  ASSUME NEW s \in Sides
  PROVE  Opposite(s) \in Sides /\ Opposite(s) # s /\ Opposite(Opposite(s)) = s
         /\ \A n \in Int : Signed(Opposite(s), n) + Signed(s, n) = 0 /\ Signed(s, n) \in Int
                            /\ Signed(Opposite(s), n) \in Int
BY DEF Opposite, Sides, Signed

\* The only order with the id of a fill is its maker.
LEMMA TheMaker ==
  ASSUME NEW b, BookOK(b), NEW o, o.side \in Sides, NEW fills, NEW left, IsPlan(b, o, fills, left),
         NEW i \in 1 .. Len(fills), NEW s \in Sides, NEW p \in Prices, NEW x, In(b, s, p, x),
         x.id = fills[i].id
  PROVE  s = Opposite(o.side) /\ MakerOf(b, o, fills[i], p, x)
<1>1. PICK q \in Prices, y \in Order : MakerOf(b, o, fills[i], q, y)
  BY DEF IsPlan
<1>2. In(b, Opposite(o.side), q, y) /\ y.id = x.id /\ Opposite(o.side) \in Sides
  BY <1>1, OppositeSide DEF MakerOf
<1>3. s = Opposite(o.side) /\ p = q /\ x = y
  BY <1>2, InUnique
<1>. QED BY <1>1, <1>3

\* What becomes of the order x by the first i fills
Outcome(fills, i, x, y) ==
  \/ y = x /\ \A j \in 1 .. i : fills[j].id # x.id
  \/ \E j \in 1 .. i : /\ fills[j].id = x.id /\ fills[j].quantity # x.quantity
                       /\ y = Cut(x, x.quantity - fills[j].quantity)

\* The book c holds what the first i fills leave of b.
Content(b, c, fills, i) ==
  \A s \in Sides, p \in Prices : \A y :
    In(c, s, p, y) <=> \E x \in Order : In(b, s, p, x) /\ Outcome(fills, i, x, y)

LEMMA OutcomeIs ==
  ASSUME NEW b, BookOK(b), NEW o, o.side \in Sides, NEW fills, NEW left, IsPlan(b, o, fills, left),
         NEW i \in 0 .. Len(fills), NEW s \in Sides, NEW p \in Prices, NEW x, In(b, s, p, x),
         NEW y, Outcome(fills, i, x, y)
  PROVE  Same(y, x) /\ y \in Order
<1>1. x \in Order /\ x.quantity \in Nat /\ x.quantity > 0
  BY InTyped
<1>2. CASE y = x
  BY <1>1, <1>2 DEF Same
<1>3. CASE y # x
  <2>0. Len(fills) \in Nat
    BY DEF IsPlan
  <2>1. PICK j \in 1 .. i : /\ fills[j].id = x.id /\ fills[j].quantity # x.quantity
                            /\ y = Cut(x, x.quantity - fills[j].quantity)
    BY <1>3 DEF Outcome
  <2>2. j \in 1 .. Len(fills)
    BY <2>0
  <2>3. fills[j].quantity \in Nat /\ fills[j].quantity > 0
    BY <2>2 DEF IsPlan
  <2>4. MakerOf(b, o, fills[j], p, x)
    BY <2>1, <2>2, TheMaker
  <2>. DEFINE q == x.quantity - fills[j].quantity
  <2>5. q \in Nat /\ q > 0 /\ q <= x.quantity
    BY <1>1, <2>1, <2>3, <2>4 DEF MakerOf
  <2>. HIDE DEF q
  <2>6. y = Cut(x, q)
    BY <2>1 DEF q
  <2>. QED BY <1>1, <2>5, <2>6, CutIs DEF Same
<1>. QED BY <1>2, <1>3

LEMMA ContentStart ==
  ASSUME NEW b, BookOK(b), NEW fills
  PROVE  Content(b, b, fills, 0)
<1>1. \A x, y : Outcome(fills, 0, x, y) <=> y = x
  <2>1. 1 .. 0 = {}
    OBVIOUS
  <2>. QED BY <2>1 DEF Outcome
<1>2. ASSUME NEW s \in Sides, NEW p \in Prices, NEW y
      PROVE  In(b, s, p, y) <=> \E x \in Order : In(b, s, p, x) /\ Outcome(fills, 0, x, y)
  <2>1. In(b, s, p, y) => y \in Order
    BY InTyped
  <2>. QED BY <1>1, <2>1
<1>. QED BY <1>2 DEF Content

\* One fill more
LEMMA ContentStep ==
  ASSUME NEW b, BookOK(b), NEW o, o.side \in Sides, NEW fills, NEW left, IsPlan(b, o, fills, left),
         NEW i \in 1 .. Len(fills), NEW c, BookOK(c), Content(b, c, fills, i - 1),
         NEW s \in Sides, NEW p \in Prices, NEW x, In(b, s, p, x), x.id = fills[i].id,
         NEW d, Reduced(c, d, s, p, x, fills[i].quantity)
  PROVE  In(c, s, p, x) /\ Content(b, d, fills, i)
<1>0. /\ Len(fills) \in Nat /\ i \in Nat /\ i - 1 \in Nat /\ i \in 1 .. i
      /\ i - 1 \in 0 .. Len(fills) /\ i \in 0 .. Len(fills)
      /\ \A j \in 1 .. i - 1 : j \in 1 .. Len(fills) /\ j # i /\ j \in 1 .. i
      /\ \A j \in 1 .. i : j = i \/ j \in 1 .. i - 1
  BY DEF IsPlan
<1>1. \A j \in 1 .. Len(fills) : fills[j].id = fills[i].id => j = i
  BY DEF IsPlan
<1>2. x \in Order
  BY InTyped
<1>3. In(c, s, p, x)
  <2>1. Outcome(fills, i - 1, x, x)
    BY <1>0, <1>1 DEF Outcome
  <2>. QED BY <1>2, <2>1 DEF Content
<1>4. ASSUME NEW t \in Sides, NEW q \in Prices, NEW y, In(d, t, q, y)
      PROVE  \E z \in Order : In(b, t, q, z) /\ Outcome(fills, i, z, y)
  <2>1. CASE In(c, t, q, y) /\ y.id # x.id
    <3>1. PICK z \in Order : In(b, t, q, z) /\ Outcome(fills, i - 1, z, y)
      BY <2>1 DEF Content
    <3>2. y.id = z.id
      BY <1>0, <3>1, OutcomeIs DEF Same
    <3>3. z.id # fills[i].id
      BY <2>1, <3>2
    <3>4. Outcome(fills, i, z, y)
      BY <1>0, <3>1, <3>3 DEF Outcome
    <3>. QED BY <3>1, <3>4
  <2>2. CASE /\ fills[i].quantity # x.quantity /\ t = s /\ q = p
             /\ y = Cut(x, x.quantity - fills[i].quantity)
    <3>1. Outcome(fills, i, x, y)
      BY <1>0, <2>2 DEF Outcome
    <3>. QED BY <1>2, <2>2, <3>1
  <2>. QED BY <1>4, <2>1, <2>2 DEF Reduced
<1>5. ASSUME NEW t \in Sides, NEW q \in Prices, NEW y, NEW z \in Order, In(b, t, q, z),
             Outcome(fills, i, z, y)
      PROVE  In(d, t, q, y)
  <2>0. y.id = z.id
    BY <1>0, <1>5, OutcomeIs DEF Same
  <2>1. CASE z.id = x.id
    <3>1. t = s /\ q = p /\ z = x
      BY <1>5, <2>1, InUnique
    <3>2. ~(\A j \in 1 .. i : fills[j].id # z.id)
      BY <1>0, <2>1
    <3>3. PICK j \in 1 .. i : /\ fills[j].id = z.id /\ fills[j].quantity # z.quantity
                              /\ y = Cut(z, z.quantity - fills[j].quantity)
      BY <1>5, <3>2 DEF Outcome
    <3>4. j = i
      BY <1>0, <1>1, <2>1, <3>3
    <3>. QED BY <3>1, <3>3, <3>4 DEF Reduced
  <2>2. CASE z.id # x.id
    <3>1. Outcome(fills, i - 1, z, y)
      <4>1. CASE y = z /\ \A j \in 1 .. i : fills[j].id # z.id
        BY <1>0, <4>1 DEF Outcome
      <4>2. CASE \E j \in 1 .. i : /\ fills[j].id = z.id /\ fills[j].quantity # z.quantity
                                   /\ y = Cut(z, z.quantity - fills[j].quantity)
        <5>1. PICK j \in 1 .. i : /\ fills[j].id = z.id /\ fills[j].quantity # z.quantity
                                  /\ y = Cut(z, z.quantity - fills[j].quantity)
          BY <4>2
        <5>2. j # i
          BY <2>2, <5>1
        <5>3. j \in 1 .. i - 1
          BY <1>0, <5>2
        <5>. QED BY <5>1, <5>3 DEF Outcome
      <4>. QED BY <1>5, <4>1, <4>2 DEF Outcome
    <3>2. In(c, t, q, y)
      BY <1>5, <3>1 DEF Content
    <3>. QED BY <2>0, <2>2, <3>2 DEF Reduced
  <2>. QED BY <2>1, <2>2
<1>6. Content(b, d, fills, i)
  BY <1>4, <1>5 DEF Content
<1>. QED BY <1>3, <1>6

-----------------------------------------------------------------------------
(* Book and risk go through the fills together.                            *)

\* Book c and risk r after i fills of the order o, which began on b and r0
Trading(b, r0, o, fills, left, i, c, r) ==
  /\ BookOK(c) /\ RiskOK(r) /\ AgreeBut(c, r, o.id) /\ Content(b, c, fills, i)
  /\ \A p \in Prices : c[o.side][p] = b[o.side][p]
  /\ o.id \in Live(r) <=> left[i] > 0
  /\ left[i] > 0 => r.reservations[o.id] = Triple(o.account, o.side, left[i])
  /\ r.maximum_order_id = r0.maximum_order_id
  /\ SettledSum(r) = SettledSum(r0)

\* Neither record_fill of a report can fail, and book and risk agree again after both.
LEMMA TradingStep ==
  ASSUME NEW b, BookOK(b), NEW r0, NEW o, o.side \in Sides, NEW fills, NEW left,
         IsPlan(b, o, fills, left),
         NEW i \in 1 .. Len(fills), NEW c, NEW r, Trading(b, r0, o, fills, left, i - 1, c, r)
  PROVE  LET m == RecordFill(r, fills[i].id, fills[i].quantity)
             t == RecordFill(m, o.id, fills[i].quantity)
         IN  /\ CanRecordFill(r, fills[i].id, fills[i].quantity)
                  /\ CanRecordFill(m, o.id, fills[i].quantity)
             /\ Trading(b, r0, o, fills, left, i, FillMaker(c, fills[i]), t)
<1>. DEFINE fill == fills[i]
            n == fill.quantity
            m == RecordFill(r, fill.id, n)
            t == RecordFill(m, o.id, n)
            d == FillMaker(c, fill)
            was == left[i - 1]
            now == left[i]
            s == Opposite(o.side)
<1>1. /\ BookOK(c) /\ RiskOK(r) /\ AgreeBut(c, r, o.id) /\ Content(b, c, fills, i - 1)
      /\ \A p \in Prices : c[o.side][p] = b[o.side][p]
      /\ o.id \in Live(r) <=> was > 0
      /\ was > 0 => r.reservations[o.id] = Triple(o.account, o.side, was)
      /\ r.maximum_order_id = r0.maximum_order_id
      /\ SettledSum(r) = SettledSum(r0)
  BY DEF Trading
<1>2. /\ n \in Nat /\ n > 0 /\ now = was - n
      /\ \E p \in Prices, x \in Order : MakerOf(b, o, fill, p, x)
  BY DEF IsPlan
<1>3. was \in Nat /\ now \in Nat
  <2>1. i - 1 \in 0 .. Len(fills) /\ i \in 0 .. Len(fills)
    BY DEF IsPlan
  <2>2. \A j \in 0 .. Len(fills) : left[j] \in Nat
    BY DEF IsPlan
  <2>. QED BY <2>1, <2>2
<1>4. PICK p \in Prices, x \in Order : MakerOf(b, o, fill, p, x)
  BY <1>2
<1>5. s \in Sides /\ s # o.side /\ In(b, s, p, x) /\ fill.id = x.id /\ n <= x.quantity
  BY <1>4, OppositeSide DEF MakerOf
<1>6. was > 0 /\ n <= was /\ (n # was <=> now > 0) /\ was - n = now
  BY <1>2, <1>3
<1>7. Outcome(fills, i - 1, x, x)
  <2>1. \A j \in 1 .. i - 1 : fills[j].id # fills[i].id
    <3>1. \A j \in 1 .. i - 1 : j \in 1 .. Len(fills) /\ j # i
      BY DEF IsPlan
    <3>. QED BY <3>1 DEF IsPlan
  <2>. QED BY <1>5, <2>1 DEF Outcome
<1>8. In(c, s, p, x)
  BY <1>1, <1>5, <1>7 DEF Content
<1>9. BookOK(d) /\ Reduced(c, d, s, p, x, n)
  BY <1>1, <1>2, <1>5, <1>8, FillMakerOK
<1>10. Content(b, d, fills, i)
  BY <1>1, <1>5, <1>9, ContentStep
<1>11. \A q \in Prices : d[o.side][q] = b[o.side][q]
  BY <1>1, <1>5, <1>9 DEF Reduced
<1>. DEFINE a == o.account
            side == o.side
            taker == o.id
<1>12. taker \in Live(r) /\ r.reservations[taker] = Triple(a, side, was)
  BY <1>1, <1>6
<1>. HIDE DEF was, now, a, side, taker, s, fill
<1>13. /\ CanRecordFill(r, fill.id, fill.quantity)
       /\ CanRecordFill(RecordFill(r, fill.id, fill.quantity), taker, fill.quantity)
       /\ RiskOK(RecordFill(RecordFill(r, fill.id, fill.quantity), taker, fill.quantity))
       /\ AgreeBut(FillMaker(c, fill), RecordFill(RecordFill(r, fill.id, fill.quantity), taker,
            fill.quantity), taker)
       /\ taker \in Live(RecordFill(RecordFill(r, fill.id, fill.quantity), taker, fill.quantity))
            <=> fill.quantity # was
       /\ fill.quantity # was =>
            RecordFill(RecordFill(r, fill.id, fill.quantity), taker,
              fill.quantity).reservations[taker]
              = Triple(a, side, was - fill.quantity)
       /\ RecordFill(RecordFill(r, fill.id, fill.quantity), taker, fill.quantity).maximum_order_id
            = r.maximum_order_id
       /\ SettledSum(r) \in Int
       /\ SettledSum(RecordFill(RecordFill(r, fill.id, fill.quantity), taker, fill.quantity))
            = (SettledSum(r) + Signed(s, fill.quantity)) + Signed(side, fill.quantity)
  <2>1. AgreeBut(c, r, taker)
    BY <1>1 DEF taker
  <2>. QED BY <1>1, <1>2, <1>3, <1>5, <1>6, <1>8, <1>12, <2>1, PairOK
<1>14. (SettledSum(r) + Signed(s, n)) + Signed(side, n) = SettledSum(r)
  <2>1. Signed(s, n) \in Int /\ Signed(side, n) \in Int /\ Signed(s, n) + Signed(side, n) = 0
    BY <1>2, OppositeSide DEF s, side
  <2>2. SettledSum(r) \in Int
    BY <1>13
  <2>. QED BY <2>1, <2>2
<1>. HIDE DEF n
<1>15. /\ taker \in Live(t) <=> now > 0
       /\ now > 0 => t.reservations[taker] = Triple(a, side, now)
       /\ t.maximum_order_id = r0.maximum_order_id
       /\ SettledSum(t) = SettledSum(r0)
       /\ RiskOK(t) /\ AgreeBut(d, t, taker)
       /\ CanRecordFill(r, fill.id, n) /\ CanRecordFill(m, taker, n)
  BY <1>1, <1>6, <1>13, <1>14 DEF n, taker
<1>. HIDE DEF t, m, d
<1>16. Trading(b, r0, o, fills, left, i, d, t)
  BY <1>9, <1>10, <1>11, <1>15 DEF Trading, now, a, side, taker
<1>. QED BY <1>15, <1>16 DEF fill, n, t, m, d, taker

Acc(r) == [ok |-> TRUE, risk |-> r]

LEMMA FillStepIs ==
  ASSUME NEW r, NEW fill, NEW taker, CanRecordFill(r, fill.id, fill.quantity),
         CanRecordFill(RecordFill(r, fill.id, fill.quantity), taker, fill.quantity)
  PROVE  FillStep(Acc(r), fill, taker)
           = Acc(RecordFill(RecordFill(r, fill.id, fill.quantity), taker, fill.quantity))
<1>1. Acc(r).ok = TRUE /\ Acc(r).risk = r
  BY DEF Acc
<1>2. \A v : [Acc(r) EXCEPT !.risk = v] = Acc(v)
  <2>1. \A k, v : [[ok |-> k, risk |-> r] EXCEPT !.risk = v] = [ok |-> k, risk |-> v]
    OBVIOUS
  <2>. QED BY <2>1, Zenon DEF Acc
<1>3. FillStep(Acc(r), fill, taker)
        = [Acc(r) EXCEPT !.risk = RecordFill(RecordFill(Acc(r).risk, fill.id, fill.quantity),
          taker, fill.quantity)]
  BY <1>1 DEF FillStep
<1>. QED BY <1>1, <1>2, <1>3

\* So all the fills are recorded.
LEMMA TradingAll ==
  ASSUME NEW b, BookOK(b), NEW r0, NEW o, o.side \in Sides, NEW fills, NEW left,
         IsPlan(b, o, fills, left),
         Trading(b, r0, o, fills, left, 0, b, r0)
  PROVE  /\ RecordFills(r0, fills, o.id) = Acc(RecordFills(r0, fills, o.id).risk)
         /\ RecordFills(r0, fills, o.id).ok = TRUE
         /\ Trading(b, r0, o, fills, left, Len(fills), ApplyFills(b, fills),
              RecordFills(r0, fills, o.id).risk)
<1>. DEFINE n == Len(fills)
<1>0. n \in Nat
  BY DEF IsPlan
<1>1. PICK f : /\ f = [i \in 0 .. n |-> IF i = 0 THEN b ELSE FillMaker(f[i - 1], fills[i])]
               /\ ApplyFills(b, fills) = f[n]
  BY <1>0, ApplySteps
<1>2. PICK g : /\ g = [i \in 0 .. n |-> IF i = 0 THEN [ok |-> TRUE, risk |-> r0]
                    ELSE FillStep(g[i - 1], fills[i], o.id)]
               /\ RecordFills(r0, fills, o.id) = g[n]
  BY <1>0, RecordSteps
<1>. DEFINE T == {k \in Nat : k <= n => \E r : g[k] = Acc(r)
            /\ Trading(b, r0, o, fills, left, k, f[k], r)}
<1>3. 0 \in T
  <2>1. f[0] = b /\ g[0] = [ok |-> TRUE, risk |-> r0]
    <3>1. 0 \in 0 .. n
      BY <1>0
    <3>2. f[0] = b
      BY <1>1, <3>1
    <3>3. g[0] = [ok |-> TRUE, risk |-> r0]
      BY <1>2, <3>1
    <3>. QED BY <3>2, <3>3
  <2>2. g[0] = Acc(r0)
    BY <2>1 DEF Acc
  <2>. QED BY <2>1, <2>2
<1>4. ASSUME NEW k \in Nat, k \in T PROVE k + 1 \in T
  <2>1. CASE ~(k + 1 <= n)
    BY <2>1
  <2>2. CASE k + 1 <= n
    <3>1. k <= n /\ k + 1 \in 0 .. n /\ k + 1 # 0 /\ (k + 1) - 1 = k /\ k + 1 \in 1 .. n
      BY <1>0, <2>2
    <3>2. PICK r : g[k] = Acc(r) /\ Trading(b, r0, o, fills, left, k, f[k], r)
      BY <1>4, <3>1
    <3>. DEFINE i == k + 1
                m == RecordFill(r, fills[i].id, fills[i].quantity)
                t == RecordFill(m, o.id, fills[i].quantity)
    <3>3. f[i] = FillMaker(f[k], fills[i])
      <4>1. f[i] = IF i = 0 THEN b ELSE FillMaker(f[i - 1], fills[i])
        BY <1>1, <3>1
      <4>. QED BY <3>1, <4>1
    <3>4. g[i] = FillStep(g[k], fills[i], o.id)
      <4>1. g[i] = IF i = 0 THEN [ok |-> TRUE, risk |-> r0] ELSE FillStep(g[i - 1], fills[i], o.id)
        BY <1>2, <3>1
      <4>. QED BY <3>1, <4>1
    <3>5. i \in 1 .. Len(fills) /\ i - 1 = k
      BY <3>1
    <3>6. Trading(b, r0, o, fills, left, i - 1, f[k], r)
      BY <3>2, <3>5
    <3>. HIDE DEF i
    <3>7. /\ CanRecordFill(r, fills[i].id, fills[i].quantity)
               /\ CanRecordFill(m, o.id, fills[i].quantity)
          /\ Trading(b, r0, o, fills, left, i, FillMaker(f[k], fills[i]), t)
      BY <3>5, <3>6, TradingStep
    <3>8. FillStep(Acc(r), fills[i], o.id) = Acc(t)
      BY <3>7, FillStepIs
    <3>. HIDE DEF t, m
    <3>9. g[i] = Acc(t) /\ Trading(b, r0, o, fills, left, i, f[i], t)
      BY <3>2, <3>3, <3>4, <3>7, <3>8
    <3>10. i \in Nat
      BY <3>1 DEF i
    <3>11. i \in T
      BY <3>9, <3>10
    <3>. QED BY <3>11 DEF i
  <2>. QED BY <2>1, <2>2
<1>. HIDE DEF T
<1>5. n \in T
  BY <1>0, <1>3, <1>4, SetInduction
<1>6. PICK r : g[n] = Acc(r) /\ Trading(b, r0, o, fills, left, n, f[n], r)
  BY <1>0, <1>5 DEF T
<1>7. RecordFills(r0, fills, o.id) = Acc(r) /\ Acc(r).risk = r /\ Acc(r).ok = TRUE
  BY <1>2, <1>6 DEF Acc
<1>. QED BY <1>1, <1>6, <1>7

\* The total of the fills is what is no longer left.
LEMMA PlanTotal ==
  ASSUME NEW b, NEW o, NEW fills, NEW left, IsPlan(b, o, fills, left)
  PROVE  /\ Total(fills) \in Nat /\ left[Len(fills)] \in Nat /\ o.quantity \in Nat
         /\ Total(fills) + left[Len(fills)] = o.quantity
<1>. DEFINE n == Len(fills)
<1>0. /\ n \in Nat /\ left[0] = o.quantity /\ \A i \in 0 .. n : left[i] \in Nat
      /\ \A i \in 1 .. n : fills[i].quantity \in Nat /\ left[i] = left[i - 1] - fills[i].quantity
  BY DEF IsPlan
<1>1. PICK f : /\ f = [k \in 0 .. n |-> IF k = 0 THEN 0 ELSE f[k - 1] + fills[k].quantity]
               /\ Total(fills) = f[n]
  BY <1>0, TotalSteps
<1>. DEFINE T == {k \in Nat : k <= n => f[k] \in Nat /\ f[k] + left[k] = o.quantity}
<1>2. 0 \in T
  <2>1. 0 \in 0 .. n
    BY <1>0
  <2>2. f[0] = 0 /\ left[0] \in Nat
    BY <1>0, <1>1, <2>1
  <2>3. f[0] \in Nat /\ f[0] + left[0] = o.quantity
    BY <1>0, <2>2
  <2>. QED BY <2>3
<1>3. ASSUME NEW k \in Nat, k \in T PROVE k + 1 \in T
  <2>1. CASE ~(k + 1 <= n)
    BY <2>1
  <2>2. CASE k + 1 <= n
    <3>1. k <= n /\ k + 1 \in 0 .. n /\ k + 1 # 0 /\ (k + 1) - 1 = k /\ k + 1 \in 1 .. n
          /\ k \in 0 .. n
      BY <1>0, <2>2
    <3>2. f[k + 1] = f[k] + fills[k + 1].quantity
      <4>1. f[k + 1] = IF k + 1 = 0 THEN 0 ELSE f[(k + 1) - 1] + fills[k + 1].quantity
        BY <1>1, <3>1
      <4>. QED BY <3>1, <4>1
    <3>3. left[k + 1] = left[k] - fills[k + 1].quantity /\ fills[k + 1].quantity \in Nat
          /\ left[k] \in Nat /\ left[k + 1] \in Nat
      BY <1>0, <3>1
    <3>4. f[k] \in Nat /\ f[k] + left[k] = o.quantity
      BY <1>3, <3>1
    <3>5. f[k + 1] \in Nat /\ f[k + 1] + left[k + 1] = o.quantity
      BY <3>2, <3>3, <3>4
    <3>. QED BY <3>5
  <2>. QED BY <2>1, <2>2
<1>. HIDE DEF T
<1>4. n \in T
  BY <1>0, <1>2, <1>3, SetInduction
<1>5. n \in 0 .. n /\ 0 \in 0 .. n
  BY <1>0
<1>. QED BY <1>0, <1>1, <1>4, <1>5 DEF T

-----------------------------------------------------------------------------
(* The walk of build_plan.  The makers in the order of the walk are the    *)
(* crossing orders by the number of those ahead of them.                   *)

\* An injection between finite sets of the same size misses nothing.
LEMMA InjectionIsOnto ==
  ASSUME NEW S, NEW T, IsFiniteSet(T), Cardinality(S) = Cardinality(T), NEW f \in [S -> T],
         \A x, y \in S : f[x] = f[y] => x = y
  PROVE  \A t \in T : \E x \in S : f[x] = t
<1>1. f \in Injection(S, T)
  BY DEF Injection, IsInjective
<1>2. f \in Surjection(S, T)
  BY <1>1, FS_Injection
<1>. QED BY <1>2 DEF Surjection

\* B[x] are the members of S ahead of x in a strict total order.
LEMMA Ranks ==
  ASSUME NEW S, IsFiniteSet(S), NEW B \in [S -> SUBSET S],
         \A x \in S : x \notin B[x],
         \A x, y \in S : x \in B[y] => B[x] \subseteq B[y],
         \A x, y \in S : x # y => x \in B[y] \/ y \in B[x]
  PROVE  /\ Cardinality(S) \in Nat
         /\ \A x \in S : Cardinality(B[x]) \in Nat /\ Cardinality(B[x]) < Cardinality(S)
         /\ \A x, y \in S : x \in B[y] => Cardinality(B[x]) < Cardinality(B[y])
         /\ \A x, y \in S : Cardinality(B[x]) = Cardinality(B[y]) => x = y
         /\ \A k \in 0 .. Cardinality(S) - 1 : \E x \in S : Cardinality(B[x]) = k
<1>. DEFINE n == Cardinality(S)
            rank == [x \in S |-> Cardinality(B[x])]
<1>0. n \in Nat
  BY FS_CardinalityType
<1>1. ASSUME NEW x \in S PROVE IsFiniteSet(B[x]) /\ Cardinality(B[x]) \in Nat
             /\ Cardinality(B[x]) < n
  <2>. DEFINE T == B[x]
  <2>0. T \in SUBSET S /\ x \notin T
    OBVIOUS
  <2>. HIDE DEF T
  <2>1. IsFiniteSet(T) /\ Cardinality(T) <= n /\ (n = Cardinality(T) => S = T)
    BY <2>0, FS_Subset
  <2>2. Cardinality(T) \in Nat
    BY <2>1, FS_CardinalityType
  <2>3. Cardinality(T) < n
    BY <1>0, <2>0, <2>1, <2>2
  <2>. QED BY <2>1, <2>2, <2>3 DEF T
<1>2. ASSUME NEW x \in S, NEW y \in S, x \in B[y] PROVE Cardinality(B[x]) < Cardinality(B[y])
  <2>. DEFINE T == B[x]
              U == B[y]
  <2>0. T \in SUBSET U /\ x \in U /\ x \notin T /\ IsFiniteSet(U) /\ Cardinality(T) \in Nat
        /\ Cardinality(U) \in Nat
    BY <1>1, <1>2
  <2>. HIDE DEF T, U
  <2>1. Cardinality(T) <= Cardinality(U) /\ (Cardinality(U) = Cardinality(T) => U = T)
    BY <2>0, FS_Subset
  <2>2. Cardinality(T) < Cardinality(U)
    BY <2>0, <2>1
  <2>. QED BY <2>2 DEF T, U
<1>3. ASSUME NEW x \in S, NEW y \in S, Cardinality(B[x]) = Cardinality(B[y]) PROVE x = y
  <2>. DEFINE m == Cardinality(B[x])
              l == Cardinality(B[y])
  <2>1. m \in Nat /\ l \in Nat /\ m = l /\ (x \in B[y] => m < l) /\ (y \in B[x] => l < m)
    BY <1>1, <1>2, <1>3
  <2>. HIDE DEF m, l
  <2>. QED BY <2>1
<1>4. rank \in [S -> 0 .. n - 1]
  BY <1>0, <1>1
<1>5. IsFiniteSet(0 .. n - 1) /\ Cardinality(0 .. n - 1) = n
  <2>1. 0 \in Int /\ n - 1 \in Int
    BY <1>0
  <2>2. IsFiniteSet(0 .. n - 1)
    BY <2>1, FS_Interval
  <2>3. Cardinality(0 .. n - 1) = IF 0 > n - 1 THEN 0 ELSE (n - 1) - 0 + 1
    BY <2>1, FS_Interval
  <2>. QED BY <1>0, <2>2, <2>3
<1>6. \A x, y \in S : rank[x] = rank[y] => x = y
  BY <1>3
<1>7. \A k \in 0 .. n - 1 : \E x \in S : rank[x] = k
  <2>. DEFINE T == 0 .. n - 1
  <2>0. rank \in [S -> T] /\ IsFiniteSet(T) /\ Cardinality(S) = Cardinality(T)
    BY <1>4, <1>5
  <2>. HIDE DEF T, rank
  <2>1. \A k \in T : \E x \in S : rank[x] = k
    BY <1>6, <2>0, InjectionIsOnto
  <2>. QED BY <2>1 DEF T
<1>. QED BY <1>0, <1>1, <1>2, <1>3, <1>7

\* Only finitely many orders rest.
LEMMA RestingFinite ==
  ASSUME NEW b
  PROVE  IsFiniteSet(RestingOrders(b))
<1>. DEFINE K == 1 .. OrdersPerLevel
            P == (Sides \X Prices) \X K
            S == RestingOrders(b)
            f == [at \in S |-> <<<<at[1], at[2]>>, at[3]>>]
<1>1. IsFiniteSet(K)
  BY BookAssumption, FS_Interval
<1>2. IsFiniteSet(Sides)
  <2>1. IsFiniteSet({"Buy"} \cup {"Sell"})
    BY FS_Singleton, FS_Union
  <2>2. Sides = {"Buy"} \cup {"Sell"}
    BY DEF Sides
  <2>. QED BY <2>1, <2>2
<1>3. IsFiniteSet(Sides \X Prices)
  BY <1>2, BookAssumption, FS_Product
<1>4. IsFiniteSet(P)
  <2>. DEFINE Q == Sides \X Prices
  <2>1. IsFiniteSet(Q)
    BY <1>3
  <2>. HIDE DEF Q, K
  <2>2. IsFiniteSet(Q \X K)
    BY <1>1, <2>1, FS_Product
  <2>. QED BY <2>2 DEF Q
<1>5. \A at \in S : at \in Sides \X Prices \X K
  BY DEF RestingOrders
<1>6. f \in [S -> P]
  BY <1>5
<1>7. ASSUME NEW x \in S, NEW y \in S, f[x] = f[y] PROVE x = y
  <2>1. x = <<x[1], x[2], x[3]>> /\ y = <<y[1], y[2], y[3]>>
    BY <1>5
  <2>2. <<<<x[1], x[2]>>, x[3]>> = <<<<y[1], y[2]>>, y[3]>>
    BY <1>7
  <2>3. <<x[1], x[2]>> = <<y[1], y[2]>> /\ x[3] = y[3]
    BY <2>2
  <2>4. x[1] = y[1] /\ x[2] = y[2]
    BY <2>3
  <2>. QED BY <2>1, <2>3, <2>4
<1>. HIDE DEF f, S, P
<1>8. f \in Injection(S, P)
  BY <1>6, <1>7 DEF Injection, IsInjective
<1>9. IsFiniteSet(S)
  BY <1>4, <1>8, FS_Injection
<1>. QED BY <1>9 DEF S

LEMMA CrossingPlace ==
  ASSUME NEW b, BookOK(b), NEW o, o.side \in Sides, NEW at \in Crossing(b, o)
  PROVE  /\ at \in RestingOrders(b) /\ at[1] = Opposite(o.side) /\ at[2] \in Prices /\ at[2] \in Nat
         /\ at[3] \in Nat /\ at[3] \in 1 .. Len(b[at[1]][at[2]]) /\ at = <<at[1], at[2], at[3]>>
         /\ OrderAt(b, at) = b[at[1]][at[2]][at[3]]
         /\ Crosses(o.side, o.price, at[2])
<1>1. at \in RestingOrders(b) /\ at[1] = Opposite(o.side) /\ Crosses(o.side, o.price, at[2])
  BY DEF Crossing
<1>2. PICK s \in Sides, p \in Prices, i \in Nat :
           /\ i \in 1 .. Len(b[s][p]) /\ at = <<s, p, i>> /\ OrderAt(b, at) = b[s][p][i]
           /\ at[1] = s /\ at[2] = p /\ at[3] = i /\ b[s][p][i] \in Order
  BY <1>1, PlaceOf, ZenonT(60)
<1>. QED BY <1>1, <1>2, BookAssumption

\* What build_plan walks
LEMMA AheadOrder ==
  ASSUME NEW b, BookOK(b), NEW o, o.side \in Sides, NEW S, S = Crossing(b, o)
  PROVE  /\ \A x \in S : ~Ahead(x, x)
         /\ \A x, y, z \in S : Ahead(x, y) /\ Ahead(y, z) => Ahead(x, z)
         /\ \A x, y \in S : x # y => Ahead(x, y) \/ Ahead(y, x)
<1>. DEFINE s == Opposite(o.side)
<1>1. \A x \in S : x[1] = s /\ x[2] \in Nat /\ x[3] \in Nat /\ x = <<x[1], x[2], x[3]>>
  BY CrossingPlace
<1>2. s \in Sides
  BY OppositeSide
<1>. HIDE DEF s
<1>3. \A x \in S : ~Ahead(x, x)
  BY <1>1, <1>2 DEF Ahead, Better
<1>4. ASSUME NEW x \in S, NEW y \in S, NEW z \in S, Ahead(x, y), Ahead(y, z) PROVE Ahead(x, z)
  <2>1. /\ x[2] \in Nat /\ x[3] \in Nat /\ y[2] \in Nat /\ y[3] \in Nat /\ z[2] \in Nat
             /\ z[3] \in Nat
        /\ x[1] = s /\ y[1] = s
    BY <1>1
  <2>2. /\ Better(s, x[2], y[2]) \/ (x[2] = y[2] /\ x[3] < y[3])
        /\ Better(s, y[2], z[2]) \/ (y[2] = z[2] /\ y[3] < z[3])
    BY <1>4, <2>1 DEF Ahead
  <2>3. Better(s, x[2], z[2]) \/ (x[2] = z[2] /\ x[3] < z[3])
    BY <2>1, <2>2 DEF Better
  <2>. QED BY <2>1, <2>3 DEF Ahead
<1>5. ASSUME NEW x \in S, NEW y \in S, x # y PROVE Ahead(x, y) \/ Ahead(y, x)
  <2>1. /\ x[2] \in Nat /\ x[3] \in Nat /\ y[2] \in Nat /\ y[3] \in Nat /\ x[1] = s /\ y[1] = s
    BY <1>1
  <2>2. x[2] # y[2] \/ x[3] # y[3]
    <3>1. x = <<x[1], x[2], x[3]>> /\ y = <<y[1], y[2], y[3]>>
      BY <1>1, Zenon
    <3>. QED BY <1>5, <2>1, <3>1, Zenon
  <2>3. \/ Better(s, x[2], y[2]) \/ (x[2] = y[2] /\ x[3] < y[3])
        \/ Better(s, y[2], x[2]) \/ (y[2] = x[2] /\ y[3] < x[3])
    BY <2>1, <2>2 DEF Better
  <2>. QED BY <2>1, <2>3 DEF Ahead
<1>. QED BY <1>3, <1>4, <1>5

\* The makers are all the crossing orders, each once.
LEMMA MakersAre ==
  ASSUME NEW b, BookOK(b), NEW o, o.side \in Sides
  PROVE  LET S == Crossing(b, o)
             M == Makers(b, o)
         IN  /\ Len(M) \in Nat /\ DOMAIN M = 1 .. Len(M)
             /\ \A i \in 1 .. Len(M) : M[i] \in S
             /\ \A i, j \in 1 .. Len(M) : M[i] = M[j] => i = j
             /\ \A x \in S : \E i \in 1 .. Len(M) : M[i] = x
             /\ \A i, j \in 1 .. Len(M) : Ahead(M[i], M[j]) => i < j
<1>. DEFINE S == Crossing(b, o)
            M == Makers(b, o)
            n == Cardinality(S)
            B == [at \in S |-> {x \in S : Ahead(x, at)}]
<1>1. IsFiniteSet(S)
  BY RestingFinite, FS_Subset DEF Crossing
<1>2. /\ \A x \in S : ~Ahead(x, x)
      /\ \A x, y, z \in S : Ahead(x, y) /\ Ahead(y, z) => Ahead(x, z)
      /\ \A x, y \in S : x # y => Ahead(x, y) \/ Ahead(y, x)
  BY AheadOrder
<1>3. M = [i \in 1 .. n |-> CHOOSE at \in S : Cardinality({x \in S : Ahead(x, at)}) = i - 1]
  BY DEF Makers
<1>. HIDE DEF S, M
<1>4. B \in [S -> SUBSET S] /\ \A y \in S : \A x \in S : x \in B[y] <=> Ahead(x, y)
  OBVIOUS
<1>5. \A at \in S : B[at] = {x \in S : Ahead(x, at)}
  OBVIOUS
<1>. HIDE DEF B
<1>6. /\ \A x \in S : x \notin B[x]
      /\ \A x, y \in S : x \in B[y] => B[x] \subseteq B[y]
      /\ \A x, y \in S : x # y => x \in B[y] \/ y \in B[x]
  <2>1. ASSUME NEW x \in S, NEW y \in S, x \in B[y], NEW z \in B[x] PROVE z \in B[y]
    <3>1. z \in S /\ Ahead(z, x) /\ Ahead(x, y)
      BY <1>4, <2>1
    <3>. QED BY <1>2, <1>4, <3>1
  <2>. QED BY <1>2, <1>4, <2>1
<1>7. /\ n \in Nat
      /\ \A x \in S : Cardinality(B[x]) \in Nat /\ Cardinality(B[x]) < n
      /\ \A x, y \in S : x \in B[y] => Cardinality(B[x]) < Cardinality(B[y])
      /\ \A x, y \in S : Cardinality(B[x]) = Cardinality(B[y]) => x = y
      /\ \A k \in 0 .. n - 1 : \E x \in S : Cardinality(B[x]) = k
  BY <1>1, <1>4, <1>6, Ranks
<1>. HIDE DEF n
<1>8. ASSUME NEW i \in 1 .. n PROVE M[i] \in S /\ Cardinality(B[M[i]]) = i - 1
  <2>1. i - 1 \in 0 .. n - 1
    BY <1>7
  <2>2. \E x \in S : Cardinality({y \in S : Ahead(y, x)}) = i - 1
    BY <1>5, <1>7, <2>1
  <2>3. M[i] = CHOOSE at \in S : Cardinality({x \in S : Ahead(x, at)}) = i - 1
    BY <1>3
  <2>4. M[i] \in S /\ Cardinality({x \in S : Ahead(x, M[i])}) = i - 1
    BY <2>2, <2>3
  <2>. QED BY <1>5, <2>4
<1>9. M \in Seq(S) /\ Len(M) = n /\ DOMAIN M = 1 .. n
  <2>1. DOMAIN M = 1 .. n /\ M \in [1 .. n -> S]
    BY <1>3, <1>8
  <2>2. M \in Seq(S)
    BY <1>7, <2>1
  <2>. QED BY <1>7, <2>1, <2>2
<1>10. ASSUME NEW i \in 1 .. n, NEW j \in 1 .. n, M[i] = M[j] PROVE i = j
  <2>1. i - 1 = j - 1
    BY <1>8, <1>10
  <2>. QED BY <1>7, <2>1
<1>11. ASSUME NEW x \in S PROVE \E i \in 1 .. n : M[i] = x
  <2>. DEFINE i == Cardinality(B[x]) + 1
  <2>1. i \in 1 .. n /\ i - 1 = Cardinality(B[x])
    BY <1>7
  <2>2. M[i] \in S /\ Cardinality(B[M[i]]) = Cardinality(B[x])
    BY <1>8, <2>1
  <2>3. M[i] = x
    BY <1>7, <2>2
  <2>. QED BY <2>1, <2>3
<1>12. ASSUME NEW i \in 1 .. n, NEW j \in 1 .. n, Ahead(M[i], M[j]) PROVE i < j
  <2>1. M[i] \in S /\ M[j] \in S /\ Cardinality(B[M[i]]) = i - 1 /\ Cardinality(B[M[j]]) = j - 1
    BY <1>8
  <2>2. M[i] \in B[M[j]]
    BY <1>4, <1>12, <2>1
  <2>3. i - 1 < j - 1
    BY <1>7, <2>1, <2>2
  <2>. QED BY <1>7, <2>3
<1>. QED BY <1>7, <1>8, <1>9, <1>10, <1>11, <1>12 DEF S, M

\* A set of naturals with every smaller one is an interval.
LEMMA DownClosed ==
  ASSUME NEW N \in Nat, NEW U \in SUBSET (1 .. N), \A i \in U : \A j \in 1 .. i : j \in U
  PROVE  Cardinality(U) \in Nat /\ Cardinality(U) <= N /\ U = 1 .. Cardinality(U)
<1>. DEFINE V == {i \in 1 .. N + 1 : i \notin U}
<1>1. PICK m \in V : \A k \in V : m <= k
  <2>1. N + 1 \in V
    OBVIOUS
  <2>2. V \in SUBSET Nat /\ V # {}
    BY <2>1
  <2>. HIDE DEF V
  <2>. QED BY <2>2, HasMinimum
<1>2. m \in Nat /\ m - 1 \in Nat /\ m - 1 <= N /\ m - 1 \in Int /\ 1 \in Int
  OBVIOUS
<1>3. U = 1 .. m - 1
  <2>1. ASSUME NEW i \in U PROVE i \in 1 .. m - 1
    <3>1. i \in 1 .. N /\ m \notin 1 .. i
      BY <1>1
    <3>. QED BY <1>2, <3>1
  <2>2. ASSUME NEW i \in 1 .. m - 1 PROVE i \in U
    <3>1. i \in 1 .. N + 1 /\ ~(m <= i)
      BY <1>2
    <3>. QED BY <1>1, <3>1
  <2>. QED BY <2>1, <2>2
<1>4. Cardinality(1 .. m - 1) = m - 1
  <2>1. Cardinality(1 .. m - 1) = IF 1 > m - 1 THEN 0 ELSE (m - 1) - 1 + 1
    BY <1>2, FS_Interval
  <2>. QED BY <1>2, <2>1
<1>. QED BY <1>2, <1>3, <1>4

\* What is left shrinks by each maker in turn; f stands for LeftAfter, q for the makers' quantities.
Walk(f, q, N, total) ==
  /\ N \in Nat /\ total \in Nat /\ f[0] = total
  /\ \A i \in 1 .. N : q[i] \in Nat /\ q[i] > 0 /\ f[i] = f[i - 1] - Least(f[i - 1], q[i])

LEMMA LeastIs ==
  ASSUME NEW m \in Nat, NEW n \in Nat
  PROVE  /\ Least(m, n) \in Nat /\ Least(m, n) <= m /\ Least(m, n) <= n
         /\ m > 0 /\ n > 0 => Least(m, n) > 0
         /\ m - Least(m, n) \in Nat /\ m - Least(m, n) <= m
         /\ m - Least(m, n) > 0 => Least(m, n) = n
BY DEF Least

\* What is left is never negative.
LEMMA WalkTyped ==
  ASSUME NEW f, NEW q, NEW N, NEW total, Walk(f, q, N, total)
  PROVE  \A i \in 0 .. N : f[i] \in Nat
<1>. DEFINE T == {k \in Nat : k <= N => f[k] \in Nat}
<1>1. 0 \in T
  BY DEF Walk
<1>2. ASSUME NEW k \in Nat, k \in T PROVE k + 1 \in T
  <2>1. CASE ~(k + 1 <= N)
    BY <2>1
  <2>2. CASE k + 1 <= N
    <3>1. k <= N /\ k + 1 \in 1 .. N /\ (k + 1) - 1 = k
      BY <2>2 DEF Walk
    <3>2. f[k] \in Nat
      BY <1>2, <3>1
    <3>3. q[k + 1] \in Nat /\ f[k + 1] = f[k] - Least(f[k], q[k + 1])
      BY <3>1 DEF Walk
    <3>4. f[k + 1] \in Nat
      BY <3>2, <3>3, LeastIs
    <3>. QED BY <3>4
  <2>. QED BY <2>1, <2>2
<1>. HIDE DEF T
<1>3. \A k \in Nat : k \in T
  BY <1>1, <1>2, SetInduction
<1>. QED BY <1>3 DEF T, Walk

LEMMA WalkShrinks ==
  ASSUME NEW f, NEW q, NEW N, NEW total, Walk(f, q, N, total)
  PROVE  \A i, j \in 0 .. N : i <= j => f[j] <= f[i]
<1>0. N \in Nat /\ \A i \in 0 .. N : f[i] \in Nat
  BY WalkTyped DEF Walk
<1>. DEFINE T == {k \in Nat : k <= N => \A i \in 0 .. k : f[k] <= f[i]}
<1>1. 0 \in T
  <2>1. 0 \in 0 .. N
    BY <1>0
  <2>2. \A i \in 0 .. 0 : f[0] <= f[i]
    BY <1>0, <2>1
  <2>. QED BY <2>2
<1>2. ASSUME NEW k \in Nat, k \in T PROVE k + 1 \in T
  <2>1. CASE ~(k + 1 <= N)
    BY <2>1
  <2>2. CASE k + 1 <= N
    <3>1. k <= N /\ k + 1 \in 1 .. N /\ (k + 1) - 1 = k /\ k \in 0 .. N /\ k + 1 \in 0 .. N
      BY <1>0, <2>2
    <3>2. f[k] \in Nat /\ f[k + 1] \in Nat
      BY <1>0, <3>1
    <3>3. q[k + 1] \in Nat /\ f[k + 1] = f[k] - Least(f[k], q[k + 1])
      BY <3>1 DEF Walk
    <3>. DEFINE m == f[k]
                n == q[k + 1]
    <3>4. f[k + 1] <= f[k]
      <4>1. m \in Nat /\ n \in Nat /\ f[k + 1] = m - Least(m, n)
        BY <3>2, <3>3
      <4>. HIDE DEF m, n
      <4>2. m - Least(m, n) <= m
        BY <4>1, LeastIs
      <4>. QED BY <4>1, <4>2 DEF m
    <3>5. \A i \in 0 .. k : f[k] <= f[i]
      BY <1>2, <3>1
    <3>6. ASSUME NEW i \in 0 .. k + 1 PROVE f[k + 1] <= f[i]
      <4>1. i = k + 1 \/ i \in 0 .. k
        OBVIOUS
      <4>2. CASE i = k + 1
        BY <3>2, <4>2
      <4>3. CASE i \in 0 .. k
        <5>1. f[k] <= f[i] /\ f[i] \in Nat
          BY <1>0, <3>1, <3>5, <4>3
        <5>. QED BY <3>2, <3>4, <5>1
      <4>. QED BY <4>1, <4>2, <4>3
    <3>. QED BY <3>6
  <2>. QED BY <2>1, <2>2
<1>. HIDE DEF T
<1>3. \A k \in Nat : k \in T
  BY <1>1, <1>2, SetInduction
<1>4. ASSUME NEW i \in 0 .. N, NEW j \in 0 .. N, i <= j PROVE f[j] <= f[i]
  <2>1. j \in Nat /\ j <= N /\ i \in 0 .. j
    BY <1>0, <1>4
  <2>. QED BY <1>3, <2>1 DEF T
<1>. QED BY <1>4

\* The makers that trade are the first ones, all but the last in full.
LEMMA WalkUses ==
  ASSUME NEW f, NEW q, NEW N, NEW total, Walk(f, q, N, total),
         NEW used, used = Cardinality({i \in 1 .. N : f[i - 1] > 0})
  PROVE  /\ used \in Nat /\ used <= N
         /\ \A i \in 1 .. used : f[i - 1] > 0
         /\ f[used] > 0 => used = N
         /\ \A i \in 1 .. N : f[i] > 0 => Least(f[i - 1], q[i]) = q[i]
<1>. DEFINE U == {i \in 1 .. N : f[i - 1] > 0}
<1>0. N \in Nat /\ \A i \in 0 .. N : f[i] \in Nat
  BY WalkTyped DEF Walk
<1>1. ASSUME NEW i \in U, NEW j \in 1 .. i PROVE j \in U
  <2>1. j \in 1 .. N /\ j - 1 \in 0 .. N /\ i - 1 \in 0 .. N /\ j - 1 <= i - 1
    BY <1>0
  <2>2. f[i - 1] <= f[j - 1] /\ f[j - 1] \in Nat /\ f[i - 1] \in Nat /\ f[i - 1] > 0
    BY <1>0, <2>1, WalkShrinks
  <2>3. f[j - 1] > 0
    BY <2>2
  <2>. QED BY <2>1, <2>3
<1>2. U \in SUBSET (1 .. N) /\ used = Cardinality(U)
  OBVIOUS
<1>. HIDE DEF U
<1>3. used \in Nat /\ used <= N /\ U = 1 .. used
  BY <1>0, <1>1, <1>2, DownClosed
<1>4. \A i \in 1 .. used : f[i - 1] > 0
  BY <1>3 DEF U
<1>5. ASSUME f[used] > 0, used # N PROVE FALSE
  <2>1. used + 1 \in 1 .. N /\ (used + 1) - 1 = used /\ used + 1 \notin 1 .. used
    BY <1>0, <1>3, <1>5
  <2>2. used + 1 \in U
    BY <1>5, <2>1 DEF U
  <2>. QED BY <1>3, <2>1, <2>2
<1>6. ASSUME NEW i \in 1 .. N, f[i] > 0 PROVE Least(f[i - 1], q[i]) = q[i]
  <2>1. i - 1 \in 0 .. N
    BY <1>0
  <2>2. f[i - 1] \in Nat /\ q[i] \in Nat /\ f[i] = f[i - 1] - Least(f[i - 1], q[i])
    BY <1>0, <2>1 DEF Walk
  <2>3. f[i - 1] - Least(f[i - 1], q[i]) > 0
    BY <1>6, <2>2
  <2>. QED BY <2>2, <2>3, LeastIs
<1>. QED BY <1>3, <1>4, <1>5, <1>6

-----------------------------------------------------------------------------
(* The makers in their order: the orders xs and their prices ps.           *)
Queue(b, o, N, xs, ps) ==
  /\ N \in Nat
  /\ \A i \in 1 .. N :
       /\ ps[i] \in Prices /\ xs[i] \in Order /\ xs[i].quantity \in Nat /\ xs[i].quantity > 0
       /\ In(b, Opposite(o.side), ps[i], xs[i]) /\ Crosses(o.side, o.price, ps[i])
  /\ \A i, j \in 1 .. N : xs[i].id = xs[j].id => i = j
  /\ \A p \in Prices, x \in Order :
       In(b, Opposite(o.side), p, x) /\ Crosses(o.side, o.price, p) => \E i \in 1 .. N : xs[i] = x
  /\ \A i, j \in 1 .. N :
       Better(Opposite(o.side), ps[j], ps[i]) \/ (ps[j] = ps[i] /\ xs[j].sequence < xs[i].sequence)
         => j < i

\* A level holds its orders in the order of their sequences.
LEMMA LevelInOrder ==
  ASSUME NEW level \in Seq(Order), LevelOK(level), NEW i \in 1 .. Len(level),
         NEW j \in 1 .. Len(level),
         level[i].sequence < level[j].sequence
  PROVE  i < j
<1>1. Len(level) \in Nat /\ level[i].sequence \in Nat /\ level[j].sequence \in Nat
  BY OrderFields
<1>2. j < i => level[j].sequence < level[i].sequence
  BY DEF LevelOK
<1>3. i \in Nat /\ j \in Nat /\ (i = j => level[i].sequence = level[j].sequence)
  BY <1>1
<1>. QED BY <1>1, <1>2, <1>3

LEMMA QueueIs ==
  ASSUME NEW b, BookOK(b), NEW o, o.side \in Sides
  PROVE  LET M == Makers(b, o)
         IN  Queue(b, o, Len(M), [i \in 1 .. Len(M) |-> OrderAt(b, M[i])],
           [i \in 1 .. Len(M) |-> M[i][2]])
<1>. DEFINE S == Crossing(b, o)
            M == Makers(b, o)
            N == Len(M)
            xs == [i \in 1 .. N |-> OrderAt(b, M[i])]
            ps == [i \in 1 .. N |-> M[i][2]]
            s == Opposite(o.side)
<1>1. /\ Len(M) \in Nat /\ DOMAIN M = 1 .. Len(M)
      /\ \A i \in 1 .. Len(M) : M[i] \in S
      /\ \A i, j \in 1 .. Len(M) : M[i] = M[j] => i = j
      /\ \A x \in S : \E i \in 1 .. Len(M) : M[i] = x
      /\ \A i, j \in 1 .. Len(M) : Ahead(M[i], M[j]) => i < j
  BY MakersAre
<1>2. s \in Sides
  BY OppositeSide
<1>3. \A i \in 1 .. N : xs[i] = OrderAt(b, M[i]) /\ ps[i] = M[i][2]
  OBVIOUS
<1>. HIDE DEF M, xs, ps, s
<1>4. ASSUME NEW i \in 1 .. N
      PROVE  \E k \in Nat :
               /\ M[i] \in RestingOrders(b) /\ M[i] = <<s, ps[i], k>> /\ M[i][1] = s /\ M[i][2]
                    = ps[i] /\ M[i][3] = k
               /\ k \in 1 .. Len(b[s][ps[i]]) /\ xs[i] = b[s][ps[i]][k] /\ ps[i] \in Prices
               /\ Crosses(o.side, o.price, ps[i])
  <2>. DEFINE at == M[i]
  <2>1. at \in Crossing(b, o)
    BY <1>1
  <2>. HIDE DEF at
  <2>2. /\ at \in RestingOrders(b) /\ at[1] = Opposite(o.side) /\ at[2] \in Prices /\ at[2] \in Nat
         /\ at[3] \in Nat /\ at[3] \in 1 .. Len(b[at[1]][at[2]]) /\ at = <<at[1], at[2], at[3]>>
         /\ OrderAt(b, at) = b[at[1]][at[2]][at[3]]
         /\ Crosses(o.side, o.price, at[2])
    BY <2>1, CrossingPlace
  <2>3. at[1] = s /\ at[2] = ps[i] /\ xs[i] = OrderAt(b, at)
    BY <1>3, <2>2 DEF s, at
  <2>. DEFINE k == at[3]
  <2>4. /\ k \in Nat /\ at \in RestingOrders(b) /\ at = <<s, ps[i], k>> /\ at[1] = s /\ at[2]
             = ps[i] /\ at[3] = k
        /\ k \in 1 .. Len(b[s][ps[i]]) /\ xs[i] = b[s][ps[i]][k] /\ ps[i] \in Prices
        /\ Crosses(o.side, o.price, ps[i])
    BY <2>2, <2>3
  <2>. HIDE DEF k
  <2>. QED BY <2>4, Zenon DEF at
<1>5. ASSUME NEW i \in 1 .. N
      PROVE  /\ ps[i] \in Prices /\ xs[i] \in Order /\ xs[i].quantity \in Nat /\ xs[i].quantity > 0
             /\ In(b, s, ps[i], xs[i]) /\ Crosses(o.side, o.price, ps[i])
  <2>1. PICK k \in Nat : k \in 1 .. Len(b[s][ps[i]]) /\ xs[i] = b[s][ps[i]][k] /\ ps[i] \in Prices
               /\ Crosses(o.side, o.price, ps[i])
    BY <1>4, Zenon
  <2>2. In(b, s, ps[i], xs[i])
    BY <2>1 DEF In
  <2>. QED BY <1>2, <2>1, <2>2, InTyped
<1>6. ASSUME NEW i \in 1 .. N, NEW j \in 1 .. N, xs[i].id = xs[j].id PROVE i = j
  <2>1. PICK k \in Nat : M[i] = <<s, ps[i], k>> /\ k \in 1 .. Len(b[s][ps[i]]) /\ xs[i]
             = b[s][ps[i]][k] /\ ps[i] \in Prices
    BY <1>4, Zenon
  <2>2. PICK h \in Nat : M[j] = <<s, ps[j], h>> /\ h \in 1 .. Len(b[s][ps[j]]) /\ xs[j]
             = b[s][ps[j]][h] /\ ps[j] \in Prices
    BY <1>4, Zenon
  <2>3. b[s][ps[i]][k].id = b[s][ps[j]][h].id
    BY <1>6, <2>1, <2>2
  <2>4. ps[i] = ps[j] /\ k = h
    <3>. DEFINE p == ps[i] q == ps[j]
    <3>1. /\ p \in Prices /\ q \in Prices /\ k \in 1 .. Len(b[s][p]) /\ h \in 1 .. Len(b[s][q])
          /\ b[s][p][k].id = b[s][q][h].id \/ b[s][p][k].sequence = b[s][q][h].sequence
      BY <2>1, <2>2, <2>3
    <3>2. Apart(b)
      BY DEF BookOK
    <3>. HIDE DEF p, q
    <3>3. p = q /\ k = h
      BY <1>2, <3>1, <3>2, ApartAt
    <3>. QED BY <3>3 DEF p, q
  <2>5. M[i] = M[j]
    BY <2>1, <2>2, <2>4, Zenon
  <2>. QED BY <1>1, <2>5
<1>7. ASSUME NEW p \in Prices, NEW x \in Order, In(b, s, p, x), Crosses(o.side, o.price, p)
      PROVE  \E i \in 1 .. N : xs[i] = x
  <2>1. PICK at \in RestingOrders(b) : at[1] = s /\ at[2] = p /\ OrderAt(b, at) = x
    BY <1>2, <1>7, PlaceIn
  <2>2. at \in S
    BY <1>7, <2>1 DEF Crossing, s
  <2>3. PICK i \in 1 .. N : M[i] = at
    BY <1>1, <2>2
  <2>. QED BY <1>3, <2>1, <2>3
<1>8. ASSUME NEW i \in 1 .. N, NEW j \in 1 .. N,
             Better(s, ps[j], ps[i]) \/ (ps[j] = ps[i] /\ xs[j].sequence < xs[i].sequence)
      PROVE  j < i
  <2>1. PICK k \in Nat : /\ M[i][1] = s /\ M[i][2] = ps[i] /\ M[i][3] = k
                         /\ k \in 1 .. Len(b[s][ps[i]]) /\ xs[i] = b[s][ps[i]][k]
                              /\ ps[i] \in Prices
    BY <1>4, Zenon
  <2>2. PICK h \in Nat : /\ M[j][1] = s /\ M[j][2] = ps[j] /\ M[j][3] = h
                         /\ h \in 1 .. Len(b[s][ps[j]]) /\ xs[j] = b[s][ps[j]][h]
                              /\ ps[j] \in Prices
    BY <1>4, Zenon
  <2>3. CASE Better(s, ps[j], ps[i])
    <3>1. Ahead(M[j], M[i])
      BY <2>1, <2>2, <2>3 DEF Ahead
    <3>. QED BY <1>1, <3>1
  <2>4. CASE ps[j] = ps[i] /\ xs[j].sequence < xs[i].sequence
    <3>. DEFINE level == b[s][ps[i]]
    <3>1. level \in Seq(Order) /\ LevelOK(level) /\ k \in 1 .. Len(level) /\ h \in 1 .. Len(level)
          /\ level[h].sequence < level[k].sequence
      BY <1>2, <2>1, <2>2, <2>4, LevelTyped DEF BookOK
    <3>. HIDE DEF level
    <3>2. h < k
      BY <3>1, LevelInOrder
    <3>3. Ahead(M[j], M[i])
      BY <2>1, <2>2, <2>4, <3>2 DEF Ahead
    <3>. QED BY <1>1, <3>3
  <2>. QED BY <1>8, <2>3, <2>4
<1>9. Queue(b, o, N, xs, ps)
  BY <1>1, <1>5, <1>6, <1>7, <1>8 DEF Queue, s
<1>. QED BY <1>9 DEF xs, ps, M

LEMMA CrossesBetter ==
  ASSUME NEW s \in Sides, NEW limit \in Int, NEW p \in Prices, NEW q \in Prices,
         Crosses(s, limit, p), Better(Opposite(s), q, p)
  PROVE  Crosses(s, limit, q)
<1>1. p \in Nat /\ q \in Nat
  BY BookAssumption
<1>. QED BY <1>1 DEF Crosses, Better, Opposite, Sides

\* The walk over the makers is a plan.
LEMMA QueuePlan ==
  ASSUME NEW b, BookOK(b), NEW o, o.side \in Sides, o.price \in Int,
         NEW N, NEW xs, NEW ps, Queue(b, o, N, xs, ps),
         NEW f, NEW q, \A i \in 1 .. N : q[i] = xs[i].quantity, Walk(f, q, N, o.quantity),
         NEW used, used = Cardinality({i \in 1 .. N : f[i - 1] > 0}),
         NEW fills, Len(fills) = used, DOMAIN fills = 1 .. used,
         \A i \in 1 .. used : /\ fills[i].id = xs[i].id /\ fills[i].price = ps[i]
                              /\ fills[i].quantity = Least(f[i - 1], q[i])
  PROVE  IsPlan(b, o, fills, f)
<1>. DEFINE s == Opposite(o.side)
<1>0. s \in Sides
  BY OppositeSide
<1>1. N \in Nat /\ (\A i \in 0 .. N : f[i] \in Nat) /\ f[0] = o.quantity
  BY WalkTyped DEF Walk
<1>2. /\ used \in Nat /\ used <= N
      /\ \A i \in 1 .. used : f[i - 1] > 0
      /\ f[used] > 0 => used = N
      /\ \A i \in 1 .. N : f[i] > 0 => Least(f[i - 1], q[i]) = q[i]
  BY WalkUses
<1>3. \A i \in 1 .. used : i \in 1 .. N /\ i \in Nat /\ i - 1 \in 0 .. N /\ i \in 0 .. N
  BY <1>1, <1>2
<1>4. /\ \A i \in 1 .. N :
           /\ ps[i] \in Prices /\ xs[i] \in Order /\ xs[i].quantity \in Nat /\ xs[i].quantity > 0
           /\ In(b, s, ps[i], xs[i]) /\ Crosses(o.side, o.price, ps[i])
      /\ \A i, j \in 1 .. N : xs[i].id = xs[j].id => i = j
      /\ \A p \in Prices, x \in Order :
           In(b, s, p, x) /\ Crosses(o.side, o.price, p) => \E i \in 1 .. N : xs[i] = x
      /\ \A i, j \in 1 .. N :
           Better(s, ps[j], ps[i]) \/ (ps[j] = ps[i] /\ xs[j].sequence < xs[i].sequence) => j < i
  BY DEF Queue
<1>. HIDE DEF s
<1>5. ASSUME NEW i \in 1 .. used
      PROVE  /\ fills[i].quantity \in Nat /\ fills[i].quantity > 0
                  /\ fills[i].quantity <= xs[i].quantity
             /\ f[i] = f[i - 1] - fills[i].quantity
  <2>. DEFINE m == f[i - 1] n == q[i]
  <2>1. i \in 1 .. N /\ i - 1 \in 0 .. N
    BY <1>3
  <2>2. m \in Nat /\ m > 0 /\ n \in Nat /\ n > 0 /\ n = xs[i].quantity /\ fills[i].quantity
        = Least(m, n) /\ f[i] = m - Least(m, n)
    <3>1. n \in Nat /\ n > 0 /\ f[i] = m - Least(m, n)
      BY <2>1 DEF Walk
    <3>2. m \in Nat /\ m > 0
      BY <1>1, <1>2, <2>1
    <3>3. n = xs[i].quantity /\ fills[i].quantity = Least(m, n)
      BY <2>1
    <3>. QED BY <3>1, <3>2, <3>3
  <2>. HIDE DEF m, n
  <2>3. Least(m, n) \in Nat /\ Least(m, n) > 0 /\ Least(m, n) <= n
    BY <2>2, LeastIs
  <2>. QED BY <2>2, <2>3 DEF m
<1>6. ASSUME NEW i \in 1 .. used PROVE MakerOf(b, o, fills[i], ps[i], xs[i]) /\ ps[i] \in Prices
             /\ xs[i] \in Order
  BY <1>3, <1>4, <1>5 DEF MakerOf, s
<1>7. ASSUME NEW i \in 1 .. used, NEW j \in 1 .. used, fills[i].id = fills[j].id PROVE i = j
  BY <1>3, <1>4, <1>7, SMTT(20)
\* A maker after which something is left is used up.
<1>8. ASSUME NEW j \in 1 .. N, f[j] > 0 PROVE j \in 1 .. used /\ UsedUp(fills, xs[j])
  <2>1. j \in 1 .. used
    <3>1. f[used] > 0 => used = N
      BY <1>2
    <3>2. CASE j > used
      <4>1. used \in 0 .. N /\ j \in 0 .. N /\ used <= j
        BY <1>1, <1>2, <3>2
      <4>2. f[j] <= f[used] /\ f[j] \in Nat /\ f[used] \in Nat
        BY <1>1, <4>1, WalkShrinks
      <4>3. used = N
        BY <1>8, <3>1, <4>2
      <4>. QED BY <1>1, <3>2, <4>3
    <3>. QED BY <1>1, <1>2, <3>2
  <2>2. fills[j].id = xs[j].id /\ fills[j].quantity = xs[j].quantity
    BY <1>2, <1>8, <2>1
  <2>. QED BY <2>1, <2>2 DEF UsedUp
<1>9. ASSUME f[used] > 0, NEW p \in Prices, NEW x \in Order, In(b, s, p, x),
             Crosses(o.side, o.price, p)
      PROVE  UsedUp(fills, x)
  <2>1. PICK i \in 1 .. N : xs[i] = x
    BY <1>4, <1>9
  <2>2. used = N /\ N \in 0 .. N /\ i \in 0 .. N /\ i <= N
    BY <1>1, <1>2, <1>9
  <2>3. f[N] <= f[i] /\ f[N] \in Nat /\ f[i] \in Nat
    BY <1>1, <2>2, WalkShrinks
  <2>4. f[i] > 0
    BY <1>9, <2>2, <2>3
  <2>. QED BY <1>8, <2>1, <2>4
<1>10. ASSUME NEW i \in 1 .. used, NEW p \in Prices, NEW t \in Prices, NEW x \in Order,
              NEW y \in Order,
              MakerOf(b, o, fills[i], p, x), In(b, s, t, y),
              Better(s, t, p) \/ (t = p /\ y.sequence < x.sequence)
       PROVE  UsedUp(fills, y)
  <2>1. p = ps[i] /\ x = xs[i]
    <3>1. In(b, s, p, x) /\ In(b, s, ps[i], xs[i]) /\ x.id = xs[i].id /\ ps[i] \in Prices
      BY <1>6, <1>10 DEF MakerOf, s
    <3>. QED BY <1>0, <3>1, InUnique
  <2>2. Crosses(o.side, o.price, t)
    <3>1. Crosses(o.side, o.price, p)
      BY <1>10 DEF MakerOf
    <3>2. CASE Better(s, t, p)
      BY <3>1, <3>2, CrossesBetter DEF s
    <3>3. CASE t = p
      BY <3>1, <3>3
    <3>. QED BY <1>10, <3>2, <3>3
  <2>3. PICK j \in 1 .. N : xs[j] = y
    BY <1>4, <1>10, <2>2
  <2>4. t = ps[j]
    <3>1. In(b, s, ps[j], xs[j]) /\ ps[j] \in Prices
      BY <1>4
    <3>. QED BY <1>0, <1>10, <2>3, <3>1, InUnique
  <2>5. j < i
    BY <1>3, <1>4, <1>10, <2>1, <2>3, <2>4
  <2>6. j \in 0 .. N /\ i - 1 \in 0 .. N /\ j <= i - 1
    BY <1>1, <1>3, <2>5
  <2>7. f[i - 1] <= f[j] /\ f[j] \in Nat /\ f[i - 1] \in Nat /\ f[i - 1] > 0
    BY <1>1, <1>2, <2>6, WalkShrinks
  <2>8. f[j] > 0
    BY <2>7
  <2>. QED BY <1>8, <2>3, <2>8
<1>11. \A i \in 1 .. used :
         /\ fills[i].quantity \in Nat /\ fills[i].quantity > 0
         /\ f[i] = f[i - 1] - fills[i].quantity
         /\ \E p \in Prices, x \in Order : MakerOf(b, o, fills[i], p, x)
  BY <1>5, <1>6
<1>12. \A i \in 0 .. used : f[i] \in Nat
  BY <1>1, <1>2
<1>. QED BY <1>1, <1>2, <1>7, <1>9, <1>10, <1>11, <1>12 DEF IsPlan, s

LEMMA FillFields ==
  ASSUME NEW b, NEW at, NEW n
  PROVE  Fill(b, at, n).id = OrderAt(b, at).id /\ Fill(b, at, n).price = at[2]
    /\ Fill(b, at, n).quantity = n
BY DEF Fill

\* build_plan makes a plan.
LEMMA PlanFillsIsPlan ==
  ASSUME NEW b, BookOK(b), NEW o, o.side \in Sides, o.price \in Int, o.quantity \in Nat
  PROVE  \E left : IsPlan(b, o, PlanFills(b, o), left)
<1>. DEFINE M == Makers(b, o)
            N == Len(M)
            xs == [i \in 1 .. N |-> OrderAt(b, M[i])]
            ps == [i \in 1 .. N |-> M[i][2]]
            q == [i \in 1 .. N |-> OrderAt(b, M[i]).quantity]
            f == LeftAfter(b, M, o.quantity)
            used == Cardinality({i \in 1 .. N : f[i - 1] > 0})
            fills == PlanFills(b, o)
<1>1. Queue(b, o, N, xs, ps)
  BY QueueIs
<1>2. N \in Nat /\ DOMAIN M = 1 .. N
  BY MakersAre
<1>3. f = [i \in 0 .. N |-> IF i = 0 THEN o.quantity
      ELSE f[i - 1] - Least(f[i - 1], OrderAt(b, M[i]).quantity)]
  BY <1>2, LeftSteps
<1>4. \A i \in 1 .. N : q[i] = OrderAt(b, M[i]).quantity /\ xs[i] = OrderAt(b, M[i]) /\ ps[i]
      = M[i][2]
  OBVIOUS
<1>5. fills = [i \in 1 .. used |-> Fill(b, M[i], Least(f[i - 1], OrderAt(b, M[i]).quantity))]
  BY <1>2 DEF PlanFills
<1>. HIDE DEF M, N, xs, ps, q, f, fills
<1>6. Walk(f, q, N, o.quantity)
  <2>1. f[0] = o.quantity
    <3>1. 0 \in 0 .. N
      BY <1>2
    <3>. QED BY <1>3, <3>1
  <2>2. ASSUME NEW i \in 1 .. N
        PROVE  q[i] \in Nat /\ q[i] > 0 /\ f[i] = f[i - 1] - Least(f[i - 1], q[i])
    <3>1. i \in 0 .. N /\ i # 0
      BY <1>2
    <3>2. f[i] = f[i - 1] - Least(f[i - 1], OrderAt(b, M[i]).quantity)
      <4>1. f[i] = IF i = 0 THEN o.quantity
            ELSE f[i - 1] - Least(f[i - 1], OrderAt(b, M[i]).quantity)
        BY <1>3, <3>1
      <4>. QED BY <3>1, <4>1
    <3>3. xs[i].quantity \in Nat /\ xs[i].quantity > 0
      BY <1>1 DEF Queue
    <3>. QED BY <1>4, <3>2, <3>3
  <2>. QED BY <1>2, <2>1, <2>2 DEF Walk
<1>7. used \in Nat /\ used <= N
  BY <1>6, WalkUses
<1>8. \A i \in 1 .. N : q[i] = xs[i].quantity
  BY <1>4
<1>9. used = Cardinality({i \in 1 .. N : f[i - 1] > 0})
  OBVIOUS
<1>. HIDE DEF used
<1>10. Len(fills) = used /\ DOMAIN fills = 1 .. used
  <2>1. DOMAIN fills = 1 .. used
    BY <1>5
  <2>2. Len(fills) = used
    BY <1>5, <1>7
  <2>. QED BY <2>1, <2>2
<1>11. ASSUME NEW i \in 1 .. used
       PROVE  fills[i].id = xs[i].id /\ fills[i].price = ps[i] /\ fills[i].quantity
         = Least(f[i - 1], q[i])
  <2>1. i \in 1 .. N
    BY <1>2, <1>7
  <2>2. fills[i] = Fill(b, M[i], Least(f[i - 1], OrderAt(b, M[i]).quantity))
    BY <1>5
  <2>. QED BY <1>4, <2>1, <2>2, FillFields
<1>12. IsPlan(b, o, fills, f)
  BY <1>1, <1>6, <1>8, <1>9, <1>10, <1>11, QueuePlan, SMTT(40)
<1>. QED BY <1>12 DEF fills

-----------------------------------------------------------------------------
(* The best price, and the fast path.                                      *)
LEMMA HasMaximum ==
  ASSUME NEW D \in SUBSET Nat, IsFiniteSet(D), D # {}
  PROVE  \E m \in D : \A k \in D : k <= m
<1>. DEFINE T == {S \in SUBSET D : S # {} => \E m \in S : \A k \in S : k <= m}
<1>1. {} \in T
  OBVIOUS
<1>2. ASSUME NEW S \in SUBSET D, S # {}, \A x \in S : S \ {x} \in T PROVE S \in T
  <2>1. PICK x \in S : TRUE
    BY <1>2
  <2>2. CASE S \ {x} = {}
    <3>1. \A k \in S : k <= x
      BY <2>2
    <3>. QED BY <3>1
  <2>3. CASE S \ {x} # {}
    <3>1. PICK m \in S \ {x} : \A k \in S \ {x} : k <= m
      BY <1>2, <2>1, <2>3
    <3>2. CASE x <= m
      <4>1. \A k \in S : k <= m
        BY <3>1, <3>2
      <4>. QED BY <4>1
    <3>3. CASE m <= x
      <4>1. \A k \in S : k <= x
        BY <3>1, <3>3
      <4>. QED BY <4>1
    <3>4. x <= m \/ m <= x
      BY <3>1
    <3>. QED BY <3>2, <3>3, <3>4
  <2>. QED BY <2>2, <2>3
<1>. HIDE DEF T
<1>3. D \in T
  BY <1>1, <1>2, FiniteInduction
<1>. QED BY <1>3 DEF T

\* The best price is better than every other.
LEMMA BestIs ==
  ASSUME NEW b, NEW s \in Sides, LevelPrices(b, s) # {}
  PROVE  /\ Best(b, s) \in LevelPrices(b, s) /\ Best(b, s) \in Prices
         /\ \A q \in LevelPrices(b, s) : q = Best(b, s) \/ Better(s, Best(b, s), q)
<1>. DEFINE L == LevelPrices(b, s)
<1>1. L \in SUBSET Prices /\ L \in SUBSET Nat /\ IsFiniteSet(L)
  BY BookAssumption, FS_Subset DEF LevelPrices
<1>2. Best(b, s) = CHOOSE p \in L : \A q \in L \ {p} : Better(s, p, q)
  BY DEF Best
<1>3. L # {}
  OBVIOUS
<1>. HIDE DEF L
<1>4. \E p \in L : \A q \in L \ {p} : Better(s, p, q)
  <2>1. CASE s = "Buy"
    <3>1. PICK m \in L : \A k \in L : k <= m
      BY <1>1, <1>3, HasMaximum
    <3>2. \A q \in L \ {m} : Better(s, m, q)
      BY <1>1, <2>1, <3>1 DEF Better
    <3>. QED BY <3>2
  <2>2. CASE s # "Buy"
    <3>1. PICK m \in L : \A k \in L : m <= k
      BY <1>1, <1>3, HasMinimum
    <3>2. \A q \in L \ {m} : Better(s, m, q)
      BY <1>1, <2>2, <3>1 DEF Better
    <3>. QED BY <3>2
  <2>. QED BY <2>1, <2>2
<1>5. Best(b, s) \in L /\ \A q \in L \ {Best(b, s)} : Better(s, Best(b, s), q)
  BY <1>2, <1>4
<1>. QED BY <1>1, <1>5 DEF L

LEMMA BestCrossesIs ==
  ASSUME NEW b, NEW s \in Sides, NEW limit \in Int
  PROVE  BestCrosses(b, s, limit) <=> \E p \in LevelPrices(b, Opposite(s)) : Crosses(s, limit, p)
<1>. DEFINE t == Opposite(s)
            m == Best(b, t)
<1>0. t \in Sides
  BY OppositeSide
<1>1. ASSUME BestCrosses(b, s, limit)
      PROVE  \E p \in LevelPrices(b, t) : Crosses(s, limit, p)
  BY <1>0, <1>1, BestIs DEF BestCrosses
<1>2. ASSUME NEW p \in LevelPrices(b, t), Crosses(s, limit, p)
      PROVE  BestCrosses(b, s, limit)
  <2>1. p \in Prices /\ m \in Prices /\ (p = m \/ Better(t, m, p))
    BY <1>0, BestIs DEF LevelPrices
  <2>2. Crosses(s, limit, m)
    BY <1>2, <2>1, CrossesBetter
  <2>. QED BY <2>2 DEF BestCrosses
<1>. QED BY <1>1, <1>2

LEMMA InLevel ==
  ASSUME NEW b, BookOK(b), NEW s \in Sides, NEW p \in LevelPrices(b, s)
  PROVE  /\ p \in Prices /\ 1 \in 1 .. Len(b[s][p]) /\ In(b, s, p, b[s][p][1])
              /\ Len(b[s][p]) \in Nat
         /\ <<s, p, 1>> \in RestingOrders(b) /\ OrderAt(b, <<s, p, 1>>) = b[s][p][1]
<1>1. p \in Prices /\ b[s][p] # <<>>
  BY DEF LevelPrices
<1>2. Len(b[s][p]) \in Nat /\ Len(b[s][p]) # 0
  BY <1>1, LevelTyped DEF BookOK
<1>3. 1 \in 1 .. Len(b[s][p])
  BY <1>2
<1>. QED BY <1>1, <1>2, <1>3, AtPlace DEF In

\* So does the fast path, with the first maker alone.
LEMMA SingleFillIsPlan ==
  ASSUME NEW b, BookOK(b), NEW o, o.side \in Sides, o.price \in Int, o.quantity \in Nat,
         o.quantity > 0,
         TakesSingleFill(b, o)
  PROVE  \E left : IsPlan(b, o, SingleFill(b, o), left)
<1>. DEFINE s == Opposite(o.side)
            m == Best(b, s)
            x == b[s][m][1]
            fill == Fill(b, BestMaker(b, o), o.quantity)
            fills == SingleFill(b, o)
            left == [i \in 0 .. 1 |-> IF i = 0 THEN o.quantity ELSE 0]
<1>0. s \in Sides
  BY OppositeSide
<1>1. LevelPrices(b, s) # {} /\ Crosses(o.side, o.price, m)
  BY DEF TakesSingleFill, BestCrosses
<1>2. /\ m \in LevelPrices(b, s) /\ m \in Prices
      /\ \A q \in LevelPrices(b, s) : q = m \/ Better(s, m, q)
  BY <1>0, <1>1, BestIs
<1>3. /\ 1 \in 1 .. Len(b[s][m]) /\ In(b, s, m, x) /\ Len(b[s][m]) \in Nat
      /\ OrderAt(b, <<s, m, 1>>) = x
  BY <1>0, <1>2, InLevel
<1>4. BestMaker(b, o) = <<s, m, 1>> /\ x.quantity >= o.quantity
  BY <1>3 DEF TakesSingleFill, BestMaker
<1>5. fill.id = x.id /\ fill.price = m /\ fill.quantity = o.quantity
  <2>1. <<s, m, 1>>[2] = m
    OBVIOUS
  <2>. QED BY <1>3, <1>4, <2>1, FillFields
<1>6. fills = <<fill>>
  BY DEF SingleFill
<1>7. x \in Order /\ x.quantity \in Nat
  BY <1>0, <1>2, <1>3, InTyped
<1>8. left[0] = o.quantity /\ left[1] = 0
  OBVIOUS
<1>. HIDE DEF s, fill, fills, x, left
<1>9. Len(fills) = 1 /\ DOMAIN fills = 1 .. 1 /\ fills[1] = fill
  BY <1>6
<1>10. \A i \in 1 .. 1 : i = 1
  OBVIOUS
<1>11. \A i \in 0 .. 1 : left[i] \in Nat
  <2>1. \A i \in 0 .. 1 : i = 0 \/ i = 1
    OBVIOUS
  <2>. QED BY <1>8, <2>1
<1>. HIDE DEF m
<1>12. MakerOf(b, o, fill, m, x)
  BY <1>1, <1>3, <1>4, <1>5, <1>7 DEF MakerOf, s
<1>13. /\ fill.quantity \in Nat /\ fill.quantity > 0 /\ left[1] = left[0] - fill.quantity
  BY <1>5, <1>8
<1>14. ASSUME NEW p \in Prices, NEW q \in Prices, NEW z \in Order, NEW y \in Order,
              MakerOf(b, o, fill, p, z), In(b, s, q, y),
              Better(s, q, p) \/ (q = p /\ y.sequence < z.sequence)
       PROVE  FALSE
  <2>1. p = m /\ z = x
    <3>1. In(b, s, p, z) /\ z.id = x.id
      BY <1>5, <1>14 DEF MakerOf, s
    <3>. QED BY <1>0, <1>2, <1>3, <3>1, InUnique
  <2>2. q \in LevelPrices(b, s)
    BY <1>0, <1>14, InTyped
  <2>3. m \in Nat /\ q \in Nat
    BY <1>2, BookAssumption
  <2>4. q = m /\ y.sequence < x.sequence
    <3>1. q = m \/ Better(s, m, q)
      BY <1>2, <2>2
    <3>2. Better(s, m, q) => ~Better(s, q, m) /\ q # m
      BY <2>3 DEF Better
    <3>3. q = m => ~Better(s, q, m)
      BY <2>3 DEF Better
    <3>. QED BY <1>14, <2>1, <3>1, <3>2, <3>3
  <2>. DEFINE level == b[s][m]
  <2>5. level \in Seq(Order) /\ LevelOK(level) /\ level[1] = x /\ 1 \in 1 .. Len(level)
    BY <1>0, <1>2, <1>3, LevelTyped DEF BookOK, x
  <2>6. PICK j \in 1 .. Len(level) : level[j] = y
    BY <1>14, <2>4 DEF In
  <2>. HIDE DEF level
  <2>7. j < 1
    BY <2>4, <2>5, <2>6, LevelInOrder
  <2>. QED BY <2>5, <2>6, <2>7
<1>15. IsPlan(b, o, fills, left)
  <2>1. /\ Len(fills) \in Nat /\ DOMAIN fills = 1 .. Len(fills) /\ left[0] = o.quantity
        /\ \A i \in 0 .. Len(fills) : left[i] \in Nat
    BY <1>8, <1>9, <1>11
  <2>2. \A i \in 1 .. Len(fills) :
         /\ fills[i].quantity \in Nat /\ fills[i].quantity > 0
         /\ left[i] = left[i - 1] - fills[i].quantity
         /\ \E p \in Prices, z \in Order : MakerOf(b, o, fills[i], p, z)
    <3>1. 1 - 1 = 0
      OBVIOUS
    <3>2. ASSUME NEW i \in 1 .. Len(fills)
          PROVE  i = 1 /\ fills[i] = fill /\ left[i] = left[1] /\ left[i - 1] = left[0]
      BY <1>9, <1>10, <3>1
    <3>. QED BY <1>2, <1>7, <1>12, <1>13, <3>2
  <2>3. \A i, j \in 1 .. Len(fills) : fills[i].id = fills[j].id => i = j
    BY <1>9, <1>10
  <2>4. ~(left[Len(fills)] > 0)
    BY <1>8, <1>9
  <2>5. \A i \in 1 .. Len(fills) : fills[i] = fill
    BY <1>9, <1>10
  <2>6. \A i \in 1 .. Len(fills), p, q \in Prices, z, y \in Order :
       MakerOf(b, o, fills[i], p, z) /\ In(b, s, q, y)
         /\ (Better(s, q, p) \/ (q = p /\ y.sequence < z.sequence))
       => UsedUp(fills, y)
    BY <1>14, <2>5
  <2>. QED BY <2>1, <2>2, <2>3, <2>4, <2>6 DEF IsPlan, s
<1>. QED BY <1>15 DEF fills

\* Whichever path is taken, the fills are a plan.
LEMMA FillsIsPlan ==
  ASSUME NEW b, BookOK(b), NEW o, o.side \in Sides, o.price \in Int, o.quantity \in Nat,
         o.quantity > 0
  PROVE  \E left : IsPlan(b, o, Fills(b, o), left)
<1>1. CASE TakesSingleFill(b, o)
  BY <1>1, SingleFillIsPlan DEF Fills
<1>2. CASE ~TakesSingleFill(b, o)
  BY <1>2, PlanFillsIsPlan DEF Fills
<1>. QED BY <1>1, <1>2

-----------------------------------------------------------------------------
(* The gateway's state between two commands.                               *)

\* Every resting order has a reservation of its account, side and quantity, and every
\* reservation has its order.
Agree(b, r) ==
  /\ \A s \in Sides, p \in Prices : \A x : In(b, s, p, x) =>
       x.id \in Live(r) /\ r.reservations[x.id] = Triple(x.account, s, x.quantity)
  /\ \A id \in Live(r) : \E s \in Sides, p \in Prices, x \in Order : In(b, s, p, x) /\ x.id = id

\* Sequences of resting orders have been processed.
Older(b, expected) == \A s \in Sides, p \in Prices : \A x : In(b, s, p, x) => x.sequence < expected

\* What holds between two commands
GatewayOK(b, r, expected, received) ==
  /\ BookOK(b) /\ RiskOK(r) /\ Agree(b, r) /\ Older(b, expected)
  /\ expected \in Nat /\ expected > 0 /\ received \in Nat /\ r.maximum_order_id <= received
  /\ SettledSum(r) = 0

LEMMA AgreeIs ==
  ASSUME NEW b, NEW r, NEW taker, taker \notin Live(r), AgreeBut(b, r, taker)
  PROVE  Agree(b, r)
BY DEF Agree, AgreeBut

\* Before the first fill only the reservation of the order has no order.
LEMMA StartTrading ==
  ASSUME NEW b, BookOK(b), NEW r, RiskOK(r), Agree(b, r), NEW o, MayReserve(r, o),
         NEW fills, NEW left, IsPlan(b, o, fills, left)
  PROVE  Trading(b, Reserve(r, o), o, fills, left, 0, b, Reserve(r, o))
<1>. DEFINE t == Reserve(r, o)
            id == o.id
            res == Triple(o.account, o.side, o.quantity)
<1>1. /\ RiskOK(t) /\ Live(t) = Live(r) \cup {id} /\ SameBut(r, t, id) /\ id \notin Live(r)
      /\ t.reservations[id] = res /\ SettledSum(t) = SettledSum(r)
  BY ReserveOK
<1>. HIDE DEF t
<1>2. AgreeBut(b, t, id)
  <2>1. ASSUME NEW s \in Sides, NEW p \in Prices, NEW x, In(b, s, p, x)
        PROVE  x.id # id /\ x.id \in Live(t) /\ t.reservations[x.id]
          = Triple(x.account, s, x.quantity)
    <3>. DEFINE v == x.id
                w == Triple(x.account, s, x.quantity)
    <3>1. v \in Live(r) /\ r.reservations[v] = w
      BY <2>1 DEF Agree
    <3>. HIDE DEF v, w, id
    <3>2. v # id
      BY <1>1, <3>1
    <3>3. v \in Live(t) /\ t.reservations[v] = w
      BY <1>1, <3>1, <3>2, SameButFields
    <3>. QED BY <3>2, <3>3 DEF v, w
  <2>2. ASSUME NEW v \in Live(t) \ {id}
        PROVE  \E s \in Sides, p \in Prices, x \in Order : In(b, s, p, x) /\ x.id = v
    <3>1. v \in Live(r)
      BY <1>1
    <3>. QED BY <3>1 DEF Agree
  <2>. HIDE DEF id
  <2>. QED BY <2>1, <2>2 DEF AgreeBut
<1>3. left[0] = o.quantity /\ o.quantity \in Nat /\ o.quantity > 0
  BY DEF IsPlan, MayReserve
<1>4. Content(b, b, fills, 0)
  BY ContentStart
<1>5. id \in Live(t) /\ t.reservations[id] = Triple(o.account, o.side, left[0])
  BY <1>1, <1>3
<1>6. Trading(b, t, o, fills, left, 0, b, t)
  BY <1>1, <1>2, <1>3, <1>4, <1>5 DEF Trading
<1>. QED BY <1>6 DEF t

\* A side whose levels are the same has the same prices.
LEMMA SamePrices ==
  ASSUME NEW b, NEW c, NEW s, \A p \in Prices : c[s][p] = b[s][p]
  PROVE  LevelPrices(c, s) = LevelPrices(b, s)
BY DEF LevelPrices

LEMMA PricesCount ==
  ASSUME NEW b, NEW s
  PROVE  IsFiniteSet(LevelPrices(b, s)) /\ Cardinality(LevelPrices(b, s)) \in Nat
<1>1. LevelPrices(b, s) \subseteq Prices
  BY DEF LevelPrices
<1>. QED BY <1>1, BookAssumption, FS_Subset, FS_CardinalityType

\* Room for one more order
LEMMA RoomIs ==
  ASSUME NEW b, BookOK(b), NEW s \in Sides, NEW p \in Prices, RestReject(b, s, p) = Pass
  PROVE  /\ Len(b[s][p]) < OrdersPerLevel
         /\ p \in LevelPrices(b, s) \/ Cardinality(LevelPrices(b, s)) < Levels
<1>1. /\ ~(p \in LevelPrices(b, s) /\ Len(b[s][p]) = OrdersPerLevel)
      /\ ~(p \notin LevelPrices(b, s) /\ Cardinality(LevelPrices(b, s)) = Levels)
  BY RestPasses
<1>2. /\ Len(b[s][p]) \in Nat /\ (b[s][p] = <<>> <=> Len(b[s][p]) = 0)
           /\ Len(b[s][p]) <= OrdersPerLevel
      /\ Cardinality(LevelPrices(b, s)) <= Levels
  BY LevelTyped DEF BookOK, LevelOK
<1>3. p \notin LevelPrices(b, s) => Len(b[s][p]) = 0
  BY <1>2 DEF LevelPrices
<1>4. Cardinality(LevelPrices(b, s)) \in Nat
  BY PricesCount
<1>. QED BY <1>1, <1>2, <1>3, <1>4, BookAssumption

\* When something is left, what crosses is gone.
LEMMA NothingCrosses ==
  ASSUME NEW b, BookOK(b), NEW o, o.side \in Sides, o.price \in Int, NEW fills, NEW left,
         IsPlan(b, o, fills, left),
         left[Len(fills)] > 0, NEW c, BookOK(c), Content(b, c, fills, Len(fills)),
         NEW q \in LevelPrices(c, Opposite(o.side))
  PROVE  ~Crosses(o.side, o.price, q)
<1>. DEFINE s == Opposite(o.side)
            y == c[s][q][1]
<1>0. s \in Sides
  BY OppositeSide
<1>1. q \in Prices /\ In(c, s, q, y)
  BY <1>0, InLevel
<1>. HIDE DEF y, s
<1>2. PICK x \in Order : In(b, s, q, x) /\ Outcome(fills, Len(fills), x, y)
  BY <1>0, <1>1 DEF Content
<1>. SUFFICES ASSUME Crosses(o.side, o.price, q) PROVE FALSE
  OBVIOUS
<1>3. UsedUp(fills, x)
  BY <1>1, <1>2 DEF IsPlan, s
<1>4. PICK j \in 1 .. Len(fills) : fills[j].id = x.id /\ fills[j].quantity = x.quantity
  BY <1>3 DEF UsedUp
<1>5. ~(\A k \in 1 .. Len(fills) : fills[k].id # x.id)
  BY <1>4
<1>6. PICK k \in 1 .. Len(fills) : fills[k].id = x.id /\ fills[k].quantity # x.quantity
  BY <1>2, <1>5 DEF Outcome
<1>7. j = k
  BY <1>4, <1>6 DEF IsPlan
<1>. QED BY <1>4, <1>6, <1>7

Resting(o, quantity, sequence) ==
  [id |-> o.id, account |-> o.account, quantity |-> quantity, sequence |-> sequence]

LEMMA RestingIs ==
  ASSUME NEW o, NEW n, NEW e
  PROVE  /\ Resting(o, n, e).id = o.id /\ Resting(o, n, e).account = o.account
         /\ Resting(o, n, e).quantity = n /\ Resting(o, n, e).sequence = e
         /\ o.id \in Nat /\ o.account \in Accounts /\ n \in Nat /\ e \in Nat
              => Resting(o, n, e) \in Order
BY DEF Resting, Order

\* What is left of an order may rest.
LEMMA RestMay ==
  ASSUME NEW b, BookOK(b), NEW r0, NEW o, o.side \in Sides, o.price \in Prices, o.id \in Nat,
         o.account \in Accounts,
         NEW fills, NEW left, IsPlan(b, o, fills, left), left[Len(fills)] > 0,
         NEW c, NEW r, Trading(b, r0, o, fills, left, Len(fills), c, r),
         RestReject(b, o.side, o.price) = Pass,
         NEW e \in Nat, e > 0, Older(b, e)
  PROVE  MayRest(c, o.side, o.price, Resting(o, left[Len(fills)], e))
<1>. DEFINE n == left[Len(fills)]
            x == Resting(o, n, e)
            s == o.side
            p == o.price
<1>0. p \in Nat /\ p \in Int
  <2>1. \A q \in Prices : q \in Nat /\ q \in Int
    BY BookAssumption
  <2>2. p \in Prices
    OBVIOUS
  <2>. QED BY <2>1, <2>2
<1>1. n \in Nat /\ n > 0
  <2>1. Len(fills) \in 0 .. Len(fills)
    BY DEF IsPlan
  <2>. QED BY <2>1 DEF IsPlan
<1>2. x \in Order /\ x.quantity = n /\ x.sequence = e /\ x.id = o.id
  BY <1>1, RestingIs
<1>3. /\ BookOK(c) /\ AgreeBut(c, r, o.id) /\ Content(b, c, fills, Len(fills))
      /\ \A q \in Prices : c[s][q] = b[s][q]
  BY DEF Trading
<1>4. LevelPrices(c, s) = LevelPrices(b, s) /\ Len(c[s][p]) = Len(b[s][p])
  BY <1>3, SamePrices
<1>5. /\ Len(b[s][p]) < OrdersPerLevel
      /\ p \in LevelPrices(b, s) \/ Cardinality(LevelPrices(b, s)) < Levels
  BY RoomIs
<1>6. ASSUME NEW t \in Sides, NEW q \in Prices, NEW y, In(c, t, q, y)
      PROVE  y.id # o.id /\ y.sequence < e
  <2>1. PICK z \in Order : In(b, t, q, z) /\ Outcome(fills, Len(fills), z, y)
    BY <1>3, <1>6 DEF Content
  <2>2. Len(fills) \in 0 .. Len(fills)
    BY DEF IsPlan
  <2>3. y.sequence = z.sequence
    BY <2>1, <2>2, OutcomeIs DEF Same
  <2>. QED BY <1>3, <1>6, <2>1, <2>3 DEF AgreeBut, Older
<1>7. ASSUME NEW q \in LevelPrices(c, Opposite(s)) PROVE ~Crosses(s, p, q) /\ q \in Nat
  <2>1. q \in Nat
    BY BookAssumption DEF LevelPrices
  <2>. QED BY <1>0, <1>3, <2>1, NothingCrosses
<1>8. s = "Buy" => \A q \in LevelPrices(c, "Sell") : p < q
  BY <1>0, <1>7 DEF Crosses, Opposite
<1>9. s = "Sell" => \A q \in LevelPrices(c, "Buy") : q < p
  BY <1>0, <1>7 DEF Crosses, Opposite
<1>. HIDE DEF x, n
<1>10. MayRest(c, s, p, x)
  BY <1>1, <1>2, <1>4, <1>5, <1>6, <1>8, <1>9 DEF MayRest
<1>. QED BY <1>10 DEF x, n

-----------------------------------------------------------------------------
(* A new order that is accepted.                                           *)

\* Orders keep side, price and sequence and do not grow, or are ranked by the command e.
Earned(b, c, e) ==
  \A s, t \in Sides, p, q \in Prices : \A x, y :
    In(b, s, p, x) /\ In(c, t, q, y) /\ x.id = y.id =>
      \/ x.sequence = y.sequence /\ s = t /\ p = q /\ y.quantity <= x.quantity
      \/ y.sequence = e

\* What a command e leaves behind, its watermark apart
Done(b, r, e, c, t) ==
  /\ BookOK(c) /\ RiskOK(t) /\ Agree(c, t) /\ Older(c, e + 1)
  /\ SettledSum(t) = SettledSum(r) /\ Earned(b, c, e)

LEMMA ContentEarned ==
  ASSUME NEW b, BookOK(b), NEW o, o.side \in Sides, NEW fills, NEW left, IsPlan(b, o, fills, left),
         NEW c, Content(b, c, fills, Len(fills)), NEW e \in Nat, Older(b, e)
  PROVE  Earned(b, c, e) /\ Older(c, e)
<1>0. Len(fills) \in 0 .. Len(fills)
  BY DEF IsPlan
<1>1. ASSUME NEW t \in Sides, NEW q \in Prices, NEW y, In(c, t, q, y)
      PROVE  \E z \in Order : In(b, t, q, z) /\ Same(y, z)
  <2>1. PICK z \in Order : In(b, t, q, z) /\ Outcome(fills, Len(fills), z, y)
    BY <1>1 DEF Content
  <2>. QED BY <1>0, <2>1, OutcomeIs
<1>2. ASSUME NEW s \in Sides, NEW t \in Sides, NEW p \in Prices, NEW q \in Prices, NEW x, NEW y,
             In(b, s, p, x), In(c, t, q, y), x.id = y.id
      PROVE  x.sequence = y.sequence /\ s = t /\ p = q /\ y.quantity <= x.quantity
  <2>1. PICK z \in Order : In(b, t, q, z) /\ Same(y, z)
    BY <1>1, <1>2
  <2>2. s = t /\ p = q /\ x = z
    BY <1>2, <2>1, InUnique DEF Same
  <2>. QED BY <2>1, <2>2 DEF Same
<1>3. ASSUME NEW t \in Sides, NEW q \in Prices, NEW y, In(c, t, q, y) PROVE y.sequence < e
  BY <1>1, <1>3 DEF Same, Older
<1>. QED BY <1>2, <1>3 DEF Earned, Older

LEMMA OlderNext ==
  ASSUME NEW b, BookOK(b), NEW e \in Nat, Older(b, e)
  PROVE  Older(b, e + 1)
<1>1. ASSUME NEW s \in Sides, NEW p \in Prices, NEW x, In(b, s, p, x) PROVE x.sequence < e + 1
  <2>1. x.sequence \in Nat /\ x.sequence < e
    BY <1>1, InTyped DEF Older
  <2>. QED BY <2>1
<1>. QED BY <1>1 DEF Older

\* An order that is filled in full
LEMMA FilledDone ==
  ASSUME NEW b, BookOK(b), NEW r0, NEW o, o.side \in Sides,
         NEW fills, NEW left, IsPlan(b, o, fills, left),
         NEW c, NEW t, Trading(b, r0, o, fills, left, Len(fills), c, t), left[Len(fills)] = 0,
         NEW e \in Nat, Older(b, e)
  PROVE  Done(b, r0, e, c, t)
<1>1. /\ BookOK(c) /\ RiskOK(t) /\ AgreeBut(c, t, o.id) /\ Content(b, c, fills, Len(fills))
      /\ o.id \in Live(t) <=> left[Len(fills)] > 0
      /\ SettledSum(t) = SettledSum(r0)
  BY DEF Trading
<1>2. o.id \notin Live(t)
  BY <1>1
<1>3. Agree(c, t)
  BY <1>1, <1>2, AgreeIs
<1>4. Earned(b, c, e) /\ Older(c, e)
  BY <1>1, ContentEarned
<1>5. Older(c, e + 1)
  BY <1>1, <1>4, OlderNext
<1>. QED BY <1>1, <1>3, <1>4, <1>5 DEF Done

\* An order joins a book: the reservations agree if its own is there.
LEMMA JoinedDone ==
  ASSUME NEW b, NEW c, BookOK(c), NEW t, RiskOK(t), NEW x \in Order, AgreeBut(c, t, x.id),
         NEW s \in Sides, NEW p \in Prices, x.id \in Live(t),
         t.reservations[x.id] = Triple(x.account, s, x.quantity),
         NEW d, BookOK(d), Joined(c, d, s, p, x), NEW e \in Nat, x.sequence = e, Older(c, e),
         Earned(b, c, e),
         NEW r, SettledSum(t) = SettledSum(r)
  PROVE  Done(b, r, e, d, t)
<1>0. \A u \in Sides, q \in Prices : \A y : In(d, u, q, y)
      <=> In(c, u, q, y) \/ (u = s /\ q = p /\ y = x)
  BY DEF Joined
<1>1. Agree(d, t)
  <2>1. ASSUME NEW u \in Sides, NEW q \in Prices, NEW y, In(d, u, q, y)
        PROVE  y.id \in Live(t) /\ t.reservations[y.id] = Triple(y.account, u, y.quantity)
    <3>1. CASE In(c, u, q, y)
      BY <3>1 DEF AgreeBut
    <3>2. CASE u = s /\ q = p /\ y = x
      BY <3>2
    <3>. QED BY <1>0, <2>1, <3>1, <3>2
  <2>2. ASSUME NEW id \in Live(t)
        PROVE  \E u \in Sides, q \in Prices, y \in Order : In(d, u, q, y) /\ y.id = id
    <3>1. CASE id = x.id
      <4>1. In(d, s, p, x)
        BY <1>0
      <4>. QED BY <3>1, <4>1
    <3>2. CASE id # x.id
      <4>1. PICK u \in Sides, q \in Prices, y \in Order : In(c, u, q, y) /\ y.id = id
        BY <3>2 DEF AgreeBut
      <4>2. In(d, u, q, y)
        BY <1>0, <4>1
      <4>. QED BY <4>1, <4>2
    <3>. QED BY <3>1, <3>2
  <2>. QED BY <2>1, <2>2 DEF Agree
<1>2. Older(d, e + 1)
  <2>1. Older(c, e + 1)
    BY OlderNext
  <2>2. x.sequence < e + 1
    OBVIOUS
  <2>. QED BY <1>0, <2>1, <2>2 DEF Older
<1>3. Earned(b, d, e)
  BY <1>0 DEF Earned
<1>. QED BY <1>1, <1>2, <1>3 DEF Done

\* An order that rests
LEMMA RestedDone ==
  ASSUME NEW b, BookOK(b), NEW r0, NEW o, o.side \in Sides, o.price \in Prices, o.id \in Nat,
         o.account \in Accounts,
         NEW fills, NEW left, IsPlan(b, o, fills, left), left[Len(fills)] > 0,
         NEW c, NEW t, Trading(b, r0, o, fills, left, Len(fills), c, t),
         RestReject(b, o.side, o.price) = Pass,
         NEW e \in Nat, e > 0, Older(b, e)
  PROVE  Done(b, r0, e, RestAtTail(c, o.side, o.price, Resting(o, left[Len(fills)], e)), t)
<1>. DEFINE n == left[Len(fills)]
            x == Resting(o, n, e)
            s == o.side
            p == o.price
            d == RestAtTail(c, s, p, x)
<1>1. /\ BookOK(c) /\ RiskOK(t) /\ AgreeBut(c, t, o.id) /\ Content(b, c, fills, Len(fills))
      /\ o.id \in Live(t) /\ t.reservations[o.id] = Triple(o.account, o.side, n)
      /\ SettledSum(t) = SettledSum(r0)
  BY DEF Trading
<1>2. MayRest(c, s, p, x)
  BY RestMay
<1>3. x.id = o.id /\ x.account = o.account /\ x.quantity = n /\ x.sequence = e
  BY RestingIs
<1>4. x \in Order
  BY <1>2 DEF MayRest
<1>5. Earned(b, c, e) /\ Older(c, e)
  BY <1>1, ContentEarned
<1>6. s \in Sides /\ p \in Prices
  OBVIOUS
<1>7. AgreeBut(c, t, x.id) /\ x.id \in Live(t) /\ t.reservations[x.id]
      = Triple(x.account, s, x.quantity)
  BY <1>1, <1>3
<1>. HIDE DEF x, n, s, p
<1>8. BookOK(d) /\ Joined(c, d, s, p, x)
  BY <1>1, <1>2, <1>6, RestOK
<1>. HIDE DEF d
<1>9. Done(b, r0, e, d, t)
  BY <1>1, <1>3, <1>4, <1>5, <1>6, <1>7, <1>8, JoinedDone
<1>. QED BY <1>9 DEF d, x, n, s, p

\* An order's reservation is released when it is not in the book.
LEMMA ReleasedAgrees ==
  ASSUME NEW c, NEW t, RiskOK(t), NEW id \in Live(t), AgreeBut(c, t, id)
  PROVE  Agree(c, Settle(t, id))
<1>. DEFINE u == Settle(t, id)
<1>1. Live(u) = Live(t) \ {id} /\ SameBut(t, u, id)
  BY SettleOK
<1>. HIDE DEF u
<1>2. ASSUME NEW s \in Sides, NEW p \in Prices, NEW x, In(c, s, p, x)
      PROVE  x.id \in Live(u) /\ u.reservations[x.id] = Triple(x.account, s, x.quantity)
  <2>. DEFINE v == x.id
              w == Triple(x.account, s, x.quantity)
  <2>1. v # id /\ v \in Live(t) /\ t.reservations[v] = w
    BY <1>2 DEF AgreeBut
  <2>. HIDE DEF v, w
  <2>2. v \in Live(u) /\ u.reservations[v] = w
    BY <1>1, <2>1, SameButFields
  <2>. QED BY <2>2 DEF v, w
<1>3. \A v \in Live(u) : \E s \in Sides, p \in Prices, x \in Order : In(c, s, p, x) /\ x.id = v
  BY <1>1 DEF AgreeBut
<1>4. Agree(c, u)
  BY <1>2, <1>3 DEF Agree
<1>. QED BY <1>4 DEF u

\* An order whose remainder is discarded
LEMMA DiscardDone ==
  ASSUME NEW b, BookOK(b), NEW r0, NEW o, o.side \in Sides,
         NEW fills, NEW left, IsPlan(b, o, fills, left), left[Len(fills)] > 0,
         NEW c, NEW t, Trading(b, r0, o, fills, left, Len(fills), c, t),
         NEW e \in Nat, Older(b, e)
  PROVE  /\ CanSettle(t, o.id) /\ Done(b, r0, e, c, Settle(t, o.id))
         /\ Settle(t, o.id).maximum_order_id = t.maximum_order_id
<1>. DEFINE id == o.id
            u == Settle(t, id)
<1>1. /\ BookOK(c) /\ RiskOK(t) /\ AgreeBut(c, t, id) /\ Content(b, c, fills, Len(fills))
      /\ id \in Live(t) /\ SettledSum(t) = SettledSum(r0)
  BY DEF Trading
<1>. HIDE DEF id
<1>2. /\ CanSettle(t, id) /\ RiskOK(u) /\ SettledSum(u) = SettledSum(t)
      /\ u.maximum_order_id = t.maximum_order_id
  BY <1>1, SettleOK
<1>3. Agree(c, u)
  BY <1>1, ReleasedAgrees
<1>4. Earned(b, c, e) /\ Older(c, e)
  BY <1>1, ContentEarned
<1>5. Older(c, e + 1)
  BY <1>1, <1>4, OlderNext
<1>. HIDE DEF u
<1>6. Done(b, r0, e, c, u)
  BY <1>1, <1>2, <1>3, <1>4, <1>5 DEF Done
<1>. QED BY <1>2, <1>6 DEF u, id

\* SettleFills of a risk state r
SettledWith(r, o, fills, rests) ==
  LET filled == RecordFills(Reserve(r, o), fills, o.id)
  IN  IF ~filled.ok \/ rests > 0 \/ Total(fills) = o.quantity THEN filled
      ELSE IF CanSettle(filled.risk, o.id)
           THEN [filled EXCEPT !.risk = Settle(@, o.id)]
           ELSE [filled EXCEPT !.ok = FALSE]

\* An order the types of whose fields are those of NewOrder
OrderTyped(o) ==
  /\ o.id \in Nat /\ o.side \in Sides /\ o.tif \in TimesInForce
  /\ o.quantity \in Nat /\ o.price \in Int /\ (o.price > 0 => o.price \in Prices)

LEMMA AccFields ==
  ASSUME NEW t
  PROVE  /\ Acc(t).risk = t /\ Acc(t).ok = TRUE
         /\ \A v : [Acc(t) EXCEPT !.risk = v] = Acc(v)
<1>1. Acc(t).ok = TRUE /\ Acc(t).risk = t
  BY DEF Acc
<1>2. \A v : [Acc(t) EXCEPT !.risk = v] = Acc(v)
  <2>1. \A k, v : [[ok |-> k, risk |-> t] EXCEPT !.risk = v] = [ok |-> k, risk |-> v]
    OBVIOUS
  <2>. QED BY <2>1, Zenon DEF Acc
<1>. QED BY <1>1, <1>2

\* The whole of an accepted order, from plan to settlement
LEMMA SubmitPlan ==
  ASSUME NEW b, BookOK(b), NEW r, RiskOK(r), Agree(b, r), NEW o, OrderTyped(o), MayReserve(r, o),
         SubmitReject(b, o) = Pass
  PROVE  \E left, t :
           /\ IsPlan(b, o, Fills(b, o), left)
           /\ Trading(b, Reserve(r, o), o, Fills(b, o), left, Len(Fills(b, o)),
                ApplyFills(b, Fills(b, o)), t)
           /\ RecordFills(Reserve(r, o), Fills(b, o), o.id) = Acc(t)
           /\ left[Len(Fills(b, o))] \in Nat /\ left[Len(Fills(b, o))] = Remaining(b, o)
           /\ Total(Fills(b, o)) \in Nat /\ Total(Fills(b, o)) + Remaining(b, o) = o.quantity
           /\ o.price \in Prices /\ o.account \in Accounts
<1>. DEFINE fills == Fills(b, o)
<1>1. OrderReject(b, o) = Pass
  BY DEF SubmitReject
<1>2. ~(o.price <= 0) /\ o.price \in Int
  BY <1>1, OrderPasses DEF OrderTyped
<1>3. o.price \in Prices
  BY <1>2 DEF OrderTyped
<1>4. o.side \in Sides /\ o.quantity \in Nat /\ o.quantity > 0 /\ o.account \in Accounts
  BY DEF OrderTyped, MayReserve
<1>5. PICK left : IsPlan(b, o, fills, left)
  BY <1>2, <1>4, FillsIsPlan
<1>6. Trading(b, Reserve(r, o), o, fills, left, 0, b, Reserve(r, o))
  BY <1>5, StartTrading
<1>. DEFINE g == RecordFills(Reserve(r, o), fills, o.id)
            t == g.risk
            r0 == Reserve(r, o)
<1>7. /\ Total(fills) \in Nat /\ left[Len(fills)] \in Nat /\ o.quantity \in Nat
      /\ Total(fills) + left[Len(fills)] = o.quantity
  BY <1>5, PlanTotal
<1>8. Remaining(b, o) = o.quantity - Total(fills)
  BY DEF Remaining
<1>9. left[Len(fills)] = Remaining(b, o)
  BY <1>7, <1>8
<1>. HIDE DEF fills
<1>10. Trading(b, r0, o, fills, left, 0, b, r0)
  BY <1>6
<1>. HIDE DEF r0
<1>11. /\ g = Acc(t)
       /\ Trading(b, r0, o, fills, left, Len(fills), ApplyFills(b, fills), t)
  BY <1>4, <1>5, <1>10, TradingAll DEF r0
<1>. HIDE DEF t
<1>. QED BY <1>3, <1>4, <1>5, <1>7, <1>9, <1>11 DEF fills, r0

\* An accepted order leaves a valid state, and its settlement succeeds.
LEMMA SubmitOK ==
  ASSUME NEW b, NEW r, NEW e, NEW m, GatewayOK(b, r, e, m), NEW o, OrderTyped(o), MayReserve(r, o),
         SubmitReject(b, o) = Pass
  PROVE  LET s == SettledWith(r, o, Fills(b, o), RestingQuantity(b, o))
         IN  /\ s.ok = TRUE /\ Done(b, r, e, SubmitBook(b, o, e), s.risk)
             /\ s.risk.maximum_order_id = o.id
<1>. DEFINE fills == Fills(b, o)
            n == Remaining(b, o)
            c == ApplyFills(b, fills)
            r0 == Reserve(r, o)
            rests == RestingQuantity(b, o)
            s == SettledWith(r, o, fills, rests)
            d == SubmitBook(b, o, e)
<1>0. BookOK(b) /\ RiskOK(r) /\ Agree(b, r) /\ Older(b, e) /\ e \in Nat /\ e > 0
  BY DEF GatewayOK
<1>1. PICK left, t :
           /\ IsPlan(b, o, fills, left)
           /\ Trading(b, r0, o, fills, left, Len(fills), c, t)
           /\ RecordFills(r0, fills, o.id) = Acc(t)
           /\ left[Len(fills)] \in Nat /\ left[Len(fills)] = n
           /\ Total(fills) \in Nat /\ Total(fills) + n = o.quantity
           /\ o.price \in Prices /\ o.account \in Accounts
  BY <1>0, SubmitPlan
<1>2. /\ ~(o.tif = "Fok" /\ n > 0)
      /\ ~(o.tif \in {"Gtc", "PostOnly"} /\ n > 0 /\ RestReject(b, o.side, o.price) # Pass)
  BY SubmitPasses
<1>3. s = IF ~Acc(t).ok \/ rests > 0 \/ Total(fills) = o.quantity THEN Acc(t)
          ELSE IF CanSettle(Acc(t).risk, o.id)
               THEN [Acc(t) EXCEPT !.risk = Settle(Acc(t).risk, o.id)]
               ELSE [Acc(t) EXCEPT !.ok = FALSE]
  BY <1>1 DEF SettledWith
<1>4. rests = IF o.tif \in {"Gtc", "PostOnly"} THEN n ELSE 0
  BY DEF RestingQuantity
<1>5. d = IF rests = 0 THEN c ELSE RestAtTail(c, o.side, o.price, Resting(o, rests, e))
  BY DEF SubmitBook, Resting
<1>6. o.side \in Sides /\ o.tif \in TimesInForce /\ o.id \in Nat /\ o.quantity \in Nat
  BY DEF OrderTyped
<1>7. r0.maximum_order_id = o.id /\ SettledSum(r0) = SettledSum(r) /\ t.maximum_order_id
      = r0.maximum_order_id
  BY <1>0, <1>1, ReserveOK DEF Trading
<1>8. Acc(t).risk = t /\ Acc(t).ok = TRUE /\ \A v : [Acc(t) EXCEPT !.risk = v] = Acc(v)
  BY AccFields
<1>. HIDE DEF s, d, rests, n, fills, c, r0
<1>9. n \in Nat
  BY <1>1
<1>10. \A v : Done(b, r0, e, d, v) => Done(b, r, e, d, v)
  BY <1>7 DEF Done
<1>11. CASE n = 0
  <2>1. rests = 0 /\ Total(fills) = o.quantity
    BY <1>1, <1>4, <1>11
  <2>2. s = Acc(t) /\ d = c
    BY <1>3, <1>5, <1>8, <2>1
  <2>3. Done(b, r0, e, c, t)
    BY <1>0, <1>1, <1>6, <1>11, FilledDone
  <2>4. s.ok = TRUE /\ Done(b, r, e, d, s.risk) /\ s.risk.maximum_order_id = o.id
    BY <1>7, <1>8, <1>10, <2>2, <2>3
  <2>. QED BY <2>4 DEF s, d, fills, rests
<1>12. CASE n > 0 /\ o.tif \in {"Gtc", "PostOnly"}
  <2>1. rests = n /\ rests > 0 /\ rests # 0
    BY <1>4, <1>9, <1>12
  <2>2. s = Acc(t) /\ d = RestAtTail(c, o.side, o.price, Resting(o, n, e))
    BY <1>3, <1>5, <1>8, <2>1
  <2>3. RestReject(b, o.side, o.price) = Pass
    BY <1>2, <1>12
  <2>4. Done(b, r0, e, RestAtTail(c, o.side, o.price, Resting(o, left[Len(fills)], e)), t)
    <3>1. left[Len(fills)] > 0
      BY <1>1, <1>12
    <3>. QED BY <1>0, <1>1, <1>6, <2>3, <3>1, RestedDone
  <2>5. Done(b, r0, e, d, t)
    BY <1>1, <2>2, <2>4
  <2>6. s.ok = TRUE /\ Done(b, r, e, d, s.risk) /\ s.risk.maximum_order_id = o.id
    BY <1>7, <1>8, <1>10, <2>2, <2>5
  <2>. QED BY <2>6 DEF s, d, fills, rests
<1>13. CASE n > 0 /\ o.tif \notin {"Gtc", "PostOnly"}
  <2>1. rests = 0 /\ ~(rests > 0) /\ Total(fills) # o.quantity
    BY <1>1, <1>4, <1>6, <1>9, <1>13
  <2>2. /\ CanSettle(t, o.id) /\ Done(b, r0, e, c, Settle(t, o.id))
        /\ Settle(t, o.id).maximum_order_id = t.maximum_order_id
    <3>1. left[Len(fills)] > 0
      BY <1>1, <1>13
    <3>. QED BY <1>0, <1>1, <1>6, <3>1, DiscardDone
  <2>3. s = Acc(Settle(t, o.id)) /\ d = c
    BY <1>3, <1>5, <1>8, <2>1, <2>2
  <2>. DEFINE u == Settle(t, o.id)
  <2>. HIDE DEF u
  <2>4. s = Acc(u) /\ Done(b, r0, e, d, u) /\ u.maximum_order_id = o.id
    BY <1>7, <2>2, <2>3 DEF u
  <2>5. Acc(u).risk = u /\ Acc(u).ok = TRUE
    BY AccFields
  <2>6. s.ok = TRUE /\ Done(b, r, e, d, s.risk) /\ s.risk.maximum_order_id = o.id
    BY <1>10, <2>4, <2>5
  <2>. QED BY <2>6 DEF s, d, fills, rests
<1>14. n = 0 \/ n > 0
  BY <1>9
<1>. QED BY <1>11, <1>12, <1>13, <1>14, Zenon

-----------------------------------------------------------------------------
(* Refusals, cancellations and replacements.                               *)

\* When no check fails the order may reserve.
LEMMA MayReserveIs ==
  ASSUME NEW r, RiskOK(r), NEW o, OrderTyped(o), FirstReject(ReserveRejects(r, o)) = Pass,
         FirstReject(LimitRejects(r.accounts[o.account], o)) = Pass
  PROVE  MayReserve(r, o)
<1>. DEFINE x == r.accounts[o.account]
            y == Reserved(x, o.side, o.quantity)
<1>1. /\ ~(o.quantity = 0) /\ ~(o.id <= r.maximum_order_id)
      /\ ~(Cardinality(Live(r)) >= RiskOrders) /\ ~(o.account \notin Accounts)
  BY ReservePasses
<1>2. FirstReject(LimitRejects(x, o)) = Pass
  OBVIOUS
<1>3. o.id \in Nat /\ o.side \in Sides /\ o.quantity \in Nat
  BY DEF OrderTyped
<1>4. r.maximum_order_id \in Nat /\ Cardinality(Live(r)) \in Nat /\ RiskOrders \in Nat
  BY RiskAssumption, FS_CardinalityType DEF RiskOK, RiskType
<1>5. x \in Account
  BY <1>1 DEF RiskOK, RiskType
<1>6. x.open \in Nat /\ Limits[o.account].max_open_orders \in Nat
  <2>1. o.account \in Accounts
    BY <1>1
  <2>2. Limits[o.account].max_open_orders \in Nat
    BY <2>1, RiskAssumption
  <2>. QED BY <1>5, <2>2 DEF Account
<1>. HIDE DEF x
<1>7. /\ WithinPosition(o.account, x.settled, y.buys, y.sells)
      /\ ~(x.open + 1 > Limits[o.account].max_open_orders)
  BY <1>2, LimitsPass
<1>. HIDE DEF y
<1>8. /\ o.id > r.maximum_order_id /\ Cardinality(Live(r)) < RiskOrders /\ o.quantity > 0
      /\ x.open + 1 <= Limits[o.account].max_open_orders
  BY <1>1, <1>3, <1>4, <1>6, <1>7
<1>. QED BY <1>1, <1>3, <1>7, <1>8 DEF MayReserve, x, y

\* What rests in d rested in b.
LEMMA SubEarned ==
  ASSUME NEW b, BookOK(b), NEW d, NEW e \in Nat, Older(b, e),
         \A t \in Sides, q \in Prices : \A y : In(d, t, q, y) => In(b, t, q, y)
  PROVE  Earned(b, d, e) /\ Older(d, e)
<1>1. ASSUME NEW s \in Sides, NEW t \in Sides, NEW p \in Prices, NEW q \in Prices, NEW x, NEW y,
             In(b, s, p, x), In(d, t, q, y), x.id = y.id
      PROVE  x.sequence = y.sequence /\ s = t /\ p = q /\ y.quantity <= x.quantity
  <2>1. In(b, t, q, y)
    BY <1>1
  <2>2. s = t /\ p = q /\ x = y
    BY <1>1, <2>1, InUnique
  <2>3. x.quantity \in Nat
    BY <1>1, InTyped
  <2>. QED BY <2>2, <2>3
<1>. QED BY <1>1 DEF Earned, Older

\* Only the watermark of the risk state moved.
LEMMA SameDone ==
  ASSUME NEW b, NEW r, NEW e, NEW m, GatewayOK(b, r, e, m), NEW t, RiskOK(t),
         t.accounts = r.accounts, t.reservations = r.reservations
  PROVE  Done(b, r, e, b, t)
<1>1. BookOK(b) /\ Agree(b, r) /\ Older(b, e) /\ e \in Nat
  BY DEF GatewayOK
<1>2. Live(t) = Live(r)
  BY DEF Live
<1>3. Agree(b, t)
  BY <1>1, <1>2 DEF Agree
<1>4. SettledSum(t) = SettledSum(r)
  BY DEF SettledSum
<1>5. Earned(b, b, e) /\ Older(b, e + 1)
  BY <1>1, SubEarned, OlderNext
<1>. QED BY <1>1, <1>3, <1>4, <1>5 DEF Done

\* The order a reservation is for
OrderOf(b, r, id, s, p, x, k) ==
  /\ In(b, s, p, x) /\ x.id = id /\ k \in 1 .. Len(b[s][p]) /\ b[s][p][k] = x
  /\ Locate(b, id) = <<s, p, k>> /\ OrderAt(b, Locate(b, id)) = x
  /\ Located(b, id) = {Locate(b, id)}
  /\ r.reservations[id] = Triple(x.account, s, x.quantity)

\* A reservation has one resting order, found by its id.
LEMMA TheOrder ==
  ASSUME NEW b, BookOK(b), NEW r, Agree(b, r), NEW id \in Live(r)
  PROVE  \E s \in Sides, p \in Prices, x \in Order, k \in Nat : OrderOf(b, r, id, s, p, x, k)
<1>1. PICK s \in Sides, p \in Prices, x \in Order : In(b, s, p, x) /\ x.id = id
  BY DEF Agree
<1>2. PICK k \in 1 .. Len(b[s][p]) : Locate(b, x.id) = <<s, p, k>> /\ b[s][p][k] = x
  BY <1>1, LocateIs
<1>3. OrderAt(b, Locate(b, x.id)) = x
  BY <1>1, LocateIs
<1>6. Located(b, x.id) = {Locate(b, x.id)}
  BY <1>1, LocateIs, SMTT(20)
<1>4. r.reservations[x.id] = Triple(x.account, s, x.quantity)
  BY <1>1 DEF Agree
<1>5. k \in Nat
  BY <1>2, LevelTyped DEF BookOK
<1>7. OrderOf(b, r, id, s, p, x, k)
  BY <1>1, <1>2, <1>3, <1>4, <1>6 DEF OrderOf
<1>. QED BY <1>5, <1>7

\* Unlinking leaves every other order with its reservation.
LEMMA UnlinkedAgrees ==
  ASSUME NEW b, NEW r, Agree(b, r), NEW d, NEW s, NEW p, NEW id, Without(b, d, s, p, id)
  PROVE  AgreeBut(d, r, id)
<1>1. \A t \in Sides, q \in Prices : \A y : In(d, t, q, y) <=> In(b, t, q, y) /\ y.id # id
  BY DEF Without
<1>2. ASSUME NEW v \in Live(r) \ {id}
      PROVE  \E t \in Sides, q \in Prices, y \in Order : In(d, t, q, y) /\ y.id = v
  <2>1. PICK t \in Sides, q \in Prices, y \in Order : In(b, t, q, y) /\ y.id = v
    BY DEF Agree
  <2>2. In(d, t, q, y)
    BY <1>1, <2>1
  <2>. QED BY <2>1, <2>2
<1>3. \A t \in Sides, q \in Prices : \A y : In(d, t, q, y) =>
        y.id # id /\ y.id \in Live(r) /\ r.reservations[y.id] = Triple(y.account, t, y.quantity)
  BY <1>1 DEF Agree
<1>. QED BY <1>2, <1>3 DEF AgreeBut

\* A cancel whose reservation is live settles what the book had.
LEMMA CancelOK ==
  ASSUME NEW b, NEW r, NEW e, NEW m, GatewayOK(b, r, e, m), NEW c, c.id \in Live(r)
  PROVE  /\ CanSettle(r, c.id) /\ Done(b, r, e, CancelBook(b, c), Settle(r, c.id))
         /\ Settle(r, c.id).maximum_order_id = r.maximum_order_id
         /\ r.reservations[c.id].quantity = CancelledQuantity(b, c)
<1>. DEFINE id == c.id
            d == CancelBook(b, c)
            t == Settle(r, id)
<1>0. BookOK(b) /\ RiskOK(r) /\ Agree(b, r) /\ Older(b, e) /\ e \in Nat
  BY DEF GatewayOK
<1>1. PICK s \in Sides, p \in Prices, x \in Order, k \in Nat : OrderOf(b, r, id, s, p, x, k)
  BY <1>0, TheOrder
<1>2. d = Unlink(b, <<s, p, k>>)
  BY <1>1 DEF CancelBook, OrderOf
<1>3. CancelledQuantity(b, c) = x.quantity
  BY <1>1 DEF CancelledQuantity, OrderOf
<1>4. r.reservations[id].quantity = x.quantity
  BY <1>1, TripleFields DEF OrderOf
<1>5. BookOK(d) /\ Without(b, d, s, p, id)
  BY <1>0, <1>1, <1>2, UnlinkOK DEF OrderOf
<1>. HIDE DEF d, id
<1>6. id \in Live(r)
  BY DEF id
<1>7. /\ CanSettle(r, id) /\ RiskOK(t) /\ SettledSum(t) = SettledSum(r) /\ t.maximum_order_id
           = r.maximum_order_id
  BY <1>0, <1>6, SettleOK
<1>8. AgreeBut(d, r, id)
  BY <1>0, <1>5, UnlinkedAgrees
<1>9. Agree(d, t)
  BY <1>0, <1>6, <1>8, ReleasedAgrees
<1>10. Earned(b, d, e) /\ Older(d, e)
  <2>1. \A u \in Sides, q \in Prices : \A y : In(d, u, q, y) => In(b, u, q, y)
    BY <1>5 DEF Without
  <2>. QED BY <1>0, <2>1, SubEarned
<1>11. Older(d, e + 1)
  BY <1>0, <1>5, <1>10, OlderNext
<1>12. Done(b, r, e, d, t)
  BY <1>5, <1>7, <1>9, <1>10, <1>11 DEF Done
<1>. QED BY <1>3, <1>4, <1>7, <1>12 DEF id, d

\* An order the types of whose fields are those of ReplaceOrder
ReplaceTyped(o) ==
  o.id \in Nat /\ o.quantity \in Nat /\ o.price \in Int /\ (o.price > 0 => o.price \in Prices)

LEMMA ReplacePasses ==
  ASSUME NEW b, NEW o, ReplaceReject(b, o) = Pass
  PROVE  /\ OwnerReject(b, o.id, o.account, o.instrument) = Pass
         /\ ~(o.price <= 0) /\ o.quantity # 0
         /\ KeepsPriority(b, o) \/ MoveReject(b, o) = Pass
<1>1. Pass # "InvalidPrice" /\ Pass # "InvalidQuantity"
  BY DEF Pass
<1>. QED BY <1>1 DEF ReplaceReject

\* adjust_reservation lets it grow.
LEMMA MayAdjustIs ==
  ASSUME NEW r, NEW id, NEW price, NEW q, FirstReject(AdjustRejects(r, id, price, q)) = Pass
  PROVE  MayAdjust(r, id, q)
BY AdjustPasses DEF MayAdjust

\* The other reservations are the same.
LEMMA AdjustedAgrees ==
  ASSUME NEW d, NEW r, NEW t, NEW id, AgreeBut(d, r, id), SameBut(r, t, id)
  PROVE  AgreeBut(d, t, id)
<1>1. ASSUME NEW s \in Sides, NEW p \in Prices, NEW x, In(d, s, p, x)
      PROVE  x.id # id /\ x.id \in Live(t) /\ t.reservations[x.id]
        = Triple(x.account, s, x.quantity)
  <2>. DEFINE v == x.id
              w == Triple(x.account, s, x.quantity)
  <2>1. v # id /\ v \in Live(r) /\ r.reservations[v] = w
    BY <1>1 DEF AgreeBut
  <2>. HIDE DEF v, w
  <2>2. v \in Live(t) /\ t.reservations[v] = w
    BY <2>1, SameButFields
  <2>. QED BY <2>1, <2>2 DEF v, w
<1>2. ASSUME NEW v \in Live(t) \ {id}
      PROVE  \E s \in Sides, p \in Prices, x \in Order : In(d, s, p, x) /\ x.id = v
  <2>1. v \in Live(r) \ {id}
    BY SameButFields
  <2>. QED BY <2>1 DEF AgreeBut
<1>. QED BY <1>1, <1>2 DEF AgreeBut

\* A reduction in place
LEMMA ReduceDone ==
  ASSUME NEW b, NEW r, NEW e, NEW m, GatewayOK(b, r, e, m), NEW id \in Live(r), NEW n \in Nat,
         n > 0,
         NEW s \in Sides, NEW p \in Prices, NEW x \in Order, NEW k \in Nat,
         OrderOf(b, r, id, s, p, x, k),
         n <= x.quantity, NEW t, RiskOK(t), SameBut(r, t, id), id \in Live(t),
         t.reservations[id] = Triple(x.account, s, n), SettledSum(t) = SettledSum(r)
  PROVE  Done(b, r, e, Resize(b, <<s, p, k>>, n), t)
<1>. DEFINE c == Resize(b, <<s, p, k>>, n)
            y == Cut(x, n)
<1>0. BookOK(b) /\ RiskOK(r) /\ Agree(b, r) /\ Older(b, e) /\ e \in Nat
  BY DEF GatewayOK
<1>1. In(b, s, p, x) /\ x.id = id /\ k \in 1 .. Len(b[s][p]) /\ b[s][p][k] = x
  BY DEF OrderOf
<1>2. BookOK(c) /\ Resized(b, c, s, p, x, n)
  BY <1>0, <1>1, ResizeOK
<1>3. y \in Order /\ y.id = id /\ y.account = x.account /\ y.sequence = x.sequence /\ y.quantity = n
  BY <1>1, CutIs
<1>. HIDE DEF c, y
<1>4. \A u \in Sides, q \in Prices : \A z :
        In(c, u, q, z) <=> (In(b, u, q, z) /\ z.id # id) \/ (u = s /\ q = p /\ z = y)
  BY <1>1, <1>2 DEF Resized, y
<1>5. Agree(c, t)
  <2>1. ASSUME NEW u \in Sides, NEW q \in Prices, NEW z, In(c, u, q, z)
        PROVE  z.id \in Live(t) /\ t.reservations[z.id] = Triple(z.account, u, z.quantity)
    <3>1. CASE In(b, u, q, z) /\ z.id # id
      <4>. DEFINE v == z.id
                  w == Triple(z.account, u, z.quantity)
      <4>1. v # id /\ v \in Live(r) /\ r.reservations[v] = w
        BY <1>0, <3>1 DEF Agree
      <4>. HIDE DEF v, w
      <4>2. v \in Live(t) /\ t.reservations[v] = w
        BY <4>1, SameButFields
      <4>. QED BY <4>2 DEF v, w
    <3>2. CASE u = s /\ q = p /\ z = y
      BY <1>3, <3>2
    <3>. QED BY <1>4, <2>1, <3>1, <3>2
  <2>2. ASSUME NEW v \in Live(t)
        PROVE  \E u \in Sides, q \in Prices, z \in Order : In(c, u, q, z) /\ z.id = v
    <3>1. CASE v = id
      <4>1. In(c, s, p, y)
        BY <1>4
      <4>. QED BY <1>3, <3>1, <4>1
    <3>2. CASE v # id
      <4>1. v \in Live(r)
        BY <3>2, SameButFields
      <4>2. PICK u \in Sides, q \in Prices, z \in Order : In(b, u, q, z) /\ z.id = v
        BY <1>0, <4>1 DEF Agree
      <4>3. In(c, u, q, z)
        BY <1>4, <3>2, <4>2
      <4>. QED BY <4>2, <4>3
    <3>. QED BY <3>1, <3>2
  <2>. QED BY <2>1, <2>2 DEF Agree
<1>6. ASSUME NEW u \in Sides, NEW v \in Sides, NEW q \in Prices, NEW o \in Prices, NEW z, NEW w,
             In(b, u, q, z), In(c, v, o, w), z.id = w.id
      PROVE  z.sequence = w.sequence /\ u = v /\ q = o /\ w.quantity <= z.quantity
  <2>1. CASE In(b, v, o, w) /\ w.id # id
    <3>1. u = v /\ q = o /\ z = w
      BY <1>0, <1>6, <2>1, InUnique
    <3>2. z.quantity \in Nat
      BY <1>0, <1>6, InTyped
    <3>. QED BY <3>1, <3>2
  <2>2. CASE v = s /\ o = p /\ w = y
    <3>1. z.id = x.id
      BY <1>1, <1>3, <1>6, <2>2
    <3>2. u = s /\ q = p /\ z = x
      BY <1>0, <1>1, <1>6, <3>1, InUnique
    <3>. QED BY <1>3, <2>2, <3>2
  <2>. QED BY <1>4, <1>6, <2>1, <2>2
<1>7. Earned(b, c, e)
  BY <1>6 DEF Earned
<1>8. Older(c, e)
  BY <1>1, <1>3, <1>4, <1>0 DEF Older
<1>9. Older(c, e + 1)
  BY <1>0, <1>2, <1>8, OlderNext
<1>10. Done(b, r, e, c, t)
  BY <1>2, <1>5, <1>7, <1>9 DEF Done
<1>. QED BY <1>10 DEF c

\* A replaced order that loses its place may join where it goes.
LEMMA MoveMay ==
  ASSUME NEW b, NEW r, NEW e, NEW m, GatewayOK(b, r, e, m), NEW o, ReplaceTyped(o),
         o.id \in Live(r),
         NEW s \in Sides, NEW p \in Prices, NEW x \in Order, NEW k \in Nat,
         OrderOf(b, r, o.id, s, p, x, k),
         NEW d, BookOK(d), Without(b, d, s, p, o.id),
         o.price \in Prices, o.quantity > 0, o.account \in Accounts, MoveReject(b, o) = Pass
  PROVE  MayRest(d, s, o.price, Resting(o, o.quantity, e))
<1>. DEFINE y == Resting(o, o.quantity, e)
            q == o.price
            lb == LevelPrices(b, s)
            ld == LevelPrices(d, s)
            at == Locate(b, o.id)
            len == Len(b[s][p])
<1>0. BookOK(b) /\ Older(b, e) /\ e \in Nat /\ e > 0
  BY DEF GatewayOK
<1>1. /\ In(b, s, p, x) /\ x.id = o.id /\ k \in 1 .. Len(b[s][p]) /\ b[s][p][k] = x
      /\ at = <<s, p, k>>
  BY DEF OrderOf
<1>2. at[1] = s /\ at[2] = p
  BY <1>1
<1>3. /\ ~(q # p /\ BestCrosses(b, s, q))
      /\ ~(q \in lb /\ q # p /\ Len(b[s][q]) = OrdersPerLevel)
      /\ ~(q \notin lb /\ len # 1 /\ Cardinality(lb) = Levels)
  BY <1>2, MovePasses
<1>4. /\ \A t \in Sides, u \in Prices : ~(t = s /\ u = p) => d[t][u] = b[t][u]
      /\ Len(d[s][p]) = len - 1
      /\ \A t \in Sides, u \in Prices : \A z : In(d, t, u, z) <=> In(b, t, u, z) /\ z.id # o.id
  BY DEF Without
<1>5. y \in Order /\ y.id = o.id /\ y.quantity = o.quantity /\ y.sequence = e
  BY <1>0, RestingIs DEF ReplaceTyped
<1>6. /\ \A u \in Prices : /\ Len(b[s][u]) \in Nat /\ Len(b[s][u]) <= OrdersPerLevel
                           /\ b[s][u] = <<>> <=> Len(b[s][u]) = 0
                           /\ Len(d[s][u]) \in Nat /\ (d[s][u] = <<>> <=> Len(d[s][u]) = 0)
      /\ Cardinality(lb) <= Levels
  <2>1. BookType(b) /\ BookType(d) /\ (\A u \in Prices : LevelOK(b[s][u]))
        /\ Cardinality(lb) <= Levels
    BY <1>0 DEF BookOK
  <2>. QED BY <2>1, LevelTyped DEF LevelOK
<1>7. q \in Prices /\ len \in Nat /\ len > 0 /\ len <= OrdersPerLevel
  BY <1>1, <1>6
<1>8. OrdersPerLevel \in Nat /\ OrdersPerLevel > 0 /\ Levels \in Nat
  BY BookAssumption
<1>9. p \in lb /\ ld \subseteq lb /\ (p \notin ld <=> len = 1) /\ \A u \in lb : u # p => u \in ld
  <2>1. p \in lb
    BY <1>6, <1>7 DEF LevelPrices
  <2>2. p \notin ld <=> len = 1
    <3>1. p \in ld <=> d[s][p] # <<>>
      BY DEF LevelPrices
    <3>2. (d[s][p] = <<>> <=> Len(d[s][p]) = 0) /\ Len(d[s][p]) = len - 1 /\ len \in Nat
      BY <1>4, <1>6, <1>7
    <3>. QED BY <3>1, <3>2
  <2>3. \A u \in Prices : u # p => (u \in lb <=> u \in ld)
    BY <1>4 DEF LevelPrices
  <2>4. lb \subseteq Prices /\ ld \subseteq Prices
    BY DEF LevelPrices
  <2>. QED BY <2>1, <2>2, <2>3, <2>4
<1>10. Cardinality(lb) \in Nat /\ Cardinality(ld) \in Nat /\ IsFiniteSet(lb) /\ IsFiniteSet(ld)
  BY PricesCount
<1>11. Cardinality(ld) <= Cardinality(lb) /\ (len = 1 => Cardinality(ld) < Cardinality(lb))
  <2>. HIDE DEF lb, ld
  <2>1. Cardinality(ld) <= Cardinality(lb)
    BY <1>9, <1>10, FS_Subset
  <2>2. ASSUME len = 1 PROVE Cardinality(ld) < Cardinality(lb)
    <3>1. ld \subseteq lb \ {p}
      BY <1>9, <2>2
    <3>. DEFINE l2 == lb \ {p}
    <3>2. IsFiniteSet(l2) /\ Cardinality(l2) = Cardinality(lb) - 1
      BY <1>9, <1>10, FS_RemoveElement
    <3>3. ld \subseteq l2
      BY <3>1
    <3>. HIDE DEF l2
    <3>4. Cardinality(ld) <= Cardinality(l2)
      BY <3>2, <3>3, FS_Subset
    <3>. QED BY <1>10, <3>2, <3>4
  <2>. QED BY <2>1, <2>2
<1>. HIDE DEF lb, ld
<1>12. Len(d[s][q]) < OrdersPerLevel
  <2>1. CASE q = p
    BY <1>4, <1>7, <1>8, <2>1
  <2>2. CASE q # p
    <3>1. d[s][q] = b[s][q]
      BY <1>4, <1>7, <2>2
    <3>2. Len(b[s][q]) \in Nat /\ Len(b[s][q]) <= OrdersPerLevel
          /\ (b[s][q] = <<>> <=> Len(b[s][q]) = 0)
      BY <1>6, <1>7
    <3>3. q \notin lb => Len(b[s][q]) = 0
      BY <1>7, <3>2 DEF LevelPrices, lb
    <3>. QED BY <1>3, <1>8, <2>2, <3>1, <3>2, <3>3
  <2>. QED BY <2>1, <2>2
<1>13. q \in ld \/ Cardinality(ld) < Levels
  <2>1. CASE len = 1
    BY <1>6, <1>8, <1>10, <1>11, <2>1
  <2>2. CASE len # 1
    <3>1. CASE q \in lb
      BY <1>9, <2>2, <3>1
    <3>2. CASE q \notin lb
      <4>1. Cardinality(lb) # Levels
        BY <1>3, <2>2, <3>2
      <4>. QED BY <1>6, <1>8, <1>10, <1>11, <4>1
    <3>. QED BY <3>1, <3>2
  <2>. QED BY <2>1, <2>2
<1>14. \A t \in Sides, u \in Prices : \A z : In(d, t, u, z) => z.id # y.id
       /\ z.sequence < y.sequence
  BY <1>0, <1>4, <1>5 DEF Older
<1>15. \A u \in LevelPrices(d, Opposite(s)) : u \in LevelPrices(b, Opposite(s)) /\ u \in Prices
       /\ u \in Nat
  <2>1. Opposite(s) \in Sides /\ Opposite(s) # s
    BY OppositeSide
  <2>2. \A u \in Prices : d[Opposite(s)][u] = b[Opposite(s)][u] /\ u \in Nat
    BY <1>4, <2>1, BookAssumption
  <2>. QED BY <2>2 DEF LevelPrices
<1>16. p \in Nat /\ q \in Nat /\ q \in Int
  <2>1. \A u \in Prices : u \in Nat /\ u \in Int
    BY BookAssumption
  <2>. QED BY <1>7, <2>1
<1>17. ASSUME NEW u \in LevelPrices(d, Opposite(s)) PROVE ~Crosses(s, q, u)
  <2>1. u \in LevelPrices(b, Opposite(s)) /\ u \in Nat
    BY <1>15
  <2>2. CASE q = p
    <3>1. Uncrossed(b)
      BY <1>0 DEF BookOK
    <3>2. CASE s = "Buy"
      <4>1. p < u
        BY <1>9, <2>1, <3>1, <3>2 DEF Uncrossed, Opposite, lb
      <4>. QED BY <1>16, <2>1, <2>2, <3>2, <4>1 DEF Crosses
    <3>3. CASE s = "Sell"
      <4>1. u < p
        BY <1>9, <2>1, <3>1, <3>3 DEF Uncrossed, Opposite, lb
      <4>. QED BY <1>16, <2>1, <2>2, <3>3, <4>1 DEF Crosses
    <3>. QED BY <3>2, <3>3 DEF Sides
  <2>3. CASE q # p
    <3>1. ~BestCrosses(b, s, q)
      BY <1>3, <2>3
    <3>. HIDE DEF q
    <3>. QED BY <1>16, <2>1, <3>1, BestCrossesIs
  <2>. QED BY <2>2, <2>3
<1>18. s = "Buy" => \A u \in LevelPrices(d, "Sell") : q < u
  BY <1>15, <1>16, <1>17 DEF Crosses, Opposite
<1>19. s = "Sell" => \A u \in LevelPrices(d, "Buy") : u < q
  BY <1>15, <1>16, <1>17 DEF Crosses, Opposite
<1>. HIDE DEF y
<1>20. MayRest(d, s, q, y)
  BY <1>0, <1>5, <1>12, <1>13, <1>14, <1>18, <1>19 DEF MayRest, ld
<1>. QED BY <1>20 DEF y

\* A replacement that is accepted
LEMMA ReplaceOK ==
  ASSUME NEW b, NEW r, NEW e, NEW m, GatewayOK(b, r, e, m), NEW o, ReplaceTyped(o),
         o.id \in Live(r),
         MayAdjust(r, o.id, o.quantity), ReplaceReject(b, o) = Pass
  PROVE  /\ Done(b, r, e, ReplaceBook(b, o, e), SetReservation(r, o.id, o.quantity))
         /\ SetReservation(r, o.id, o.quantity).maximum_order_id = r.maximum_order_id
<1>. DEFINE id == o.id
            n == o.quantity
            t == SetReservation(r, id, n)
            c == ReplaceBook(b, o, e)
            at == Locate(b, id)
<1>0. BookOK(b) /\ RiskOK(r) /\ Agree(b, r) /\ Older(b, e) /\ e \in Nat /\ e > 0
  BY DEF GatewayOK
<1>1. /\ OwnerReject(b, o.id, o.account, o.instrument) = Pass
      /\ ~(o.price <= 0) /\ o.quantity # 0
      /\ KeepsPriority(b, o) \/ MoveReject(b, o) = Pass
  BY ReplacePasses
<1>2. n \in Nat /\ n > 0 /\ id \in Live(r) /\ id \in Nat /\ o.price \in Prices
  BY <1>1 DEF ReplaceTyped
<1>3. PICK s \in Sides, p \in Prices, x \in Order, k \in Nat : OrderOf(b, r, id, s, p, x, k)
  BY <1>0, <1>2, TheOrder
<1>4. /\ In(b, s, p, x) /\ x.id = id /\ k \in 1 .. Len(b[s][p]) /\ b[s][p][k] = x
      /\ at = <<s, p, k>> /\ OrderAt(b, at) = x /\ Located(b, id) = {at}
      /\ r.reservations[id] = Triple(x.account, s, x.quantity)
  BY <1>3 DEF OrderOf
<1>5. x.account = o.account /\ x.account \in Accounts /\ x.quantity \in Nat
  <2>1. ~(\E z \in Located(b, id) : OrderAt(b, z).account # o.account)
    BY <1>1, OwnerPasses
  <2>. QED BY <1>4, <2>1, OrderFields
<1>6. at[1] = s /\ at[2] = p
  BY <1>4
<1>7. c = IF KeepsPriority(b, o) THEN Resize(b, <<s, p, k>>, n)
          ELSE RestAtTail(Unlink(b, <<s, p, k>>), s, o.price, Resting(o, n, e))
  BY <1>4, <1>6 DEF ReplaceBook, Resting
<1>8. KeepsPriority(b, o) => n < x.quantity
  BY <1>4 DEF KeepsPriority
<1>9. MayAdjust(r, id, n)
  OBVIOUS
<1>10. /\ r.reservations[id].account = x.account /\ r.reservations[id].side = s
  BY <1>4, TripleFields
<1>. HIDE DEF id, n, c, at
<1>11. /\ RiskOK(t) /\ Live(t) = Live(r) /\ SameBut(r, t, id)
       /\ t.reservations[id] = Triple(r.reservations[id].account, r.reservations[id].side, n)
       /\ t.maximum_order_id = r.maximum_order_id
       /\ SettledSum(t) = SettledSum(r)
  BY <1>0, <1>2, <1>9, SetReservationOK
<1>12. t.reservations[id] = Triple(x.account, s, n) /\ id \in Live(t)
  BY <1>2, <1>10, <1>11
<1>. HIDE DEF t
<1>13. CASE KeepsPriority(b, o)
  <2>1. c = Resize(b, <<s, p, k>>, n) /\ n <= x.quantity
    BY <1>2, <1>5, <1>7, <1>8, <1>13
  <2>2. Done(b, r, e, Resize(b, <<s, p, k>>, n), t)
    BY <1>2, <1>3, <1>11, <1>12, <2>1, ReduceDone
  <2>3. Done(b, r, e, c, t)
    BY <2>1, <2>2
  <2>. QED BY <1>11, <2>3 DEF c, t, id, n
<1>14. CASE ~KeepsPriority(b, o)
  <2>. DEFINE d == Unlink(b, <<s, p, k>>)
              y == Resting(o, n, e)
              q == o.price
  <2>1. c = RestAtTail(d, s, q, y) /\ MoveReject(b, o) = Pass
    BY <1>1, <1>7, <1>14
  <2>2. BookOK(d) /\ Without(b, d, s, p, id)
    BY <1>0, <1>4, UnlinkOK
  <2>. HIDE DEF d
  <2>3. MayRest(d, s, q, y)
    <3>1. Without(b, d, s, p, o.id) /\ OrderOf(b, r, o.id, s, p, x, k)
      BY <1>3, <2>2 DEF id
    <3>2. o.quantity > 0 /\ o.account \in Accounts
      BY <1>2, <1>5 DEF n
    <3>3. MayRest(d, s, o.price, Resting(o, o.quantity, e))
      BY <1>2, <2>1, <2>2, <3>1, <3>2, MoveMay
    <3>. QED BY <3>3 DEF n
  <2>4. y.id = id /\ y.account = x.account /\ y.quantity = n /\ y.sequence = e
    BY <1>5, RestingIs DEF id
  <2>5. y \in Order
    BY <2>3 DEF MayRest
  <2>6. q \in Prices
    BY <1>2
  <2>7. AgreeBut(d, t, id)
    <3>1. AgreeBut(d, r, id)
      BY <1>0, <2>2, UnlinkedAgrees
    <3>. QED BY <1>11, <3>1, AdjustedAgrees
  <2>8. Earned(b, d, e) /\ Older(d, e)
    <3>1. \A u \in Sides, w \in Prices : \A z : In(d, u, w, z) => In(b, u, w, z)
      BY <2>2 DEF Without
    <3>. QED BY <1>0, <3>1, SubEarned
  <2>9. AgreeBut(d, t, y.id) /\ y.id \in Live(t) /\ t.reservations[y.id]
        = Triple(y.account, s, y.quantity)
    BY <1>12, <2>4, <2>7
  <2>. HIDE DEF y, q
  <2>10. BookOK(c) /\ Joined(d, c, s, q, y)
    BY <2>1, <2>2, <2>3, <2>6, RestOK
  <2>11. Done(b, r, e, c, t)
    BY <1>0, <1>11, <2>2, <2>4, <2>5, <2>6, <2>8, <2>9, <2>10, JoinedDone
  <2>. QED BY <1>11, <2>11 DEF c, t, id, n
<1>. QED BY <1>13, <1>14

-----------------------------------------------------------------------------
(* The start, and the commands.                                            *)

\* The commands have the types of the code.
LEMMA CommandFields ==
  ASSUME NEW c \in Commands
  PROVE  /\ c.id \in Nat
         /\ c.type = "New" => OrderTyped(c)
         /\ c.type = "Replace" => ReplaceTyped(c)
<1>. DEFINE with(type, k, id) ==
              [f \in DOMAIN k \cup {"id", "type"} |->
                 CASE f = "id" -> id [] f = "type" -> type [] OTHER -> k[f]]
<1>1. ASSUME NEW k, NEW id, NEW type
      PROVE  /\ with(type, k, id).id = id /\ with(type, k, id).type = type
             /\ \A f \in DOMAIN k : f # "id" /\ f # "type" => with(type, k, id)[f] = k[f]
  OBVIOUS
<1>2. MaxId \in Nat
  BY GatewayAssumption
<1>3. ASSUME NEW o \in NewOrders, NEW id \in 1 .. MaxId, c = with("New", o, id)
      PROVE  c.id \in Nat /\ c.type = "New" /\ OrderTyped(c)
  <2>1. /\ DOMAIN o = {"account", "side", "price", "quantity", "tif", "instrument"}
        /\ o.side \in Sides /\ o.tif \in TimesInForce
        /\ o.quantity \in Nat /\ o.price \in Int /\ (o.price > 0 => o.price \in Prices)
    BY CommandAssumption
  <2>2. c.id = id /\ c.type = "New" /\ \A f \in DOMAIN o : f # "id" /\ f # "type" => c[f] = o[f]
    BY <1>1, <1>3
  <2>3. c.side = o.side /\ c.tif = o.tif /\ c.quantity = o.quantity /\ c.price = o.price
    BY <2>1, <2>2
  <2>4. id \in Nat
    BY <1>2
  <2>. QED BY <2>1, <2>2, <2>3, <2>4 DEF OrderTyped
<1>4. ASSUME NEW o \in Replaces, NEW id \in 1 .. MaxId, c = with("Replace", o, id)
      PROVE  c.id \in Nat /\ c.type = "Replace" /\ ReplaceTyped(c)
  <2>1. /\ DOMAIN o = {"account", "price", "quantity", "instrument"}
        /\ o.quantity \in Nat /\ o.price \in Int /\ (o.price > 0 => o.price \in Prices)
    BY CommandAssumption
  <2>2. c.id = id /\ c.type = "Replace" /\ \A f \in DOMAIN o : f # "id" /\ f # "type" => c[f] = o[f]
    BY <1>1, <1>4
  <2>3. c.quantity = o.quantity /\ c.price = o.price
    BY <2>1, <2>2
  <2>4. id \in Nat
    BY <1>2
  <2>. QED BY <2>1, <2>2, <2>3, <2>4 DEF ReplaceTyped
<1>5. ASSUME NEW o \in Cancels, NEW id \in 1 .. MaxId, c = with("Cancel", o, id)
      PROVE  c.id \in Nat /\ c.type = "Cancel"
  <2>1. c.id = id /\ c.type = "Cancel"
    BY <1>1, <1>5
  <2>. QED BY <1>2, <2>1
<1>6. \/ \E o \in NewOrders, id \in 1 .. MaxId : c = with("New", o, id)
      \/ \E o \in Replaces, id \in 1 .. MaxId : c = with("Replace", o, id)
      \/ \E o \in Cancels, id \in 1 .. MaxId : c = with("Cancel", o, id)
  <2>1. Commands = {with("New", o, id) : o \in NewOrders, id \in 1 .. MaxId}
                     \cup {with("Replace", o, id) : o \in Replaces, id \in 1 .. MaxId}
                     \cup {with("Cancel", o, id) : o \in Cancels, id \in 1 .. MaxId}
    BY DEF Commands
  <2>. HIDE DEF with
  <2>. QED BY <2>1
<1>. HIDE DEF with
<1>7. "New" # "Replace" /\ "New" # "Cancel" /\ "Cancel" # "Replace"
  OBVIOUS
<1>. QED BY <1>3, <1>4, <1>5, <1>6, <1>7

LEMMA SumZero ==
  ASSUME NEW f, NEW D, IsFiniteSet(D), \A x \in D : f[x] = 0
  PROVE  SumOver(f, D) = 0
<1>. DEFINE T == {S \in SUBSET D : SumOver(f, S) = 0}
<1>1. {} \in T
  BY SumEmpty
<1>2. ASSUME NEW S \in SUBSET D, S # {}, \A x \in S : S \ {x} \in T PROVE S \in T
  <2>1. PICK y \in S : TRUE
    BY <1>2
  <2>2. IsFiniteSet(S) /\ (\A x \in S : f[x] \in Int) /\ f[y] = 0
    BY FS_Subset
  <2>3. SumOver(f, S) = f[y] + SumOver(f, S \ {y})
    BY <2>2, SumSplit
  <2>4. SumOver(f, S \ {y}) = 0
    BY <1>2
  <2>. QED BY <2>2, <2>3, <2>4
<1>. HIDE DEF T
<1>3. D \in T
  BY <1>1, <1>2, FiniteInduction
<1>. QED BY <1>3 DEF T

\* A new book and a new risk state are valid.
LEMMA EmptyOK ==
  BookOK(EmptyBook) /\ \A s \in Sides, p \in Prices : \A x : ~In(EmptyBook, s, p, x)
<1>. DEFINE b == EmptyBook
<1>1. \A s \in Sides, p \in Prices : b[s][p] = <<>> /\ Len(b[s][p]) = 0
  BY DEF EmptyBook
<1>2. BookType(b)
  BY DEF EmptyBook, BookType
<1>. HIDE DEF b
<1>3. \A s \in Sides, p \in Prices : LevelOK(b[s][p])
  <2>1. 1 .. 0 = {} /\ 0 <= OrdersPerLevel
    BY BookAssumption
  <2>. QED BY <1>1, <2>1 DEF LevelOK
<1>4. \A s \in Sides : LevelPrices(b, s) = {}
  BY <1>1 DEF LevelPrices
<1>5. \A s \in Sides : Cardinality(LevelPrices(b, s)) <= Levels
  <2>1. Cardinality({}) = 0 /\ 0 <= Levels
    BY FS_EmptySet, BookAssumption
  <2>. QED BY <1>4, <2>1
<1>6. Uncrossed(b)
  BY <1>4 DEF Uncrossed, Sides
<1>7. Apart(b)
  <2>1. 1 .. 0 = {}
    OBVIOUS
  <2>2. \A s \in Sides, p \in Prices : 1 .. Len(b[s][p]) = {}
    BY <1>1, <2>1
  <2>. QED BY <2>2 DEF Apart
<1>8. \A s \in Sides, p \in Prices : \A x : ~In(b, s, p, x)
  <2>1. 1 .. 0 = {}
    OBVIOUS
  <2>. QED BY <1>1, <2>1 DEF In
<1>. QED BY <1>2, <1>3, <1>5, <1>6, <1>7, <1>8 DEF BookOK, b

LEMMA NewRiskOK ==
  ASSUME NEW killed, NEW dead
  PROVE  /\ RiskOK(NewRisk(killed, dead)) /\ Live(NewRisk(killed, dead)) = {}
         /\ NewRisk(killed, dead).maximum_order_id = 0 /\ SettledSum(NewRisk(killed, dead)) = 0
<1>. DEFINE r == NewRisk(killed, dead)
            acct(k) == [settled |-> 0, buys |-> 0, sells |-> 0, open |-> 0, killed |-> k]
<1>1. /\ DOMAIN r = {"accounts", "reservations", "maximum_order_id", "killed"}
      /\ r.accounts = [a \in Accounts |-> acct(a \in dead)]
      /\ r.reservations = [id \in {} |-> id] /\ r.maximum_order_id = 0
  BY DEF NewRisk
<1>. HIDE DEF r
<1>2. \A k \in BOOLEAN : acct(k) \in Account
  BY DEF Account
<1>3. \A k : acct(k).settled = 0 /\ acct(k).buys = 0 /\ acct(k).sells = 0 /\ acct(k).open = 0
  OBVIOUS
<1>. HIDE DEF acct
<1>4. \A a \in Accounts : (a \in dead) \in BOOLEAN
  OBVIOUS
<1>5. \A a \in Accounts : acct(a \in dead) \in Account
  BY <1>2, <1>4, Zenon
<1>6. \A a \in Accounts : r.accounts[a] = acct(a \in dead)
  BY <1>1, Zenon
<1>7. r.accounts \in [Accounts -> Account]
  <2>1. DOMAIN r.accounts = Accounts /\ r.accounts = [a \in Accounts |-> r.accounts[a]]
    BY <1>1, Zenon
  <2>2. \A a \in Accounts : r.accounts[a] \in Account
    BY <1>5, <1>6, Zenon
  <2>. QED BY <2>1, <2>2
<1>8. \A a \in Accounts : /\ r.accounts[a].settled = 0 /\ r.accounts[a].buys = 0
                          /\ r.accounts[a].sells = 0 /\ r.accounts[a].open = 0
  BY <1>3, <1>6, Zenon
<1>9. Live(r) = {}
  BY <1>1 DEF Live
<1>10. RiskType(r)
  <2>1. r.reservations \in [Live(r) -> Reservation]
    BY <1>1, <1>9
  <2>2. IsFiniteSet(Live(r))
    BY <1>9, FS_EmptySet
  <2>. QED BY <1>1, <1>7, <1>9, <2>1, <2>2 DEF RiskType
<1>11. SettledSum(r) = 0
  <2>. DEFINE f == [a \in Accounts |-> r.accounts[a].settled]
  <2>1. \A a \in Accounts : f[a] = 0
    BY <1>8
  <2>. HIDE DEF f
  <2>2. SumOver(f, Accounts) = 0
    BY <2>1, SumZero, RiskAssumption
  <2>. QED BY <2>2 DEF SettledSum, f
<1>12. ASSUME NEW a \in Accounts PROVE AccountValid(r, a)
  <2>1. \A side : ReservedBy(r, a, side) = 0
    <3>1. \A side : {id \in Live(r) : r.reservations[id].account = a /\ r.reservations[id].side
          = side} = {}
      BY <1>9
    <3>. QED BY <3>1, SumEmpty DEF ReservedBy
  <2>2. OpenOf(r, a) = 0
    <3>1. {id \in Live(r) : r.reservations[id].account = a} = {}
      BY <1>9
    <3>. QED BY <3>1, FS_EmptySet DEF OpenOf
  <2>3. Limits[a].max_open_orders \in Nat /\ Limits[a].max_abs_position \in Nat
    BY RiskAssumption
  <2>. DEFINE n == Limits[a].max_abs_position
  <2>4. n \in Nat
    BY <2>3
  <2>5. 0 + 0 <= n /\ 0 - 0 >= -n
    <3>. HIDE DEF n
    <3>. QED BY <2>4
  <2>6. WithinPosition(a, r.accounts[a].settled, r.accounts[a].buys, r.accounts[a].sells)
    BY <1>8, <2>5 DEF WithinPosition
  <2>. QED BY <1>8, <2>1, <2>2, <2>3, <2>6 DEF AccountValid
<1>13. RiskStateValid(r)
  <2>1. Cardinality(Live(r)) = 0 /\ 0 <= RiskOrders
    BY <1>9, FS_EmptySet, RiskAssumption
  <2>. QED BY <1>9, <1>12, <2>1 DEF RiskStateValid
<1>. QED BY <1>1, <1>9, <1>10, <1>11, <1>13 DEF RiskOK, r

\* The inductive invariant
GatewayInv ==
  /\ GatewayOK(book, risk, expected_sequence, maximum_received_order_id)
  /\ NoStateError

LEMMA GatewayStarts == GatewayInit => GatewayInv
<1>. SUFFICES ASSUME GatewayInit PROVE GatewayInv
  OBVIOUS
<1>1. /\ book = EmptyBook /\ expected_sequence = 1 /\ maximum_received_order_id = 0 /\ result
           = NoResult
      /\ \E killed \in BOOLEAN, dead \in KillSets : risk = NewRisk(killed, dead)
  BY DEF GatewayInit
<1>2. PICK killed \in BOOLEAN, dead \in KillSets : risk = NewRisk(killed, dead)
  BY <1>1
<1>3. RiskOK(risk) /\ Live(risk) = {} /\ risk.maximum_order_id = 0 /\ SettledSum(risk) = 0
  BY <1>2, NewRiskOK
<1>4. BookOK(book) /\ \A s \in Sides, p \in Prices : \A x : ~In(book, s, p, x)
  BY <1>1, EmptyOK
<1>5. Agree(book, risk) /\ Older(book, expected_sequence)
  BY <1>3, <1>4 DEF Agree, Older
<1>6. result.kind # "RiskState"
  BY <1>1 DEF NoResult
<1>. QED BY <1>1, <1>3, <1>4, <1>5, <1>6 DEF GatewayInv, GatewayOK, NoStateError

-----------------------------------------------------------------------------
(* The steps.                                                              *)

\* What a refusal leaves
NoTrace ==
  result'.kind \in {"Sequence", "Risk", "Book"} =>
    /\ book' = book
    /\ risk'.accounts = risk.accounts
    /\ risk'.reservations = risk.reservations

\* What every step that changes something does
Stepped == GatewayInv' /\ NoTrace /\ Earned(book, book', expected_sequence)

LEMMA Kinds ==
  ASSUME NEW kind, NEW why
  PROVE  [NoResult EXCEPT !.kind = kind, !.why = why].kind = kind
BY DEF NoResult

LEMMA ReturnsKind ==
  ASSUME NEW kind, NEW why, Returns(kind, why)
  PROVE  result'.kind = kind
BY Kinds DEF Returns

LEMMA FromDone ==
  ASSUME GatewayInv, Done(book, risk, expected_sequence, book', risk'),
         expected_sequence' = expected_sequence + 1, maximum_received_order_id' \in Nat,
         risk'.maximum_order_id <= maximum_received_order_id', result'.kind # "RiskState"
  PROVE  GatewayInv' /\ Earned(book, book', expected_sequence)
<1>1. /\ expected_sequence \in Nat /\ expected_sequence > 0 /\ SettledSum(risk) = 0
  BY DEF GatewayInv, GatewayOK
<1>2. /\ BookOK(book') /\ RiskOK(risk') /\ Agree(book', risk')
           /\ Older(book', expected_sequence + 1)
      /\ SettledSum(risk') = SettledSum(risk) /\ Earned(book, book', expected_sequence)
  BY DEF Done
<1>3. expected_sequence' \in Nat /\ expected_sequence' > 0
  BY <1>1
<1>4. GatewayOK(book', risk', expected_sequence', maximum_received_order_id')
  BY <1>1, <1>2, <1>3 DEF GatewayOK
<1>5. NoStateError'
  BY DEF NoStateError
<1>. QED BY <1>2, <1>4, <1>5 DEF GatewayInv

\* Nothing but the sequence and the watermark of received ids changed.
LEMMA Unmoved ==
  ASSUME GatewayInv, book' = book, risk' = risk,
         expected_sequence' = expected_sequence + 1, maximum_received_order_id' \in Nat,
         maximum_received_order_id <= maximum_received_order_id', result'.kind # "RiskState"
  PROVE  Stepped
<1>1. GatewayOK(book, risk, expected_sequence, maximum_received_order_id)
  BY DEF GatewayInv
<1>2. RiskOK(risk) /\ risk.maximum_order_id <= maximum_received_order_id
      /\ maximum_received_order_id \in Nat
      /\ risk.maximum_order_id \in Nat
  BY <1>1 DEF GatewayOK, RiskOK, RiskType
<1>3. Done(book, risk, expected_sequence, book, risk)
  BY <1>1, <1>2, SameDone
<1>4. Done(book, risk, expected_sequence, book', risk')
  BY <1>3
<1>5. risk'.maximum_order_id <= maximum_received_order_id'
  BY <1>2
<1>6. GatewayInv' /\ Earned(book, book', expected_sequence)
  BY <1>4, <1>5, FromDone
<1>. QED BY <1>6 DEF Stepped, NoTrace

LEMMA IdleStep ==
  ASSUME GatewayInv, WrongSequence \/ Exhausted \/ UNCHANGED gatewayVars
  PROVE  Stepped \/ (UNCHANGED gatewayVars /\ GatewayInv')
<1>0. GatewayOK(book, risk, expected_sequence, maximum_received_order_id)
  BY DEF GatewayInv
<1>1. BookOK(book) /\ Older(book, expected_sequence) /\ expected_sequence \in Nat
  BY <1>0 DEF GatewayOK
<1>2. Earned(book, book, expected_sequence)
  BY <1>1, SubEarned
<1>3. CASE WrongSequence
  <2>1. result'.kind = "Sequence" /\ UNCHANGED <<book, risk, expected_sequence,
        maximum_received_order_id>>
    BY <1>3, ReturnsKind DEF WrongSequence
  <2>. QED BY <1>0, <1>2, <2>1 DEF Stepped, NoTrace, GatewayInv, NoStateError
<1>4. CASE Exhausted
  <2>1. /\ result'.kind = "RiskState" /\ UNCHANGED <<book, risk, expected_sequence,
             maximum_received_order_id>>
        /\ expected_sequence = MaxSeq
    BY <1>4, ReturnsKind DEF Exhausted
  <2>. QED BY <1>0, <1>2, <2>1 DEF Stepped, NoTrace, GatewayInv, NoStateError
<1>5. CASE UNCHANGED gatewayVars
  BY <1>5 DEF gatewayVars, GatewayInv, NoStateError
<1>. QED BY <1>3, <1>4, <1>5

LEMMA MayReserveNow ==
  ASSUME GatewayInv, NEW o, OrderTyped(o), RiskReject(o) = Pass
  PROVE  MayReserve(risk, o)
<1>1. /\ FirstReject(ReserveRejects(risk, o)) = Pass
      /\ FirstReject(LimitRejects(risk.accounts[o.account], o)) = Pass
  BY DEF RiskReject
<1>2. RiskOK(risk)
  BY DEF GatewayInv, GatewayOK
<1>. QED BY <1>1, <1>2, MayReserveIs

LEMMA NewOrderStep ==
  ASSUME GatewayInv, NEW o, OrderTyped(o), NewOrder(o)
  PROVE  Stepped
<1>0. /\ GatewayOK(book, risk, expected_sequence, maximum_received_order_id)
      /\ RiskOK(risk) /\ maximum_received_order_id \in Nat /\ o.id \in Nat
  BY DEF GatewayInv, GatewayOK, OrderTyped
<1>1. CASE NewOrderDuplicate(o)
  <2>1. /\ result'.kind = "Risk" /\ expected_sequence' = expected_sequence + 1
        /\ book' = book /\ risk' = risk /\ maximum_received_order_id' = maximum_received_order_id
    BY <1>1, ReturnsKind DEF NewOrderDuplicate, AcceptSequence
  <2>. QED BY <1>0, <2>1, Unmoved
<1>2. CASE NewOrderRiskRejected(o)
  <2>1. /\ result'.kind = "Risk" /\ expected_sequence' = expected_sequence + 1
        /\ book' = book /\ risk' = risk /\ maximum_received_order_id' = o.id
             /\ o.id > maximum_received_order_id
    BY <1>2, ReturnsKind DEF NewOrderRiskRejected, AcceptSequence
  <2>2. maximum_received_order_id <= maximum_received_order_id'
        /\ maximum_received_order_id' \in Nat
    BY <1>0, <2>1
  <2>. QED BY <2>1, <2>2, Unmoved
<1>3. CASE NewOrderBookRejected(o)
  <2>1. /\ expected_sequence' = expected_sequence + 1 /\ book' = book
        /\ maximum_received_order_id' = o.id /\ RiskReject(o) = Pass
        /\ LET reserved == Reserve(risk, o)
           IN  IF CanSettle(reserved, o.id)
               THEN risk' = Settle(reserved, o.id) /\ Returns("Book", SubmitReject(book, o))
               ELSE risk' = reserved /\ StateError
    BY <1>3 DEF NewOrderBookRejected, AcceptSequence
  <2>2. MayReserve(risk, o)
    BY <2>1, MayReserveNow
  <2>. DEFINE t == Settle(Reserve(risk, o), o.id)
  <2>3. /\ CanSettle(Reserve(risk, o), o.id) /\ RiskOK(t) /\ t.accounts = risk.accounts
        /\ t.reservations = risk.reservations /\ t.maximum_order_id = o.id
    BY <1>0, <2>2, ReserveSettle
  <2>4. risk' = t /\ Returns("Book", SubmitReject(book, o))
    BY <2>1, <2>3
  <2>5. result'.kind = "Book"
    BY <2>4, ReturnsKind
  <2>. HIDE DEF t
  <2>6. Done(book, risk, expected_sequence, book, t)
    BY <1>0, <2>3, SameDone
  <2>7. Done(book, risk, expected_sequence, book', risk') /\ maximum_received_order_id' \in Nat
        /\ risk'.maximum_order_id <= maximum_received_order_id'
    BY <1>0, <2>1, <2>3, <2>4, <2>6
  <2>8. GatewayInv' /\ Earned(book, book', expected_sequence)
    BY <2>1, <2>5, <2>7, FromDone
  <2>. QED BY <2>1, <2>3, <2>4, <2>8 DEF Stepped, NoTrace
<1>4. CASE NewOrderAccepted(o)
  <2>. DEFINE fills == Fills(book, o)
              rests == RestingQuantity(book, o)
              settled == SettleFills(o, fills, rests)
              v == [NoResult EXCEPT !.kind = "Accepted", !.order = o.id,
                              !.filled = Total(fills), !.resting = rests,
                              !.discarded = Discarded(book, o), !.reports = fills]
  <2>1. /\ expected_sequence' = expected_sequence + 1 /\ maximum_received_order_id' = o.id
        /\ RiskReject(o) = Pass /\ SubmitReject(book, o) = Pass
        /\ book' = SubmitBook(book, o, expected_sequence)
        /\ risk' = settled.risk
        /\ IF settled.ok THEN result' = v ELSE StateError
    BY <1>4 DEF NewOrderAccepted, AcceptSequence
  <2>2. MayReserve(risk, o)
    BY <2>1, MayReserveNow
  <2>3. settled = SettledWith(risk, o, fills, rests)
    BY DEF SettleFills, SettledWith
  <2>4. v.kind = "Accepted"
    BY DEF NoResult
  <2>. DEFINE s == SettledWith(risk, o, fills, rests)
  <2>5. /\ s.ok = TRUE /\ Done(book, risk, expected_sequence,
             SubmitBook(book, o, expected_sequence), s.risk)
        /\ s.risk.maximum_order_id = o.id
    BY <1>0, <2>1, <2>2, SubmitOK
  <2>. HIDE DEF settled, s, v
  <2>6. result'.kind = "Accepted" /\ Done(book, risk, expected_sequence, book', risk')
        /\ risk'.maximum_order_id = o.id
    BY <2>1, <2>3, <2>4, <2>5 DEF s
  <2>7. GatewayInv' /\ Earned(book, book', expected_sequence)
    BY <1>0, <2>1, <2>6, FromDone
  <2>. QED BY <2>6, <2>7 DEF Stepped, NoTrace
<1>. QED BY <1>1, <1>2, <1>3, <1>4 DEF NewOrder

LEMMA AdjustPassesNow ==
  ASSUME NEW o, AdjustReject(o) = Pass
  PROVE  o.id \in Live(risk) /\ MayAdjust(risk, o.id, o.quantity)
<1>1. /\ FirstReject(OwnedRejects(risk, o.id, o.account)) = Pass
      /\ FirstReject(AdjustRejects(risk, o.id, o.price, o.quantity)) = Pass
  BY DEF AdjustReject
<1>2. o.id \in Live(risk)
  BY <1>1, OwnedPasses
<1>3. MayAdjust(risk, o.id, o.quantity)
  BY <1>1, MayAdjustIs
<1>. QED BY <1>2, <1>3

LEMMA ReplaceStep ==
  ASSUME GatewayInv, NEW o, ReplaceTyped(o), Replace(o)
  PROVE  Stepped
<1>0. /\ GatewayOK(book, risk, expected_sequence, maximum_received_order_id)
      /\ RiskOK(risk) /\ maximum_received_order_id \in Nat /\ o.quantity \in Nat
      /\ risk.maximum_order_id <= maximum_received_order_id
  BY DEF GatewayInv, GatewayOK, ReplaceTyped
<1>1. CASE ReplaceRiskRejected(o)
  <2>1. /\ result'.kind = "Risk" /\ expected_sequence' = expected_sequence + 1
        /\ book' = book /\ risk' = risk /\ maximum_received_order_id' = maximum_received_order_id
    BY <1>1, ReturnsKind DEF ReplaceRiskRejected, AcceptSequence
  <2>. QED BY <1>0, <2>1, Unmoved
<1>2. CASE ReplaceBookRejected(o)
  <2>. DEFINE id == o.id
              n == o.quantity
              t == SetReservation(SetReservation(risk, id, n), id, risk.reservations[id].quantity)
  <2>1. /\ Returns("Book", ReplaceReject(book, o)) /\ expected_sequence' = expected_sequence + 1
        /\ book' = book /\ risk' = t /\ maximum_received_order_id' = maximum_received_order_id
        /\ AdjustReject(o) = Pass
    BY <1>2 DEF ReplaceBookRejected, AcceptSequence
  <2>2. id \in Live(risk) /\ n \in Nat
    BY <1>0, <2>1, AdjustPassesNow
  <2>. HIDE DEF id, n
  <2>3. Fields(t, risk.accounts, risk.reservations, risk.maximum_order_id)
    BY <1>0, <2>2, SetReservationBack
  <2>. HIDE DEF t
  <2>4. RiskOK(t) /\ t.accounts = risk.accounts /\ t.reservations = risk.reservations
         /\ t.maximum_order_id = risk.maximum_order_id
    BY <1>0, <2>3, SameFields DEF Fields
  <2>5. Done(book, risk, expected_sequence, book, t)
    BY <1>0, <2>4, SameDone
  <2>6. result'.kind = "Book"
    BY <2>1, ReturnsKind
  <2>7. GatewayInv' /\ Earned(book, book', expected_sequence)
    <3>1. Done(book, risk, expected_sequence, book', risk') /\ maximum_received_order_id' \in Nat
           /\ risk'.maximum_order_id <= maximum_received_order_id' /\ result'.kind # "RiskState"
      BY <1>0, <2>1, <2>4, <2>5, <2>6
    <3>. QED BY <2>1, <3>1, FromDone
  <2>. QED BY <2>1, <2>4, <2>7 DEF Stepped, NoTrace
<1>3. CASE ReplaceAccepted(o)
  <2>. DEFINE v == [NoResult EXCEPT !.kind = "Replaced", !.order = o.id, !.resting = o.quantity,
                   !.old = OrderAt(book, Locate(book, o.id)).quantity, !.price = o.price,
                   !.moved = ~KeepsPriority(book, o)]
  <2>1. /\ result' = v /\ expected_sequence' = expected_sequence + 1
        /\ book' = ReplaceBook(book, o, expected_sequence) /\ risk'
             = SetReservation(risk, o.id, o.quantity)
        /\ maximum_received_order_id' = maximum_received_order_id
        /\ AdjustReject(o) = Pass /\ ReplaceReject(book, o) = Pass
    BY <1>3 DEF ReplaceAccepted, AcceptSequence
  <2>. DEFINE old == OrderAt(book, Locate(book, o.id)).quantity
              moved == ~KeepsPriority(book, o)
  <2>0. v = [NoResult EXCEPT !.kind = "Replaced", !.order = o.id, !.resting = o.quantity,
                             !.old = old, !.price = o.price, !.moved = moved]
    OBVIOUS
  <2>. HIDE DEF v, old, moved
  <2>2. v.kind = "Replaced"
    BY <2>0 DEF NoResult
  <2>. HIDE DEF v
  <2>3. o.id \in Live(risk) /\ MayAdjust(risk, o.id, o.quantity)
    BY <2>1, AdjustPassesNow
  <2>4. /\ Done(book, risk, expected_sequence, book', risk')
        /\ risk'.maximum_order_id = risk.maximum_order_id
    BY <1>0, <2>1, <2>3, ReplaceOK
  <2>5. result'.kind = "Replaced"
    BY <2>1, <2>2
  <2>6. GatewayInv' /\ Earned(book, book', expected_sequence)
    <3>1. maximum_received_order_id' \in Nat
           /\ risk'.maximum_order_id <= maximum_received_order_id' /\ result'.kind # "RiskState"
      BY <1>0, <2>1, <2>4, <2>5
    <3>. QED BY <2>1, <2>4, <3>1, FromDone
  <2>. QED BY <2>5, <2>6 DEF Stepped, NoTrace
<1>. QED BY <1>1, <1>2, <1>3 DEF Replace

LEMMA CancelStep ==
  ASSUME GatewayInv, NEW c, Cancel(c)
  PROVE  Stepped
<1>0. /\ GatewayOK(book, risk, expected_sequence, maximum_received_order_id)
      /\ RiskOK(risk) /\ maximum_received_order_id \in Nat
      /\ risk.maximum_order_id <= maximum_received_order_id
  BY DEF GatewayInv, GatewayOK
<1>1. CASE CancelRiskRejected(c)
  <2>1. /\ result'.kind = "Risk" /\ expected_sequence' = expected_sequence + 1
        /\ book' = book /\ risk' = risk /\ maximum_received_order_id' = maximum_received_order_id
    BY <1>1, ReturnsKind DEF CancelRiskRejected, AcceptSequence
  <2>. QED BY <1>0, <2>1, Unmoved
<1>2. CASE CancelBookRejected(c)
  <2>1. /\ result'.kind = "Book" /\ expected_sequence' = expected_sequence + 1
        /\ book' = book /\ risk' = risk /\ maximum_received_order_id' = maximum_received_order_id
    BY <1>2, ReturnsKind DEF CancelBookRejected, AcceptSequence
  <2>. QED BY <1>0, <2>1, Unmoved
<1>3. CASE CancelAccepted(c)
  <2>. DEFINE v == [NoResult EXCEPT !.kind = "Cancelled", !.order = c.id,
                                    !.discarded = CancelledQuantity(book, c)]
  <2>1. /\ expected_sequence' = expected_sequence + 1
        /\ book' = CancelBook(book, c) /\ maximum_received_order_id' = maximum_received_order_id
        /\ CanCancelReject(c) = Pass
        /\ IF CanSettle(risk, c.id)
           THEN /\ risk' = Settle(risk, c.id)
                /\ IF risk.reservations[c.id].quantity = CancelledQuantity(book, c)
                   THEN result' = v
                   ELSE StateError
           ELSE risk' = risk /\ StateError
    BY <1>3 DEF CancelAccepted, AcceptSequence
  <2>2. v.kind = "Cancelled"
    BY DEF NoResult
  <2>. HIDE DEF v
  <2>3. c.id \in Live(risk)
    BY <2>1, OwnedPasses DEF CanCancelReject
  <2>4. /\ CanSettle(risk, c.id) /\ Done(book, risk, expected_sequence, CancelBook(book, c),
             Settle(risk, c.id))
         /\ Settle(risk, c.id).maximum_order_id = risk.maximum_order_id
         /\ risk.reservations[c.id].quantity = CancelledQuantity(book, c)
    BY <1>0, <2>3, CancelOK
  <2>5. result'.kind = "Cancelled" /\ risk' = Settle(risk, c.id)
    BY <2>1, <2>2, <2>4
  <2>6. GatewayInv' /\ Earned(book, book', expected_sequence)
    <3>1. /\ Done(book, risk, expected_sequence, book', risk') /\ maximum_received_order_id' \in Nat
          /\ risk'.maximum_order_id <= maximum_received_order_id' /\ result'.kind # "RiskState"
      BY <1>0, <2>1, <2>4, <2>5
    <3>. QED BY <2>1, <3>1, FromDone
  <2>. QED BY <2>5, <2>6 DEF Stepped, NoTrace
<1>. QED BY <1>1, <1>2, <1>3 DEF Cancel

LEMMA GatewaySteps ==
  ASSUME GatewayInv, [ProcessCommand]_gatewayVars
  PROVE  Stepped \/ (UNCHANGED gatewayVars /\ GatewayInv')
<1>1. CASE WrongSequence \/ Exhausted \/ UNCHANGED gatewayVars
  BY <1>1, IdleStep
<1>2. CASE Sequenced
  <2>1. PICK c \in Commands : Apply(c)
    BY <1>2 DEF Sequenced, Offered
  <2>2. /\ c.type = "New" => OrderTyped(c)
        /\ c.type = "Replace" => ReplaceTyped(c)
    BY CommandFields
  <2>3. CASE c.type = "New" /\ NewOrder(c)
    BY <2>2, <2>3, NewOrderStep
  <2>4. CASE c.type = "Replace" /\ Replace(c)
    BY <2>2, <2>4, ReplaceStep
  <2>5. CASE c.type = "Cancel" /\ Cancel(c)
    BY <2>5, CancelStep
  <2>. QED BY <2>1, <2>3, <2>4, <2>5 DEF Apply
<1>. QED BY <1>1, <1>2 DEF ProcessCommand

\* The invariant holds of every reachable state.
LEMMA GatewayInvariant == GatewaySpec => []GatewayInv
<1>1. GatewayInv /\ [ProcessCommand]_gatewayVars => GatewayInv'
  BY GatewaySteps DEF Stepped
<1>. QED BY <1>1, GatewayStarts, PTL DEF GatewaySpec

\* It implies what validation demands of a state.
LEMMA Validates == GatewayInv => StateValidates
<1>. SUFFICES ASSUME GatewayInv PROVE StateValidates
  OBVIOUS
<1>. DEFINE m == maximum_received_order_id
<1>1. /\ BookOK(book) /\ RiskOK(risk) /\ Agree(book, risk) /\ Older(book, expected_sequence)
      /\ m \in Nat /\ risk.maximum_order_id <= m
      /\ SettledSum(risk) = 0
  BY DEF GatewayInv, GatewayOK
<1>2. BookStateValid(book)
  BY <1>1, BookFlat DEF BookOK
<1>3. RiskStateValid(risk) /\ RiskType(risk)
  BY <1>1 DEF RiskOK
<1>4. ASSUME NEW at \in RestingOrders(book)
      PROVE  LET o == OrderAt(book, at)
             IN  /\ o.sequence < expected_sequence /\ o.id <= m /\ o.id \in Live(risk)
                 /\ risk.reservations[o.id]
                      = [account |-> o.account, side |-> at[1], quantity |-> o.quantity]
  <2>. DEFINE o == OrderAt(book, at)
              s == at[1]
              p == at[2]
  <2>1. s \in Sides /\ p \in Prices /\ In(book, s, p, o)
    BY <1>1, InPlace
  <2>. HIDE DEF o, s, p
  <2>2. o.sequence < expected_sequence
    BY <1>1, <2>1 DEF Older
  <2>3. o.id \in Live(risk) /\ risk.reservations[o.id] = Triple(o.account, s, o.quantity)
    BY <1>1, <2>1 DEF Agree
  <2>4. o.id <= m
    <3>1. o.id \in Nat /\ risk.maximum_order_id \in Nat /\ o.id <= risk.maximum_order_id
      BY <1>3, <2>3 DEF RiskStateValid, RiskType
    <3>. QED BY <1>1, <3>1
  <2>. QED BY <2>2, <2>3, <2>4 DEF Triple, o, s
<1>5. Live(risk) = {OrderAt(book, at).id : at \in RestingOrders(book)}
  <2>1. ASSUME NEW id \in Live(risk) PROVE \E at \in RestingOrders(book) : id = OrderAt(book, at).id
    <3>1. PICK s \in Sides, p \in Prices, x \in Order : In(book, s, p, x) /\ x.id = id
      BY <1>1 DEF Agree
    <3>2. PICK at \in RestingOrders(book) : OrderAt(book, at) = x
      BY <1>1, <3>1, PlaceIn
    <3>. QED BY <3>1, <3>2
  <2>2. \A at \in RestingOrders(book) : OrderAt(book, at).id \in Live(risk)
    BY <1>4
  <2>. QED BY <2>1, <2>2
<1>6. CrossValid(book, risk, expected_sequence, m)
  BY <1>1, <1>4, <1>5 DEF CrossValid
<1>7. SumOver([a \in Accounts |-> risk.accounts[a].settled], Accounts) = 0
  BY <1>1 DEF SettledSum
<1>. QED BY <1>2, <1>3, <1>6, <1>7 DEF StateValidates

(* Every reachable state passes what Gateway::from_state checks, the limits *)
(* of single orders apart: the book is sorted, uncrossed, within its       *)
(* capacities and without a repeated id; the totals and open counts of every *)
(* account are those of its reservations and within its limits; resting    *)
(* orders and reservations correspond one to one; positions sum to zero.   *)
THEOREM StateStaysValid == GatewaySpec => []StateValidates
BY GatewayInvariant, Validates, PTL

(* The error the gateway keeps for a contradiction between its book and its *)
(* risk state (GatewayError::RiskState, from record_fill, settle and       *)
(* cancel) is returned by no command, except for want of sequence numbers. *)
THEOREM RiskAlwaysFollows == GatewaySpec => []NoStateError
<1>1. GatewayInv => NoStateError
  BY DEF GatewayInv
<1>. QED BY <1>1, GatewayInvariant, PTL

(* A command that is refused, out of turn, by risk or by the book after risk *)
(* had reserved for it or had adjusted its reservation, leaves the book, the *)
(* accounts and the reservations exactly as they were.                     *)
THEOREM RefusalsLeaveNoTrace == GatewaySpec => RefusalLeavesNoTrace
<1>1. GatewayInv /\ [ProcessCommand]_gatewayVars =>
        [result'.kind \in {"Sequence", "Risk", "Book"} =>
           /\ book' = book
           /\ risk'.accounts = risk.accounts
           /\ risk'.reservations = risk.reservations]_gatewayVars
  BY GatewaySteps DEF Stepped, NoTrace
<1>. QED BY <1>1, GatewayInvariant, PTL DEF GatewaySpec, RefusalLeavesNoTrace

(* An order that keeps the sequence it is ranked by keeps its side and price *)
(* and never grows; whatever grew or moved is ranked by the command that did *)
(* it.                                                                     *)
THEOREM PriorityStaysEarned == GatewaySpec => PriorityIsEarned
<1>1. ASSUME GatewayInv, [ProcessCommand]_gatewayVars
      PROVE  [\A x \in RestingOrders(book), y \in RestingOrders(book') :
                LET old == OrderAt(book, x)
                    new == OrderAt(book', y)
                IN  old.id = new.id =>
                      \/ /\ old.sequence = new.sequence
                         /\ x[1] = y[1] /\ x[2] = y[2] /\ new.quantity <= old.quantity
                      \/ new.sequence = expected_sequence]_gatewayVars
  <2>1. Stepped \/ UNCHANGED gatewayVars
    BY <1>1, GatewaySteps
  <2>2. CASE Stepped
    <3>1. BookOK(book) /\ BookOK(book') /\ Earned(book, book', expected_sequence)
      BY <1>1, <2>2 DEF Stepped, GatewayInv, GatewayOK
    <3>2. ASSUME NEW x \in RestingOrders(book), NEW y \in RestingOrders(book'),
                 OrderAt(book, x).id = OrderAt(book', y).id
          PROVE  \/ /\ OrderAt(book, x).sequence = OrderAt(book', y).sequence
                    /\ x[1] = y[1] /\ x[2] = y[2]
                         /\ OrderAt(book', y).quantity <= OrderAt(book, x).quantity
                 \/ OrderAt(book', y).sequence = expected_sequence
      <4>1. x[1] \in Sides /\ x[2] \in Prices /\ In(book, x[1], x[2], OrderAt(book, x))
        BY <3>1, InPlace
      <4>2. y[1] \in Sides /\ y[2] \in Prices /\ In(book', y[1], y[2], OrderAt(book', y))
        BY <3>1, InPlace
      <4>. QED BY <3>1, <3>2, <4>1, <4>2 DEF Earned
    <3>. QED BY <3>2
  <2>. QED BY <2>1, <2>2
<1>. QED BY <1>1, GatewayInvariant, PTL DEF GatewaySpec, PriorityIsEarned

-----------------------------------------------------------------------------
(* Price-time priority of an accepted order.                               *)

\* What rests of the order id
LeftOf(c, id) == IF Located(c, id) = {} THEN 0 ELSE OrderAt(c, Locate(c, id)).quantity

\* What the fills leave of the orders of b is what d holds of them.
Kept(b, d, fills) ==
  \A s, t \in Sides, p, q \in Prices : \A x, y : In(b, s, p, x) =>
    (In(d, t, q, y) /\ y.id = x.id <=> t = s /\ q = p /\ Outcome(fills, Len(fills), x, y))

LEMMA ContentKept ==
  ASSUME NEW b, BookOK(b), NEW o, o.side \in Sides, NEW fills, NEW left, IsPlan(b, o, fills, left),
         NEW c, Content(b, c, fills, Len(fills))
  PROVE  Kept(b, c, fills)
<1>. DEFINE n == Len(fills)
<1>0. n \in 0 .. Len(fills)
  BY DEF IsPlan
<1>0a. Content(b, c, fills, n)
  OBVIOUS
<1>. HIDE DEF n
<1>1. ASSUME NEW s \in Sides, NEW t \in Sides, NEW p \in Prices, NEW q \in Prices, NEW x, NEW y,
             In(b, s, p, x)
      PROVE  In(c, t, q, y) /\ y.id = x.id <=> t = s /\ q = p /\ Outcome(fills, n, x, y)
  <2>1. ASSUME In(c, t, q, y), y.id = x.id
        PROVE  t = s /\ q = p /\ Outcome(fills, n, x, y)
    <3>1. PICK z \in Order : In(b, t, q, z) /\ Outcome(fills, n, z, y)
      BY <1>0a, <2>1 DEF Content
    <3>2. Same(y, z)
      BY <1>0, <3>1, OutcomeIs
    <3>3. x.id = z.id
      BY <2>1, <3>2 DEF Same
    <3>4. t = s /\ q = p /\ z = x
      BY <1>1, <3>1, <3>3, InUnique
    <3>. QED BY <3>1, <3>4
  <2>2. ASSUME t = s, q = p, Outcome(fills, n, x, y)
        PROVE  In(c, t, q, y) /\ y.id = x.id
    <3>1. x \in Order
      BY <1>1, InTyped
    <3>2. In(c, t, q, y)
      BY <1>0a, <1>1, <2>2, <3>1 DEF Content
    <3>3. Same(y, x)
      BY <1>0, <1>1, <2>2, OutcomeIs
    <3>. QED BY <3>2, <3>3 DEF Same
  <2>. QED BY <2>1, <2>2
<1>. QED BY <1>1 DEF Kept, n

LEMMA JoinedKept ==
  ASSUME NEW b, NEW c, NEW d, NEW fills, Kept(b, c, fills), NEW s, NEW p, NEW x,
         Joined(c, d, s, p, x),
         \A t \in Sides, q \in Prices : \A y : In(b, t, q, y) => y.id # x.id
  PROVE  Kept(b, d, fills)
BY DEF Kept, Joined

LEMMA LeftIn ==
  ASSUME NEW d, BookOK(d), NEW s \in Sides, NEW p \in Prices, NEW y, In(d, s, p, y)
  PROVE  LeftOf(d, y.id) = y.quantity
<1>1. OrderAt(d, Locate(d, y.id)) = y
  BY LocateIs
<1>2. Located(d, y.id) = {Locate(d, y.id)}
  BY LocateIs
<1>3. Located(d, y.id) # {}
  BY <1>2
<1>. QED BY <1>1, <1>3 DEF LeftOf

\* What is left of an order of the book: the whole of it, or less what its fill took.
LEMMA LeftIs ==
  ASSUME NEW b, BookOK(b), NEW o, o.side \in Sides, NEW fills, NEW left, IsPlan(b, o, fills, left),
         NEW d, BookOK(d), Kept(b, d, fills), NEW s \in Sides, NEW p \in Prices, NEW x,
         In(b, s, p, x)
  PROVE  /\ x.quantity \in Nat /\ x.quantity > 0
         /\ (\A j \in 1 .. Len(fills) : fills[j].id # x.id) => LeftOf(d, x.id) = x.quantity
         /\ \A j \in 1 .. Len(fills) : fills[j].id = x.id => LeftOf(d, x.id)
              = x.quantity - fills[j].quantity
<1>0. x \in Order /\ x.quantity \in Nat /\ x.quantity > 0
  BY InTyped
<1>1. ASSUME NEW y, Outcome(fills, Len(fills), x, y) PROVE LeftOf(d, x.id) = y.quantity
  <2>1. In(d, s, p, y) /\ y.id = x.id
    BY <1>1 DEF Kept
  <2>. QED BY <2>1, LeftIn
<1>2. ASSUME \A j \in 1 .. Len(fills) : fills[j].id # x.id PROVE LeftOf(d, x.id) = x.quantity
  BY <1>1, <1>2 DEF Outcome
<1>3. ASSUME NEW j \in 1 .. Len(fills), fills[j].id = x.id
      PROVE  LeftOf(d, x.id) = x.quantity - fills[j].quantity
  <2>1. fills[j].quantity \in Nat /\ fills[j].quantity <= x.quantity
    <3>1. MakerOf(b, o, fills[j], p, x)
      BY <1>3, TheMaker
    <3>2. fills[j].quantity \in Nat
      BY DEF IsPlan
    <3>. QED BY <3>1, <3>2 DEF MakerOf
  <2>. DEFINE m == x.quantity - fills[j].quantity
  <2>2. m \in Nat
    BY <1>0, <2>1
  <2>3. CASE fills[j].quantity # x.quantity
    <3>1. Outcome(fills, Len(fills), x, Cut(x, m))
      BY <1>3, <2>3 DEF Outcome
    <3>2. Cut(x, m).quantity = m
      BY <1>0, <2>2, CutIs
    <3>. QED BY <1>1, <3>1, <3>2
  <2>4. CASE fills[j].quantity = x.quantity
    <3>1. ASSUME NEW y PROVE ~Outcome(fills, Len(fills), x, y)
      <4>1. \A k \in 1 .. Len(fills) : fills[k].id = x.id => k = j
        BY <1>3 DEF IsPlan
      <4>. QED BY <1>3, <2>4, <4>1 DEF Outcome
    <3>2. \A t \in Sides, q \in Prices : \A y : In(d, t, q, y) => y.id # x.id
      BY <3>1 DEF Kept
    <3>3. Located(d, x.id) = {}
      BY <3>2, LocatedNone
    <3>. QED BY <1>0, <2>4, <3>3 DEF LeftOf
  <2>. QED BY <2>3, <2>4
<1>. QED BY <1>0, <1>2, <1>3

\* A place is found by the id of its order.
LEMMA LocateAt ==
  ASSUME NEW b, BookOK(b), NEW at \in RestingOrders(b)
  PROVE  Locate(b, OrderAt(b, at).id) = at
<1>. DEFINE x == OrderAt(b, at)
            s == at[1]
            p == at[2]
<1>1. s \in Sides /\ p \in Prices /\ In(b, s, p, x)
  BY InPlace
<1>2. at \in Located(b, x.id)
  BY DEF Located, OrderAt
<1>. HIDE DEF x, s, p
<1>3. Located(b, x.id) = {Locate(b, x.id)}
  BY <1>1, LocateIs
<1>4. at = Locate(b, x.id)
  BY <1>2, <1>3
<1>. QED BY <1>4 DEF x

\* What the order at a place lost from book b to book d, and the places that lost something
Lost(b, d, at) == OrderAt(b, at).quantity - LeftOf(d, OrderAt(b, at).id)
TradedIn(b, d) == {at \in RestingOrders(b) : Lost(b, d, at) > 0}

\* The i-th fill is of the order at a place of the book.
FillAt(b, d, o, fills, i, at) ==
  /\ at \in RestingOrders(b) /\ at[1] = Opposite(o.side)
  /\ MakerOf(b, o, fills[i], at[2], OrderAt(b, at))
  /\ Lost(b, d, at) = fills[i].quantity

\* An order that lost something is the maker of a fill.
LEMMA TradedFill ==
  ASSUME NEW b, BookOK(b), NEW o, o.side \in Sides, NEW fills, NEW left, IsPlan(b, o, fills, left),
         NEW d, BookOK(d), Kept(b, d, fills), NEW at \in TradedIn(b, d)
  PROVE  \E i \in 1 .. Len(fills) : FillAt(b, d, o, fills, i, at)
<1>. DEFINE x == OrderAt(b, at)
            s == at[1]
            p == at[2]
<1>0. at \in RestingOrders(b) /\ Lost(b, d, at) > 0 /\ Lost(b, d, at) = x.quantity - LeftOf(d, x.id)
  BY DEF TradedIn, Lost
<1>1. s \in Sides /\ p \in Prices /\ In(b, s, p, x)
  BY <1>0, InPlace
<1>. HIDE DEF x, s, p
<1>2. /\ x.quantity \in Nat
      /\ (\A j \in 1 .. Len(fills) : fills[j].id # x.id) => LeftOf(d, x.id) = x.quantity
      /\ \A j \in 1 .. Len(fills) : fills[j].id = x.id => LeftOf(d, x.id)
           = x.quantity - fills[j].quantity
  BY <1>1, LeftIs
<1>3. PICK i \in 1 .. Len(fills) : fills[i].id = x.id
  BY <1>0, <1>2
<1>4. fills[i].quantity \in Nat
  BY DEF IsPlan
<1>5. Lost(b, d, at) = fills[i].quantity
  BY <1>0, <1>2, <1>3, <1>4
<1>6. s = Opposite(o.side) /\ MakerOf(b, o, fills[i], p, x)
  BY <1>1, <1>3, TheMaker
<1>. QED BY <1>0, <1>5, <1>6 DEF FillAt, x, s, p

\* The maker of a fill lost something.
LEMMA FillTraded ==
  ASSUME NEW b, BookOK(b), NEW o, o.side \in Sides, NEW fills, NEW left, IsPlan(b, o, fills, left),
         NEW d, BookOK(d), Kept(b, d, fills), NEW i \in 1 .. Len(fills)
  PROVE  /\ Locate(b, fills[i].id) \in TradedIn(b, d)
         /\ OrderAt(b, Locate(b, fills[i].id)).id = fills[i].id
<1>. DEFINE s == Opposite(o.side)
<1>1. PICK p \in Prices, x \in Order : MakerOf(b, o, fills[i], p, x)
  BY DEF IsPlan
<1>2. s \in Sides /\ In(b, s, p, x) /\ fills[i].id = x.id
  BY <1>1, OppositeSide DEF MakerOf
<1>3. PICK at \in RestingOrders(b) : OrderAt(b, at) = x
  BY <1>2, PlaceIn
<1>4. Locate(b, fills[i].id) = at
  BY <1>2, <1>3, LocateAt
<1>5. fills[i].quantity \in Nat /\ fills[i].quantity > 0
  BY DEF IsPlan
<1>. HIDE DEF s
<1>6. x.quantity \in Nat /\ LeftOf(d, x.id) = x.quantity - fills[i].quantity
  BY <1>2, LeftIs
<1>7. Lost(b, d, at) > 0
  BY <1>3, <1>5, <1>6 DEF Lost
<1>. QED BY <1>2, <1>3, <1>4, <1>7 DEF TradedIn

\* So there are as many of them as fills.
LEMMA TradedCount ==
  ASSUME NEW b, BookOK(b), NEW o, o.side \in Sides, NEW fills, NEW left, IsPlan(b, o, fills, left),
         NEW d, BookOK(d), Kept(b, d, fills)
  PROVE  Cardinality(TradedIn(b, d)) = Len(fills)
<1>. DEFINE N == Len(fills)
            I == 1 .. N
            T == TradedIn(b, d)
            f == [i \in I |-> Locate(b, fills[i].id)]
<1>0. N \in Nat /\ \A i, j \in I : fills[i].id = fills[j].id => i = j
  BY DEF IsPlan
<1>1. \A i \in I : f[i] \in T /\ OrderAt(b, f[i]).id = fills[i].id
  BY FillTraded
<1>2. ASSUME NEW at \in T PROVE \E i \in I : f[i] = at
  <2>1. PICK i \in I : FillAt(b, d, o, fills, i, at)
    BY TradedFill
  <2>2. fills[i].id = OrderAt(b, at).id /\ at \in RestingOrders(b)
    BY <2>1 DEF FillAt, MakerOf
  <2>3. Locate(b, OrderAt(b, at).id) = at
    BY <2>2, LocateAt
  <2>4. Locate(b, fills[i].id) = at
    BY <2>2, <2>3
  <2>. QED BY <2>4
<1>3. f \in [I -> T]
  BY <1>1
<1>4. \A i, j \in I : f[i] = f[j] => i = j
  BY <1>0, <1>1
<1>. HIDE DEF f, T
<1>5. f \in Bijection(I, T)
  BY <1>2, <1>3, <1>4 DEF Bijection, Injection, Surjection, IsInjective
<1>6. IsFiniteSet(I) /\ Cardinality(I) = N
  <2>1. 1 \in Int /\ N \in Int
    BY <1>0
  <2>2. IsFiniteSet(I) /\ Cardinality(I) = IF 1 > N THEN 0 ELSE N - 1 + 1
    BY <2>1, FS_Interval
  <2>. QED BY <1>0, <2>2
<1>7. Cardinality(T) = Cardinality(I)
  BY <1>5, <1>6, FS_Bijection DEF ExistsBijection
<1>. QED BY <1>6, <1>7 DEF T

\* A maker that is used up has left the book.
LEMMA UsedUpLeft ==
  ASSUME NEW b, BookOK(b), NEW o, o.side \in Sides, NEW fills, NEW left, IsPlan(b, o, fills, left),
         NEW d, BookOK(d), Kept(b, d, fills), NEW s \in Sides, NEW p \in Prices, NEW x,
         In(b, s, p, x),
         UsedUp(fills, x)
  PROVE  LeftOf(d, x.id) = 0
<1>1. PICK j \in 1 .. Len(fills) : fills[j].id = x.id /\ fills[j].quantity = x.quantity
  BY DEF UsedUp
<1>2. x.quantity \in Nat /\ LeftOf(d, x.id) = x.quantity - fills[j].quantity
  BY <1>1, LeftIs
<1>. QED BY <1>1, <1>2

\* Reports have exactly the fields of a fill.
LEMMA FillsAreFills ==
  ASSUME NEW b, NEW o, NEW i \in DOMAIN Fills(b, o)
  PROVE  Fills(b, o)[i] = [id |-> Fills(b, o)[i].id, price |-> Fills(b, o)[i].price,
                           quantity |-> Fills(b, o)[i].quantity]
<1>. DEFINE fills == Fills(b, o)
<1>1. \E at, n : fills[i] = Fill(b, at, n)
  <2>1. CASE TakesSingleFill(b, o)
    BY <2>1 DEF Fills, SingleFill
  <2>2. CASE ~TakesSingleFill(b, o)
    BY <2>2 DEF Fills, PlanFills
  <2>. QED BY <2>1, <2>2
<1>2. PICK at, n : fills[i] = Fill(b, at, n)
  BY <1>1
<1>. HIDE DEF fills
<1>3. fills[i] = [id |-> fills[i].id, price |-> fills[i].price, quantity |-> fills[i].quantity]
  BY <1>2 DEF Fill
<1>. QED BY <1>3 DEF fills

\* What PriceTimePriority says of the books before and after an order, and its reports
Priority(b, d, fills, filled, rest) ==
  /\ \A at \in TradedIn(b, d) : \E i \in DOMAIN fills :
       fills[i] = [id |-> OrderAt(b, at).id, price |-> at[2], quantity |-> Lost(b, d, at)]
  /\ Cardinality(TradedIn(b, d)) = Len(fills)
  /\ \A y \in TradedIn(b, d) : \A x \in RestingOrders(b) :
       /\ x[1] = y[1]
       /\ Better(x[1], x[2], y[2]) \/ (x[2] = y[2]
            /\ OrderAt(b, x).sequence < OrderAt(b, y).sequence)
       => LeftOf(d, OrderAt(b, x).id) = 0
  /\ Total(fills) = filled
  /\ rest > 0 => \A x \in TradedIn(b, d) : LeftOf(d, OrderAt(b, x).id) = 0

\* A plan is executed by priority.
LEMMA PlanPriority ==
  ASSUME NEW b, BookOK(b), NEW o, o.side \in Sides, NEW fills, NEW left, IsPlan(b, o, fills, left),
         NEW d, BookOK(d), Kept(b, d, fills), NEW rest, rest > 0 => left[Len(fills)] > 0,
         \A i \in DOMAIN fills :
           fills[i] = [id |-> fills[i].id, price |-> fills[i].price, quantity |-> fills[i].quantity]
  PROVE  Priority(b, d, fills, Total(fills), rest)
<1>0. DOMAIN fills = 1 .. Len(fills)
  BY DEF IsPlan
<1>1. ASSUME NEW at \in TradedIn(b, d)
      PROVE  \E i \in DOMAIN fills :
               fills[i] = [id |-> OrderAt(b, at).id, price |-> at[2], quantity |-> Lost(b, d, at)]
  <2>1. PICK i \in 1 .. Len(fills) : FillAt(b, d, o, fills, i, at)
    BY TradedFill
  <2>2. fills[i].id = OrderAt(b, at).id /\ fills[i].price = at[2] /\ fills[i].quantity
        = Lost(b, d, at)
    BY <2>1 DEF FillAt, MakerOf
  <2>. QED BY <1>0, <2>2
<1>2. Cardinality(TradedIn(b, d)) = Len(fills)
  BY TradedCount
<1>3. ASSUME NEW at \in TradedIn(b, d), NEW x \in RestingOrders(b), x[1] = at[1],
             Better(x[1], x[2], at[2]) \/ (x[2] = at[2]
               /\ OrderAt(b, x).sequence < OrderAt(b, at).sequence)
      PROVE  LeftOf(d, OrderAt(b, x).id) = 0
  <2>. DEFINE s == x[1]
              q == x[2]
              p == at[2]
              y == OrderAt(b, x)
              m == OrderAt(b, at)
  <2>1. PICK i \in 1 .. Len(fills) : FillAt(b, d, o, fills, i, at)
    BY TradedFill
  <2>2. at[1] = Opposite(o.side) /\ MakerOf(b, o, fills[i], p, m) /\ at \in RestingOrders(b)
    BY <2>1 DEF FillAt
  <2>3. p \in Prices /\ m \in Order
    BY <2>2, InPlace
  <2>4. s \in Sides /\ q \in Prices /\ y \in Order /\ In(b, s, q, y)
    BY InPlace
  <2>5. s = Opposite(o.side) /\ (Better(s, q, p) \/ (q = p /\ y.sequence < m.sequence))
    BY <1>3, <2>2
  <2>. HIDE DEF s, q, p, y, m
  <2>6. UsedUp(fills, y)
    BY <2>2, <2>3, <2>4, <2>5 DEF IsPlan
  <2>7. LeftOf(d, y.id) = 0
    BY <2>4, <2>6, UsedUpLeft
  <2>. QED BY <2>7 DEF y
<1>4. ASSUME rest > 0, NEW at \in TradedIn(b, d) PROVE LeftOf(d, OrderAt(b, at).id) = 0
  <2>. DEFINE p == at[2]
              m == OrderAt(b, at)
              s == Opposite(o.side)
  <2>1. PICK i \in 1 .. Len(fills) : FillAt(b, d, o, fills, i, at)
    BY TradedFill
  <2>2. MakerOf(b, o, fills[i], p, m) /\ at \in RestingOrders(b)
    BY <2>1 DEF FillAt
  <2>3. p \in Prices /\ m \in Order /\ s \in Sides
    BY <2>2, InPlace, OppositeSide
  <2>. HIDE DEF p, m
  <2>4. In(b, s, p, m) /\ Crosses(o.side, o.price, p)
    BY <2>2 DEF MakerOf
  <2>5. UsedUp(fills, m)
    BY <1>4, <2>3, <2>4 DEF IsPlan
  <2>. HIDE DEF s
  <2>6. LeftOf(d, m.id) = 0
    BY <2>3, <2>4, <2>5, UsedUpLeft
  <2>. QED BY <2>6 DEF m
<1>. QED BY <1>1, <1>2, <1>3, <1>4 DEF Priority

\* So is every accepted order, whether its remainder rests, is discarded or is nothing.
LEMMA SubmitPriority ==
  ASSUME NEW b, NEW r, NEW e, NEW m, GatewayOK(b, r, e, m), NEW o, OrderTyped(o), MayReserve(r, o),
         SubmitReject(b, o) = Pass
  PROVE  Priority(b, SubmitBook(b, o, e), Fills(b, o), Total(Fills(b, o)),
                  RestingQuantity(b, o) + Discarded(b, o))
<1>. DEFINE fills == Fills(b, o)
            n == Remaining(b, o)
            c == ApplyFills(b, fills)
            r0 == Reserve(r, o)
            rests == RestingQuantity(b, o)
            x == Resting(o, rests, e)
            d == SubmitBook(b, o, e)
            s == o.side
            p == o.price
            rest == rests + Discarded(b, o)
<1>0. BookOK(b) /\ RiskOK(r) /\ Agree(b, r) /\ Older(b, e) /\ e \in Nat /\ e > 0
  BY DEF GatewayOK
<1>1. PICK left, t :
           /\ IsPlan(b, o, fills, left)
           /\ Trading(b, r0, o, fills, left, Len(fills), c, t)
           /\ RecordFills(r0, fills, o.id) = Acc(t)
           /\ left[Len(fills)] \in Nat /\ left[Len(fills)] = n
           /\ Total(fills) \in Nat /\ Total(fills) + n = o.quantity
           /\ o.price \in Prices /\ o.account \in Accounts
  BY <1>0, SubmitPlan
<1>2. ~(o.tif \in {"Gtc", "PostOnly"} /\ n > 0 /\ RestReject(b, o.side, o.price) # Pass)
  BY SubmitPasses
<1>3. /\ rests = IF o.tif \in {"Gtc", "PostOnly"} THEN n ELSE 0
      /\ Discarded(b, o) = IF o.tif = "Ioc" THEN n ELSE 0
  BY DEF RestingQuantity, Discarded
<1>4. d = IF rests = 0 THEN c ELSE RestAtTail(c, s, p, x)
  BY DEF SubmitBook, Resting
<1>5. s \in Sides /\ p \in Prices /\ o.id \in Nat
  BY <1>1 DEF OrderTyped
<1>6. BookOK(d)
  BY SubmitOK DEF Done
<1>7. \A i \in DOMAIN fills :
        fills[i] = [id |-> fills[i].id, price |-> fills[i].price, quantity |-> fills[i].quantity]
  BY FillsAreFills
<1>8. n \in Nat
  BY <1>1
<1>9. rest > 0 => left[Len(fills)] > 0
  BY <1>1, <1>3, <1>8
<1>. HIDE DEF fills, n, c, r0, rests, d, rest
<1>10. BookOK(c) /\ Content(b, c, fills, Len(fills))
  BY <1>1 DEF Trading
<1>11. Kept(b, c, fills)
  BY <1>0, <1>1, <1>5, <1>10, ContentKept
<1>12. Kept(b, d, fills)
  <2>1. CASE rests = 0
    BY <1>4, <1>11, <2>1
  <2>2. CASE rests # 0
    <3>1. n > 0 /\ rests = n /\ o.tif \in {"Gtc", "PostOnly"}
      BY <1>3, <1>8, <2>2
    <3>2. MayRest(c, s, p, x)
      <4>1. left[Len(fills)] > 0 /\ RestReject(b, o.side, o.price) = Pass /\ rests
            = left[Len(fills)]
        BY <1>1, <1>2, <3>1
      <4>2. MayRest(c, o.side, o.price, Resting(o, left[Len(fills)], e))
        BY <1>0, <1>1, <1>5, <4>1, RestMay
      <4>. QED BY <4>1, <4>2
    <3>3. x.id = o.id
      BY RestingIs
    <3>4. \A u \in Sides, q \in Prices : \A y : In(b, u, q, y) => y.id # x.id
      <4>1. Located(b, o.id) = {}
        <5>1. OrderReject(b, o) = Pass
          BY DEF SubmitReject
        <5>. QED BY <5>1, OrderPasses
      <4>. QED BY <1>0, <3>3, <4>1, LocatedNone
    <3>. HIDE DEF x, s, p
    <3>5. Joined(c, d, s, p, x)
      BY <1>4, <1>5, <1>10, <2>2, <3>2, RestOK
    <3>. QED BY <1>11, <3>4, <3>5, JoinedKept
  <2>. QED BY <2>1, <2>2
<1>13. Priority(b, d, fills, Total(fills), rest)
  BY <1>0, <1>1, <1>5, <1>6, <1>7, <1>9, <1>12, PlanPriority
<1>. QED BY <1>13 DEF d, fills, rest, rests

\* What a step that accepts an order does
Ranked ==
  result'.kind = "Accepted" /\ expected_sequence' # expected_sequence =>
    Priority(book, book', result'.reports, result'.filled, result'.resting + result'.discarded)

LEMMA NewOrderRanked ==
  ASSUME GatewayInv, NEW o, OrderTyped(o), NewOrder(o)
  PROVE  Ranked
<1>0. GatewayOK(book, risk, expected_sequence, maximum_received_order_id)
  BY DEF GatewayInv
<1>1. CASE NewOrderDuplicate(o)
  <2>1. result'.kind = "Risk"
    BY <1>1, ReturnsKind DEF NewOrderDuplicate
  <2>. QED BY <2>1 DEF Ranked
<1>2. CASE NewOrderRiskRejected(o)
  <2>1. result'.kind = "Risk"
    BY <1>2, ReturnsKind DEF NewOrderRiskRejected
  <2>. QED BY <2>1 DEF Ranked
<1>3. CASE NewOrderBookRejected(o)
  <2>1. Returns("Book", SubmitReject(book, o)) \/ StateError
    BY <1>3 DEF NewOrderBookRejected
  <2>2. result'.kind \in {"Book", "RiskState"}
    BY <2>1, ReturnsKind DEF StateError
  <2>. QED BY <2>2 DEF Ranked
<1>4. CASE NewOrderAccepted(o)
  <2>. DEFINE fills == Fills(book, o)
              rests == RestingQuantity(book, o)
              thrown == Discarded(book, o)
              total == Total(fills)
              v == [NoResult EXCEPT !.kind = "Accepted", !.order = o.id,
                              !.filled = total, !.resting = rests,
                              !.discarded = thrown, !.reports = fills]
  <2>1. /\ RiskReject(o) = Pass /\ SubmitReject(book, o) = Pass
        /\ book' = SubmitBook(book, o, expected_sequence)
        /\ result' = v \/ StateError
    BY <1>4 DEF NewOrderAccepted, AcceptSequence
  <2>2. MayReserve(risk, o)
    BY <2>1, MayReserveNow
  <2>3. Priority(book, SubmitBook(book, o, expected_sequence), fills, total, rests + thrown)
    BY <1>0, <2>1, <2>2, SubmitPriority
  <2>. HIDE DEF fills, rests, thrown, total
  <2>4. v.reports = fills /\ v.filled = total /\ v.resting = rests /\ v.discarded = thrown
    BY DEF NoResult
  <2>. HIDE DEF v
  <2>5. CASE result' = v
    <3>1. Priority(book, book', result'.reports, result'.filled,
          result'.resting + result'.discarded)
      BY <2>1, <2>3, <2>4, <2>5
    <3>. QED BY <3>1 DEF Ranked
  <2>6. CASE StateError
    <3>1. result'.kind = "RiskState"
      BY <2>6, ReturnsKind DEF StateError
    <3>. QED BY <3>1 DEF Ranked
  <2>. QED BY <2>1, <2>5, <2>6
<1>. QED BY <1>1, <1>2, <1>3, <1>4 DEF NewOrder

LEMMA ReplaceRanked ==
  ASSUME NEW o, Replace(o)
  PROVE  Ranked
<1>1. CASE ReplaceRiskRejected(o) \/ ReplaceBookRejected(o)
  <2>1. result'.kind \in {"Risk", "Book"}
    BY <1>1, ReturnsKind DEF ReplaceRiskRejected, ReplaceBookRejected
  <2>. QED BY <2>1 DEF Ranked
<1>2. CASE ReplaceAccepted(o)
  <2>. DEFINE old == OrderAt(book, Locate(book, o.id)).quantity
              moved == ~KeepsPriority(book, o)
  <2>1. result' = [NoResult EXCEPT !.kind = "Replaced", !.order = o.id, !.resting = o.quantity,
                             !.old = old, !.price = o.price, !.moved = moved]
    BY <1>2 DEF ReplaceAccepted
  <2>. HIDE DEF old, moved
  <2>2. result'.kind = "Replaced"
    BY <2>1 DEF NoResult
  <2>. QED BY <2>2 DEF Ranked
<1>. QED BY <1>1, <1>2 DEF Replace

LEMMA CancelRanked ==
  ASSUME NEW c, Cancel(c)
  PROVE  Ranked
<1>1. CASE CancelRiskRejected(c) \/ CancelBookRejected(c)
  <2>1. result'.kind \in {"Risk", "Book"}
    BY <1>1, ReturnsKind DEF CancelRiskRejected, CancelBookRejected
  <2>. QED BY <2>1 DEF Ranked
<1>2. CASE CancelAccepted(c)
  <2>. DEFINE n == CancelledQuantity(book, c)
  <2>1. \/ result' = [NoResult EXCEPT !.kind = "Cancelled", !.order = c.id, !.discarded = n]
        \/ StateError
    BY <1>2 DEF CancelAccepted
  <2>. HIDE DEF n
  <2>2. result'.kind \in {"Cancelled", "RiskState"}
    BY <2>1, ReturnsKind DEF NoResult, StateError
  <2>. QED BY <2>2 DEF Ranked
<1>. QED BY <1>1, <1>2 DEF Cancel

LEMMA EveryStepRanks ==
  ASSUME GatewayInv, [ProcessCommand]_gatewayVars
  PROVE  Ranked \/ UNCHANGED gatewayVars
<1>1. CASE WrongSequence \/ Exhausted
  <2>1. expected_sequence' = expected_sequence
    BY <1>1 DEF WrongSequence, Exhausted
  <2>. QED BY <2>1 DEF Ranked
<1>2. CASE Sequenced
  <2>1. PICK c \in Commands : Apply(c)
    BY <1>2 DEF Sequenced, Offered
  <2>2. c.type = "New" => OrderTyped(c)
    BY CommandFields
  <2>3. CASE c.type = "New" /\ NewOrder(c)
    BY <2>2, <2>3, NewOrderRanked
  <2>4. CASE c.type = "Replace" /\ Replace(c)
    BY <2>4, ReplaceRanked
  <2>5. CASE c.type = "Cancel" /\ Cancel(c)
    BY <2>5, CancelRanked
  <2>. QED BY <2>1, <2>3, <2>4, <2>5 DEF Apply
<1>. QED BY <1>1, <1>2 DEF ProcessCommand

(* Price-time priority of an accepted order: makers lose exactly what is   *)
(* reported, at their own price; whoever was ahead of a maker that traded is *)
(* used up; an order not filled in full used up whatever it met; and the   *)
(* reports add up to what was filled.                                      *)
THEOREM TradesByPriority == GatewaySpec => PriceTimePriority
<1>. DEFINE P ==
       result'.kind = "Accepted" /\ expected_sequence' # expected_sequence =>
         LET left(id)    == IF Located(book', id) = {} THEN 0
                            ELSE OrderAt(book', Locate(book', id)).quantity
             order(at)   == OrderAt(book, at)
             lost(at)    == order(at).quantity - left(order(at).id)
             traded      == {at \in RestingOrders(book) : lost(at) > 0}
             ahead(x, y) == /\ x[1] = y[1]
                            /\ \/ Better(x[1], x[2], y[2])
                               \/ x[2] = y[2] /\ order(x).sequence < order(y).sequence
         IN  /\ \A at \in traded : \E i \in DOMAIN result'.reports :
                  result'.reports[i] = [id |-> order(at).id, price |-> at[2],
                                        quantity |-> lost(at)]
             /\ Cardinality(traded) = Len(result'.reports)
             /\ \A y \in traded : \A x \in RestingOrders(book) :
                  ahead(x, y) => left(order(x).id) = 0
             /\ Total(result'.reports) = result'.filled
             /\ result'.resting + result'.discarded > 0 =>
                  \A x \in traded : left(order(x).id) = 0
<1>1. Ranked => P
  BY DEF Ranked, Priority, TradedIn, Lost, LeftOf
<1>2. GatewayInv /\ [ProcessCommand]_gatewayVars => [P]_gatewayVars
  BY <1>1, EveryStepRanks
<1>. QED BY <1>2, GatewayInvariant, PTL DEF GatewaySpec, PriceTimePriority
=============================================================================
