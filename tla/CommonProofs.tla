----------------------------- MODULE CommonProofs -----------------------------
(***************************************************************************)
(* Facts the proofs of several components need: what the classification of *)
(* events and status answers can yield, induction over finite sets, and    *)
(* sums over them.                                                         *)
(***************************************************************************)
EXTENDS SquadStatus, FiniteSetsExt, FiniteSetTheorems, WellFoundedInduction, TLAPS

\* The statuses a classified outcome can carry to the settlement: never the
\* absence of an outcome, so every event and every answer moves an open row
\* to a status the rest of the code knows.
SettledStatuses == {"completed", "failed", "reversed", "processing"}

LEMMA EventOfType == \A truth : EventOf(truth).dbStatus \in SettledStatuses
  BY DEF EventOf, Classify, VaCredit, Transfer, NoOutcome, SettledStatuses

LEMMA VerifyOfType == \A truth : VerifyOf(truth).dbStatus \in SettledStatuses
  BY DEF VerifyOf, Classify, VaCredit, Transfer, NoOutcome, SettledStatuses

\* Only the state "failed" is ever read as a failure, and only "paid" as a
\* success, by the webhook and by the poll alike.
LEMMA EventOfMeaning ==
  \A truth \in Truth :
    /\ EventOf(truth).dbStatus = "failed" => truth = "failed"
    /\ EventOf(truth).dbStatus = "completed" => truth = "paid"
  BY DEF EventOf, Classify, VaCredit, Transfer, NoOutcome, Truth

LEMMA VerifyOfMeaning ==
  \A truth \in Truth \union {"unreachable"} :
    /\ VerifyOf(truth).dbStatus = "failed" => truth = "failed"
    /\ VerifyOf(truth).dbStatus = "completed" => truth = "paid"
  BY DEF VerifyOf, Classify, VaCredit, Transfer, NoOutcome, Truth
-------------------------------------------------------------------------------
(***************************************************************************)
(* Induction.  A set of naturals has a least member, so a family of subsets*)
(* of a finite set that holds each of them whose smaller ones it holds is  *)
(* all of them.                                                            *)
(***************************************************************************)
LEMMA LeastNat ==
  ASSUME NEW T \in SUBSET Nat, T # {}
  PROVE  \E n \in T : \A m \in T : n <= m
<1>1. PICK n \in T : \A m \in T : ~(<<m, n>> \in OpToRel(<, Nat))
  BY NatLessThanWellFounded, WFMin
<1>2. \A m \in T : ~(m < n)
  BY <1>1 DEF OpToRel
<1> QED
  BY <1>2

LEMMA CountingUp ==
  ASSUME NEW F, 0 \in F, \A n \in Nat : n \in F => n + 1 \in F
  PROVE  Nat \subseteq F
<1> DEFINE Out == {n \in Nat : n \notin F}
<1> SUFFICES ASSUME Out # {} PROVE FALSE
  OBVIOUS
<1>1. PICK n \in Out : \A m \in Out : n <= m
  BY LeastNat
<1>2. n - 1 \in Nat /\ n - 1 \notin Out
  BY <1>1
<1> QED
  BY <1>1, <1>2

LEMMA SubsetInduction ==
  ASSUME NEW S, IsFiniteSet(S), NEW F,
         \A s \in SUBSET S : (\A x \in s : s \ {x} \in F) => s \in F
  PROVE  \A s \in SUBSET S : s \in F
<1> DEFINE Out == {s \in SUBSET S : s \notin F}
           Sizes == {Cardinality(s) : s \in Out}
<1> SUFFICES ASSUME Out # {} PROVE FALSE
  OBVIOUS
<1>1. \A s \in SUBSET S : IsFiniteSet(s) /\ Cardinality(s) \in Nat
  BY FS_Subset, FS_CardinalityType
<1>2. Sizes \in SUBSET Nat /\ Sizes # {}
  BY <1>1
<1>3. PICK s \in Out : \A t \in Out : Cardinality(s) <= Cardinality(t)
  <2>1. PICK n \in Sizes : \A m \in Sizes : n <= m
    BY <1>2, LeastNat
  <2>2. PICK s \in Out : n = Cardinality(s)
    OBVIOUS
  <2> QED
    BY <2>1, <2>2
<1>4. \A x \in s : s \ {x} \in F
  <2> SUFFICES ASSUME NEW x \in s PROVE s \ {x} \in F
    OBVIOUS
  <2>1. s \ {x} \in SUBSET S
    BY <1>3
  <2>2. Cardinality(s \ {x}) = Cardinality(s) - 1
    BY <1>1, <1>3, FS_RemoveElement
  <2>3. ~(Cardinality(s) <= Cardinality(s \ {x}))
    BY <1>1, <1>3, <2>2
  <2> QED
    BY <1>3, <2>1, <2>3
<1> QED
  BY <1>3, <1>4
-----------------------------------------------------------------------------
(***************************************************************************)
(* Sums over finite sets.                                                  *)
(***************************************************************************)
Sum(f, S) == MapThenSumSet(LAMBDA x : f[x], S)

\* The function by which a sum is computed.
AnyOf(s) == CHOOSE x \in s : TRUE
Step(g, f, s) == IF s = {} THEN 0 ELSE f[AnyOf(s)] + g[s \ {AnyOf(s)}]
Adds(g, f, S) == g = [s \in SUBSET S |-> Step(g, f, s)]

LEMMA FirstIn == \A s : s # {} => AnyOf(s) \in s
  BY DEF AnyOf

LEMMA SumComputed ==
  ASSUME NEW f, NEW S
  PROVE  Sum(f, S) = (CHOOSE g : Adds(g, f, S))[S]
  BY DEF Sum, MapThenSumSet, MapThenFoldSet, Adds, Step, AnyOf

LEMMA AddsExist ==
  ASSUME NEW S, IsFiniteSet(S), NEW f
  PROVE  \E g : Adds(g, f, S)
<1> DEFINE Upto(n, g) == \A s \in SUBSET S : Cardinality(s) <= n => g[s] = Step(g, f, s)
           F == {n \in Nat : \E g : Upto(n, g)}
<1>1. \A s \in SUBSET S : IsFiniteSet(s) /\ Cardinality(s) \in Nat
  BY FS_Subset, FS_CardinalityType
<1>2. \A s \in SUBSET S : s # {} => /\ s \ {AnyOf(s)} \in SUBSET S
                                    /\ Cardinality(s \ {AnyOf(s)}) = Cardinality(s) - 1
  BY <1>1, FS_RemoveElement, FirstIn
<1>3. 0 \in F
  <2> DEFINE g == [s \in SUBSET S |-> 0]
  <2>1. \A s \in SUBSET S : Cardinality(s) <= 0 => s = {}
    BY <1>1, FS_EmptySet
  <2>2. Upto(0, g)
    BY <2>1 DEF Step
  <2> QED
    BY <2>2
<1>4. ASSUME NEW n \in Nat, n \in F PROVE n + 1 \in F
  <2>1. PICK g : Upto(n, g)
    BY <1>4
  <2> DEFINE h == [s \in SUBSET S |-> IF Cardinality(s) <= n THEN g[s] ELSE Step(g, f, s)]
  <2>2. ASSUME NEW s \in SUBSET S, Cardinality(s) <= n + 1 PROVE h[s] = Step(h, f, s)
    <3>1. h[s] = Step(g, f, s)
      BY <2>1
    <3>2. CASE s = {}
      BY <3>1, <3>2 DEF Step
    <3>3. CASE s # {}
      <4>1. /\ s \ {AnyOf(s)} \in SUBSET S
            /\ Cardinality(s \ {AnyOf(s)}) <= n
        BY <1>1, <1>2, <2>2, <3>3
      <4>2. h[s \ {AnyOf(s)}] = g[s \ {AnyOf(s)}]
        BY <4>1
      <4> QED
        BY <3>1, <3>3, <4>2 DEF Step
    <3> QED
      BY <3>2, <3>3
  <2>3. Upto(n + 1, h)
    BY <2>2
  <2>4. \E g1 : Upto(n + 1, g1)
    BY <2>3
  <2> QED
    BY <2>4
<1>5. Cardinality(S) \in F
  BY <1>1, <1>3, <1>4, CountingUp
<1>6. PICK g : Upto(Cardinality(S), g)
  BY <1>5
<1> DEFINE h == [s \in SUBSET S |-> g[s]]
<1>7. ASSUME NEW s \in SUBSET S PROVE h[s] = Step(h, f, s)
  <2>1. Cardinality(s) <= Cardinality(S)
    BY FS_Subset
  <2>2. g[s] = Step(g, f, s)
    BY <1>6, <2>1
  <2>3. s # {} => h[s \ {AnyOf(s)}] = g[s \ {AnyOf(s)}]
    BY <1>2
  <2> QED
    BY <2>2, <2>3 DEF Step
<1>8. h = [s \in SUBSET S |-> Step(h, f, s)]
  BY <1>7
<1> QED
  BY <1>8 DEF Adds

\* Two such functions agree on the sets on which the summands do.
LEMMA AddsAgree ==
  ASSUME NEW S, NEW T, NEW f, NEW e, NEW g, NEW h, Adds(g, f, S), Adds(h, e, T),
         NEW U, U \subseteq S, U \subseteq T, IsFiniteSet(U), \A x \in U : f[x] = e[x]
  PROVE  g[U] = h[U]
<1> DEFINE F == {s \in SUBSET U : g[s] = h[s]}
<1>1. ASSUME NEW s \in SUBSET U, \A x \in s : s \ {x} \in F PROVE s \in F
  <2>1. g[s] = Step(g, f, s) /\ h[s] = Step(h, e, s)
    BY DEF Adds
  <2>2. s # {} => AnyOf(s) \in s
    BY FirstIn
  <2> QED
    BY <1>1, <2>1, <2>2 DEF Step
<1> HIDE DEF F
<1>2. \A s \in SUBSET U : s \in F
  <2>1. \A s \in SUBSET U : (\A x \in s : s \ {x} \in F) => s \in F
    BY <1>1
  <2> QED
    BY <2>1, SubsetInduction
<1> QED
  BY <1>2 DEF F

LEMMA SumAdds ==
  ASSUME NEW S, IsFiniteSet(S), NEW f
  PROVE  \E g : Adds(g, f, S) /\ \A s \in SUBSET S : Sum(f, s) = g[s]
<1>1. PICK g : Adds(g, f, S)
  BY AddsExist
<1>2. ASSUME NEW s \in SUBSET S PROVE Sum(f, s) = g[s]
  <2>1. IsFiniteSet(s)
    BY FS_Subset
  <2>2. PICK h : Adds(h, f, s) /\ Sum(f, s) = h[s]
    BY <2>1, AddsExist, SumComputed
  <2> QED
    BY <1>1, <2>1, <2>2, AddsAgree
<1> QED
  BY <1>1, <1>2

\* The sum of nothing, and of what agrees.
LEMMA SumEmpty == ASSUME NEW f PROVE Sum(f, {}) = 0
<1>1. PICK g : Adds(g, f, {}) /\ Sum(f, {}) = g[{}]
  BY SumAdds, FS_EmptySet
<1> QED
  BY <1>1 DEF Adds, Step

LEMMA SumSame ==
  ASSUME NEW S, IsFiniteSet(S), NEW f, NEW e, \A x \in S : f[x] = e[x]
  PROVE  Sum(f, S) = Sum(e, S)
<1>1. PICK g : Adds(g, f, S) /\ Sum(f, S) = g[S]
  BY SumAdds
<1>2. PICK h : Adds(h, e, S) /\ Sum(e, S) = h[S]
  BY SumAdds
<1> QED
  BY <1>1, <1>2, AddsAgree

LEMMA SumFirst ==
  ASSUME NEW S, IsFiniteSet(S), S # {}, NEW f
  PROVE  Sum(f, S) = f[AnyOf(S)] + Sum(f, S \ {AnyOf(S)})
<1>1. PICK g : Adds(g, f, S) /\ \A s \in SUBSET S : Sum(f, s) = g[s]
  BY SumAdds
<1>2. g[S] = Step(g, f, S)
  BY <1>1 DEF Adds
<1> QED
  BY <1>1, <1>2 DEF Step

LEMMA SumType ==
  ASSUME NEW S, IsFiniteSet(S), NEW f, \A x \in S : f[x] \in Int
  PROVE  Sum(f, S) \in Int
<1> DEFINE F == {s \in SUBSET S : Sum(f, s) \in Int}
<1>1. ASSUME NEW s \in SUBSET S, \A x \in s : s \ {x} \in F PROVE s \in F
  <2>1. CASE s = {}
    BY <2>1, SumEmpty
  <2>2. CASE s # {}
    <3>1. IsFiniteSet(s) /\ AnyOf(s) \in s
      BY <2>2, FS_Subset, FirstIn
    <3>2. Sum(f, s) = f[AnyOf(s)] + Sum(f, s \ {AnyOf(s)})
      BY <2>2, <3>1, SumFirst
    <3> QED
      BY <1>1, <3>1, <3>2
  <2> QED
    BY <2>1, <2>2
<1> HIDE DEF F
<1>2. \A s \in SUBSET S : s \in F
  <2>1. \A s \in SUBSET S : (\A x \in s : s \ {x} \in F) => s \in F
    BY <1>1
  <2> QED
    BY <2>1, SubsetInduction
<1> QED
  BY <1>2 DEF F

\* A sum is taken in any order.
LEMMA SumRemove ==
  ASSUME NEW S, IsFiniteSet(S), NEW f, \A y \in S : f[y] \in Int, NEW one \in S
  PROVE  Sum(f, S) = f[one] + Sum(f, S \ {one})
<1> DEFINE F == {s \in SUBSET S : \A y \in s : Sum(f, s) = f[y] + Sum(f, s \ {y})}
<1>1. ASSUME NEW s \in SUBSET S, \A y \in s : s \ {y} \in F PROVE s \in F
  <2> SUFFICES ASSUME NEW y \in s PROVE Sum(f, s) = f[y] + Sum(f, s \ {y})
    OBVIOUS
  <2> DEFINE z == AnyOf(s)
  <2>1. IsFiniteSet(s) /\ z \in s
    BY FS_Subset, FirstIn
  <2>2. Sum(f, s) = f[z] + Sum(f, s \ {z})
    BY <2>1, SumFirst
  <2>3. CASE y = z
    BY <2>2, <2>3
  <2>4. CASE y # z
    <3>1. Sum(f, s \ {z}) = f[y] + Sum(f, (s \ {z}) \ {y})
      BY <1>1, <2>1, <2>4
    <3>2. Sum(f, s \ {y}) = f[z] + Sum(f, (s \ {y}) \ {z})
      BY <1>1, <2>1, <2>4
    <3>3. (s \ {z}) \ {y} = (s \ {y}) \ {z}
      OBVIOUS
    <3>4. IsFiniteSet((s \ {y}) \ {z}) /\ \A x \in (s \ {y}) \ {z} : f[x] \in Int
      BY <2>1, FS_Subset
    <3>5. Sum(f, (s \ {y}) \ {z}) \in Int /\ f[y] \in Int /\ f[z] \in Int
      BY <2>1, <3>4, SumType
    <3> HIDE DEF z
    <3>6. Sum(f, (s \ {z}) \ {y}) = Sum(f, (s \ {y}) \ {z})
      BY <3>3
    <3> QED
      BY <2>2, <3>1, <3>2, <3>5, <3>6
  <2> QED
    BY <2>3, <2>4
<1> HIDE DEF F
<1>2. \A s \in SUBSET S : s \in F
  <2>1. \A s \in SUBSET S : (\A x \in s : s \ {x} \in F) => s \in F
    BY <1>1
  <2> QED
    BY <2>1, SubsetInduction
<1> QED
  BY <1>2 DEF F

\* One summand changes.
LEMMA SumChange ==
  ASSUME NEW S, IsFiniteSet(S), NEW f, NEW e, NEW x \in S,
         \A y \in S : f[y] \in Int /\ e[y] \in Int, \A y \in S \ {x} : e[y] = f[y]
  PROVE  Sum(e, S) = Sum(f, S) + e[x] - f[x]
<1>1. IsFiniteSet(S \ {x})
  BY FS_Subset
<1>2. Sum(f, S \ {x}) \in Int
  BY <1>1, SumType
<1>3. Sum(e, S \ {x}) = Sum(f, S \ {x})
  BY <1>1, SumSame
<1>4. Sum(f, S) = f[x] + Sum(f, S \ {x})
  BY SumRemove
<1>5. Sum(e, S) = e[x] + Sum(e, S \ {x})
  BY SumRemove
<1> QED
  BY <1>2, <1>3, <1>4, <1>5

\* Summands that are zero do not count.
LEMMA SumZero ==
  ASSUME NEW S, IsFiniteSet(S), NEW f, \A x \in S : f[x] = 0
  PROVE  Sum(f, S) = 0
<1> DEFINE F == {s \in SUBSET S : Sum(f, s) = 0}
<1>1. ASSUME NEW s \in SUBSET S, \A x \in s : s \ {x} \in F PROVE s \in F
  <2>1. CASE s = {}
    BY <2>1, SumEmpty
  <2>2. CASE s # {}
    <3>1. IsFiniteSet(s) /\ AnyOf(s) \in s
      BY <2>2, FS_Subset, FirstIn
    <3>2. Sum(f, s) = f[AnyOf(s)] + Sum(f, s \ {AnyOf(s)})
      BY <2>2, <3>1, SumFirst
    <3> QED
      BY <1>1, <3>1, <3>2
  <2> QED
    BY <2>1, <2>2
<1> HIDE DEF F
<1>2. \A s \in SUBSET S : s \in F
  <2>1. \A s \in SUBSET S : (\A x \in s : s \ {x} \in F) => s \in F
    BY <1>1
  <2> QED
    BY <2>1, SubsetInduction
<1> QED
  BY <1>2 DEF F

\* Elements whose summand is zero may be left out.
LEMMA SumWithin ==
  ASSUME NEW S, IsFiniteSet(S), NEW T, T \subseteq S, NEW f,
         \A x \in S : f[x] \in Int, \A x \in S \ T : f[x] = 0
  PROVE  Sum(f, S) = Sum(f, T)
<1> DEFINE F == {s \in SUBSET S : Sum(f, s) = Sum(f, s \cap T)}
<1>1. ASSUME NEW s \in SUBSET S, \A x \in s : s \ {x} \in F PROVE s \in F
  <2>0. IsFiniteSet(s) /\ \A x \in s : f[x] \in Int
    BY FS_Subset
  <2>1. CASE s \subseteq T
    <3>1. s \cap T = s
      BY <2>1
    <3> QED
      BY <3>1
  <2>2. ASSUME NEW y \in s, y \notin T PROVE s \in F
    <3>1. (s \ {y}) \cap T = s \cap T
      BY <2>2
    <3>2. Sum(f, s \ {y}) = Sum(f, s \cap T)
      BY <1>1, <3>1
    <3>3. Sum(f, s) = f[y] + Sum(f, s \ {y})
      BY <2>0, SumRemove
    <3>4. IsFiniteSet(s \ {y}) /\ \A x \in s \ {y} : f[x] \in Int
      BY <2>0, FS_Subset
    <3>5. Sum(f, s \ {y}) \in Int
      BY <3>4, SumType
    <3> QED
      BY <2>2, <3>2, <3>3, <3>5
  <2> QED
    BY <2>1, <2>2
<1> HIDE DEF F
<1>2. \A s \in SUBSET S : s \in F
  <2>1. \A s \in SUBSET S : (\A x \in s : s \ {x} \in F) => s \in F
    BY <1>1
  <2> QED
    BY <2>1, SubsetInduction
<1>3. S \cap T = T
  OBVIOUS
<1> QED
  BY <1>2, <1>3 DEF F
===============================================================================
