--------------------------- MODULE Inference_proofs ---------------------------
(***************************************************************************)
(* Proofs about ContextSelection and Inference, for any sources, sizes,    *)
(* budgets, receipts and attempts, any nesting of provider calls and any   *)
(* number of process deaths.                                               *)
(***************************************************************************)
EXTENDS Inference, FiniteSetTheorems, SequenceTheorems, WellFoundedInduction, TLAPS

-----------------------------------------------------------------------------
(* Recursion over finite sets *)

(* Induction over the naturals, for sets: the least number that is not in S *)
(* is neither 0 nor a successor.                                            *)
LEMMA AllNaturals ==
    ASSUME NEW S, 0 \in S, \A n \in Nat : n \in S => n + 1 \in S
    PROVE  Nat \subseteq S
<1> SUFFICES ASSUME Nat \ S # {} PROVE FALSE
  OBVIOUS
<1> DEFINE R == OpToRel(<, Nat)
<1>1. IsWellFoundedOn(R, Nat)
  BY NatLessThanWellFounded
<1>2. \A m, n \in Nat : <<m, n>> \in R <=> m < n
  BY DEF OpToRel
<1> HIDE DEF R
<1>3. PICK m \in Nat \ S : \A n \in Nat \ S : <<n, m>> \notin R
  BY <1>1, WFMin
<1>4. m # 0 /\ m - 1 \in Nat
  BY <1>3
<1>5. m - 1 \in Nat \ S
  BY <1>3, <1>4
<1>6. <<m - 1, m>> \in R
  BY <1>2, <1>3, <1>5
<1> QED
  BY <1>3, <1>5, <1>6

LEMMA Smaller ==
    ASSUME NEW X, IsFiniteSet(X), NEW n \in Nat, NEW s \in SUBSET X, Cardinality(s) = n + 1
    PROVE  s # {} /\ \A x \in s : s \ {x} \in SUBSET X /\ Cardinality(s \ {x}) = n
<1>1. IsFiniteSet(s)
  BY FS_Subset
<1>2. s # {}
  <2>1. n + 1 # 0
    OBVIOUS
  <2> QED
    BY <2>1, FS_EmptySet
<1>3. ASSUME NEW x \in s PROVE Cardinality(s \ {x}) = n
  <2>1. Cardinality(s \ {x}) = Cardinality(s) - 1
    BY <1>1, FS_RemoveElement
  <2> QED
    BY <2>1
<1> QED
  BY <1>2, <1>3

(* base and op can be folded, in the order of pick, over the subsets of X,  *)
(* with values in V.                                                        *)
Foldable(X, V, base, op, pick) ==
    /\ IsFiniteSet(X) /\ base \in V
    /\ \A s \in SUBSET X : s # {} => pick[s] \in s
    /\ \A x \in X, v \in V : op[<<x, v>>] \in V

Folds(g, X, V, base, op, pick) ==
    /\ g \in [SUBSET X -> V]
    /\ \A s \in SUBSET X : g[s] = IF s = {} THEN base ELSE op[<<pick[s], g[s \ {pick[s]}]>>]

(* The functions that MapThenFoldSet chooses its iteration from exist.      *)
LEMMA FoldExists ==
    ASSUME NEW X, NEW V, NEW base, NEW op, NEW pick, Foldable(X, V, base, op, pick)
    PROVE  \E g : Folds(g, X, V, base, op, pick)
<1> USE DEF Foldable
<1> DEFINE Solves(g, s) == g[s] = IF s = {} THEN base ELSE op[<<pick[s], g[s \ {pick[s]}]>>]
           Upto(n) == \E g \in [SUBSET X -> V] :
                          \A s \in SUBSET X : Cardinality(s) <= n => Solves(g, s)
           N == {n \in Nat : Upto(n)}
<1>0. \A s \in SUBSET X : IsFiniteSet(s) /\ Cardinality(s) \in Nat
  BY FS_Subset, FS_CardinalityType
<1>1. 0 \in N
  <2> DEFINE g == [s \in SUBSET X |-> base]
  <2>1. g \in [SUBSET X -> V]
    OBVIOUS
  <2>2. \A s \in SUBSET X : Cardinality(s) <= 0 => s = {}
    BY <1>0, FS_EmptySet
  <2>3. \A s \in SUBSET X : Cardinality(s) <= 0 => Solves(g, s)
    BY <2>2
  <2> HIDE DEF g
  <2> QED
    BY <2>1, <2>3
<1>2. ASSUME NEW n \in Nat, n \in N PROVE n + 1 \in N
  <2>1. PICK g \in [SUBSET X -> V] : \A s \in SUBSET X : Cardinality(s) <= n => Solves(g, s)
    BY <1>2
  <2> DEFINE h == [s \in SUBSET X |-> IF s # {} /\ Cardinality(s) > n
                                      THEN op[<<pick[s], g[s \ {pick[s]}]>>] ELSE g[s]]
  <2>2. h \in [SUBSET X -> V]
    OBVIOUS
  <2>3. ASSUME NEW s \in SUBSET X, Cardinality(s) <= n + 1 PROVE Solves(h, s)
    <3>1. CASE s = {}
      <4>1. Cardinality(s) = 0
        BY <3>1, FS_EmptySet
      <4>2. Solves(g, s)
        BY <2>1, <4>1
      <4> QED
        BY <3>1, <4>2
    <3>2. CASE s # {}
      <4> DEFINE t == s \ {pick[s]}
      <4>1. t \in SUBSET X /\ Cardinality(t) = Cardinality(s) - 1
        BY <1>0, <3>2, FS_RemoveElement
      <4>2. Cardinality(t) <= n
        BY <1>0, <2>3, <4>1
      <4> HIDE DEF t
      <4>3. h[t] = g[t]
        BY <1>0, <4>1, <4>2
      <4>4. CASE Cardinality(s) > n
        BY <3>2, <4>3, <4>4 DEF t
      <4>5. CASE ~(Cardinality(s) > n)
        <5>1. Solves(g, s)
          BY <1>0, <2>1, <4>5
        <5> QED
          BY <3>2, <4>3, <4>5, <5>1 DEF t
      <4> QED
        BY <4>4, <4>5
    <3> QED
      BY <3>1, <3>2
  <2> HIDE DEF h, Solves
  <2>4. Upto(n + 1)
    BY <2>2, <2>3
  <2> HIDE DEF Upto
  <2> QED
    BY <2>4
<1> HIDE DEF N
<1>3. Cardinality(X) \in N
  BY <1>0, <1>1, <1>2, AllNaturals
<1>4. PICK g \in [SUBSET X -> V] : \A s \in SUBSET X : Cardinality(s) <= Cardinality(X) => Solves(g, s)
  BY <1>3 DEF N
<1>5. \A s \in SUBSET X : Cardinality(s) <= Cardinality(X)
  BY FS_Subset
<1> QED
  BY <1>4, <1>5 DEF Folds

-----------------------------------------------------------------------------
(* Units *)

Some(s) == CHOOSE x \in s : TRUE

Adds(g, S) == g = [s \in SUBSET S |-> IF s = {} THEN 0 ELSE Some(s).units + g[s \ {Some(s)}]]

Sums(S) == CHOOSE g : Adds(g, S)

LEMMA UnitsAreSums ==
    ASSUME NEW S PROVE Units(S) = Envelope + Sums(S)[S]
BY DEF Units, FoldSet, MapThenFoldSet, Sums, Adds, Some

LEMMA SumsAdd ==
    ASSUME NEW S \in SUBSET Candidates, IsFiniteSet(S)
    PROVE  Adds(Sums(S), S) /\ Sums(S) \in [SUBSET S -> Nat]
<1> DEFINE pick == [s \in SUBSET S |-> Some(s)]
           op == [p \in S \X Nat |-> p[1].units + p[2]]
<1>1. \A s \in SUBSET S : s # {} => pick[s] \in s
  BY DEF Some
<1>2. \A x \in S, v \in Nat : op[<<x, v>>] = x.units + v /\ op[<<x, v>>] \in Nat
  BY DEF Candidates
<1>3. PICK g \in [SUBSET S -> Nat] :
         \A s \in SUBSET S : g[s] = IF s = {} THEN 0 ELSE op[<<pick[s], g[s \ {pick[s]}]>>]
  <2>1. Foldable(S, Nat, 0, op, pick)
    BY <1>1, <1>2 DEF Foldable
  <2>2. PICK g : Folds(g, S, Nat, 0, op, pick)
    BY <2>1, FoldExists
  <2> QED
    BY <2>2 DEF Folds
<1>4. ASSUME NEW s \in SUBSET S PROVE g[s] = IF s = {} THEN 0 ELSE Some(s).units + g[s \ {Some(s)}]
  <2>1. CASE s = {}
    BY <1>3, <2>1
  <2>2. CASE s # {}
    <3>1. pick[s] = Some(s) /\ Some(s) \in S /\ s \ {Some(s)} \in SUBSET S
      BY <1>1, <2>2
    <3>2. g[s] = op[<<Some(s), g[s \ {Some(s)}]>>]
      BY <1>3, <2>2, <3>1
    <3> HIDE DEF op
    <3> QED
      BY <1>2, <1>3, <2>2, <3>1, <3>2
  <2> QED
    BY <2>1, <2>2
<1>5. Adds(g, S)
  BY <1>3, <1>4 DEF Adds
<1>6. Adds(Sums(S), S)
  BY <1>5 DEF Sums
<1>7. ASSUME NEW f, Adds(f, S) PROVE f = g
  <2> DEFINE N == {n \in Nat : \A s \in SUBSET S : Cardinality(s) = n => f[s] = g[s]}
  <2>0. \A s \in SUBSET S : IsFiniteSet(s) /\ Cardinality(s) \in Nat
    BY FS_Subset, FS_CardinalityType
  <2>1. 0 \in N
    <3>1. \A s \in SUBSET S : Cardinality(s) = 0 => s = {}
      BY <2>0, FS_EmptySet
    <3> QED
      BY <1>5, <1>7, <3>1 DEF Adds
  <2>2. ASSUME NEW n \in Nat, n \in N PROVE n + 1 \in N
    <3> SUFFICES ASSUME NEW s \in SUBSET S, Cardinality(s) = n + 1 PROVE f[s] = g[s]
      OBVIOUS
    <3> DEFINE t == s \ {Some(s)}
    <3>1. s # {} /\ Some(s) \in s
      BY Smaller DEF Some
    <3>2. t \in SUBSET S /\ Cardinality(t) = n
      BY <3>1, Smaller
    <3>3. f[t] = g[t]
      BY <2>2, <3>2
    <3> QED
      BY <1>5, <1>7, <3>1, <3>3 DEF Adds
  <2> HIDE DEF N
  <2>3. Nat \subseteq N
    BY <2>1, <2>2, AllNaturals
  <2>4. \A s \in SUBSET S : f[s] = g[s]
    BY <2>0, <2>3 DEF N
  <2>5. DOMAIN f = SUBSET S /\ f = [s \in SUBSET S |-> f[s]]
    BY <1>7 DEF Adds
  <2>6. g = [s \in SUBSET S |-> g[s]]
    BY <1>3
  <2> QED
    BY <2>4, <2>5, <2>6
<1> QED
  BY <1>3, <1>6, <1>7

(* The order of the summands does not matter. *)
LEMMA AnyOrder ==
    ASSUME NEW S \in SUBSET Candidates, IsFiniteSet(S), NEW g \in [SUBSET S -> Nat], Adds(g, S),
           NEW s \in SUBSET S, NEW x \in s
    PROVE  g[s] = x.units + g[s \ {x}]
<1> DEFINE N == {n \in Nat : \A t \in SUBSET S : Cardinality(t) = n =>
                                \A y \in t : g[t] = y.units + g[t \ {y}]}
<1>0. \A t \in SUBSET S : IsFiniteSet(t) /\ Cardinality(t) \in Nat
  BY FS_Subset, FS_CardinalityType
<1>1. 0 \in N
  <2>1. \A t \in SUBSET S : Cardinality(t) = 0 => t = {}
    BY <1>0, FS_EmptySet
  <2> QED
    BY <2>1
<1>2. ASSUME NEW n \in Nat, n \in N PROVE n + 1 \in N
  <2> SUFFICES ASSUME NEW t \in SUBSET S, Cardinality(t) = n + 1, NEW y \in t
               PROVE  g[t] = y.units + g[t \ {y}]
    OBVIOUS
  <2> DEFINE z == Some(t)
             u == t \ {z}
             v == t \ {y}
             w == t \ {y, z}
  <2>1. z \in t /\ g[t] = z.units + g[u]
    BY DEF Adds, Some
  <2>2. CASE y = z
    BY <2>1, <2>2
  <2>3. CASE y # z
    <3>1. /\ u \in SUBSET S /\ v \in SUBSET S /\ w \in SUBSET S
          /\ y \in u /\ z \in v /\ u \ {y} = w /\ v \ {z} = w
      BY <2>1, <2>3
    <3>2. Cardinality(u) = n /\ Cardinality(v) = n
      BY <2>1, Smaller
    <3>3. g[u] = y.units + g[w] /\ g[v] = z.units + g[w]
      BY <1>2, <3>1, <3>2
    <3>4. y.units \in Nat /\ z.units \in Nat /\ g[w] \in Nat
      BY <2>1, <3>1 DEF Candidates
    <3> HIDE DEF u, v, w, z
    <3> QED
      BY <2>1, <3>3, <3>4 DEF v
  <2> QED
    BY <2>2, <2>3
<1> HIDE DEF N
<1>3. Cardinality(s) \in N
  BY <1>0, <1>1, <1>2, AllNaturals
<1> QED
  BY <1>3 DEF N

(* What is added over a subset is the same within any larger set. *)
LEMMA SumsAgree ==
    ASSUME NEW S \in SUBSET Candidates, IsFiniteSet(S), NEW T \in SUBSET S
    PROVE  Sums(S)[T] = Sums(T)[T]
<1> DEFINE N == {n \in Nat : \A t \in SUBSET T : Cardinality(t) = n => Sums(S)[t] = Sums(T)[t]}
<1>0. /\ IsFiniteSet(T)
      /\ \A t \in SUBSET T : IsFiniteSet(t) /\ Cardinality(t) \in Nat
  BY FS_Subset, FS_CardinalityType
<1>1. Adds(Sums(S), S) /\ Adds(Sums(T), T)
  BY <1>0, SumsAdd
<1>2. 0 \in N
  <2>1. \A t \in SUBSET T : Cardinality(t) = 0 => t = {}
    BY <1>0, FS_EmptySet
  <2>2. Sums(S)[{}] = 0 /\ Sums(T)[{}] = 0
    BY <1>1 DEF Adds
  <2> QED
    BY <2>1, <2>2
<1>3. ASSUME NEW n \in Nat, n \in N PROVE n + 1 \in N
  <2> SUFFICES ASSUME NEW t \in SUBSET T, Cardinality(t) = n + 1 PROVE Sums(S)[t] = Sums(T)[t]
    OBVIOUS
  <2> DEFINE u == t \ {Some(t)}
  <2>1. t # {} /\ Some(t) \in t
    BY <1>0, Smaller DEF Some
  <2>2. u \in SUBSET T /\ Cardinality(u) = n
    BY <1>0, <2>1, Smaller
  <2>3. Sums(S)[u] = Sums(T)[u]
    BY <1>3, <2>2
  <2>4. Sums(S)[t] = Some(t).units + Sums(S)[u] /\ Sums(T)[t] = Some(t).units + Sums(T)[u]
    BY <1>1, <2>1 DEF Adds
  <2> QED
    BY <2>3, <2>4
<1> HIDE DEF N
<1>4. Cardinality(T) \in N
  BY <1>0, <1>2, <1>3, AllNaturals
<1> QED
  BY <1>0, <1>4 DEF N

(* Every entry adds its units, whatever order they are taken in. *)
LEMMA UnitsAdd ==
    ASSUME NEW S \in SUBSET Candidates, IsFiniteSet(S), NEW c \in S
    PROVE  Units(S) = Units(S \ {c}) + c.units /\ Units(S \ {c}) \in Nat /\ Units(S) \in Nat
<1>1. Adds(Sums(S), S) /\ Sums(S) \in [SUBSET S -> Nat]
  BY SumsAdd
<1>2. Sums(S)[S] = c.units + Sums(S)[S \ {c}]
  BY <1>1, AnyOrder
<1>3. Sums(S)[S \ {c}] = Sums(S \ {c})[S \ {c}]
  BY SumsAgree
<1>4. Sums(S)[S \ {c}] \in Nat /\ c.units \in Nat /\ Envelope \in Nat
  BY <1>1, LimitsAreNat DEF Candidates
<1> QED
  BY <1>2, <1>3, <1>4, UnitsAreSums

LEMMA UnitsOfNothing == Units({}) = Envelope /\ Envelope \in Nat
<1>1. IsFiniteSet({}) /\ {} \in SUBSET Candidates
  BY FS_EmptySet
<1>2. Sums({})[{}] = 0
  <2> DEFINE E == {}
  <2>1. Adds(Sums(E), E)
    <3> HIDE DEF E
    <3> QED
      BY <1>1, SumsAdd DEF E
  <2> QED
    BY <2>1 DEF Adds
<1> QED
  BY <1>2, UnitsAreSums, LimitsAreNat

LEMMA UnitsGrow ==
    ASSUME NEW S \in SUBSET Candidates, IsFiniteSet(S), NEW T \in SUBSET S
    PROVE  Units(T) <= Units(S) /\ Units(T) \in Nat /\ Units(S) \in Nat
<1> DEFINE N == {n \in Nat : \A t \in SUBSET S : Cardinality(t) = n =>
                    Units(t) \in Nat /\ \A u \in SUBSET t : Units(u) \in Nat /\ Units(u) <= Units(t)}
<1>0. \A t \in SUBSET S : IsFiniteSet(t) /\ Cardinality(t) \in Nat
  BY FS_Subset, FS_CardinalityType
<1>1. 0 \in N
  <2>1. \A t \in SUBSET S : Cardinality(t) = 0 => t = {}
    BY <1>0, FS_EmptySet
  <2> QED
    BY <2>1, UnitsOfNothing
<1>2. ASSUME NEW n \in Nat, n \in N PROVE n + 1 \in N
  <2> SUFFICES ASSUME NEW t \in SUBSET S, Cardinality(t) = n + 1
               PROVE  Units(t) \in Nat /\ \A u \in SUBSET t : Units(u) \in Nat /\ Units(u) <= Units(t)
    OBVIOUS
  <2>1. \A c \in t : /\ Units(t) = Units(t \ {c}) + c.units
                     /\ Units(t \ {c}) \in Nat /\ Units(t) \in Nat /\ c.units \in Nat
    BY <1>0, UnitsAdd DEF Candidates
  <2>2. t # {}
    BY Smaller
  <2>3. Units(t) \in Nat
    BY <2>1, <2>2
  <2>4. ASSUME NEW u \in SUBSET t PROVE Units(u) \in Nat /\ Units(u) <= Units(t)
    <3>1. CASE u = t
      BY <2>3, <3>1
    <3>2. CASE u # t
      <4>1. PICK c \in t : c \notin u
        BY <3>2
      <4>2. t \ {c} \in SUBSET S /\ Cardinality(t \ {c}) = n /\ u \in SUBSET (t \ {c})
        BY <4>1, Smaller
      <4>3. Units(u) \in Nat /\ Units(u) <= Units(t \ {c})
        BY <1>2, <4>2
      <4>4. /\ Units(t) = Units(t \ {c}) + c.units
            /\ Units(t \ {c}) \in Nat /\ Units(t) \in Nat /\ c.units \in Nat
        BY <2>1
      <4> QED
        BY <4>3, <4>4
    <3> QED
      BY <3>1, <3>2
  <2> QED
    BY <2>3, <2>4
<1> HIDE DEF N
<1>3. Cardinality(S) \in N
  BY <1>0, <1>1, <1>2, AllNaturals
<1> QED
  BY <1>0, <1>3 DEF N

-----------------------------------------------------------------------------
(* The order of candidates *)

(* Candidates that are told apart by their addresses. *)
Addressed(S) ==
    /\ S \in SUBSET Candidates /\ IsFiniteSet(S)
    /\ \A c, d \in S : c.ref = d.ref => c = d

(* c comes right after all of F. *)
Comes(c, F, S) == F \in SUBSET S /\ c \in S /\ c \notin F /\ \A d \in F : Before(d, c)

Rank(c, S) == Cardinality({d \in S : Before(d, c)})

LEMMA LeastNatural ==
    ASSUME NEW S \in SUBSET Nat, S # {}
    PROVE  \E m \in S : \A n \in S : m <= n
<1> DEFINE N == {m \in Nat : \A k \in 0 .. m : k \notin S}
<1> SUFFICES ASSUME \A m \in S : \E n \in S : n < m PROVE FALSE
  OBVIOUS
<1>1. 0 \in N
  OBVIOUS
<1>2. \A m \in Nat : m \in N => m + 1 \in N
  <2> SUFFICES ASSUME NEW m \in Nat, m \in N, NEW k \in 0 .. m + 1, k \in S PROVE FALSE
    OBVIOUS
  <2>1. PICK n \in S : n < k
    OBVIOUS
  <2>2. n \in 0 .. m
    BY <2>1
  <2> QED
    BY <2>1, <2>2
<1>3. \A m \in N : m \notin S
  OBVIOUS
<1> HIDE DEF N
<1> QED
  BY <1>1, <1>2, <1>3, AllNaturals

LEMMA ClassesAreRanked ==
    /\ \A k \in Classes : ClassRank[k] \in Nat
    /\ \A k, l \in Classes : ClassRank[k] = ClassRank[l] => k = l
    /\ \A k, l \in Classes : l \in MandatoryClasses /\ ClassRank[k] <= ClassRank[l] => k \in MandatoryClasses
BY DEF Classes, ClassRank, MandatoryClasses

LEMMA BeforeOrders ==
    ASSUME NEW S, Addressed(S), NEW c \in S, NEW d \in S
    PROVE  /\ ~Before(c, c)
           /\ \A e \in S : Before(c, d) /\ Before(d, e) => Before(c, e)
           /\ Before(c, d) => ~Before(d, c)
           /\ c # d => Before(c, d) \/ Before(d, c)
<1>1. \A x \in S : x.ref \in Nat /\ x.class \in Classes /\ ClassRank[x.class] \in Nat
  BY ClassesAreRanked DEF Addressed, Candidates
<1> QED
  BY <1>1, ClassesAreRanked DEF Addressed, Before

LEMMA RankIs ==
    ASSUME NEW S, Addressed(S), NEW c \in S
    PROVE  Rank(c, S) \in Nat /\ Rank(c, S) < Cardinality(S) /\ Cardinality(S) \in Nat
<1> DEFINE P == {d \in S : Before(d, c)}
<1>1. P \in SUBSET (S \ {c})
  BY BeforeOrders
<1>2. /\ IsFiniteSet(S \ {c}) /\ Cardinality(S \ {c}) = Cardinality(S) - 1
      /\ IsFiniteSet(S) /\ Cardinality(S) \in Nat
  BY FS_RemoveElement, FS_CardinalityType DEF Addressed
<1> HIDE DEF P
<1>3. IsFiniteSet(P) /\ Cardinality(P) <= Cardinality(S) - 1 /\ Cardinality(P) \in Nat
  BY <1>1, <1>2, FS_Subset, FS_CardinalityType
<1> QED
  BY <1>2, <1>3 DEF Rank, P

LEMMA RankOrders ==
    ASSUME NEW S, Addressed(S), NEW c \in S, NEW d \in S
    PROVE  Before(c, d) <=> Rank(c, S) < Rank(d, S)
<1>1. ASSUME NEW x \in S, NEW y \in S, Before(x, y) PROVE Rank(x, S) < Rank(y, S)
  <2> DEFINE P == {e \in S : Before(e, x)}
             Q == {e \in S : Before(e, y)}
  <2>1. P \in SUBSET (Q \ {x}) /\ x \in Q
    BY <1>1, BeforeOrders
  <2>2. IsFiniteSet(Q)
    BY FS_Subset DEF Addressed
  <2> HIDE DEF P, Q
  <2>3. /\ IsFiniteSet(Q \ {x}) /\ Cardinality(Q \ {x}) = Cardinality(Q) - 1
        /\ Cardinality(Q) \in Nat
    BY <2>1, <2>2, FS_RemoveElement, FS_CardinalityType
  <2>4. Cardinality(P) <= Cardinality(Q) - 1 /\ Cardinality(P) \in Nat
    BY <2>1, <2>3, FS_Subset, FS_CardinalityType
  <2> QED
    BY <2>3, <2>4 DEF Rank, P, Q
<1>2. Rank(c, S) \in Nat /\ Rank(d, S) \in Nat
  BY RankIs
<1> QED
  BY <1>1, <1>2, BeforeOrders

LEMMA RankOnto ==
    ASSUME NEW S, Addressed(S), NEW i \in 1 .. Cardinality(S)
    PROVE  \E c \in S : Rank(c, S) = i - 1
<1> DEFINE n == Cardinality(S)
           f == [c \in S |-> Rank(c, S)]
           T == (0 .. n - 1) \ {i - 1}
<1> SUFFICES ASSUME \A c \in S : Rank(c, S) # i - 1 PROVE FALSE
  OBVIOUS
<1>1. IsFiniteSet(S) /\ n \in Nat
  BY FS_CardinalityType DEF Addressed
<1>2. f \in [S -> T]
  <2> SUFFICES ASSUME NEW c \in S PROVE Rank(c, S) \in T
    OBVIOUS
  <2>1. Rank(c, S) \in Nat /\ Rank(c, S) < n
    BY RankIs
  <2> QED
    BY <1>1, <2>1
<1>3. IsFiniteSet(T) /\ Cardinality(T) < n
  <2>1. IsFiniteSet(0 .. n - 1) /\ Cardinality(0 .. n - 1) = n
    <3>1. 0 \in Int /\ n - 1 \in Int /\ ~(0 > n - 1) /\ (n - 1) - 0 + 1 = n
      BY <1>1
    <3> QED
      BY <3>1, FS_Interval
  <2>2. i - 1 \in 0 .. n - 1
    BY <1>1
  <2> HIDE DEF n
  <2>3. Cardinality(T) = n - 1
    BY <2>1, <2>2, FS_RemoveElement
  <2>4. IsFiniteSet(T)
    BY <2>1, FS_RemoveElement
  <2> QED
    BY <1>1, <2>3, <2>4
<1>4. PICK x \in S, y \in S : x # y /\ f[x] = f[y]
  <2> HIDE DEF f, T
  <2> QED
    BY <1>1, <1>2, <1>3, FS_PigeonHole
<1>5. Rank(x, S) = Rank(y, S) /\ Rank(x, S) \in Nat
  BY <1>4, RankIs
<1> QED
  BY <1>4, <1>5, BeforeOrders, RankOrders

(* _sort_sources goes through all of S, each at its rank. *)
LEMMA Ordering ==
    ASSUME NEW S, Addressed(S)
    PROVE  /\ Cardinality(S) \in Nat
           /\ DOMAIN InOrder(S) = 1 .. Cardinality(S)
           /\ \A i \in 1 .. Cardinality(S) : InOrder(S)[i] \in S /\ Rank(InOrder(S)[i], S) = i - 1
<1>1. Cardinality(S) \in Nat
  BY FS_CardinalityType DEF Addressed
<1>2. ASSUME NEW i \in 1 .. Cardinality(S)
      PROVE  InOrder(S)[i] \in S /\ Rank(InOrder(S)[i], S) = i - 1
  <2>1. InOrder(S)[i] = CHOOSE c \in S : Rank(c, S) = i - 1
    BY DEF InOrder, Rank
  <2> QED
    BY <2>1, RankOnto
<1> QED
  BY <1>1, <1>2 DEF InOrder

(* The first i + 1 are the first i and the next one, which comes after them. *)
LEMMA FirstOnes ==
    ASSUME NEW S, Addressed(S)
    PROVE  /\ First(0, S) = {}
           /\ \A i \in Nat : i >= Cardinality(S) => First(i, S) = S
           /\ \A i \in Nat : First(i, S) \in SUBSET S
           /\ \A i \in 0 .. Cardinality(S) - 1 :
                LET c == InOrder(S)[i + 1]
                IN  First(i + 1, S) = First(i, S) \cup {c} /\ Comes(c, First(i, S), S)
<1>1. \A i \in Nat : First(i, S) = {c \in S : Rank(c, S) < i}
  BY DEF First, Rank
<1>2. \A c \in S : Rank(c, S) \in Nat /\ Rank(c, S) < Cardinality(S) /\ Cardinality(S) \in Nat
  BY RankIs
<1>3. First(0, S) = {} /\ \A i \in Nat : First(i, S) \in SUBSET S
  BY <1>1, <1>2
<1>4. \A i \in Nat : i >= Cardinality(S) => First(i, S) = S
  BY <1>1, <1>2
<1>5. ASSUME NEW i \in 0 .. Cardinality(S) - 1
      PROVE  LET c == InOrder(S)[i + 1]
             IN  First(i + 1, S) = First(i, S) \cup {c} /\ Comes(c, First(i, S), S)
  <2> DEFINE c == InOrder(S)[i + 1]
  <2>1. i \in Nat /\ i + 1 \in Nat /\ i + 1 \in 1 .. Cardinality(S)
    BY Ordering
  <2>2. c \in S /\ Rank(c, S) = i
    BY <2>1, Ordering
  <2> HIDE DEF c
  <2>3. \A d \in S : Rank(d, S) = i => d = c
    BY <1>2, <2>2, RankOrders, BeforeOrders
  <2>4. First(i + 1, S) = First(i, S) \cup {c}
    BY <1>1, <1>2, <2>1, <2>2, <2>3
  <2>5. \A d \in First(i, S) : d \in S /\ Rank(d, S) < i
    BY <1>1, <2>1
  <2>6. c \notin First(i, S)
    BY <2>1, <2>2, <2>5
  <2>7. \A d \in First(i, S) : Before(d, c)
    BY <2>2, <2>5, RankOrders
  <2> QED
    BY <1>3, <2>1, <2>2, <2>4, <2>6, <2>7 DEF c, Comes
<1> QED
  BY <1>3, <1>4, <1>5

LEMMA FirstGrows ==
    ASSUME NEW S, Addressed(S), NEW i \in Nat, NEW j \in Nat, i <= j
    PROVE  First(i, S) \subseteq First(j, S)
<1>1. \A c \in S : Rank(c, S) \in Nat
  BY RankIs
<1> QED
  BY <1>1 DEF First, Rank

-----------------------------------------------------------------------------
(* Greedy choices *)

(* Of S, in order, whatever fits beside what was taken before it. *)
Ahead(G, c) == {d \in G : Before(d, c)}

Greedy(G, S, budget) ==
    /\ G \in SUBSET S /\ Units(G) <= budget
    /\ \A c \in S : c \in G <=> Units(Ahead(G, c)) + c.units <= budget

Fits(G, c, budget) == Units(G) + c.units <= budget

LEMMA GreedyUnits ==
    ASSUME NEW S, Addressed(S), NEW F, NEW c, Comes(c, F, S), NEW budget \in Nat, NEW G, Greedy(G, F, budget)
    PROVE  /\ Units(G) \in Nat /\ Units(G \cup {c}) \in Nat /\ c.units \in Nat
           /\ Units(G \cup {c}) = Units(G) + c.units
<1> DEFINE K == G \cup {c}
<1>1. /\ K \in SUBSET Candidates /\ K \in SUBSET S /\ IsFiniteSet(S)
      /\ K \ {c} = G /\ c \in K /\ c.units \in Nat
  BY DEF Greedy, Comes, Addressed, Candidates
<1> HIDE DEF K
<1>2. IsFiniteSet(K)
  BY <1>1, FS_Subset
<1>3. Units(K) = Units(G) + c.units /\ Units(G) \in Nat /\ Units(K) \in Nat
  BY <1>1, <1>2, UnitsAdd
<1> QED
  BY <1>1, <1>3 DEF K

LEMMA GreedyGrows ==
    ASSUME NEW S, Addressed(S), NEW F, NEW c, Comes(c, F, S),
           NEW budget \in Nat, NEW G, Greedy(G, F, budget)
    PROVE  /\ Fits(G, c, budget) => Greedy(G \cup {c}, F \cup {c}, budget)
           /\ ~Fits(G, c, budget) => Greedy(G, F \cup {c}, budget)
<1> DEFINE H == IF Fits(G, c, budget) THEN G \cup {c} ELSE G
<1> USE DEF Comes
<1>1. G \in SUBSET F /\ c \notin G
  BY DEF Greedy
<1>3. Units(G \cup {c}) = Units(G) + c.units
  BY GreedyUnits
<1>4. H \in SUBSET (F \cup {c}) /\ Units(H) <= budget
  BY <1>1, <1>3 DEF Greedy, Fits
<1>6. Ahead(H, c) = G
  BY <1>1, BeforeOrders DEF Ahead
<1>7. \A b \in F : Ahead(H, b) = Ahead(G, b)
  BY <1>1, BeforeOrders DEF Ahead
<1>8. ASSUME NEW b \in F \cup {c} PROVE b \in H <=> Units(Ahead(H, b)) + b.units <= budget
  <2>1. CASE b = c
    <3>1. b \in H <=> Fits(G, c, budget)
      BY <1>1, <2>1
    <3> QED
      BY <1>6, <2>1, <3>1 DEF Fits
  <2>2. CASE b \in F
    <3>1. b \in H <=> b \in G
      BY <2>2
    <3> QED
      BY <1>7, <2>2, <3>1 DEF Greedy
  <2> QED
    BY <2>1, <2>2
<1> HIDE DEF H
<1>9. Greedy(H, F \cup {c}, budget)
  BY <1>4, <1>8 DEF Greedy
<1> QED
  BY <1>9 DEF H

(* A greedy choice is the best: the first candidate in which another choice *)
(* that fits differs from it is one that it has and the other has not.      *)
LEMMA GreedyIsBest ==
    ASSUME NEW S, Addressed(S), NEW budget \in Nat, NEW G, Greedy(G, S, budget),
           Units(Mandatory(S)) <= budget
    PROVE  IsBest(G, S, budget)
<1>0. /\ IsFiniteSet(S) /\ S \in SUBSET Candidates /\ G \in SUBSET S
      /\ \A T \in SUBSET S : T \in SUBSET Candidates /\ IsFiniteSet(T)
  BY FS_Subset DEF Addressed, Greedy
<1>1. ASSUME NEW T \in SUBSET S, Units(T) <= budget, NEW c \in T, Ahead(G, c) \subseteq T
      PROVE  c \in G
  <2> DEFINE P == Ahead(G, c)
             K == P \cup {c}
  <2>1. c \notin P /\ c \in S /\ P \in SUBSET S
    BY <1>0, BeforeOrders DEF Ahead
  <2>2. K \in SUBSET T /\ K \in SUBSET Candidates /\ IsFiniteSet(K) /\ c \in K /\ K \ {c} = P
    BY <1>0, <1>1, <2>1
  <2> HIDE DEF K, P
  <2>3. Units(K) = Units(P) + c.units /\ Units(K) \in Nat
    BY <2>2, UnitsAdd
  <2>4. Units(K) <= Units(T) /\ Units(T) \in Nat
    BY <1>0, <2>2, UnitsGrow
  <2>5. Units(P) + c.units <= budget
    BY <1>1, <2>3, <2>4
  <2> QED
    BY <2>1, <2>5 DEF Greedy, P
<1>2. Mandatory(S) \subseteq G
  <2> SUFFICES ASSUME NEW c \in Mandatory(S) PROVE c \in G
    OBVIOUS
  <2>1. Mandatory(S) \in SUBSET S
    BY DEF Mandatory
  <2>2. Ahead(G, c) \subseteq Mandatory(S)
    <3> SUFFICES ASSUME NEW d \in G, Before(d, c) PROVE d \in Mandatory(S)
      BY DEF Ahead
    <3>1. d \in S /\ d.class \in Classes /\ c.class \in Classes /\ c.class \in MandatoryClasses
      BY <1>0, <2>1 DEF Candidates, Mandatory
    <3>2. ClassRank[d.class] \in Nat /\ ClassRank[c.class] \in Nat /\ ClassRank[d.class] <= ClassRank[c.class]
      BY <3>1, ClassesAreRanked DEF Before
    <3> QED
      BY <3>1, <3>2, ClassesAreRanked DEF Mandatory
  <2> QED
    BY <1>1, <2>1, <2>2
<1>3. ASSUME NEW T \in SUBSET S, T # G, Units(T) <= budget PROVE Preferred(G, T)
  <2> DEFINE D == (G \ T) \cup (T \ G)
             R == {Rank(d, S) : d \in D}
  <2>1. D # {} /\ D \in SUBSET S
    BY <1>0, <1>3
  <2>2. R \in SUBSET Nat /\ R # {}
    BY <2>1, RankIs
  <2>3. PICK c \in D : \A d \in D : Rank(c, S) <= Rank(d, S)
    <3>1. PICK m \in R : \A n \in R : m <= n
      <4> HIDE DEF R
      <4> QED
        BY <2>2, LeastNatural
    <3> QED
      BY <3>1
  <2>4. \A d \in D : ~Before(d, c)
    <3> SUFFICES ASSUME NEW d \in D PROVE ~Before(d, c)
      OBVIOUS
    <3>1. Rank(c, S) <= Rank(d, S) /\ Rank(c, S) \in Nat /\ Rank(d, S) \in Nat /\ c \in S /\ d \in S
      BY <2>1, <2>3, RankIs
    <3> QED
      BY <3>1, RankOrders
  <2>5. c \in G
    <3> SUFFICES ASSUME c \in T PROVE c \in G
      BY <2>3
    <3>1. Ahead(G, c) \subseteq T
      BY <2>4 DEF Ahead
    <3> QED
      BY <1>1, <1>3, <3>1
  <2>6. c \in G \ T
    BY <2>3, <2>5
  <2>7. \A d \in T \ G : Before(c, d)
    BY <2>1, <2>4, <2>6, BeforeOrders
  <2> QED
    BY <2>6, <2>7 DEF Preferred
<1> QED
  BY <1>0, <1>2, <1>3 DEF IsBest, Greedy

-----------------------------------------------------------------------------
(* The algorithms, step by step *)

States == [shown : Seq(Candidates), used : Nat, left : SUBSET Candidates, tries : Nat]

SelectStep(st, c, budget) == IF st.used + c.units <= budget THEN Show(st, c) ELSE Leave(st, c)

RecallStep(st, c, limits) ==
    IF st.tries < limits.items
    THEN LET tried == [st EXCEPT !.tries = @ + 1]
         IN  IF tried.used + c.units <= limits.units THEN Show(tried, c) ELSE Leave(tried, c)
    ELSE Leave(st, c)

LEMMA Stepping ==
    ASSUME NEW st \in States, NEW c \in Candidates
    PROVE  /\ Nothing \in States
           /\ Show(st, c) \in States /\ Show(st, c).shown = Append(st.shown, c)
           /\ Show(st, c).used = st.used + c.units
           /\ Show(st, c).left = st.left /\ Show(st, c).tries = st.tries
           /\ Leave(st, c) \in States /\ Leave(st, c).shown = st.shown /\ Leave(st, c).used = st.used
           /\ Leave(st, c).left = st.left \cup {c} /\ Leave(st, c).tries = st.tries
<1>1. c.units \in Nat /\ Envelope \in Nat
  BY LimitsAreNat DEF Candidates
<1>2. Append(st.shown, c) \in Seq(Candidates) /\ <<>> \in Seq(Candidates)
  BY AppendProperties, EmptySeq DEF States
<1>3. Nothing \in States
  BY <1>1, <1>2 DEF States, Nothing
<1>4. /\ Show(st, c) \in States /\ Show(st, c).shown = Append(st.shown, c)
      /\ Show(st, c).used = st.used + c.units
      /\ Show(st, c).left = st.left /\ Show(st, c).tries = st.tries
  <2> DEFINE a == Append(st.shown, c)
  <2>1. Show(st, c) = [st EXCEPT !.shown = a, !.used = st.used + c.units]
    BY DEF Show
  <2> HIDE DEF a
  <2>2. a \in Seq(Candidates) /\ st.used + c.units \in Nat
    BY <1>1, <1>2 DEF a, States
  <2> QED
    BY <2>1, <2>2 DEF States, a
<1>5. /\ Leave(st, c) \in States /\ Leave(st, c).shown = st.shown /\ Leave(st, c).used = st.used
      /\ Leave(st, c).left = st.left \cup {c} /\ Leave(st, c).tries = st.tries
  BY DEF Leave, States
<1> QED
  BY <1>3, <1>4, <1>5

LEMMA Trying ==
    ASSUME NEW st \in States
    PROVE  LET tried == [st EXCEPT !.tries = @ + 1]
           IN  /\ tried \in States /\ tried.shown = st.shown /\ tried.used = st.used
               /\ tried.left = st.left /\ tried.tries = st.tries + 1
BY DEF States

LEMMA MaxOfSome ==
    ASSUME NEW n \in Nat, NEW s \in SUBSET (1 .. n), s # {}
    PROVE  Max(s) \in s
<1> DEFINE N == {m \in Nat : \A t \in SUBSET (1 .. m) : t # {} => \E x \in t : \A y \in t : x >= y}
<1>1. 0 \in N
  <2>1. 1 .. 0 = {}
    OBVIOUS
  <2> QED
    BY <2>1
<1>2. ASSUME NEW m \in Nat, m \in N PROVE m + 1 \in N
  <2> SUFFICES ASSUME NEW t \in SUBSET (1 .. m + 1), t # {} PROVE \E x \in t : \A y \in t : x >= y
    OBVIOUS
  <2>1. CASE m + 1 \in t
    <3>1. \A y \in t : m + 1 >= y
      OBVIOUS
    <3> QED
      BY <2>1, <3>1
  <2>2. CASE m + 1 \notin t
    <3>1. t \in SUBSET (1 .. m)
      BY <2>2
    <3> QED
      BY <1>2, <3>1
  <2> QED
    BY <2>1, <2>2
<1> HIDE DEF N
<1>3. n \in N
  BY <1>1, <1>2, AllNaturals
<1>4. \E x \in s : \A y \in s : x >= y
  BY <1>3 DEF N
<1> QED
  BY <1>4 DEF Max

LEMMA MaxOfPrefix ==
    ASSUME NEW i \in Nat \ {0}
    PROVE  Max(1 .. i) = i /\ (1 .. i) \ {i} = 1 .. i - 1
<1>1. i \in 1 .. i /\ \A y \in 1 .. i : i >= y
  OBVIOUS
<1>2. \A x \in 1 .. i : (\A y \in 1 .. i : x >= y) => x = i
  BY <1>1
<1> QED
  BY <1>1, <1>2 DEF Max

(* A fold over 1 .. n in that order. *)
StepsOn(op, n) == n \in Nat /\ \A i \in 1 .. n, st \in States : op[<<i, st>>] \in States

FoldsUp(g, op, n) ==
    /\ g \in [SUBSET (1 .. n) -> States]
    /\ \A s \in SUBSET (1 .. n) : g[s] = IF s = {} THEN Nothing ELSE op[<<Max(s), g[s \ {Max(s)}]>>]

LEMMA RunExists ==
    ASSUME NEW n, NEW op, StepsOn(op, n)
    PROVE  \E g : FoldsUp(g, op, n)
<1> USE DEF StepsOn
<1> DEFINE X == 1 .. n
           pick == [s \in SUBSET X |-> Max(s)]
<1>1. \A s \in SUBSET X : s # {} => pick[s] \in s
  BY MaxOfSome
<1>2. IsFiniteSet(X)
  BY FS_Interval
<1>3. Nothing \in States
  BY LimitsAreNat, EmptySeq DEF Nothing, States
<1>4. \A s \in SUBSET X : pick[s] = Max(s)
  OBVIOUS
<1> HIDE DEF pick, X
<1>5. Foldable(X, States, Nothing, op, pick)
  BY <1>1, <1>2, <1>3 DEF Foldable, X
<1>6. PICK g : Folds(g, X, States, Nothing, op, pick)
  BY <1>5, FoldExists
<1> QED
  BY <1>4, <1>6 DEF Folds, FoldsUp, X

LEMMA SelectRuns ==
    ASSUME NEW S, Addressed(S), NEW budget
    PROVE  \E run : /\ run[0] = Nothing /\ run[Cardinality(S)] = Select(S, budget)
                    /\ \A i \in 1 .. Cardinality(S) :
                         run[i] = SelectStep(run[i - 1], InOrder(S)[i], budget)
<1> DEFINE n == Cardinality(S)
           q == InOrder(S)
           op == [p \in (1 .. n) \X States |-> SelectStep(p[2], q[p[1]], budget)]
           Next1(s, g) == SelectStep(g[s \ {Max(s)}], q[Max(s)], budget)
           Is(f) == f = [s \in SUBSET (1 .. n) |-> IF s = {} THEN Nothing ELSE Next1(s, f)]
           fold == CHOOSE f : Is(f)
<1>1. n \in Nat /\ DOMAIN q = 1 .. n /\ \A i \in 1 .. n : q[i] \in Candidates
  BY Ordering DEF Addressed
<1>2. \A i \in 1 .. n, st \in States : op[<<i, st>>] = SelectStep(st, q[i], budget)
  OBVIOUS
<1>3. \A i \in 1 .. n, st \in States : op[<<i, st>>] \in States
  BY <1>1, <1>2, Stepping DEF SelectStep
<1>4. Select(S, budget) = fold[1 .. n]
  <2>1. Select(S, budget) = fold[DOMAIN q]
    BY <1>1 DEF Select, FoldLeft, MapThenFoldSet, SelectStep
  <2> QED
    BY <1>1, <2>1
<1>5. PICK g : FoldsUp(g, op, n)
  <2>1. StepsOn(op, n)
    BY <1>1, <1>3 DEF StepsOn
  <2> HIDE DEF op, n
  <2> QED
    BY <2>1, RunExists
<1>6. Is(g)
  <2> HIDE DEF op
  <2>1. ASSUME NEW s \in SUBSET (1 .. n), s # {} PROVE g[s] = Next1(s, g)
    <3>1. Max(s) \in s /\ g[s \ {Max(s)}] \in States
      BY <1>1, <1>5, <2>1, MaxOfSome DEF FoldsUp
    <3> QED
      BY <1>2, <1>5, <2>1, <3>1 DEF FoldsUp
  <2> QED
    BY <1>5, <2>1 DEF FoldsUp
<1>7. Is(fold)
  <2> HIDE DEF Is
  <2> QED
    BY <1>6
<1> DEFINE run == [i \in 0 .. n |-> fold[1 .. i]]
<1>8. \A i \in 0 .. n : run[i] = fold[1 .. i] /\ 1 .. i \in SUBSET (1 .. n)
  BY <1>1
<1>9. run[0] = Nothing
  <2>1. 1 .. 0 = {}
    OBVIOUS
  <2>2. 0 \in 0 .. n
    BY <1>1
  <2>3. run[0] = fold[{}] /\ {} \in SUBSET (1 .. n)
    BY <1>8, <2>1, <2>2
  <2> HIDE DEF run, fold
  <2> QED
    BY <1>7, <2>3
<1>10. ASSUME NEW i \in 1 .. n PROVE run[i] = SelectStep(run[i - 1], q[i], budget)
  <2>0. i \in Nat \ {0} /\ i \in 0 .. n /\ i - 1 \in 0 .. n /\ 1 \in 1 .. i
    BY <1>1
  <2>1. i \in Nat \ {0} /\ i \in 0 .. n /\ i - 1 \in 0 .. n /\ 1 .. i # {}
    BY <2>0
  <2>2. fold[1 .. i] = Next1(1 .. i, fold)
    BY <1>7, <1>8, <2>1
  <2>3. Max(1 .. i) = i /\ (1 .. i) \ {i} = 1 .. i - 1
    BY <2>1, MaxOfPrefix
  <2>4. run[i] = fold[1 .. i] /\ run[i - 1] = fold[1 .. i - 1]
    BY <1>8, <2>1
  <2> HIDE DEF run, fold
  <2> QED
    BY <2>2, <2>3, <2>4
<1>11. run[n] = Select(S, budget)
  BY <1>1, <1>4, <1>8
<1> HIDE DEF run
<1> QED
  BY <1>9, <1>10, <1>11

LEMMA RecallRuns ==
    ASSUME NEW S, Addressed(S), NEW limits
    PROVE  \E run : /\ run[0] = Nothing /\ run[Cardinality(S)] = Recall(S, limits)
                    /\ \A i \in 1 .. Cardinality(S) :
                         run[i] = RecallStep(run[i - 1], InOrder(S)[i], limits)
<1> DEFINE n == Cardinality(S)
           q == InOrder(S)
           op == [p \in (1 .. n) \X States |-> RecallStep(p[2], q[p[1]], limits)]
           Next1(s, g) == RecallStep(g[s \ {Max(s)}], q[Max(s)], limits)
           Is(f) == f = [s \in SUBSET (1 .. n) |-> IF s = {} THEN Nothing ELSE Next1(s, f)]
           fold == CHOOSE f : Is(f)
<1>1. n \in Nat /\ DOMAIN q = 1 .. n /\ \A i \in 1 .. n : q[i] \in Candidates
  BY Ordering DEF Addressed
<1>2. \A i \in 1 .. n, st \in States : op[<<i, st>>] = RecallStep(st, q[i], limits)
  OBVIOUS
<1>3. \A i \in 1 .. n, st \in States : op[<<i, st>>] \in States
  BY <1>1, <1>2, Stepping, Trying DEF RecallStep
<1>4. Recall(S, limits) = fold[1 .. n]
  <2>1. Recall(S, limits) = fold[DOMAIN q]
    BY <1>1 DEF Recall, FoldLeft, MapThenFoldSet, RecallStep
  <2> QED
    BY <1>1, <2>1
<1>5. PICK g : FoldsUp(g, op, n)
  <2>1. StepsOn(op, n)
    BY <1>1, <1>3 DEF StepsOn
  <2> HIDE DEF op, n
  <2> QED
    BY <2>1, RunExists
<1>6. Is(g)
  <2> HIDE DEF op
  <2>1. ASSUME NEW s \in SUBSET (1 .. n), s # {} PROVE g[s] = Next1(s, g)
    <3>1. Max(s) \in s /\ g[s \ {Max(s)}] \in States
      BY <1>1, <1>5, <2>1, MaxOfSome DEF FoldsUp
    <3> QED
      BY <1>2, <1>5, <2>1, <3>1 DEF FoldsUp
  <2> QED
    BY <1>5, <2>1 DEF FoldsUp
<1>7. Is(fold)
  <2> HIDE DEF Is
  <2> QED
    BY <1>6
<1> DEFINE run == [i \in 0 .. n |-> fold[1 .. i]]
<1>8. \A i \in 0 .. n : run[i] = fold[1 .. i] /\ 1 .. i \in SUBSET (1 .. n)
  BY <1>1
<1>9. run[0] = Nothing
  <2>1. 1 .. 0 = {}
    OBVIOUS
  <2>2. 0 \in 0 .. n
    BY <1>1
  <2>3. run[0] = fold[{}] /\ {} \in SUBSET (1 .. n)
    BY <1>8, <2>1, <2>2
  <2> HIDE DEF run, fold
  <2> QED
    BY <1>7, <2>3
<1>10. ASSUME NEW i \in 1 .. n PROVE run[i] = RecallStep(run[i - 1], q[i], limits)
  <2>0. i \in Nat \ {0} /\ i \in 0 .. n /\ i - 1 \in 0 .. n /\ 1 \in 1 .. i
    BY <1>1
  <2>1. i \in Nat \ {0} /\ i \in 0 .. n /\ i - 1 \in 0 .. n /\ 1 .. i # {}
    BY <2>0
  <2>2. fold[1 .. i] = Next1(1 .. i, fold)
    BY <1>7, <1>8, <2>1
  <2>3. Max(1 .. i) = i /\ (1 .. i) \ {i} = 1 .. i - 1
    BY <2>1, MaxOfPrefix
  <2>4. run[i] = fold[1 .. i] /\ run[i - 1] = fold[1 .. i - 1]
    BY <1>8, <2>1
  <2> HIDE DEF run, fold
  <2> QED
    BY <2>2, <2>3, <2>4
<1>11. run[n] = Recall(S, limits)
  BY <1>1, <1>4, <1>8
<1> HIDE DEF run
<1> QED
  BY <1>9, <1>10, <1>11

-----------------------------------------------------------------------------
(* What the algorithms come to *)

LEMMA ShownGrows ==
    ASSUME NEW q \in Seq(Candidates), NEW c \in Candidates
    PROVE  ToSet(Append(q, c)) = ToSet(q) \cup {c}
<1>1. /\ Append(q, c) \in Seq(Candidates) /\ Len(Append(q, c)) = Len(q) + 1
      /\ Append(q, c)[Len(q) + 1] = c
      /\ \A i \in 1 .. Len(q) : Append(q, c)[i] = q[i]
  BY AppendProperties
<1>2. /\ Len(q) \in Nat /\ DOMAIN q = 1 .. Len(q)
      /\ DOMAIN Append(q, c) = 1 .. Len(q) + 1
  BY <1>1, LenProperties
<1>3. 1 .. Len(q) + 1 = (1 .. Len(q)) \cup {Len(q) + 1}
  BY <1>2
<1> DEFINE a == Append(q, c)
           n == Len(q)
<1> HIDE DEF a, n
<1>4. ToSet(a) = {a[i] : i \in (1 .. n) \cup {n + 1}}
  BY <1>2, <1>3 DEF ToSet, a, n
<1>5. ToSet(q) = {q[i] : i \in 1 .. n}
  BY <1>2 DEF ToSet, n
<1>6. a[n + 1] = c /\ \A i \in 1 .. n : a[i] = q[i]
  BY <1>1 DEF a, n
<1> QED
  BY <1>4, <1>5, <1>6 DEF a

(* One turn of the loop: of the first candidates the choice is greedy. *)
Turn(S, F, c, budget, st, nx) ==
    /\ Comes(c, F, S) /\ budget \in Nat /\ st \in States
    /\ Greedy(ToSet(st.shown), F, budget) /\ st.used = Units(ToSet(st.shown))
    /\ nx = SelectStep(st, c, budget)

Turned(F, c, budget, st, nx) ==
    /\ nx \in States /\ nx.tries = st.tries
    /\ Greedy(ToSet(nx.shown), F \cup {c}, budget)
    /\ nx.used = Units(ToSet(nx.shown))
    /\ ToSet(nx.shown) \ {c} = ToSet(st.shown)
    /\ nx.left = IF c \in ToSet(nx.shown) THEN st.left ELSE st.left \cup {c}

LEMMA Taking ==
    ASSUME NEW S, Addressed(S), NEW F, NEW c, NEW budget, NEW st, NEW nx,
           Turn(S, F, c, budget, st, nx)
    PROVE  Turned(F, c, budget, st, nx)
<1> USE DEF Turn
<1> DEFINE G == ToSet(st.shown)
<1>1. c \in S /\ c \in Candidates /\ c \notin F
  BY DEF Addressed, Comes
<1>2. /\ Fits(G, c, budget) => Greedy(G \cup {c}, F \cup {c}, budget)
      /\ ~Fits(G, c, budget) => Greedy(G, F \cup {c}, budget)
      /\ Units(G \cup {c}) = Units(G) + c.units
  <2>1. Greedy(G, F, budget)
    OBVIOUS
  <2> HIDE DEF G
  <2> QED
    BY <2>1, GreedyGrows, GreedyUnits
<1>3. G \in SUBSET F /\ c \notin G
  BY <1>1 DEF Greedy
<1>4. CASE Fits(G, c, budget)
  <2>1. nx = Show(st, c)
    BY <1>4 DEF SelectStep, Fits
  <2>2. /\ nx \in States /\ nx.shown = Append(st.shown, c) /\ nx.used = st.used + c.units
        /\ nx.left = st.left /\ nx.tries = st.tries
    BY <1>1, <2>1, Stepping
  <2>3. ToSet(nx.shown) = G \cup {c}
    BY <1>1, <2>2, ShownGrows DEF States
  <2>4. Greedy(ToSet(nx.shown), F \cup {c}, budget) /\ nx.used = Units(ToSet(nx.shown))
    BY <1>1, <1>2, <1>4, <2>2, <2>3
  <2> QED
    BY <1>3, <2>2, <2>3, <2>4 DEF Turned
<1>5. CASE ~Fits(G, c, budget)
  <2>1. nx = Leave(st, c)
    BY <1>5 DEF SelectStep, Fits
  <2>2. /\ nx \in States /\ nx.shown = st.shown /\ nx.used = st.used
        /\ nx.left = st.left \cup {c} /\ nx.tries = st.tries
    BY <1>1, <2>1, Stepping
  <2>3. Greedy(ToSet(nx.shown), F \cup {c}, budget) /\ nx.used = Units(ToSet(nx.shown))
    BY <1>1, <1>2, <1>5, <2>2
  <2> QED
    BY <1>3, <2>2, <2>3 DEF Turned
<1> QED
  BY <1>4, <1>5

LEMMA GreedyFromNothing ==
    ASSUME NEW S, Addressed(S), NEW budget \in Nat, Envelope <= budget
    PROVE  /\ Nothing \in States /\ Nothing.tries = 0 /\ Nothing.left = {} /\ ToSet(Nothing.shown) = {}
           /\ Greedy({}, First(0, S), budget) /\ Nothing.used = Units({}) /\ First(0, S) = {}
<1>1. Nothing \in States /\ Nothing.tries = 0 /\ Nothing.left = {} /\ Nothing.shown = <<>>
      /\ Nothing.used = Envelope
  BY LimitsAreNat, EmptySeq DEF Nothing, States
<1>2. ToSet(<<>>) = {}
  BY EmptySeq, LenProperties DEF ToSet
<1>3. First(0, S) = {}
  BY FirstOnes
<1> QED
  BY <1>1, <1>2, <1>3, UnitsOfNothing DEF Greedy

LEMMA SelectIsGreedy ==
    ASSUME NEW S, Addressed(S), NEW budget \in Nat, Envelope <= budget
    PROVE  LET st == Select(S, budget)
           IN  st \in States /\ Greedy(ToSet(st.shown), S, budget) /\ st.left = S \ ToSet(st.shown)
<1> DEFINE n == Cardinality(S)
           Good(st, i) == /\ st \in States /\ Greedy(ToSet(st.shown), First(i, S), budget)
                          /\ st.used = Units(ToSet(st.shown))
                          /\ st.left = First(i, S) \ ToSet(st.shown)
<1>1. PICK run : /\ run[0] = Nothing /\ run[n] = Select(S, budget)
                 /\ \A i \in 1 .. n : run[i] = SelectStep(run[i - 1], InOrder(S)[i], budget)
  BY SelectRuns
<1> DEFINE N == {i \in Nat : i <= n => Good(run[i], i)}
<1>2. 0 \in N
  BY <1>1, GreedyFromNothing
<1>3. ASSUME NEW i \in Nat, i \in N PROVE i + 1 \in N
  <2> SUFFICES ASSUME i + 1 <= n PROVE Good(run[i + 1], i + 1)
    OBVIOUS
  <2> DEFINE c == InOrder(S)[i + 1]
  <2>1. n \in Nat /\ i \in 0 .. n - 1 /\ i + 1 \in 1 .. n /\ (i + 1) - 1 = i /\ i <= n
    BY Ordering
  <2>2. run[i + 1] = SelectStep(run[i], c, budget) /\ Good(run[i], i)
    BY <1>1, <1>3, <2>1
  <2>4. First(i + 1, S) = First(i, S) \cup {c} /\ First(i, S) \cap {c} = {}
    BY <2>1, FirstOnes DEF Comes
  <2>3. Turned(First(i, S), c, budget, run[i], run[i + 1])
    <3>1. Turn(S, First(i, S), c, budget, run[i], run[i + 1])
      BY <2>1, <2>2, FirstOnes DEF Turn
    <3> HIDE DEF c
    <3> QED
      BY <3>1, Taking
  <2> QED
    BY <2>2, <2>3, <2>4 DEF Turned
<1> HIDE DEF N
<1>4. n \in N /\ n \in Nat
  BY <1>2, <1>3, AllNaturals, Ordering
<1>5. Good(run[n], n) /\ First(n, S) = S
  BY <1>4, FirstOnes DEF N
<1> QED
  BY <1>1, <1>5

(* Of the history only as many of the first are looked at as may be. *)
LEMMA RecallIsGreedy ==
    ASSUME NEW S, Addressed(S), NEW limits \in [items : Nat \ {0}, units : Nat], Envelope <= limits.units
    PROVE  LET st == Recall(S, limits)
           IN  /\ st \in States /\ Greedy(ToSet(st.shown), First(limits.items, S), limits.units)
               /\ st.left = S \ ToSet(st.shown)
<1> DEFINE n == Cardinality(S)
           items == limits.items
           units == limits.units
           Looked(i) == IF i < items THEN i ELSE items
           Good(st, i) == /\ st \in States /\ st.tries = Looked(i)
                          /\ Greedy(ToSet(st.shown), First(Looked(i), S), units)
                          /\ st.used = Units(ToSet(st.shown))
                          /\ st.left = First(i, S) \ ToSet(st.shown)
<1>0. items \in Nat \ {0} /\ units \in Nat /\ n \in Nat
  BY Ordering
<1>1. PICK run : /\ run[0] = Nothing /\ run[n] = Recall(S, limits)
                 /\ \A i \in 1 .. n : run[i] = RecallStep(run[i - 1], InOrder(S)[i], limits)
  BY RecallRuns
<1> DEFINE N == {i \in Nat : i <= n => Good(run[i], i)}
<1>2. 0 \in N
  <2>1. Looked(0) = 0
    BY <1>0
  <2> QED
    BY <1>0, <1>1, <2>1, GreedyFromNothing
<1>3. ASSUME NEW i \in Nat, i \in N PROVE i + 1 \in N
  <2> SUFFICES ASSUME i + 1 <= n PROVE Good(run[i + 1], i + 1)
    OBVIOUS
  <2> DEFINE c == InOrder(S)[i + 1]
             st == run[i]
             nx == run[i + 1]
  <2>1. i \in 0 .. n - 1 /\ i + 1 \in 1 .. n /\ (i + 1) - 1 = i /\ i <= n
    BY <1>0
  <2>2. nx = RecallStep(st, c, limits) /\ Good(st, i)
    BY <1>1, <1>3, <2>1
  <2>3. /\ First(i + 1, S) = First(i, S) \cup {c} /\ First(i, S) \cap {c} = {} /\ c \in Candidates
        /\ Comes(c, First(i, S), S)
    BY <2>1, FirstOnes DEF Addressed, Comes
  <2>4. CASE i < items
    <3> DEFINE tried == [st EXCEPT !.tries = @ + 1]
    <3>1. /\ tried \in States /\ tried.shown = st.shown /\ tried.used = st.used
          /\ tried.left = st.left /\ tried.tries = i + 1
      BY <2>2, <2>4, Trying
    <3>2. nx = SelectStep(tried, c, units)
      BY <2>2, <2>4 DEF RecallStep, SelectStep
    <3> HIDE DEF tried, st, nx, c, units
    <3>3. Turn(S, First(i, S), c, units, tried, nx)
      BY <1>0, <2>2, <2>3, <2>4, <3>1, <3>2 DEF Turn, units
    <3>4. Turned(First(i, S), c, units, tried, nx)
      BY <3>3, Taking
    <3>5. nx.left = First(i + 1, S) \ ToSet(nx.shown)
      BY <2>2, <2>3, <3>1, <3>4 DEF Turned
    <3>6. Looked(i + 1) = i + 1
      BY <1>0, <2>4
    <3> QED
      BY <2>3, <3>1, <3>4, <3>5, <3>6 DEF nx, Turned
  <2>5. CASE ~(i < items)
    <3>1. Looked(i) = items /\ Looked(i + 1) = items
      BY <1>0, <2>5
    <3>2. nx = Leave(st, c)
      BY <2>2, <3>1 DEF RecallStep
    <3>3. /\ nx \in States /\ nx.shown = st.shown /\ nx.used = st.used
          /\ nx.left = st.left \cup {c} /\ nx.tries = st.tries
      <4>1. st \in States
        BY <2>2
      <4> HIDE DEF st, nx, c
      <4> QED
        BY <2>3, <3>2, <4>1, Stepping
    <3>4. c \notin ToSet(st.shown)
      <4>1. ToSet(st.shown) \subseteq First(items, S)
        BY <2>2, <3>1 DEF Greedy
      <4>2. First(items, S) \subseteq First(i, S)
        BY <1>0, <2>1, <2>5, FirstGrows
      <4> QED
        BY <2>3, <4>1, <4>2
    <3> HIDE DEF st, nx, c
    <3> QED
      BY <2>2, <2>3, <3>1, <3>3, <3>4 DEF nx
  <2> QED
    BY <2>4, <2>5
<1> HIDE DEF N
<1>4. n \in N
  BY <1>0, <1>2, <1>3, AllNaturals
<1>5. Good(run[n], n) /\ First(n, S) = S
  BY <1>0, <1>4, FirstOnes DEF N
<1>6. First(Looked(n), S) = First(items, S)
  BY <1>0, <1>5, FirstOnes
<1> QED
  BY <1>1, <1>5, <1>6

-----------------------------------------------------------------------------
(* What is chosen *)

(* A request that is not refused for its budgets. *)
Request(current, history, limits, budget) ==
    /\ Addressed(current \cup history)
    /\ \A c \in current : c.class # "recalled_history"
    /\ \A c \in history : c.class = "recalled_history"
    /\ limits \in [items : Nat \ {0}, units : Nat] /\ budget \in Nat
    /\ Units(Mandatory(current)) <= budget
    /\ history # {} => Envelope <= limits.units

Least(m, n) == IF m < n THEN m ELSE n

(* What recall makes of the history. *)
Remembered(history, limits, budget) == Recall(history, [limits EXCEPT !.units = Least(@, budget)])

LEMMA NothingMandatoryIsPast ==
    ASSUME NEW S, \A c \in S : c.class = "recalled_history"
    PROVE  Mandatory(S) = {}
BY DEF Mandatory, MandatoryClasses

LEMMA PartsAreAddressed ==
    ASSUME NEW S, Addressed(S), NEW T \in SUBSET S
    PROVE  Addressed(T)
BY FS_Subset DEF Addressed

LEMMA NothingToRecall ==
    ASSUME NEW limits
    PROVE  Recall({}, limits) = Nothing /\ Addressed({})
<1>1. Addressed({}) /\ Cardinality({}) = 0
  BY FS_EmptySet DEF Addressed
<1> DEFINE E == {}
<1>2. Addressed(E) /\ Cardinality(E) = 0
  BY <1>1
<1> HIDE DEF E
<1>3. PICK run : run[0] = Nothing /\ run[Cardinality(E)] = Recall(E, limits)
  BY <1>2, RecallRuns
<1>4. Recall(E, limits) = Nothing
  BY <1>2, <1>3
<1> QED
  BY <1>1, <1>4 DEF E

LEMMA RememberedIsBest ==
    ASSUME NEW current, NEW history, NEW limits, NEW budget,
           Request(current, history, limits, budget)
    PROVE  LET back == Remembered(history, limits, budget)
           IN  /\ ToSet(back.shown) \in SUBSET history
               /\ back.left = history \ ToSet(back.shown)
               /\ history # {} => IsBest(ToSet(back.shown), First(limits.items, history),
                                         Least(limits.units, budget))
<1> USE DEF Request
<1>1. PICK items \in Nat \ {0}, units \in Nat :
        limits = [items |-> items, units |-> units]
  OBVIOUS
<1>2. Addressed(history) /\ Addressed(Mandatory(current))
  <2>1. history \in SUBSET (current \cup history) /\ Mandatory(current) \in SUBSET (current \cup history)
    BY DEF Mandatory
  <2>2. Addressed(current \cup history)
    OBVIOUS
  <2> QED
    BY <2>1, <2>2, PartsAreAddressed
<1>3. Envelope <= budget
  <2>1. {} \in SUBSET Mandatory(current)
    OBVIOUS
  <2>2. Mandatory(current) \in SUBSET Candidates /\ IsFiniteSet(Mandatory(current))
    BY <1>2 DEF Addressed
  <2>3. Units({}) <= Units(Mandatory(current)) /\ Units(Mandatory(current)) \in Nat
    BY <2>1, <2>2, UnitsGrow
  <2> HIDE DEF Request
  <2> QED
    BY <2>3, UnitsOfNothing DEF Request
<1> DEFINE lim == [limits EXCEPT !.units = Least(@, budget)]
           back == Remembered(history, limits, budget)
<1>4. /\ lim \in [items : Nat \ {0}, units : Nat]
      /\ lim.items = limits.items /\ lim.units = Least(limits.units, budget)
  BY DEF Least
<1>5. back = Recall(history, lim)
  BY DEF Remembered
<1> HIDE DEF lim, back
<1>6. CASE history = {}
  <2>1. back = Nothing
    BY <1>5, <1>6, NothingToRecall
  <2>2. back.shown = <<>> /\ back.left = {}
    BY <2>1 DEF Nothing
  <2>3. ToSet(<<>>) = {}
    BY EmptySeq, LenProperties DEF ToSet
  <2> QED
    BY <1>6, <2>2, <2>3 DEF back
<1>7. CASE history # {}
  <2>1. Envelope <= lim.units
    BY <1>3, <1>4, <1>7 DEF Least
  <2>2. /\ back \in States /\ Greedy(ToSet(back.shown), First(lim.items, history), lim.units)
        /\ back.left = history \ ToSet(back.shown)
    BY <1>2, <1>4, <1>5, <2>1, RecallIsGreedy
  <2>3. First(lim.items, history) \in SUBSET history
    BY DEF First
  <2>4. Addressed(First(lim.items, history))
    BY <1>2, <2>3, PartsAreAddressed
  <2>5. Units(Mandatory(First(lim.items, history))) <= lim.units
    <3>1. Mandatory(First(lim.items, history)) = {}
      BY <2>3, NothingMandatoryIsPast
    <3> QED
      BY <2>1, <3>1, UnitsOfNothing
  <2>6. IsBest(ToSet(back.shown), First(lim.items, history), lim.units)
    <3>1. lim.units \in Nat /\ Greedy(ToSet(back.shown), First(lim.items, history), lim.units)
      BY <1>4, <2>2
    <3> HIDE DEF Request
    <3> QED
      BY <2>4, <2>5, <3>1, GreedyIsBest
  <2>7. ToSet(back.shown) \in SUBSET history
    BY <2>2, <2>3 DEF Greedy
  <2> QED
    BY <1>4, <2>2, <2>6, <2>7 DEF back
<1> QED
  BY <1>6, <1>7

(* What there is to know of a choice. *)
WellChosen(chosen, current, history) ==
    /\ chosen.shown \in Seq(Candidates)
    /\ ToSet(chosen.shown) \subseteq current \cup history
    /\ chosen.left = (current \cup history) \ ToSet(chosen.shown)
    /\ Mandatory(chosen.left) = {}

LEMMA ChosenIsBest ==
    ASSUME NEW current, NEW history, NEW limits, NEW budget,
           Request(current, history, limits, budget)
    PROVE  /\ BestChoice(current, history, limits, budget)
           /\ WellChosen(Chosen(current, history, limits, budget), current, history)
<1> DEFINE back == Remembered(history, limits, budget)
           B == ToSet(back.shown)
           all == Select(current \cup B, budget)
           shown == ToSet(all.shown)
           chosen == Chosen(current, history, limits, budget)
<1>1. chosen.shown = all.shown /\ chosen.left = all.left \cup back.left
  BY DEF Chosen, Remembered, Least
<1>2. /\ B \in SUBSET history /\ back.left = history \ B
      /\ history # {} => IsBest(B, First(limits.items, history), Least(limits.units, budget))
  BY RememberedIsBest
<1> HIDE DEF back, B
<1>3. /\ Addressed(current \cup history) /\ budget \in Nat
      /\ current \cap history = {} /\ Units(Mandatory(current)) <= budget
  BY DEF Request
<1>4. Addressed(current \cup B)
  <2>1. current \cup B \in SUBSET (current \cup history)
    BY <1>2
  <2> QED
    BY <1>3, <2>1, PartsAreAddressed
<1>5. Mandatory(current \cup B) = Mandatory(current)
  <2>1. \A c \in B : c.class = "recalled_history"
    BY <1>2 DEF Request
  <2> QED
    BY <2>1 DEF Mandatory, MandatoryClasses
<1>6. Envelope <= budget
  <2>1. Mandatory(current) \in SUBSET Candidates /\ IsFiniteSet(Mandatory(current))
    <3>1. Mandatory(current) \in SUBSET (current \cup history)
      BY DEF Mandatory
    <3>2. Addressed(Mandatory(current))
      BY <1>3, <3>1, PartsAreAddressed
    <3> QED
      BY <3>2 DEF Addressed
  <2>2. {} \in SUBSET Mandatory(current)
    OBVIOUS
  <2>3. Units({}) <= Units(Mandatory(current)) /\ Units(Mandatory(current)) \in Nat
    BY <2>1, <2>2, UnitsGrow
  <2> QED
    BY <1>3, <2>3, UnitsOfNothing
<1>7. all \in States /\ Greedy(shown, current \cup B, budget) /\ all.left = (current \cup B) \ shown
  BY <1>3, <1>4, <1>6, SelectIsGreedy
<1> HIDE DEF all, chosen
<1>8. IsBest(shown, current \cup B, budget)
  <2>1. Units(Mandatory(current \cup B)) <= budget
    BY <1>3, <1>5
  <2> HIDE DEF shown
  <2> QED
    BY <1>3, <1>4, <1>7, <2>1, GreedyIsBest
<1>9. shown \subseteq current \cup B
  BY <1>7 DEF Greedy
<1>10. chosen.left = (current \cup history) \ shown
  BY <1>1, <1>2, <1>3, <1>7, <1>9
<1>11. Mandatory(chosen.left) = {}
  <2>1. Mandatory(current \cup B) \subseteq shown
    BY <1>8 DEF IsBest
  <2>2. \A c \in history : c.class = "recalled_history"
    BY DEF Request
  <2> QED
    BY <1>10, <2>1, <2>2 DEF Mandatory, MandatoryClasses
<1>12. ToSet(chosen.shown) = shown
  BY <1>1
<1>13. BestChoice(current, history, limits, budget)
  <2> HIDE DEF shown
  <2>1. /\ B \in SUBSET history
        /\ history # {} => IsBest(B, First(limits.items, history), Least(limits.units, budget))
        /\ IsBest(shown, current \cup B, budget)
    BY <1>2, <1>8
  <2> QED
    BY <1>10, <1>12, <2>1 DEF BestChoice, chosen, Least
<1> QED
  BY <1>1, <1>2, <1>7, <1>9, <1>10, <1>11, <1>12, <1>13 DEF WellChosen, States, chosen

(* The algorithms choose the best for every budget and every request: what *)
(* they leave out had to be left out.                                      *)
THEOREM BestOfAll == ChoosesBest
<1> DEFINE Past == {c \in Samples : c.class = "recalled_history"}
<1>1. SUFFICES ASSUME NEW current \in SUBSET (Samples \ Past), NEW history \in SUBSET Past,
                      NEW limits \in RecallLimits, NEW budget \in Budgets,
                      Units(Mandatory(current)) <= budget,
                      history # {} => Envelope <= limits.units
               PROVE  BestChoice(current, history, limits, budget)
  BY DEF ChoosesBest
<1>2. Request(current, history, limits, budget)
  <2>1. Addressed(Samples)
    BY SamplesDiffer DEF Addressed
  <2>2. Addressed(current \cup history)
    BY <2>1, PartsAreAddressed
  <2> QED
    BY <1>1, <2>2, LimitsAreNat DEF Request
<1> QED
  BY <1>2, ChosenIsBest
-----------------------------------------------------------------------------
(* The inductive invariant of Inference *)

Call == [attempt : Attempts, context : Receipts, generation : 0 .. MaxGeneration,
         at : {"generating", "stale"}]

Typed ==
    /\ revision \in 0 .. MaxRevision /\ generation \in 0 .. MaxGeneration /\ faults \in 0 .. MaxFaults
    /\ source \in [Addresses -> [class : PersistableClasses, revision : 0 .. MaxRevision] \cup {NoSource}]
    /\ DOMAIN compiled = Receipts
    /\ answered \subseteq Attempts /\ lost \subseteq Attempts

(* Only the innermost call may have been answered; no attempt is called twice. *)
CallsNest ==
    /\ calls \in Seq(Call) /\ Len(calls) <= MaxDepth
    /\ \A i, j \in 1 .. Len(calls) : i < j =>
          calls[i].at = "generating" /\ calls[i].attempt # calls[j].attempt

AttemptsTyped ==
    /\ DOMAIN attempt = Attempts
    /\ \A a \in Attempts : attempt[a].outcome \in {"none", "failed", "stale", "succeeded"}

(* What an entry of a Context says of its source, for a receipt of a revision. *)
Described(c, rev) ==
    /\ c \in Candidates
    /\ c.class \in PersistableClasses =>
          c.ref \in Persisted /\ source[c.ref].class = c.class /\ c = Entry(c.ref, c.class)
    /\ c.class = "host_control" => source[c.ref].revision = rev
    /\ c.class = "current_program" => c.ref = 0
    /\ c.class = "current_evidence" => c.ref \in Evidence
    /\ c.class = "recalled_history" => c.ref \in (Persisted \cup Evidence) \ ControlsOf(rev)

WellReceipted(receipt) ==
    /\ receipt.revision \in 0 .. MaxRevision
    /\ receipt.left \subseteq Candidates /\ Mandatory(receipt.left) = {}
    /\ ToSet(receipt.shown) \cap receipt.left = {}
    /\ \A c \in ToSet(receipt.shown) : Described(c, receipt.revision)

ReceiptsDescribe == \A k \in Receipts : Compiled(k) => WellReceipted(compiled[k])

IInv == Typed /\ CallsNest /\ AttemptsTyped /\ ReceiptsDescribe /\ AnswersAreKept

LEMMA InitHolds == Init => IInv
<1> SUFFICES ASSUME Init PROVE IInv
  OBVIOUS
<1>1. CallsNest
  BY EmptySeq, BoundsAreNat DEF Init, CallsNest
<1>2. Typed /\ AttemptsTyped /\ ReceiptsDescribe /\ AnswersAreKept
  BY BoundsAreNat DEF Init, Typed, AttemptsTyped, ReceiptsDescribe, AnswersAreKept, Compiled, NoAttempt
<1> QED
  BY <1>1, <1>2 DEF IInv

(* The calls, one by one. *)
LEMMA TopIsACall ==
    ASSUME CallsNest, calls # <<>>
    PROVE  /\ Len(calls) \in Nat \ {0} /\ DOMAIN calls = 1 .. Len(calls)
           /\ Top \in Call /\ Top.attempt \in Attempts /\ InProgress(Top.attempt)
<1>1. Len(calls) \in Nat \ {0} /\ DOMAIN calls = 1 .. Len(calls)
  BY EmptySeq, LenProperties DEF CallsNest
<1>2. calls[Len(calls)] \in Call
  BY <1>1, ElementOfSeq DEF CallsNest
<1> QED
  BY <1>1, <1>2 DEF Top, InProgress, Call

LEMMA PopKeepsTheRest ==
    ASSUME CallsNest, calls # <<>>, NEW q, q = Pop
    PROVE  /\ q \in Seq(Call) /\ Len(q) = Len(calls) - 1 /\ DOMAIN q = 1 .. Len(calls) - 1
           /\ \A i \in 1 .. Len(calls) - 1 : q[i] = calls[i]
<1>1. Len(calls) \in Nat \ {0} /\ \A i \in 1 .. Len(calls) : calls[i] \in Call
  BY TopIsACall, ElementOfSeq DEF CallsNest
<1> DEFINE n == Len(calls) - 1
<1>2. n \in Nat /\ \A i \in 1 .. n : calls[i] \in Call
  BY <1>1
<1>3. q = SubSeq(calls, 1, n)
  BY DEF Pop
<1> HIDE DEF n
<1>4. /\ SubSeq(calls, 1, n) \in Seq(Call)
      /\ Len(SubSeq(calls, 1, n)) = IF 1 <= n THEN n - 1 + 1 ELSE 0
      /\ \A i \in 1 .. n - 1 + 1 : SubSeq(calls, 1, n)[i] = calls[1 + i - 1]
  BY <1>2, SubSeqProperties
<1>5. q \in Seq(Call) /\ Len(q) = n /\ \A i \in 1 .. n : q[i] = calls[i]
  BY <1>2, <1>3, <1>4
<1> QED
  BY <1>5, LenProperties DEF n

LEMMA AnsweredIsPopped ==
    ASSUME CallsNest, calls # <<>>, calls' = Pop
    PROVE  /\ CallsNest'
           /\ \A a : InProgress(a) => InProgress(a)' \/ a = Top.attempt
<1>1. Len(calls) \in Nat \ {0} /\ DOMAIN calls = 1 .. Len(calls)
  BY TopIsACall
<1>2. /\ calls' \in Seq(Call) /\ Len(calls') = Len(calls) - 1 /\ DOMAIN calls' = 1 .. Len(calls) - 1
      /\ \A i \in 1 .. Len(calls) - 1 : calls'[i] = calls[i]
  BY PopKeepsTheRest
<1>3. CallsNest'
  BY <1>1, <1>2, BoundsAreNat DEF CallsNest
<1>4. ASSUME NEW a, InProgress(a), a # Top.attempt PROVE InProgress(a)'
  <2>1. PICK i \in 1 .. Len(calls) : calls[i].attempt = a
    BY <1>1, <1>4 DEF InProgress
  <2>2. i \in 1 .. Len(calls) - 1
    BY <1>1, <1>4, <2>1 DEF Top
  <2> QED
    BY <1>2, <2>1, <2>2 DEF InProgress
<1> QED
  BY <1>3, <1>4

(* Sources are persisted once and for all: what an entry says stays so, as  *)
(* long as no source is rewritten.                                          *)
LEMMA DescriptionsStay ==
    ASSUME Typed, source' \in [Addresses -> [class : PersistableClasses, revision : 0 .. MaxRevision]
                                               \cup {NoSource}],
           \A s \in Addresses : source[s] # NoSource => source'[s] = source[s],
           NEW receipt, WellReceipted(receipt)
    PROVE  WellReceipted(receipt)'
<1>1. ASSUME NEW c, NEW rev, Described(c, rev) PROVE Described(c, rev)'
  <2>1. \A s \in Persisted : s \in Persisted' /\ source'[s] = source[s]
    BY DEF Persisted
  <2>2. \A s \in Persisted \cup Evidence : s \notin ControlsOf(rev) => s \notin ControlsOf(rev)'
    BY <2>1, AddressesAreDisjoint DEF ControlsOf, Persisted
  <2>3. c.class \in PersistableClasses => /\ c.ref \in Persisted' /\ source'[c.ref].class = c.class
                                          /\ c = Entry(c.ref, c.class)
    BY <1>1, <2>1 DEF Described
  <2>4. c.class = "host_control" => source'[c.ref].revision = rev
    BY <1>1, <2>1 DEF Described, PersistableClasses
  <2>5. c.class = "recalled_history" => c.ref \in (Persisted' \cup Evidence) \ ControlsOf(rev)'
    BY <1>1, <2>1, <2>2 DEF Described
  <2>6. /\ c \in Candidates
        /\ c.class = "current_program" => c.ref = 0
        /\ c.class = "current_evidence" => c.ref \in Evidence
    BY <1>1 DEF Described
  <2> QED
    BY <2>3, <2>4, <2>5, <2>6 DEF Described
<1> QED
  BY <1>1 DEF WellReceipted

LEMMA ReceiptsStay ==
    ASSUME Typed, ReceiptsDescribe, UNCHANGED <<source, compiled>>
    PROVE  ReceiptsDescribe'
BY DescriptionsStay DEF ReceiptsDescribe, Compiled, Typed

(* What is compiled *)

LEMMA EntriesAreCandidates ==
    /\ ProgramEntry \in Candidates /\ ProgramEntry.ref = 0 /\ ProgramEntry.class = "current_program"
    /\ \A s \in Addresses \cup Evidence, class \in Classes :
          /\ Entry(s, class) \in Candidates
          /\ Entry(s, class).ref = s /\ Entry(s, class).class = class /\ s # 0
<1>1. "current_program" \in Classes
  BY DEF Classes, ClassRank
<1> QED
  BY <1>1, AddressesAreDisjoint, BoundsAreNat DEF Candidates, ProgramEntry, Entry

LEMMA ClassNames ==
    /\ PersistableClasses \subseteq Classes
    /\ {"current_evidence", "recalled_history", "current_program"} \subseteq Classes
    /\ \A class \in Classes : \/ class \in PersistableClasses
                              \/ class \in {"current_evidence", "recalled_history", "current_program"}
    /\ \A class \in PersistableClasses : class \notin {"current_evidence", "recalled_history", "current_program"}
BY DEF PersistableClasses, Classes, ClassRank

LEMMA ImagesAreFinite ==
    ASSUME NEW S, IsFiniteSet(S), NEW f
    PROVE  IsFiniteSet({f[s] : s \in S})
<1> DEFINE g == [s \in S |-> f[s]]
<1>1. g \in Surjection(S, {f[s] : s \in S})
  BY DEF Surjection
<1> QED
  BY <1>1, FS_Surjection

(* The entries of a request that is not refused say what is so, and no two *)
(* of them have one address.                                               *)
LEMMA RequestsAreAddressed ==
    ASSUME Typed,
           NEW asked \in SUBSET Persisted, NEW evidence \in SUBSET Evidence,
           NEW recalled \in SUBSET (Persisted \cup Evidence),
           Addressable(asked, evidence, recalled)
    PROVE  LET all == Current(asked, evidence) \cup History(recalled)
           IN  /\ Addressed(all) /\ \A c \in all : Described(c, revision)
               /\ \A c \in Current(asked, evidence) : c.class # "recalled_history"
               /\ \A c \in History(recalled) : c.class = "recalled_history"
<1> DEFINE all == Current(asked, evidence) \cup History(recalled)
           E == Effective(asked)
           Stored(s) == Entry(s, source[s].class)
           Proof(s) == Entry(s, "current_evidence")
           Past(s) == Entry(s, "recalled_history")
<1>1. E \in SUBSET Persisted /\ Persisted \in SUBSET Addresses
  BY DEF Effective, ControlsOf, Persisted
<1>2. \A s \in Persisted : /\ source[s].class \in PersistableClasses
                           /\ source[s].revision \in 0 .. MaxRevision
                           /\ source[s] = [class |-> source[s].class, revision |-> source[s].revision]
  BY DEF Typed, Persisted
<1>3. /\ E \cap recalled = {} /\ evidence \cap recalled = {}
      /\ \A s \in E : source[s].class = "host_control" => source[s].revision = revision
  BY DEF Addressable
<1>4. \A s \in E : s \notin recalled /\ s \notin Evidence
  BY <1>1, <1>3, AddressesAreDisjoint
<1>5. ControlsOf(revision) \subseteq E
  BY DEF Effective
<1>6. all = {ProgramEntry} \cup {Stored(s) : s \in E} \cup {Proof(s) : s \in evidence} \cup {Past(s) : s \in recalled}
  BY DEF Current, History
<1> HIDE DEF E
<1>7. \A s \in E : /\ Stored(s) \in Candidates /\ Stored(s).ref = s /\ s # 0
                   /\ Stored(s).class = source[s].class
  BY <1>1, <1>2, EntriesAreCandidates, ClassNames
<1>8. \A s \in evidence : /\ Proof(s) \in Candidates /\ Proof(s).ref = s /\ s # 0
                          /\ Proof(s).class = "current_evidence"
  BY EntriesAreCandidates, ClassNames
<1>9. \A s \in recalled : /\ Past(s) \in Candidates /\ Past(s).ref = s /\ s # 0
                          /\ Past(s).class = "recalled_history"
  BY <1>1, EntriesAreCandidates, ClassNames
<1>10. \A s \in E : Described(Stored(s), revision)
  <2> SUFFICES ASSUME NEW s \in E PROVE Described(Stored(s), revision)
    OBVIOUS
  <2>1. s \in Persisted /\ source[s].class \in PersistableClasses
    BY <1>1, <1>2
  <2>2. Stored(s) = Entry(s, source[s].class)
    OBVIOUS
  <2> HIDE DEF Stored
  <2> QED
    BY <1>3, <1>7, <2>1, <2>2, ClassNames DEF Described
<1>11. \A s \in evidence : Described(Proof(s), revision)
  <2> HIDE DEF Proof
  <2> QED
    BY <1>8, ClassNames DEF Described, PersistableClasses
<1>12. \A s \in recalled : Described(Past(s), revision)
  <2>1. \A s \in recalled : s \in (Persisted \cup Evidence) \ ControlsOf(revision)
    BY <1>4, <1>5
  <2> HIDE DEF Past
  <2> QED
    BY <1>9, <2>1, ClassNames DEF Described, PersistableClasses
<1>13. Described(ProgramEntry, revision)
  BY EntriesAreCandidates DEF Described, PersistableClasses
<1>14. \A c \in all : Described(c, revision)
  BY <1>6, <1>10, <1>11, <1>12, <1>13
<1>15. IsFiniteSet(all)
  <2>1. IsFiniteSet(Addresses \cup Evidence) /\ E \in SUBSET (Addresses \cup Evidence)
        /\ evidence \in SUBSET (Addresses \cup Evidence) /\ recalled \in SUBSET (Addresses \cup Evidence)
    BY <1>1, AddressesAreDisjoint
  <2>2. IsFiniteSet(E) /\ IsFiniteSet(evidence) /\ IsFiniteSet(recalled)
    BY <2>1, FS_Subset
  <2>3. IsFiniteSet({Stored(s) : s \in E})
    <3> DEFINE f == [s \in E |-> Stored(s)]
    <3>1. {Stored(s) : s \in E} = {f[s] : s \in E}
      OBVIOUS
    <3> HIDE DEF f
    <3> QED
      BY <2>2, <3>1, ImagesAreFinite
  <2>4. IsFiniteSet({Proof(s) : s \in evidence})
    <3> DEFINE f == [s \in evidence |-> Proof(s)]
    <3>1. {Proof(s) : s \in evidence} = {f[s] : s \in evidence}
      OBVIOUS
    <3> HIDE DEF f
    <3> QED
      BY <2>2, <3>1, ImagesAreFinite
  <2>5. IsFiniteSet({Past(s) : s \in recalled})
    <3> DEFINE f == [s \in recalled |-> Past(s)]
    <3>1. {Past(s) : s \in recalled} = {f[s] : s \in recalled}
      OBVIOUS
    <3> HIDE DEF f
    <3> QED
      BY <2>2, <3>1, ImagesAreFinite
  <2> DEFINE A == {Stored(s) : s \in E}
             B == {Proof(s) : s \in evidence}
             C == {Past(s) : s \in recalled}
             D == {ProgramEntry}
  <2>6. IsFiniteSet(A) /\ IsFiniteSet(B) /\ IsFiniteSet(C) /\ IsFiniteSet(D) /\ all = D \cup A \cup B \cup C
    BY <1>6, <2>3, <2>4, <2>5, FS_Singleton
  <2> HIDE DEF A, B, C, D, all
  <2>7. IsFiniteSet(D \cup A)
    BY <2>6, FS_Union
  <2>8. IsFiniteSet(D \cup A \cup B)
    BY <2>6, <2>7, FS_Union
  <2> QED
    BY <2>6, <2>8, FS_Union
<1>16. \A c, d \in all : c.ref = d.ref => c = d
  <2>1. \A s \in E \cup evidence \cup recalled : s # 0
    BY <1>7, <1>8, <1>9
  <2>2. \A s \in E : s \notin evidence /\ s \notin recalled
    BY <1>4
  <2>3. \A c \in all : \/ c = ProgramEntry /\ c.ref = 0
                       \/ \E s \in E : c = Stored(s) /\ c.ref = s
                       \/ \E s \in evidence : c = Proof(s) /\ c.ref = s
                       \/ \E s \in recalled : c = Past(s) /\ c.ref = s
    BY <1>6, <1>7, <1>8, <1>9, EntriesAreCandidates
  <2> HIDE DEF all, Stored, Proof, Past
  <2> QED
    BY <1>3, <2>1, <2>2, <2>3
<1>17. all \in SUBSET Candidates
  BY <1>14 DEF Described
<1>18. \A c \in Current(asked, evidence) : c.class # "recalled_history"
  <2>1. Current(asked, evidence) = {ProgramEntry} \cup {Stored(s) : s \in E} \cup {Proof(s) : s \in evidence}
    BY DEF Current, E
  <2>2. \A s \in E : Stored(s).class # "recalled_history"
    BY <1>1, <1>2, <1>7, ClassNames
  <2>3. \A s \in evidence : Proof(s).class # "recalled_history"
    BY <1>8
  <2>4. ProgramEntry.class # "recalled_history"
    BY EntriesAreCandidates
  <2> HIDE DEF Stored, Proof
  <2> QED
    BY <2>1, <2>2, <2>3, <2>4
<1>19. \A c \in History(recalled) : c.class = "recalled_history"
  BY <1>9 DEF History
<1> QED
  BY <1>14, <1>15, <1>16, <1>17, <1>18, <1>19 DEF Addressed

-----------------------------------------------------------------------------
(* The steps *)

LEMMA ReviseProgramHolds == IInv /\ ReviseProgram => IInv'
<1> SUFFICES ASSUME IInv, ReviseProgram PROVE IInv'
  OBVIOUS
<1>1. revision + 1 \in 0 .. MaxRevision
  BY BoundsAreNat DEF IInv, Typed, ReviseProgram
<1>2. ReceiptsDescribe'
  BY ReceiptsStay DEF IInv, ReviseProgram
<1> QED
  BY <1>1, <1>2 DEF IInv, Typed, CallsNest, AttemptsTyped, AnswersAreKept, InProgress, ReviseProgram

LEMMA ReplaceBindingHolds == IInv /\ ReplaceBinding => IInv'
<1> SUFFICES ASSUME IInv, ReplaceBinding PROVE IInv'
  OBVIOUS
<1>1. generation + 1 \in 0 .. MaxGeneration
  BY BoundsAreNat DEF IInv, Typed, ReplaceBinding
<1>2. ReceiptsDescribe'
  BY ReceiptsStay DEF IInv, ReplaceBinding
<1> QED
  BY <1>1, <1>2 DEF IInv, Typed, CallsNest, AttemptsTyped, AnswersAreKept, InProgress, ReplaceBinding

LEMMA PersistSourceHolds ==
    ASSUME IInv, NEW s \in Addresses, NEW class \in PersistableClasses, PersistSource(s, class)
    PROVE  IInv'
<1> USE DEF PersistSource
<1>1. /\ source' \in [Addresses -> [class : PersistableClasses, revision : 0 .. MaxRevision] \cup {NoSource}]
      /\ \A t \in Addresses : source[t] # NoSource => source'[t] = source[t]
  <2> DEFINE new == [class |-> class, revision |-> revision]
  <2>1. new \in [class : PersistableClasses, revision : 0 .. MaxRevision]
    BY DEF IInv, Typed
  <2>2. source' = [source EXCEPT ![s] = new] /\ source[s] = NoSource
    OBVIOUS
  <2> HIDE DEF new
  <2> QED
    BY <2>1, <2>2 DEF IInv, Typed
<1>2. ReceiptsDescribe'
  <2>1. \A k \in Receipts : Compiled(k) => WellReceipted(compiled[k])'
    BY <1>1, DescriptionsStay DEF IInv, ReceiptsDescribe
  <2> QED
    BY <2>1 DEF ReceiptsDescribe, Compiled
<1>3. Typed'
  BY <1>1 DEF IInv, Typed
<1> QED
  BY <1>2, <1>3 DEF IInv, CallsNest, AttemptsTyped, AnswersAreKept, InProgress

LEMMA CompileHolds ==
    ASSUME IInv, NEW k \in Receipts, Compile(k)
    PROVE  IInv'
<1>1. PICK asked \in SUBSET Persisted, evidence \in SUBSET Evidence,
           recalled \in SUBSET (Persisted \cup Evidence), budget \in Budgets, limits \in RecallLimits :
        /\ Addressable(asked, evidence, recalled)
        /\ Units(Mandatory(Current(asked, evidence))) <= budget
        /\ History(recalled) # {} => Envelope <= limits.units
        /\ compiled' = [compiled EXCEPT ![k] =
              Compilation(Current(asked, evidence), History(recalled), limits, budget)]
  BY DEF Compile
<1>2. UNCHANGED <<revision, generation, source, calls, attempt, answered, lost, faults>>
  BY DEF Compile
<1> DEFINE current == Current(asked, evidence)
           history == History(recalled)
           chosen == Chosen(current, history, limits, budget)
           receipt == Compilation(current, history, limits, budget)
<1>3. /\ Addressed(current \cup history) /\ \A c \in current \cup history : Described(c, revision)
      /\ \A c \in current : c.class # "recalled_history"
      /\ \A c \in history : c.class = "recalled_history"
  BY <1>1, RequestsAreAddressed DEF IInv
<1>4. Request(current, history, limits, budget)
  BY <1>1, <1>3, LimitsAreNat DEF Request
<1>5. receipt.revision = revision /\ receipt.shown = chosen.shown /\ receipt.left = chosen.left
  BY DEF Compilation
<1> HIDE DEF current, history, chosen, receipt
<1>6. WellChosen(chosen, current, history)
  BY <1>4, ChosenIsBest DEF chosen
<1>7. WellReceipted(receipt)
  <2>1. receipt.revision \in 0 .. MaxRevision
    BY <1>5 DEF IInv, Typed
  <2>2. current \cup history \subseteq Candidates
    BY <1>3 DEF Addressed
  <2> QED
    BY <1>3, <1>5, <1>6, <2>1, <2>2 DEF WellReceipted, WellChosen
<1>8. PICK r : r = receipt
  OBVIOUS
<1>9. ReceiptsDescribe'
  <2>1. DOMAIN compiled = Receipts /\ compiled' = [compiled EXCEPT ![k] = r]
    BY <1>1, <1>8 DEF IInv, Typed, receipt, current, history
  <2>2. \A j \in Receipts : compiled'[j] = IF j = k THEN r ELSE compiled[j]
    BY <2>1
  <2>3. ASSUME NEW other, WellReceipted(other) PROVE WellReceipted(other)'
    BY <1>2, <2>3, DescriptionsStay DEF IInv, Typed
  <2> SUFFICES ASSUME NEW j \in Receipts, Compiled(j)' PROVE WellReceipted(compiled[j])'
    BY DEF ReceiptsDescribe
  <2>4. PICK s : s = compiled'[j] /\ WellReceipted(s)
    BY <1>7, <1>8, <2>2 DEF IInv, ReceiptsDescribe, Compiled
  <2>5. WellReceipted(s)'
    BY <2>3, <2>4
  <2> QED
    BY <2>4, <2>5 DEF WellReceipted
<1>10. Typed'
  BY <1>1, <1>2 DEF IInv, Typed
<1> QED
  BY <1>2, <1>9, <1>10 DEF IInv, CallsNest, AttemptsTyped, AnswersAreKept, InProgress

LEMMA AskProviderHolds ==
    ASSUME IInv, NEW a \in Attempts, NEW k \in Receipts, AskProvider(a, k)
    PROVE  IInv'
<1> DEFINE n == Len(calls)
           new == [attempt |-> a, context |-> k, generation |-> generation, at |-> "generating"]
<1>1. n \in Nat /\ DOMAIN calls = 1 .. n /\ n < MaxDepth
  BY LenProperties DEF IInv, CallsNest, AskProvider
<1>2. new \in Call /\ new.attempt = a /\ new.at = "generating"
  BY DEF IInv, Typed, Call
<1>3. calls' = Append(calls, new) /\ ~InProgress(a)
      /\ UNCHANGED <<revision, generation, source, compiled, attempt, answered, lost, faults>>
  BY DEF AskProvider
<1> HIDE DEF new, n
<1>4. calls' \in Seq(Call) /\ Len(calls') = n + 1 /\ calls'[n + 1] = new
      /\ \A i \in 1 .. n : calls'[i] = calls[i]
  BY <1>2, <1>3, AppendProperties DEF IInv, CallsNest, n
<1>5. \A i \in 1 .. n : calls[i].at = "generating" /\ calls[i].attempt # a
  <2>1. \A i \in 1 .. n : calls[i].attempt # a
    BY <1>1, <1>3 DEF InProgress
  <2>2. n # 0 => Top.at = "generating"
    <3>1. n # 0 => calls # <<>>
      BY EmptySeq DEF n
    <3> QED
      BY <3>1 DEF AskProvider, MayEnter
  <2>3. \A i \in 1 .. n : i < n \/ i = n
    BY <1>1
  <2>4. \A i \in 1 .. n : i < n => calls[i].at = "generating"
    BY <1>1 DEF IInv, CallsNest, n
  <2>5. Top = calls[n]
    BY DEF Top, n
  <2>6. \A i \in 1 .. n : n # 0
    BY <1>1
  <2> QED
    BY <2>1, <2>2, <2>3, <2>4, <2>5, <2>6
<1>6. CallsNest'
  <2>1. n + 1 <= MaxDepth /\ MaxDepth \in Nat
    BY <1>1, BoundsAreNat
  <2>2. ASSUME NEW i \in 1 .. n + 1, NEW j \in 1 .. n + 1, i < j
        PROVE  calls'[i].at = "generating" /\ calls'[i].attempt # calls'[j].attempt
    <3>1. i \in 1 .. n
      BY <1>1, <2>2
    <3>2. CASE j \in 1 .. n
      <4>1. calls[i].at = "generating" /\ calls[i].attempt # calls[j].attempt
        BY <2>2, <3>1, <3>2 DEF IInv, CallsNest, n
      <4> QED
        BY <1>4, <3>1, <3>2, <4>1
    <3>3. CASE j = n + 1
      BY <1>2, <1>4, <1>5, <3>1, <3>3
    <3> QED
      BY <1>1, <3>2, <3>3
  <2> QED
    BY <1>4, <2>1, <2>2 DEF CallsNest
<1>7. AnswersAreKept'
  <2>1. DOMAIN calls' = 1 .. n + 1
    BY <1>4, LenProperties
  <2>2. \A b : InProgress(b) => InProgress(b)'
    BY <1>1, <1>4, <2>1 DEF InProgress
  <2> QED
    BY <1>3, <2>2 DEF IInv, AnswersAreKept
<1>8. ReceiptsDescribe'
  BY <1>3, ReceiptsStay DEF IInv
<1> QED
  BY <1>3, <1>6, <1>7, <1>8 DEF IInv, Typed, AttemptsTyped

(* A call that comes to an end is in the journal of attempts. *)
LEMMA RecordHolds ==
    ASSUME IInv, calls # <<>>, NEW outcome \in {"failed", "stale", "succeeded"}, Record(outcome),
           answered' \subseteq answered \cup {Top.attempt},
           UNCHANGED <<revision, generation, source, compiled, lost, faults>>
    PROVE  IInv'
<1>1. Top.attempt \in Attempts
  BY TopIsACall DEF IInv
<1>2. CallsNest' /\ \A a : InProgress(a) => InProgress(a)' \/ a = Top.attempt
  BY AnsweredIsPopped DEF IInv, Record
<1> DEFINE t == Top.attempt
           new == [outcome |-> outcome, context |-> Top.context, generation |-> Top.generation]
<1>3. attempt' = [attempt EXCEPT ![t] = new] /\ new.outcome = outcome /\ new # NoAttempt
  BY DEF Record, NoAttempt
<1> HIDE DEF t, new
<1>4. DOMAIN attempt' = Attempts /\ \A a \in Attempts : attempt'[a] = IF a = t THEN new ELSE attempt[a]
  BY <1>3 DEF IInv, AttemptsTyped
<1>5. AttemptsTyped'
  BY <1>3, <1>4 DEF IInv, AttemptsTyped
<1>6. answered' \subseteq Attempts
  BY <1>1 DEF IInv, Typed
<1>7. AnswersAreKept'
  <2> SUFFICES ASSUME NEW a \in answered' PROVE attempt'[a] # NoAttempt \/ InProgress(a)' \/ a \in lost'
    BY DEF AnswersAreKept
  <2>1. a \in Attempts
    BY <1>6
  <2>2. CASE a = t
    BY <1>3, <1>4, <2>1, <2>2
  <2>3. CASE a # t
    <3>1. a \in answered
      BY <2>3 DEF t
    <3>2. attempt[a] # NoAttempt \/ InProgress(a) \/ a \in lost
      BY <3>1 DEF IInv, AnswersAreKept
    <3> QED
      BY <1>2, <1>4, <2>1, <2>3, <3>2 DEF t
  <2> QED
    BY <2>2, <2>3
<1>8. ReceiptsDescribe'
  BY ReceiptsStay DEF IInv
<1>9. Typed'
  BY <1>6 DEF IInv, Typed
<1> QED
  BY <1>2, <1>5, <1>7, <1>8, <1>9 DEF IInv

(* A stale answer stays in progress until it is recorded. *)
LEMMA StaleHolds ==
    ASSUME IInv, calls # <<>>, answered' = answered \cup {Top.attempt},
           calls' = [calls EXCEPT ![Len(calls)].at = "stale"],
           UNCHANGED <<revision, generation, source, compiled, attempt, lost, faults>>
    PROVE  IInv'
<1> DEFINE n == Len(calls)
           old == calls[n]
           new == [old EXCEPT !.at = "stale"]
<1>1. n \in Nat \ {0} /\ DOMAIN calls = 1 .. n /\ old \in Call /\ Top = old /\ Top.attempt \in Attempts
      /\ InProgress(Top.attempt)
  BY TopIsACall DEF IInv, Top
<1>2. new \in Call /\ new.attempt = old.attempt
  <2> HIDE DEF old
  <2> QED
    BY <1>1 DEF Call
<1>3. calls' = [calls EXCEPT ![n] = new]
  OBVIOUS
<1> HIDE DEF new, old, n
<1>4. n \in 1 .. Len(calls) /\ calls \in Seq(Call) /\ Len(calls) = n
  BY <1>1 DEF n, IInv, CallsNest
<1>5. calls' \in Seq(Call) /\ Len(calls') = n
      /\ \A i \in 1 .. n : calls'[i] = IF i = n THEN new ELSE calls[i]
  BY <1>2, <1>3, <1>4, ExceptSeq
<1>6. DOMAIN calls' = 1 .. n
  BY <1>5, LenProperties
<1>7. CallsNest'
  <2>1. ASSUME NEW i \in 1 .. n, NEW j \in 1 .. n, i < j
        PROVE  calls'[i].at = "generating" /\ calls'[i].attempt # calls'[j].attempt
    <3>1. calls[i].at = "generating" /\ calls[i].attempt # calls[j].attempt
      BY <1>4, <2>1 DEF IInv, CallsNest
    <3>2. calls'[i] = calls[i] /\ calls'[j].attempt = calls[j].attempt
      BY <1>1, <1>2, <1>5, <2>1 DEF old
    <3> QED
      BY <3>1, <3>2
  <2>2. n <= MaxDepth
    BY <1>4 DEF IInv, CallsNest
  <2> QED
    BY <1>5, <2>1, <2>2 DEF CallsNest
<1>8. \A a : InProgress(a) => InProgress(a)'
  <2>1. \A i \in 1 .. n : calls'[i].attempt = calls[i].attempt
    BY <1>2, <1>5 DEF old
  <2> QED
    BY <1>1, <1>6, <2>1 DEF InProgress
<1>9. AnswersAreKept'
  BY <1>1, <1>8 DEF IInv, AnswersAreKept
<1>10. ReceiptsDescribe'
  BY ReceiptsStay DEF IInv
<1>11. Typed' /\ AttemptsTyped'
  BY <1>1 DEF IInv, Typed, AttemptsTyped
<1> QED
  BY <1>7, <1>9, <1>10, <1>11 DEF IInv

LEMMA ProviderFailsHolds == IInv /\ ProviderFails => IInv'
<1> SUFFICES ASSUME IInv, ProviderFails PROVE IInv'
  OBVIOUS
<1>1. /\ calls # <<>> /\ Record("failed") /\ answered' \subseteq answered \cup {Top.attempt}
      /\ UNCHANGED <<revision, generation, source, compiled, lost, faults>>
  BY DEF ProviderFails
<1> QED
  BY <1>1, RecordHolds

LEMMA ProviderAnswersHolds == IInv /\ ProviderAnswers => IInv'
<1> SUFFICES ASSUME IInv, ProviderAnswers PROVE IInv'
  OBVIOUS
<1>1. /\ calls # <<>> /\ answered' = answered \cup {Top.attempt}
      /\ UNCHANGED <<revision, generation, source, compiled, lost, faults>>
  BY DEF ProviderAnswers
<1>2. CASE Fresh(Top)
  <2>1. Record("succeeded")
    BY <1>2 DEF ProviderAnswers
  <2>2. answered' \subseteq answered \cup {Top.attempt}
    BY <1>1
  <2> QED
    BY <1>1, <2>1, <2>2, RecordHolds
<1>3. CASE ~Fresh(Top)
  <2>1. calls' = [calls EXCEPT ![Len(calls)].at = "stale"] /\ UNCHANGED attempt
    BY <1>3 DEF ProviderAnswers
  <2> QED
    BY <1>1, <2>1, StaleHolds
<1> QED
  BY <1>2, <1>3

LEMMA RecordStaleHolds == IInv /\ RecordStale => IInv'
<1> SUFFICES ASSUME IInv, RecordStale PROVE IInv'
  OBVIOUS
<1>1. /\ calls # <<>> /\ Record("stale") /\ answered' \subseteq answered \cup {Top.attempt}
      /\ UNCHANGED <<revision, generation, source, compiled, lost, faults>>
  BY DEF RecordStale
<1> QED
  BY <1>1, RecordHolds

(* An answer that could not be recorded is lost, with its call. *)
LEMMA RecordFailsHolds == IInv /\ RecordFails => IInv'
<1> SUFFICES ASSUME IInv, RecordFails PROVE IInv'
  OBVIOUS
<1>1. calls # <<>> /\ calls' = Pop
  BY DEF RecordFails
<1>2. Top.attempt \in Attempts
  BY <1>1, TopIsACall DEF IInv
<1>3. CallsNest' /\ \A a : InProgress(a) => InProgress(a)' \/ a = Top.attempt
  BY <1>1, AnsweredIsPopped DEF IInv
<1>4. Typed'
  BY <1>2, BoundsAreNat DEF IInv, Typed, RecordFails
<1>5. AnswersAreKept'
  BY <1>3 DEF IInv, AnswersAreKept, RecordFails
<1>6. ReceiptsDescribe'
  BY ReceiptsStay DEF IInv, RecordFails
<1> QED
  BY <1>3, <1>4, <1>5, <1>6 DEF IInv, AttemptsTyped, RecordFails

LEMMA CrashHolds == IInv /\ Crash => IInv'
<1> SUFFICES ASSUME IInv, Crash PROVE IInv'
  OBVIOUS
<1>1. CallsNest'
  BY EmptySeq, BoundsAreNat DEF Crash, CallsNest
<1>2. \A i \in DOMAIN calls : calls[i].attempt \in Attempts
  <2>1. \A i \in DOMAIN calls : calls[i] \in Call
    BY LenProperties, ElementOfSeq DEF IInv, CallsNest
  <2> QED
    BY <2>1 DEF Call
<1>3. Typed'
  BY <1>2, BoundsAreNat DEF IInv, Typed, Crash
<1>4. AnswersAreKept'
  BY DEF IInv, AnswersAreKept, Crash, InProgress
<1>5. ReceiptsDescribe'
  BY ReceiptsStay DEF IInv, Crash
<1> QED
  BY <1>1, <1>3, <1>4, <1>5 DEF IInv, AttemptsTyped, Crash

LEMMA NextHolds == IInv /\ [Next]_vars => IInv'
<1> SUFFICES ASSUME IInv, [Next]_vars PROVE IInv'
  OBVIOUS
<1>1. CASE UNCHANGED vars
  BY <1>1 DEF vars, IInv, Typed, CallsNest, AttemptsTyped, ReceiptsDescribe, WellReceipted, Described,
              Persisted, ControlsOf, Compiled, AnswersAreKept, InProgress
<1>2. CASE Next
  BY <1>2, ReviseProgramHolds, ReplaceBindingHolds, PersistSourceHolds, CompileHolds, AskProviderHolds,
     ProviderFailsHolds, ProviderAnswersHolds, RecordStaleHolds, RecordFailsHolds, CrashHolds DEF Next
<1> QED
  BY <1>1, <1>2

-----------------------------------------------------------------------------
(* Theorems *)

THEOREM Invariance == Spec => []IInv
BY InitHolds, NextHolds, PTL DEF Spec

LEMMA IInvTypes == IInv => TypeOK
<1> SUFFICES ASSUME IInv PROVE TypeOK
  OBVIOUS
<1>1. /\ DOMAIN calls = 1 .. Len(calls)
      /\ \A i \in 1 .. Len(calls) :
            calls[i] \in [attempt : Attempts, context : Receipts, generation : 0 .. MaxGeneration,
                          at : {"generating", "stale"}]
  BY LenProperties, ElementOfSeq DEF IInv, CallsNest, Call
<1>2. \A k \in Receipts : compiled[k] # NoReceipt =>
          /\ compiled[k].revision \in 0 .. MaxRevision
          /\ ToSet(compiled[k].shown) \subseteq Candidates
          /\ compiled[k].left \subseteq Candidates
  BY DEF IInv, ReceiptsDescribe, Compiled, WellReceipted, Described
<1> QED
  BY <1>1, <1>2 DEF IInv, Typed, CallsNest, AttemptsTyped, TypeOK

(* Every variable of the inference host keeps its type. *)
THEOREM TypeCorrect == Spec => []TypeOK
BY Invariance, IInvTypes, PTL

(* Whatever a provider has answered is in the journal of attempts, unless  *)
(* the process died in the middle; calls may nest to any depth.            *)
THEOREM AnswersKept == Spec => []AnswersAreKept
<1>1. IInv => AnswersAreKept
  BY DEF IInv
<1> QED
  BY <1>1, Invariance, PTL

(* No Context shows a control of another revision as one in force, or one  *)
(* in force as history, whatever was persisted since it was compiled.      *)
THEOREM StandingKept == Spec => []ControlsKeepTheirStanding
<1>1. IInv => ControlsKeepTheirStanding
  <2> SUFFICES ASSUME IInv, NEW k \in Receipts, Compiled(k), NEW c \in ToSet(compiled[k].shown)
               PROVE  /\ c.class = "host_control" => c.ref \in ControlsOf(compiled[k].revision)
                      /\ c.class = "recalled_history" => c.ref \notin ControlsOf(compiled[k].revision)
    BY DEF ControlsKeepTheirStanding
  <2>1. Described(c, compiled[k].revision)
    BY DEF IInv, ReceiptsDescribe, WellReceipted
  <2>2. ASSUME c.class = "host_control" PROVE c.ref \in ControlsOf(compiled[k].revision)
    <3>1. /\ c.ref \in Persisted /\ source[c.ref].class = "host_control"
          /\ source[c.ref].revision = compiled[k].revision
      BY <2>1, <2>2 DEF Described, PersistableClasses
    <3>2. source[c.ref] \in [class : PersistableClasses, revision : 0 .. MaxRevision]
      BY <3>1 DEF IInv, Typed, Persisted
    <3> QED
      BY <3>1, <3>2 DEF ControlsOf
  <2> QED
    BY <2>1, <2>2 DEF Described
<1> QED
  BY <1>1, Invariance, PTL

(* For every request a budget allows, what is chosen is the best choice    *)
(* under the budgets, and a Context leaves out nothing mandatory.          *)
THEOREM BestSelection == Spec => []SelectionIsBest
<1>1. IInv => SelectionIsBest
  BY BestOfAll DEF IInv, ReceiptsDescribe, WellReceipted, SelectionIsBest
<1> QED
  BY <1>1, Invariance, PTL

(* A turn is accepted only on the Program revision and the Actor           *)
(* configuration it was asked under, by a model that was shown every       *)
(* control in force when it is recorded.                                   *)
THEOREM AcceptedFresh == Spec => AcceptedOnCurrentFacts
<1>1. IInv /\ [Next]_vars => [AcceptedStep]_vars
  <2> SUFFICES ASSUME IInv, Next, NEW a \in Attempts, attempt[a] = NoAttempt, attempt'[a].outcome = "succeeded"
               PROVE  LET answer == attempt'[a] IN
                      /\ compiled[answer.context].revision = revision
                      /\ generation = answer.generation
                      /\ \A s \in ControlsOf(revision) :
                            Entry(s, "host_control") \in ToSet(compiled[answer.context].shown)
    BY DEF AcceptedStep
  <2>1. attempt' # attempt
    BY DEF NoAttempt
  <2>2. CASE ProviderAnswers /\ Fresh(Top)
    <3>1. calls # <<>> /\ Record("succeeded")
      BY <2>2 DEF ProviderAnswers
    <3>2. Top.context \in Receipts /\ Top.attempt \in Attempts
      BY <3>1, TopIsACall DEF IInv, Call
    <3>3. a = Top.attempt
      <4> DEFINE new == [outcome |-> "succeeded", context |-> Top.context, generation |-> Top.generation]
      <4>1. attempt' = [attempt EXCEPT ![Top.attempt] = new]
        BY <3>1 DEF Record
      <4> HIDE DEF new
      <4> QED
        BY <4>1 DEF IInv, AttemptsTyped, NoAttempt
    <3>4. attempt'[a].context = Top.context /\ attempt'[a].generation = Top.generation
      BY <3>1, <3>2, <3>3 DEF Record, IInv, AttemptsTyped
    <3> DEFINE k == Top.context
    <3>5. compiled[k].revision = revision /\ generation = Top.generation /\ ControlsShown(k)
      BY <2>2 DEF Fresh
    <3> HIDE DEF k
    <3>6. ASSUME NEW s \in ControlsOf(revision) PROVE Entry(s, "host_control") \in ToSet(compiled[k].shown)
      <4>1. PICK c \in ToSet(compiled[k].shown) : c.ref = s
        BY <3>5, <3>6 DEF ControlsShown, Shown
      <4>2. /\ s \in Addresses /\ source[s].class = "host_control"
        BY <3>6 DEF ControlsOf, Persisted
      <4>3. Compiled(k)
        <5>1. CASE compiled[k] = NoReceipt
          <6>1. compiled[k].shown = <<>>
            BY <5>1 DEF NoReceipt
          <6>2. ToSet(<<>>) = {}
            BY EmptySeq, LenProperties DEF ToSet
          <6> QED
            BY <4>1, <6>1, <6>2
        <5> QED
          BY <5>1 DEF Compiled
      <4>4. Described(c, revision)
        BY <3>2, <3>5, <4>1, <4>3 DEF IInv, ReceiptsDescribe, WellReceipted, k
      <4>5. c.class \in Classes
        BY <4>4 DEF Described, Candidates
      <4>6. c.class # "current_program" /\ c.class # "current_evidence"
        BY <4>1, <4>2, <4>4, AddressesAreDisjoint DEF Described
      <4>7. c.class # "recalled_history"
        BY <3>6, <4>1, <4>4 DEF Described
      <4>8. c.class \in PersistableClasses
        BY <4>5, <4>6, <4>7, ClassNames
      <4> QED
        BY <4>1, <4>2, <4>4, <4>8 DEF Described
    <3> QED
      BY <3>4, <3>5, <3>6 DEF k
  <2>3. CASE ~(ProviderAnswers /\ Fresh(Top))
    <3>1. ~(ReviseProgram \/ ReplaceBinding \/ RecordFails \/ Crash)
      BY <2>1 DEF ReviseProgram, ReplaceBinding, RecordFails, Crash
    <3>2. ~(\E s \in Addresses, class \in PersistableClasses : PersistSource(s, class))
      BY <2>1 DEF PersistSource
    <3>3. ~(\E k \in Receipts : Compile(k)) /\ ~(\E b \in Attempts, k \in Receipts : AskProvider(b, k))
      BY <2>1 DEF Compile, AskProvider
    <3>4. ~ProviderAnswers
      BY <2>1, <2>3 DEF ProviderAnswers
    <3>5. ASSUME NEW outcome \in {"failed", "stale"}, Record(outcome) PROVE FALSE
      <4> DEFINE new == [outcome |-> outcome, context |-> Top.context, generation |-> Top.generation]
      <4>1. attempt' = [attempt EXCEPT ![Top.attempt] = new] /\ new.outcome = outcome
        BY <3>5 DEF Record
      <4> HIDE DEF new
      <4> QED
        BY <4>1 DEF IInv, AttemptsTyped, NoAttempt
    <3>6. ~(ProviderFails \/ RecordStale)
      BY <3>5 DEF ProviderFails, RecordStale
    <3> QED
      BY <3>1, <3>2, <3>3, <3>4, <3>6 DEF Next
  <2> QED
    BY <2>2, <2>3
<1> QED
  BY <1>1, Invariance, PTL DEF Spec, AcceptedOnCurrentFacts
=============================================================================
