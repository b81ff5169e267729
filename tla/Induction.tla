----------------------------- MODULE Induction -----------------------------
(***************************************************************************)
(* Induction over numbers and over finite sets, in the form of a least     *)
(* counterexample, and what it says of the sums that MapThenSumSet takes.  *)
(***************************************************************************)
EXTENDS FiniteSetsExt, FiniteSetTheorems, TLAPS

LEMMA Least ==
  ASSUME NEW T, T \subseteq Nat, T # {}
  PROVE  \E n \in T : \A m \in T : n <= m
<1>1. PICK n \in T : \A m \in T : ~ (<<m, n>> \in OpToRel(<, Nat))
  BY WFMin, NatLessThanWellFounded, Zenon
<1>2. \A m \in T : ~ (m < n)
  BY <1>1 DEF OpToRel
<1> QED
  BY <1>2

LEMMA Smallest ==
  ASSUME NEW S, IsFiniteSet(S), NEW T, T \subseteq SUBSET S, T # {}
  PROVE  \E x \in T : \A y \in T : y \subseteq x => y = x
<1>1. T \subseteq FiniteSubsetsOf(S)
  BY FS_Subset DEF FiniteSubsetsOf
<1>2. PICK x \in T : \A y \in T : ~ (<<y, x>> \in StrictSubsetOrdering(S))
  BY <1>1, WFMin, FS_StrictSubsetOrderingWellFounded, Zenon
<1>3. \A y \in T : y \subseteq x => y = x
  BY <1>2 DEF StrictSubsetOrdering
<1> QED
  BY <1>3

-----------------------------------------------------------------------------
(* The sum of a function over the subsets of a finite set, element by element. *)

First(s) == CHOOSE x \in s : TRUE
Plus(h, f, s) == IF s = {} THEN 0 ELSE h[First(s)] + f[s \ {First(s)}]
Sums(h, S) == CHOOSE f : f = [s \in SUBSET S |-> Plus(h, f, s)]

LEMMA FirstIn == ASSUME NEW s, s # {} PROVE First(s) \in s
BY DEF First

LEMMA SumsExist ==
  ASSUME NEW S, IsFiniteSet(S), NEW h
  PROVE  \E f : f = [s \in SUBSET S |-> Plus(h, f, s)]
<1> DEFINE Upto(f, n) == \A s \in SUBSET S : Cardinality(s) <= n => f[s] = Plus(h, f, s)
<1>C. \A s \in SUBSET S : IsFiniteSet(s) /\ Cardinality(s) \in Nat
                          /\ (s # {} => Cardinality(s \ {First(s)}) = Cardinality(s) - 1)
                          /\ (Cardinality(s) <= 0 => s = {})
  <2> SUFFICES ASSUME NEW s \in SUBSET S
               PROVE  IsFiniteSet(s) /\ Cardinality(s) \in Nat
                          /\ (s # {} => Cardinality(s \ {First(s)}) = Cardinality(s) - 1)
                          /\ (Cardinality(s) <= 0 => s = {})
    OBVIOUS
  <2>1. IsFiniteSet(s) /\ Cardinality(s) \in Nat
    BY FS_Subset, FS_CardinalityType
  <2>2. s # {} => Cardinality(s \ {First(s)}) = Cardinality(s) - 1
    BY <2>1, FS_RemoveElement, FirstIn
  <2>3. Cardinality(s) = 0 => s = {}
    BY <2>1, FS_EmptySet
  <2> QED
    BY <2>1, <2>2, <2>3
<1>1. \E f : Upto(f, 0)
  <2>1. \A s \in SUBSET S : Cardinality(s) <= 0 => s = {}
    BY <1>C
  <2>2. Upto([s \in SUBSET S |-> 0], 0)
    BY <2>1 DEF Plus
  <2> QED
    BY <2>2
<1>2. ASSUME NEW n \in Nat \ {0}, NEW f, Upto(f, n - 1)
      PROVE  \E g : Upto(g, n)
  <2> DEFINE g == [s \in SUBSET S |-> Plus(h, f, s)]
  <2>1. ASSUME NEW s \in SUBSET S, Cardinality(s) <= n - 1
        PROVE  g[s] = f[s]
    BY <1>2, <2>1
  <2>2. ASSUME NEW s \in SUBSET S, Cardinality(s) <= n
        PROVE  g[s] = Plus(h, g, s)
    <3>1. CASE s = {}
      BY <3>1 DEF Plus
    <3>2. CASE s # {}
      <4>1. Cardinality(s \ {First(s)}) <= n - 1 /\ s \ {First(s)} \in SUBSET S
        BY <1>C, <2>2, <3>2
      <4>2. g[s \ {First(s)}] = f[s \ {First(s)}]
        BY <2>1, <4>1
      <4>3. g[s] = Plus(h, f, s)
        OBVIOUS
      <4> HIDE DEF g
      <4> QED
        BY <3>2, <4>2, <4>3 DEF Plus
    <3> QED
      BY <3>1, <3>2
  <2> HIDE DEF g
  <2> QED
    BY <2>2
<1>3. \A n \in Nat : \E f : Upto(f, n)
  <2> DEFINE Bad == {n \in Nat : ~ \E f : Upto(f, n)}
  <2>1. SUFFICES ASSUME Bad # {} PROVE FALSE
    OBVIOUS
  <2>2. PICK n \in Bad : \A m \in Bad : n <= m
    BY <2>1, Least
  <2> HIDE DEF Upto
  <2>3. n \in Nat /\ n # 0
    BY <1>1
  <2>4. n - 1 \in Nat /\ n - 1 \notin Bad
    BY <2>2, <2>3
  <2> QED
    BY <1>2, <2>3, <2>4
<1>4. PICK f : Upto(f, Cardinality(S))
  BY <1>3, <1>C
<1>5. \A s \in SUBSET S : f[s] = Plus(h, f, s)
  BY <1>4, FS_Subset
<1> DEFINE g == [s \in SUBSET S |-> f[s]]
<1>6. \A s \in SUBSET S : g[s] = Plus(h, g, s)
  <2> SUFFICES ASSUME NEW s \in SUBSET S PROVE g[s] = Plus(h, g, s)
    OBVIOUS
  <2> QED BY <1>5 DEF Plus
<1>7. g = [s \in SUBSET S |-> g[s]]
  OBVIOUS
<1> HIDE DEF g
<1> QED
  BY <1>6, <1>7

LEMMA SumsDefined ==
  ASSUME NEW S, IsFiniteSet(S), NEW h, NEW s \in SUBSET S
  PROVE  Sums(h, S)[s] = Plus(h, Sums(h, S), s)
<1>1. Sums(h, S) = [t \in SUBSET S |-> Plus(h, Sums(h, S), t)]
  BY SumsExist DEF Sums
<1> QED
  BY <1>1

\* Two sums differ by what their functions differ in one place.
LEMMA SumsChange ==
  ASSUME NEW S, IsFiniteSet(S), NEW x, NEW g, NEW h,
         \A y \in S : g[y] \in Int /\ h[y] \in Int /\ (y # x => h[y] = g[y])
  PROVE  /\ Sums(g, S)[S] \in Int
         /\ Sums(h, S)[S] = Sums(g, S)[S] + (IF x \in S THEN h[x] - g[x] ELSE 0)
<1> DEFINE G == Sums(g, S)
           H == Sums(h, S)
           Ok(s) == /\ G[s] \in Int
                    /\ H[s] = G[s] + (IF x \in s THEN h[x] - g[x] ELSE 0)
           Bad == {s \in SUBSET S : ~Ok(s)}
<1>1. SUFFICES Bad = {}
  OBVIOUS
<1>2. SUFFICES ASSUME Bad # {} PROVE FALSE
  OBVIOUS
<1>3. PICK s \in Bad : \A t \in Bad : t \subseteq s => t = s
  <2>1. Bad \subseteq SUBSET S
    OBVIOUS
  <2> HIDE DEF Bad
  <2> QED
    BY <1>2, <2>1, Smallest
<1>4. G[s] = Plus(g, G, s) /\ H[s] = Plus(h, H, s)
  BY SumsDefined
<1>5. CASE s = {}
  BY <1>4, <1>5 DEF Plus
<1>6. CASE s # {}
  <2>1. First(s) \in s
    BY <1>6, FirstIn
  <2>2. s \ {First(s)} \notin Bad /\ s \ {First(s)} \in SUBSET S
    BY <1>3, <2>1
  <2> DEFINE t == s \ {First(s)}
  <2>3. Ok(t)
    BY <2>2
  <2>4. G[s] = g[First(s)] + G[t] /\ H[s] = h[First(s)] + H[t]
    BY <1>4, <1>6 DEF Plus
  <2>5. First(s) \in S /\ ~Ok(s)
    BY <2>1
  <2> HIDE DEF G, H
  <2>6. CASE First(s) = x
    <3>1. x \in s /\ x \notin t
      BY <2>1, <2>6
    <3> QED
      BY <2>3, <2>4, <2>5, <2>6, <3>1
  <2>7. CASE First(s) # x
    <3>1. x \in s <=> x \in t
      BY <2>7
    <3>2. h[First(s)] = g[First(s)] /\ g[First(s)] \in Int /\ (x \in s => h[x] - g[x] \in Int)
      BY <2>5, <2>7
    <3> HIDE DEF t
    <3> QED
      BY <2>3, <2>4, <2>5, <3>1, <3>2
  <2> QED
    BY <2>6, <2>7
<1> QED
  BY <1>5, <1>6

LEMMA SumsZero ==
  ASSUME NEW S, IsFiniteSet(S), NEW h, \A y \in S : h[y] = 0
  PROVE  Sums(h, S)[S] = 0
<1> DEFINE H == Sums(h, S)
           Bad == {s \in SUBSET S : H[s] # 0}
<1>2. SUFFICES ASSUME Bad # {} PROVE FALSE
  OBVIOUS
<1>3. PICK s \in Bad : \A t \in Bad : t \subseteq s => t = s
  <2>1. Bad \subseteq SUBSET S
    OBVIOUS
  <2> HIDE DEF Bad
  <2> QED
    BY <1>2, <2>1, Smallest
<1>4. H[s] = Plus(h, H, s)
  BY SumsDefined
<1>5. CASE s = {}
  BY <1>4, <1>5 DEF Plus
<1>6. CASE s # {}
  <2>1. First(s) \in s
    BY <1>6, FirstIn
  <2>2. s \ {First(s)} \notin Bad /\ s \ {First(s)} \in SUBSET S
    BY <1>3, <2>1
  <2>3. H[s \ {First(s)}] = 0 /\ h[First(s)] = 0
    BY <2>1, <2>2
  <2> QED
    BY <1>4, <1>6, <2>3 DEF Plus
<1> QED
  BY <1>5, <1>6

\* A sum of natural numbers is one, and no smaller than any of them.
LEMMA SumsNat ==
  ASSUME NEW S, IsFiniteSet(S), NEW h, \A y \in S : h[y] \in Nat
  PROVE  Sums(h, S)[S] \in Nat
<1> DEFINE H == Sums(h, S)
           Bad == {s \in SUBSET S : H[s] \notin Nat}
<1>2. SUFFICES ASSUME Bad # {} PROVE FALSE
  OBVIOUS
<1>3. PICK s \in Bad : \A t \in Bad : t \subseteq s => t = s
  <2>1. Bad \subseteq SUBSET S
    OBVIOUS
  <2> HIDE DEF Bad
  <2> QED
    BY <1>2, <2>1, Smallest
<1>4. H[s] = Plus(h, H, s)
  BY SumsDefined
<1>5. CASE s = {}
  BY <1>4, <1>5 DEF Plus
<1>6. CASE s # {}
  <2>1. First(s) \in s
    BY <1>6, FirstIn
  <2>2. s \ {First(s)} \notin Bad /\ s \ {First(s)} \in SUBSET S
    BY <1>3, <2>1
  <2>3. H[s \ {First(s)}] \in Nat /\ h[First(s)] \in Nat
    BY <2>1, <2>2
  <2> QED
    BY <1>4, <1>6, <2>3 DEF Plus
<1> QED
  BY <1>5, <1>6

LEMMA SumsBound ==
  ASSUME NEW S, IsFiniteSet(S), NEW h, \A y \in S : h[y] \in Nat, NEW x \in S
  PROVE  Sums(h, S)[S] \in Nat /\ Sums(h, S)[S] >= h[x]
<1> DEFINE g == [y \in S |-> IF y = x THEN 0 ELSE h[y]]
<1>1. \A y \in S : g[y] \in Nat /\ (y # x => h[y] = g[y])
  OBVIOUS
<1>2. g[x] = 0
  OBVIOUS
<1> HIDE DEF g
<1>3. Sums(g, S)[S] \in Nat
  BY <1>1, SumsNat
<1>4. Sums(h, S)[S] = Sums(g, S)[S] + (IF x \in S THEN h[x] - g[x] ELSE 0)
  <2>1. \A y \in S : g[y] \in Int /\ h[y] \in Int /\ (y # x => h[y] = g[y])
    BY <1>1
  <2> QED
    BY <2>1, SumsChange
<1> QED
  BY <1>2, <1>3, <1>4

=============================================================================
