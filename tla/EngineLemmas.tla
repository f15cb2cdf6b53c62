---------------------------- MODULE EngineLemmas ----------------------------
(***************************************************************************)
(* Facts about numbers and sequences that the proofs about both engines    *)
(* rest on.                                                                *)
(***************************************************************************)
EXTENDS EngineTypes, SequencesExt, SequenceTheorems, FiniteSetTheorems,
        WellFoundedInduction, TLAPS

\* Odd generations are live and even ones are not: alloc() and release() each
\* move a slot by one.
LEMMA Parity ==
  ASSUME NEW n \in Nat
  PROVE  /\ n % 2 = 1 => n >= 1 /\ (n - 1) % 2 = 0 /\ (n + 1) % 2 = 0
         /\ n % 2 = 0 => (n + 1) % 2 = 1 /\ n % 2 # 1
  BY SMT

\* A fill is one of the two quantities and exceeds neither.
LEMMA MinOfTwo ==
  ASSUME NEW a \in Nat, NEW b \in Nat
  PROVE  /\ Min({a, b}) \in {a, b}
         /\ Min({a, b}) <= a /\ Min({a, b}) <= b
<1>1. \E x \in {a, b} : \A y \in {a, b} : x <= y
  <2>1. CASE a <= b BY <2>1
  <2>2. CASE b <= a BY <2>2
  <2> QED BY <2>1, <2>2
<1> QED BY <1>1 DEF Min

\* Popping the free stack.
LEMMA FrontLast ==
  ASSUME NEW S, NEW s \in Seq(S), s # <<>>
  PROVE  /\ Len(s) \in Nat /\ Len(s) >= 1
         /\ Front(s) \in Seq(S)
         /\ Len(Front(s)) = Len(s) - 1
         /\ \A i \in 1 .. Len(s) - 1 : Front(s)[i] = s[i]
         /\ Last(s) = s[Len(s)]
         /\ Last(s) \in S
<1>1. Len(s) \in Nat /\ Len(s) >= 1 /\ \A i \in 1 .. Len(s) : s[i] \in S
  BY LenProperties, EmptySeq
<1>2. Front(s) = SubSeq(s, 1, Len(s) - 1)
  BY DEF Front
<1>3. /\ Front(s) \in Seq(S)
      /\ Len(Front(s)) = Len(s) - 1
      /\ \A i \in 1 .. Len(s) - 1 : Front(s)[i] = s[i]
  <2> DEFINE n == Len(s) - 1
  <2>1. n \in Int /\ n >= 0 /\ \A i \in 1 .. n : s[i] \in S
    BY <1>1
  <2>2. /\ SubSeq(s, 1, n) \in Seq(S)
        /\ Len(SubSeq(s, 1, n)) = IF 1 <= n THEN n - 1 + 1 ELSE 0
        /\ \A i \in 1 .. n - 1 + 1 : SubSeq(s, 1, n)[i] = s[1 + i - 1]
    <3> HIDE DEF n
    <3> QED BY <2>1, SubSeqProperties, 1 \in Int
  <2>3. n - 1 + 1 = n /\ \A i \in 1 .. n : 1 + i - 1 = i
    BY <2>1
  <2> HIDE DEF n
  <2>4. Len(SubSeq(s, 1, n)) = n /\ \A i \in 1 .. n : SubSeq(s, 1, n)[i] = s[i]
    BY <2>1, <2>2, <2>3
  <2> QED BY <2>2, <2>4, <1>2 DEF n
<1> QED BY <1>1, <1>3 DEF Last

\* A set of numbers that is not empty has a least one.
LEMMA LeastNatural ==
  ASSUME NEW T, T \subseteq Nat, T # {}
  PROVE  \E n \in T : \A m \in T : n <= m
<1> DEFINE R == OpToRel(<, Nat)
<1>1. \A x, y \in Nat : y < x => <<y, x>> \in R
  BY DEF OpToRel
<1>2. IsWellFoundedOn(R, Nat)
  BY NatLessThanWellFounded
<1> HIDE DEF R
<1>3. PICK x \in T : \A y \in T : ~(<<y, x>> \in R)
  BY <1>2, WFMin
<1>4. \A y \in T : ~(y < x)
  BY <1>1, <1>3
<1>5. \A y \in T : x <= y
  BY <1>4
<1> QED BY <1>5

IsSequence(s) == \E S : s \in Seq(S)

\* Emitting events after others keeps those and adds the new ones.
LEMMA EmitFacts ==
  ASSUME NEW s, NEW t, IsSequence(s), IsSequence(t)
  PROVE  /\ IsSequence(s \o t)
         /\ Len(s) \in Nat /\ Len(t) \in Nat
         /\ Len(s \o t) = Len(s) + Len(t)
         /\ DOMAIN s = 1 .. Len(s) /\ DOMAIN t = 1 .. Len(t)
         /\ DOMAIN (s \o t) = 1 .. Len(s) + Len(t)
         /\ \A i \in DOMAIN s : i \in DOMAIN (s \o t) /\ (s \o t)[i] = s[i]
         /\ \A k \in DOMAIN t : /\ Len(s) + k \in DOMAIN (s \o t)
                                /\ (s \o t)[Len(s) + k] = t[k]
         /\ \A i \in DOMAIN (s \o t) :
              \/ i \in DOMAIN s
              \/ \E k \in DOMAIN t : i = Len(s) + k
<1>1. PICK S : s \in Seq(S)
  BY DEF IsSequence
<1>2. PICK T : t \in Seq(T)
  BY DEF IsSequence
<1>3. s \in Seq(S \cup T) /\ t \in Seq(S \cup T)
  BY <1>1, <1>2
<1>4. /\ s \o t \in Seq(S \cup T)
      /\ Len(s \o t) = Len(s) + Len(t)
      /\ \A i \in 1 .. Len(s) + Len(t) :
           (s \o t)[i] = IF i <= Len(s) THEN s[i] ELSE t[i - Len(s)]
  BY <1>3, ConcatProperties
<1>5. PICK m \in Nat, n \in Nat : /\ m = Len(s) /\ DOMAIN s = 1 .. m
                                  /\ n = Len(t) /\ DOMAIN t = 1 .. n
  BY <1>1, <1>2, LenProperties
<1>6. DOMAIN (s \o t) = 1 .. m + n
  BY <1>4, <1>5, LenProperties
<1>7. \A i \in 1 .. m : i \in 1 .. m + n /\ (s \o t)[i] = s[i]
  BY <1>4, <1>5
<1>8. \A k \in 1 .. n : m + k \in 1 .. m + n /\ (s \o t)[m + k] = t[k]
  <2> SUFFICES ASSUME NEW k \in 1 .. n
               PROVE  m + k \in 1 .. m + n /\ (s \o t)[m + k] = t[k]
    OBVIOUS
  <2>1. m + k \in 1 .. m + n /\ ~(m + k <= m) /\ (m + k) - m = k
    OBVIOUS
  <2> QED BY <1>4, <1>5, <2>1
<1>9. \A i \in 1 .. m + n : i \in 1 .. m \/ \E k \in 1 .. n : i = m + k
  <2> SUFFICES ASSUME NEW i \in 1 .. m + n, i \notin 1 .. m
               PROVE  \E k \in 1 .. n : i = m + k
    OBVIOUS
  <2>1. i - m \in 1 .. n /\ i = m + (i - m)
    OBVIOUS
  <2> QED BY <2>1
<1> QED BY ZenonT(40), <1>4, <1>5, <1>6, <1>7, <1>8, <1>9 DEF IsSequence

\* A sequence of one event, alone or after none.
LEMMA Singleton ==
  ASSUME NEW e
  PROVE  /\ IsSequence(<<e>>) /\ DOMAIN <<e>> = {1} /\ <<e>>[1] = e
         /\ Len(<<e>>) = 1 /\ <<>> \o <<e>> = <<e>>
<1>1. <<e>> \in Seq({e}) /\ <<>> \in Seq({e})
  OBVIOUS
<1>2. <<>> \o <<e>> = <<e>>
  BY <1>1, ConcatEmptySeq
<1>3. IsSequence(<<e>>)
  BY <1>1 DEF IsSequence
<1>4. DOMAIN <<e>> = {1} /\ <<e>>[1] = e /\ Len(<<e>>) = 1
  OBVIOUS
<1> QED BY <1>2, <1>3, <1>4

\* The n first steps of the path from first that follows next.
IsPath(at, X, first, next, n) ==
  /\ at \in [0 .. n -> X] /\ at[0] = first
  /\ \A i \in 1 .. n : at[i] = next[at[i - 1]]

\* Following a function from a first value makes a path of any length.
LEMMA PathExists ==
  ASSUME NEW X, NEW first \in X, NEW next \in [X -> X], NEW N \in Nat
  PROVE  \E at : IsPath(at, X, first, next, N)
<1> DEFINE Path(at, n) == /\ at \in [0 .. n -> X] /\ at[0] = first
                          /\ \A i \in 1 .. n : at[i] = next[at[i - 1]]
           D == {n \in Nat : ~\E at : Path(at, n)}
<1>1. ASSUME D # {}
      PROVE  FALSE
  <2>1. PICK n \in D : \A m \in D : n <= m
    <3>1. D \subseteq Nat
      OBVIOUS
    <3> HIDE DEF D
    <3> QED BY <1>1, <3>1, LeastNatural
  <2>2. n \in Nat /\ ~\E at : Path(at, n)
    OBVIOUS
  <2>3. CASE n = 0
    <3>1. Path([i \in 0 .. 0 |-> first], 0)
      OBVIOUS
    <3> QED BY <2>2, <2>3, <3>1
  <2>4. CASE n # 0
    <3>1. n - 1 \in Nat /\ ~(n <= n - 1)
      BY <2>2, <2>4
    <3>2. PICK at : Path(at, n - 1)
      BY <2>1, <3>1
    <3> DEFINE on == [i \in 0 .. n |-> IF i = n THEN next[at[n - 1]] ELSE at[i]]
    <3>3. at[n - 1] \in X /\ next[at[n - 1]] \in X
      BY <3>1, <3>2
    <3>4. \A i \in 0 .. n : i # n => i \in 0 .. n - 1 /\ at[i] \in X
      BY <2>2, <3>2
    <3>5. on \in [0 .. n -> X] /\ on[0] = first
      BY <2>2, <2>4, <3>2, <3>3, <3>4
    <3>6. ASSUME NEW i \in 1 .. n
          PROVE  on[i] = next[on[i - 1]]
      <4>1. i - 1 \in 0 .. n /\ i - 1 # n /\ on[i - 1] = at[i - 1]
        BY <2>2, <3>6
      <4>2. CASE i = n
        BY <4>1, <4>2
      <4>3. CASE i # n
        <5>1. i \in 1 .. n - 1 /\ on[i] = at[i]
          BY <2>2, <3>6, <4>3
        <5> QED BY <3>2, <4>1, <5>1
      <4> QED BY <4>2, <4>3
    <3>7. Path(on, n)
      BY <3>5, <3>6
    <3> QED BY <2>2, <3>7
  <2> QED BY <2>3, <2>4
<1>2. \E at : Path(at, N)
  BY <1>1
<1> QED BY <1>2 DEF IsPath

----------------------------------------------------------------------------
(***************************************************************************)
(* Sums over finite sets.  SumFunctionOnSet is a fold, which is defined by *)
(* recursion over the subsets of the set.                                  *)
(***************************************************************************)

\* Induction over finite sets, without an operator for its hypothesis: of the
\* subsets of a finite set that have something in common, one is minimal.
LEMMA MinimalSubset ==
  ASSUME NEW S, IsFiniteSet(S), NEW D, D \subseteq SUBSET S, D # {}
  PROVE  \E T \in D : /\ IsFiniteSet(T)
                      /\ \A U \in SUBSET T : U # T => U \notin D
<1> DEFINE N == {Cardinality(T) : T \in D}
<1>1. \A T \in D : IsFiniteSet(T) /\ Cardinality(T) \in Nat
  BY FS_Subset, FS_CardinalityType
<1>2. PICK n \in N : \A m \in N : n <= m
  <2>1. N \subseteq Nat /\ N # {}
    BY <1>1
  <2> HIDE DEF N
  <2> QED BY <2>1, LeastNatural
<1>3. PICK T \in D : Cardinality(T) = n
  BY <1>2
<1>4. ASSUME NEW U \in SUBSET T, U # T, U \in D
      PROVE  FALSE
  <2>1. Cardinality(U) <= Cardinality(T) /\ Cardinality(U) # Cardinality(T)
    BY <1>1, <1>4, FS_Subset
  <2>2. n <= Cardinality(U)
    BY <1>2, <1>4
  <2> QED BY <2>1, <2>2, <1>1, <1>3, <1>4
<1> QED BY <1>1, <1>3, <1>4

Chosen(s) == CHOOSE x \in s : TRUE

\* The recursion of the fold, over all subsets of S, with it for its calls.
SumStep(f, S, it) ==
  [s \in SUBSET S |-> IF s = {} THEN 0 ELSE f[Chosen(s)] + it[s \ {Chosen(s)}]]

SumsOf(f, S) == CHOOSE it : it = SumStep(f, S, it)

\* The recursion has a solution over a finite set, and only one.
LEMMA SumsExist ==
  ASSUME NEW f, NEW S, IsFiniteSet(S)
  PROVE  /\ SumsOf(f, S) = SumStep(f, S, SumsOf(f, S))
         /\ \A T \in SUBSET S : SumsOf(f, S)[T] = SumFunctionOnSet(f, T)
<1> DEFINE Sum(T) == SumFunctionOnSet(f, T)
           Good(T) == /\ SumsOf(f, T) = SumStep(f, T, SumsOf(f, T))
                      /\ \A U \in SUBSET T : SumsOf(f, T)[U] = Sum(U)
           D == {T \in SUBSET S : ~Good(T)}
<1>1. \A T : Sum(T) = SumsOf(f, T)[T]
  BY DEF SumFunctionOnSet, FoldFunctionOnSet, MapThenFoldSet, SumsOf, SumStep, Chosen
<1>2. \A s : s # {} => Chosen(s) \in s
  BY DEF Chosen
<1>3. ASSUME NEW T \in D, \A U \in SUBSET T : U # T => Good(U)
      PROVE  FALSE
  <2> DEFINE g == [s \in SUBSET T |->
                     IF s = {} THEN 0 ELSE f[Chosen(s)] + Sum(s \ {Chosen(s)})]
  <2> HIDE DEF Sum
  <2>1. \A U \in SUBSET T : U # T => g[U] = Sum(U)
    <3> SUFFICES ASSUME NEW U \in SUBSET T, U # T PROVE g[U] = Sum(U)
      OBVIOUS
    <3>1. Good(U)
      BY <1>3
    <3>2. Sum(U) = SumStep(f, U, SumsOf(f, U))[U]
      BY <3>1, <1>1
    <3>3. Sum(U) = IF U = {} THEN 0 ELSE f[Chosen(U)] + SumsOf(f, U)[U \ {Chosen(U)}]
      BY <3>2 DEF SumStep
    <3>4. SumsOf(f, U)[U \ {Chosen(U)}] = Sum(U \ {Chosen(U)})
      BY <3>1
    <3> QED BY <3>3, <3>4
  <2>2. g = SumStep(f, T, g)
    <3>1. \A s \in SUBSET T : s # {} => g[s \ {Chosen(s)}] = Sum(s \ {Chosen(s)})
      <4> HIDE DEF g
      <4> QED BY <2>1, <1>2
    <3>2. \A s \in SUBSET T :
            g[s] = IF s = {} THEN 0 ELSE f[Chosen(s)] + g[s \ {Chosen(s)}]
      <4>1. \A s \in SUBSET T :
              g[s] = IF s = {} THEN 0 ELSE f[Chosen(s)] + Sum(s \ {Chosen(s)})
        OBVIOUS
      <4> HIDE DEF g
      <4> QED BY <4>1, <3>1
    <3>3. g = [s \in SUBSET T |-> g[s]]
      OBVIOUS
    <3> HIDE DEF g
    <3> QED BY <3>2, <3>3, Zenon DEF SumStep
  <2> DEFINE h == SumsOf(f, T)
  <2>3. h = SumStep(f, T, h)
    <3> HIDE DEF g
    <3> QED BY <2>2, Zenon DEF SumsOf
  <2> HIDE DEF g, h
  <2>4. \A U \in SUBSET T : h[U] = g[U]
    <3> DEFINE E == {U \in SUBSET T : h[U] # g[U]}
    <3>1. SUFFICES ASSUME E # {} PROVE FALSE
      OBVIOUS
    <3>2. IsFiniteSet(T)
      BY FS_Subset
    <3>3. PICK U \in E : \A V \in SUBSET U : V # U => V \notin E
      <4>1. E \subseteq SUBSET T
        OBVIOUS
      <4> HIDE DEF E
      <4> QED BY <3>1, <3>2, <4>1, MinimalSubset
    <3>4. /\ h[U] = IF U = {} THEN 0 ELSE f[Chosen(U)] + h[U \ {Chosen(U)}]
          /\ g[U] = IF U = {} THEN 0 ELSE f[Chosen(U)] + g[U \ {Chosen(U)}]
      <4>1. \A it : SumStep(f, T, it)[U] = IF U = {} THEN 0 ELSE f[Chosen(U)] + it[U \ {Chosen(U)}]
        BY DEF SumStep
      <4> QED BY <4>1, <2>2, <2>3
    <3>5. CASE U = {} BY <3>5, <3>4
    <3>6. CASE U # {}
      <4>1. U \ {Chosen(U)} \in SUBSET U /\ U \ {Chosen(U)} # U
        BY <3>6, <1>2
      <4> QED BY <4>1, <3>3, <3>4
    <3> QED BY <3>5, <3>6
  <2>5. \A U \in SUBSET T : h[U] = Sum(U)
    BY <2>1, <2>4, <1>1 DEF h
  <2>6. Good(T)
    BY <2>3, <2>5 DEF h
  <2> QED BY <2>6
<1> HIDE DEF Good
<1>4. D = {}
  <2>1. SUFFICES ASSUME D # {} PROVE FALSE
    OBVIOUS
  <2>2. PICK T \in D : \A U \in SUBSET T : U # T => U \notin D
    <3>1. D \subseteq SUBSET S
      OBVIOUS
    <3> HIDE DEF D
    <3> QED BY <2>1, <3>1, MinimalSubset
  <2>3. \A U \in SUBSET T : U # T => Good(U)
    BY <2>2
  <2> QED BY <1>3, <2>3
<1>5. Good(S)
  BY <1>4
<1> QED BY <1>5 DEF Good

\* The sum over a set is that of its chosen element and of the others.
LEMMA SumUnfolds ==
  ASSUME NEW f, NEW S, IsFiniteSet(S)
  PROVE  SumFunctionOnSet(f, S) =
           IF S = {} THEN 0
           ELSE f[Chosen(S)] + SumFunctionOnSet(f, S \ {Chosen(S)})
<1>1. /\ SumsOf(f, S) = SumStep(f, S, SumsOf(f, S))
      /\ \A T \in SUBSET S : SumsOf(f, S)[T] = SumFunctionOnSet(f, T)
  BY SumsExist
<1>2. \A it : SumStep(f, S, it)[S] =
                 IF S = {} THEN 0 ELSE f[Chosen(S)] + it[S \ {Chosen(S)}]
  BY DEF SumStep
<1>3. SumsOf(f, S)[S] = SumFunctionOnSet(f, S)
  BY <1>1
<1>4. SumsOf(f, S)[S \ {Chosen(S)}] = SumFunctionOnSet(f, S \ {Chosen(S)})
  BY <1>1
<1> QED BY <1>1, <1>2, <1>3, <1>4

\* A sum of naturals is one, and zero only if they all are.
LEMMA SumOfNaturals ==
  ASSUME NEW f, NEW S, IsFiniteSet(S), \A x \in S : f[x] \in Nat
  PROVE  /\ SumFunctionOnSet(f, S) \in Nat
         /\ SumFunctionOnSet(f, S) = 0 <=> \A x \in S : f[x] = 0
<1> DEFINE Sum(T) == SumFunctionOnSet(f, T)
           Good(T) == Sum(T) \in Nat /\ (Sum(T) = 0 <=> \A x \in T : f[x] = 0)
           D == {T \in SUBSET S : ~Good(T)}
<1>1. \A T \in SUBSET S :
        Sum(T) = IF T = {} THEN 0 ELSE f[Chosen(T)] + Sum(T \ {Chosen(T)})
  BY SumUnfolds, FS_Subset
<1>2. \A s : s # {} => Chosen(s) \in s
  BY DEF Chosen
<1> HIDE DEF Sum
<1>3. ASSUME NEW T \in D, \A U \in SUBSET T : U # T => Good(U)
      PROVE  FALSE
  <2>1. CASE T = {}
    <3>1. Sum(T) = 0
      BY <2>1, <1>1
    <3> QED BY <2>1, <3>1, <1>3
  <2>2. CASE T # {}
    <3>1. Good(T \ {Chosen(T)})
      BY <2>2, <1>2, <1>3
    <3>2. Sum(T) = f[Chosen(T)] + Sum(T \ {Chosen(T)}) /\ f[Chosen(T)] \in Nat
      BY <2>2, <1>1, <1>2, <1>3
    <3>3. \A x \in T : x = Chosen(T) \/ x \in T \ {Chosen(T)}
      OBVIOUS
    <3>4. Chosen(T) \in T
      BY <2>2, <1>2
    <3> QED BY <3>1, <3>2, <3>3, <3>4, <1>3
  <2> QED BY <2>1, <2>2
<1> HIDE DEF Good
<1>4. D = {}
  <2>1. SUFFICES ASSUME D # {} PROVE FALSE
    OBVIOUS
  <2>2. PICK T \in D : \A U \in SUBSET T : U # T => U \notin D
    <3>1. D \subseteq SUBSET S
      OBVIOUS
    <3> HIDE DEF D
    <3> QED BY <2>1, <3>1, MinimalSubset
  <2> QED BY <1>3, <2>2
<1> QED BY <1>4 DEF Good, Sum

\* A sum depends on the values of the function in the set only.
LEMMA SumOfSameValues ==
  ASSUME NEW f, NEW g, NEW S, IsFiniteSet(S), \A x \in S : f[x] = g[x]
  PROVE  SumFunctionOnSet(f, S) = SumFunctionOnSet(g, S)
<1> DEFINE SumF(T) == SumFunctionOnSet(f, T)
           SumG(T) == SumFunctionOnSet(g, T)
           D == {T \in SUBSET S : SumF(T) # SumG(T)}
<1>1. \A T \in SUBSET S :
        /\ SumF(T) = IF T = {} THEN 0 ELSE f[Chosen(T)] + SumF(T \ {Chosen(T)})
        /\ SumG(T) = IF T = {} THEN 0 ELSE g[Chosen(T)] + SumG(T \ {Chosen(T)})
  BY SumUnfolds, FS_Subset
<1>2. \A s : s # {} => Chosen(s) \in s
  BY DEF Chosen
<1> HIDE DEF SumF, SumG
<1>3. ASSUME NEW T \in D, \A U \in SUBSET T : U # T => U \notin D
      PROVE  FALSE
  <2>1. CASE T = {} BY <2>1, <1>1
  <2>2. CASE T # {}
    <3>1. /\ Chosen(T) \in T
          /\ T \ {Chosen(T)} \in SUBSET T /\ T \ {Chosen(T)} # T
      BY <2>2, <1>2
    <3>2. SumF(T \ {Chosen(T)}) = SumG(T \ {Chosen(T)})
      BY <3>1, <1>3
    <3> QED BY <2>2, <3>1, <3>2, <1>1
  <2> QED BY <2>1, <2>2
<1>4. D = {}
  <2>1. SUFFICES ASSUME D # {} PROVE FALSE
    OBVIOUS
  <2>2. D \subseteq SUBSET S
    OBVIOUS
  <2> HIDE DEF D
  <2>3. PICK T \in D : \A U \in SUBSET T : U # T => U \notin D
    BY <2>1, <2>2, MinimalSubset
  <2> QED BY <1>3, <2>3
<1> QED BY <1>4 DEF SumF, SumG

\* Any element of a set can be taken out of its sum.
LEMMA SumWithout ==
  ASSUME NEW f, NEW S, IsFiniteSet(S), NEW a \in S, \A x \in S : f[x] \in Int
  PROVE  SumFunctionOnSet(f, S) = f[a] + SumFunctionOnSet(f, S \ {a})
<1> DEFINE Sum(T) == SumFunctionOnSet(f, T)
           Good(T) == Sum(T) \in Int /\ \A x \in T : Sum(T) = f[x] + Sum(T \ {x})
           D == {T \in SUBSET S : ~Good(T)}
<1>1. \A T \in SUBSET S :
        Sum(T) = IF T = {} THEN 0 ELSE f[Chosen(T)] + Sum(T \ {Chosen(T)})
  BY SumUnfolds, FS_Subset
<1>2. \A s : s # {} => Chosen(s) \in s
  BY DEF Chosen
<1> HIDE DEF Sum
<1>3. ASSUME NEW T \in D, \A U \in SUBSET T : U # T => Good(U)
      PROVE  FALSE
  <2>1. CASE T = {}
    <3>1. Sum(T) = 0
      BY <2>1, <1>1
    <3> QED BY <2>1, <3>1, <1>3
  <2>2. CASE T # {}
    <3> DEFINE c == Chosen(T)
    <3>1. c \in T /\ Sum(T) = f[c] + Sum(T \ {c}) /\ f[c] \in Int
      BY <2>2, <1>1, <1>2, <1>3
    <3> HIDE DEF c
    <3>2. Good(T \ {c})
      BY <3>1, <1>3
    <3>3. Sum(T) \in Int
      BY <3>1, <3>2
    <3>4. ASSUME NEW x \in T, x # c
          PROVE  Sum(T) = f[x] + Sum(T \ {x})
      <4>1. Good(T \ {x}) /\ Good((T \ {x}) \ {c})
        BY <3>1, <3>4, <1>3
      <4>2. (T \ {x}) \ {c} = (T \ {c}) \ {x}
        OBVIOUS
      <4>3. Sum(T \ {c}) = f[x] + Sum((T \ {c}) \ {x})
        BY <3>2, <3>4
      <4>4. Sum(T \ {x}) = f[c] + Sum((T \ {x}) \ {c})
        BY <4>1, <3>1, <3>4
      <4>5. f[x] \in Int /\ f[c] \in Int /\ Sum((T \ {x}) \ {c}) \in Int
        BY <4>1, <3>1, <3>4, <1>3
      <4>6. Sum(T) = f[c] + (f[x] + Sum((T \ {x}) \ {c}))
        BY <4>2, <4>3, <3>1
      <4> DEFINE rest == Sum((T \ {x}) \ {c})
      <4>7. Sum(T) = f[c] + (f[x] + rest) /\ Sum(T \ {x}) = f[c] + rest /\ rest \in Int
        BY <4>4, <4>5, <4>6
      <4> HIDE DEF rest
      <4> QED BY <4>5, <4>7
    <3>5. Good(T)
      BY <3>1, <3>3, <3>4
    <3> QED BY <3>5, <1>3
  <2> QED BY <2>1, <2>2
<1> HIDE DEF Good
<1>4. D = {}
  <2>1. SUFFICES ASSUME D # {} PROVE FALSE
    OBVIOUS
  <2>2. PICK T \in D : \A U \in SUBSET T : U # T => U \notin D
    <3>1. D \subseteq SUBSET S
      OBVIOUS
    <3> HIDE DEF D
    <3> QED BY <2>1, <3>1, MinimalSubset
  <2> QED BY <1>3, <2>2
<1>5. Good(S)
  BY <1>4
<1> QED BY <1>5 DEF Good, Sum
=============================================================================
