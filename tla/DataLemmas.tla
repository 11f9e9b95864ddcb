----------------------------- MODULE DataLemmas -----------------------------
(***************************************************************************)
(* What the proof modules share about data.  Sequences: what the           *)
(* operations of the models' arrays and queues - append at the end, take   *)
(* from the front - do to the set of elements and to the absence of        *)
(* duplicates.  Sums: SumFunctionOnSet of integers, as one element's value *)
(* changes, proved by an induction over subsets that needs no operator as  *)
(* a parameter: the property is given as the set of what has it.           *)
(***************************************************************************)
EXTENDS Integers, Sequences, SequencesExt, FiniteSets, FiniteSetTheorems, SequenceTheorems,
        WellFoundedInduction, TLAPS

LEMMA EmptyToSet == ToSet(<<>>) = {} /\ IsInjective(<<>>)
BY DEF ToSet, IsInjective

(* The elements of a sequence, as operations change it.                    *)
LEMMA ToSetAppend ==
  ASSUME NEW S, NEW s \in Seq(S), NEW e \in S
  PROVE  ToSet(Append(s, e)) = ToSet(s) \cup {e}
<1>1. ToSet(Append(s, e)) \subseteq ToSet(s) \cup {e}
  BY DEF ToSet
<1>2. ToSet(s) \subseteq ToSet(Append(s, e))
  <2> SUFFICES ASSUME NEW i \in DOMAIN s PROVE s[i] \in ToSet(Append(s, e))
    BY DEF ToSet
  <2>1. i \in DOMAIN Append(s, e) /\ Append(s, e)[i] = s[i]
    OBVIOUS
  <2> QED BY <2>1 DEF ToSet
<1>3. e \in ToSet(Append(s, e))
  <2>1. Len(s) + 1 \in DOMAIN Append(s, e) /\ Append(s, e)[Len(s) + 1] = e
    OBVIOUS
  <2> QED BY <2>1 DEF ToSet
<1> QED BY <1>1, <1>2, <1>3

LEMMA ToSetHeadTail ==
  ASSUME NEW S, NEW s \in Seq(S), s # <<>>
  PROVE  /\ Head(s) \in S
         /\ Tail(s) \in Seq(S)
         /\ ToSet(s) = {Head(s)} \cup ToSet(Tail(s))
<1>1. Head(s) \in S /\ Tail(s) \in Seq(S)
  OBVIOUS
<1>2. ToSet(s) \subseteq {Head(s)} \cup ToSet(Tail(s))
  <2> SUFFICES ASSUME NEW i \in DOMAIN s, i # 1
               PROVE  s[i] \in ToSet(Tail(s))
    BY DEF ToSet
  <2>1. i - 1 \in DOMAIN Tail(s) /\ Tail(s)[i - 1] = s[i]
    OBVIOUS
  <2> QED BY <2>1 DEF ToSet
<1>3. ToSet(Tail(s)) \subseteq ToSet(s)
  <2> SUFFICES ASSUME NEW i \in DOMAIN Tail(s)
               PROVE  Tail(s)[i] \in ToSet(s)
    BY DEF ToSet
  <2>1. i + 1 \in DOMAIN s /\ s[i + 1] = Tail(s)[i]
    OBVIOUS
  <2> QED BY <2>1 DEF ToSet
<1>4. Head(s) \in ToSet(s)
  BY DEF ToSet
<1> QED BY <1>1, <1>2, <1>3, <1>4

LEMMA InjectiveAppend ==
  ASSUME NEW S, NEW s \in Seq(S), NEW e \in S,
         IsInjective(s), e \notin ToSet(s)
  PROVE  IsInjective(Append(s, e))
<1> DEFINE t == Append(s, e)
<1>1. \A i \in DOMAIN t : \/ i \in DOMAIN s /\ t[i] = s[i]
                          \/ i = Len(s) + 1 /\ t[i] = e
  OBVIOUS
<1>2. \A i \in DOMAIN s : s[i] # e
  BY DEF ToSet
<1> QED BY <1>1, <1>2 DEF IsInjective

LEMMA InjectiveTail ==
  ASSUME NEW S, NEW s \in Seq(S), s # <<>>, IsInjective(s)
  PROVE  /\ IsInjective(Tail(s))
         /\ Head(s) \notin ToSet(Tail(s))
<1>1. \A i \in DOMAIN Tail(s) : i + 1 \in DOMAIN s /\ Tail(s)[i] = s[i + 1]
  OBVIOUS
<1>2. 1 \in DOMAIN s /\ Head(s) = s[1]
  OBVIOUS
<1>3. \A i \in DOMAIN Tail(s) : i \in Nat /\ i >= 1
  OBVIOUS
<1>4. IsInjective(Tail(s))
  <2> SUFFICES ASSUME NEW i \in DOMAIN Tail(s), NEW k \in DOMAIN Tail(s),
                      Tail(s)[i] = Tail(s)[k]
               PROVE  i = k
    BY DEF IsInjective
  <2>1. i + 1 = k + 1
    BY <1>1 DEF IsInjective
  <2> QED BY <2>1, <1>3
<1>5. ASSUME NEW i \in DOMAIN Tail(s) PROVE Tail(s)[i] # Head(s)
  BY <1>1, <1>2, <1>3 DEF IsInjective
<1> QED BY <1>4, <1>5 DEF ToSet

-----------------------------------------------------------------------------
(* Induction over the subsets of a finite set, for a family of sets G: the  *)
(* smallest subset outside of G would have all of its proper subsets in G.  *)
LEMMA SubsetInduction ==
  ASSUME NEW S, IsFiniteSet(S), NEW G,
         \A T \in SUBSET S : (\A U \in SUBSET T : U # T => U \in G) => T \in G
  PROVE  SUBSET S \subseteq G
<1> SUFFICES ASSUME (SUBSET S) \ G # {} PROVE FALSE
  OBVIOUS
<1> DEFINE R == StrictSubsetOrdering(S)
<1>1. (SUBSET S) \ G \subseteq FiniteSubsetsOf(S)
  BY FS_Subset DEF FiniteSubsetsOf
<1>2. IsWellFoundedOn(R, FiniteSubsetsOf(S))
  BY FS_StrictSubsetOrderingWellFounded
<1> DEFINE F == FiniteSubsetsOf(S)
           Bad == (SUBSET S) \ G
<1> HIDE DEF R, F, Bad
<1>3. PICK T \in Bad : \A U \in Bad : ~ (<<U, T>> \in R)
  <2>1. IsWellFoundedOn(R, F) /\ Bad \subseteq F /\ Bad # {}
    BY <1>1, <1>2 DEF F, Bad
  <2> QED BY <2>1, WFMin
<1>4. \A U \in SUBSET T : U # T => U \in G
  BY <1>3 DEF R, StrictSubsetOrdering, Bad
<1> QED BY <1>3, <1>4 DEF Bad

(* Induction over the naturals, for a set G of them.                        *)
LEMMA NatSetInduction ==
  ASSUME NEW G, 0 \in G, \A n \in Nat : n \in G => n + 1 \in G
  PROVE  Nat \subseteq G
<1> SUFFICES ASSUME NEW n \in Nat, n \notin G PROVE FALSE
  OBVIOUS
<1> DEFINE I == 0..n
           Good == {T \in SUBSET I : \A m \in T : 0..m \subseteq T => m \in G}
<1>1. IsFiniteSet(I)
  BY FS_Interval
<1>2. ASSUME NEW T \in SUBSET I, \A U \in SUBSET T : U # T => U \in Good
      PROVE  T \in Good
  <2> SUFFICES ASSUME NEW m \in T, 0..m \subseteq T PROVE m \in G
    OBVIOUS
  <2>1. CASE m = 0
    BY <2>1
  <2>2. CASE m # 0
    <3>1. /\ 0..(m-1) \subseteq T /\ m \notin 0..(m-1) /\ m - 1 \in Nat
          /\ m - 1 \in 0..(m-1)
      BY <2>2
    <3>2. 0..(m-1) \in Good
      BY <1>2, <3>1
    <3>3. m - 1 \in G
      BY <3>1, <3>2
    <3> QED BY <3>1, <3>3
  <2> QED BY <2>1, <2>2
<1>3. SUBSET I \subseteq Good
  <2> HIDE DEF Good, I
  <2> QED BY <1>1, <1>2, SubsetInduction
<1>4. I \in Good
  <2> HIDE DEF Good, I
  <2> QED BY <1>3
<1>5. n \in I /\ 0..n \subseteq I
  OBVIOUS
<1> QED BY <1>4, <1>5

(* A nonempty set of numbers up to n has a largest member. *)
LEMMA BoundedSetHasMax ==
  ASSUME NEW n \in Nat, NEW S \in SUBSET (0..n), S # {}
  PROVE  \E x \in S : \A y \in S : x >= y
<1> DEFINE G == {m \in Nat : \A T \in SUBSET (0..m) : T # {} => \E x \in T : \A y \in T : x >= y}
<1>1. 0 \in G
  <2> SUFFICES ASSUME NEW T \in SUBSET (0..0), T # {}
               PROVE  \E x \in T : \A y \in T : x >= y
    OBVIOUS
  <2>1. \A y \in T : y = 0
    OBVIOUS
  <2>2. PICK x \in T : TRUE
    OBVIOUS
  <2> QED BY <2>1, <2>2
<1>2. ASSUME NEW m \in Nat, m \in G PROVE m + 1 \in G
  <2> SUFFICES ASSUME NEW T \in SUBSET (0..(m + 1)), T # {}
               PROVE  \E x \in T : \A y \in T : x >= y
    OBVIOUS
  <2>1. CASE m + 1 \in T
    BY <2>1
  <2>2. CASE m + 1 \notin T
    <3>1. T \in SUBSET (0..m)
      BY <2>2
    <3> QED BY <1>2, <3>1
  <2> QED BY <2>1, <2>2
<1>3. Nat \subseteq G
  <2> HIDE DEF G
  <2> QED BY <1>1, <1>2, NatSetInduction
<1> QED BY <1>3

(* A nonempty set of naturals has a smallest member. *)
LEMMA LeastMember ==
  ASSUME NEW S \in SUBSET Nat, S # {}
  PROVE  \E k \in S : \A m \in S : k <= m
<1> DEFINE G == {n \in Nat : \A T \in SUBSET Nat :
                   (\E k \in T : k <= n) => \E k \in T : \A m \in T : k <= m}
<1>1. 0 \in G
  OBVIOUS
<1>2. ASSUME NEW n \in Nat, n \in G PROVE n + 1 \in G
  <2> SUFFICES ASSUME NEW T \in SUBSET Nat, NEW k \in T, k <= n + 1
               PROVE  \E j \in T : \A m \in T : j <= m
    OBVIOUS
  <2>1. CASE \E j \in T : j <= n
    BY <1>2, <2>1
  <2>2. CASE ~\E j \in T : j <= n
    <3>1. \A m \in T : k <= m
      BY <2>2
    <3> QED BY <3>1
  <2> QED BY <2>1, <2>2
<1>3. Nat \subseteq G
  <2> HIDE DEF G
  <2> QED BY <1>1, <1>2, NatSetInduction
<1>4. PICK n \in S : TRUE
  OBVIOUS
<1>5. n \in Nat /\ n \in G
  <2> HIDE DEF G
  <2> QED BY <1>3
<1>6. S \in SUBSET Nat /\ \E k \in S : k <= n
  BY <1>4, <1>5
<1> QED BY <1>5, <1>6

(* What makes a function on subsets of S the sum of f over each.            *)
Sums(g, f, S) ==
  /\ DOMAIN g = SUBSET S
  /\ \A T \in SUBSET S :
       g[T] = IF T = {} THEN 0
              ELSE LET x == CHOOSE y \in T : TRUE IN f[x] + g[T \ {x}]

LEMMA SumsExist ==
  ASSUME NEW f, NEW S, IsFiniteSet(S)
  PROVE  \E g : Sums(g, f, S)
<1> DEFINE next(g) == [T \in SUBSET S |-> IF T = {} THEN 0
                        ELSE LET x == CHOOSE y \in T : TRUE IN f[x] + g[T \ {x}]]
           upTo(g, n) == \A T \in SUBSET S : Cardinality(T) <= n => g[T] = next(g)[T]
           G == {n \in Nat : \E g : DOMAIN g = SUBSET S /\ upTo(g, n)}
<1>0. \A T \in SUBSET S : IsFiniteSet(T) /\ Cardinality(T) \in Nat
                           /\ Cardinality(T) <= Cardinality(S)
  BY FS_Subset, FS_CardinalityType
<1>1. 0 \in G
  <2> DEFINE g == [T \in SUBSET S |-> 0]
  <2>1. \A T \in SUBSET S : Cardinality(T) <= 0 => T = {}
    BY <1>0, FS_EmptySet
  <2>2. upTo(g, 0)
    BY <2>1
  <2> QED BY <2>2
<1>2. ASSUME NEW n \in Nat, n \in G PROVE n + 1 \in G
  <2>1. PICK g : DOMAIN g = SUBSET S /\ upTo(g, n)
    BY <1>2
  <2>2. ASSUME NEW T \in SUBSET S, Cardinality(T) <= n + 1
        PROVE  next(g)[T] = next(next(g))[T]
    <3>1. CASE T = {}
      BY <3>1
    <3>2. CASE T # {}
      <4> DEFINE x == CHOOSE y \in T : TRUE
      <4>1. x \in T
        BY <3>2
      <4> HIDE DEF x
      <4>2. T \ {x} \in SUBSET S /\ Cardinality(T \ {x}) = Cardinality(T) - 1
        BY <1>0, <4>1, FS_RemoveElement
      <4>3. Cardinality(T \ {x}) <= n
        BY <1>0, <4>2, <2>2
      <4>4. g[T \ {x}] = next(g)[T \ {x}]
        BY <2>1, <4>2, <4>3
      <4> HIDE DEF next
      <4>5. next(g)[T] = f[x] + g[T \ {x}] /\ next(next(g))[T] = f[x] + next(g)[T \ {x}]
        BY <3>2 DEF next, x
      <4> QED BY <4>4, <4>5
    <3> QED BY <3>1, <3>2
  <2>3. DOMAIN next(g) = SUBSET S
    OBVIOUS
  <2> HIDE DEF next
  <2>4. upTo(next(g), n + 1)
    BY <2>2
  <2> QED BY <2>3, <2>4
<1>3. Cardinality(S) \in G
  <2> HIDE DEF G
  <2>1. Nat \subseteq G
    BY <1>1, <1>2, NatSetInduction
  <2> QED BY <2>1, FS_CardinalityType
<1>4. PICK g : DOMAIN g = SUBSET S /\ upTo(g, Cardinality(S))
  BY <1>3
<1>5. ASSUME NEW T \in SUBSET S PROVE g[T] = next(g)[T]
  BY <1>0, <1>4
<1> QED BY <1>4, <1>5 DEF Sums

LEMMA SumsRestrict ==
  ASSUME NEW f, NEW S, NEW U \in SUBSET S, NEW g, Sums(g, f, S)
  PROVE  Sums([T \in SUBSET U |-> g[T]], f, U)
<1> DEFINE h == [T \in SUBSET U |-> g[T]]
<1> SUFFICES ASSUME NEW T \in SUBSET U, T # {}
             PROVE  h[T] = LET x == CHOOSE y \in T : TRUE IN f[x] + h[T \ {x}]
  BY DEF Sums
<1> DEFINE x == CHOOSE y \in T : TRUE
<1>1. T \ {x} \in SUBSET U /\ T \in SUBSET S
  OBVIOUS
<1>2. g[T] = f[x] + g[T \ {x}]
  BY <1>1 DEF Sums
<1> QED BY <1>1, <1>2

LEMMA SumsUnique ==
  ASSUME NEW f, NEW S, IsFiniteSet(S), NEW g, NEW h, Sums(g, f, S), Sums(h, f, S)
  PROVE  \A T \in SUBSET S : g[T] = h[T]
<1> DEFINE G == {T \in SUBSET S : g[T] = h[T]}
<1>1. ASSUME NEW T \in SUBSET S, \A U \in SUBSET T : U # T => U \in G
      PROVE  T \in G
  <2>1. CASE T = {}
    BY <2>1 DEF Sums
  <2>2. CASE T # {}
    <3> DEFINE x == CHOOSE y \in T : TRUE
    <3>1. x \in T
      BY <2>2
    <3>2. g[T] = f[x] + g[T \ {x}] /\ h[T] = f[x] + h[T \ {x}]
      BY <2>2 DEF Sums
    <3> HIDE DEF x
    <3>3. T \ {x} \in G
      BY <1>1, <3>1
    <3> QED BY <3>2, <3>3
  <2> QED BY <2>1, <2>2
<1> HIDE DEF G
<1>2. SUBSET S \subseteq G
  BY <1>1, SubsetInduction
<1> QED BY <1>2 DEF G

LEMMA SumIsSums ==
  ASSUME NEW f, NEW S, IsFiniteSet(S)
  PROVE  \E g : Sums(g, f, S) /\ \A T \in SUBSET S : SumFunctionOnSet(f, T) = g[T]
<1>1. PICK g : Sums(g, f, S)
  BY SumsExist
<1>2. ASSUME NEW T \in SUBSET S PROVE SumFunctionOnSet(f, T) = g[T]
  <2> DEFINE Eq(h) == h = [U \in SUBSET T |-> IF U = {} THEN 0
                         ELSE LET x == CHOOSE y \in U : TRUE IN f[x] + h[U \ {x}]]
             h == CHOOSE h : Eq(h)
  <2>1. SumFunctionOnSet(f, T) = h[T]
    BY DEF SumFunctionOnSet, FoldFunctionOnSet, MapThenFoldSet
  <2>2. Sums([U \in SUBSET T |-> g[U]], f, T)
    BY <1>1, SumsRestrict
  <2>3. Eq([U \in SUBSET T |-> g[U]])
    BY <2>2 DEF Sums
  <2>4. Eq(h)
    BY <2>3
  <2> HIDE DEF h
  <2>5. Sums(h, f, T)
    BY <2>4 DEF Sums
  <2>6. h[T] = [U \in SUBSET T |-> g[U]][T]
    BY <2>2, <2>5, SumsUnique, FS_Subset
  <2> QED BY <2>1, <2>6
<1> QED BY <1>1, <1>2

(***************************************************************************)
(* The facts about sums that the proofs cite.                              *)
(***************************************************************************)
LEMMA SumEmpty == \A f : SumFunctionOnSet(f, {}) = 0
BY SumIsSums, FS_EmptySet DEF Sums

LEMMA SumType ==
  ASSUME NEW S, IsFiniteSet(S), NEW f, \A x \in S : f[x] \in Int
  PROVE  SumFunctionOnSet(f, S) \in Int
<1> DEFINE G == {T \in SUBSET S : SumFunctionOnSet(f, T) \in Int}
<1>1. PICK g : Sums(g, f, S) /\ \A T \in SUBSET S : SumFunctionOnSet(f, T) = g[T]
  BY SumIsSums
<1>2. ASSUME NEW T \in SUBSET S, \A U \in SUBSET T : U # T => U \in G
      PROVE  T \in G
  <2>1. CASE T = {}
    BY <2>1, SumEmpty
  <2>2. CASE T # {}
    <3> DEFINE x == CHOOSE y \in T : TRUE
    <3>1. x \in T
      BY <2>2
    <3>2. g[T] = f[x] + g[T \ {x}]
      BY <1>1, <2>2 DEF Sums
    <3> HIDE DEF x
    <3>3. T \ {x} \in G
      BY <1>2, <3>1
    <3>4. g[T \ {x}] \in Int /\ f[x] \in Int
      BY <3>1, <3>3, <1>1
    <3> QED BY <1>1, <3>2, <3>4
  <2> QED BY <2>1, <2>2
<1> HIDE DEF G
<1>3. SUBSET S \subseteq G
  BY <1>2, SubsetInduction
<1> QED BY <1>3 DEF G

LEMMA SumSame ==
  ASSUME NEW S, IsFiniteSet(S), NEW f, NEW h, \A x \in S : f[x] = h[x]
  PROVE  SumFunctionOnSet(f, S) = SumFunctionOnSet(h, S)
<1>1. PICK g : Sums(g, f, S) /\ \A T \in SUBSET S : SumFunctionOnSet(f, T) = g[T]
  BY SumIsSums
<1>2. PICK k : Sums(k, h, S) /\ \A T \in SUBSET S : SumFunctionOnSet(h, T) = k[T]
  BY SumIsSums
<1>3. Sums(g, h, S)
  <2> SUFFICES ASSUME NEW T \in SUBSET S, T # {}
               PROVE  g[T] = LET x == CHOOSE y \in T : TRUE IN h[x] + g[T \ {x}]
    BY <1>1 DEF Sums
  <2> DEFINE x == CHOOSE y \in T : TRUE
  <2>1. x \in T /\ g[T] = f[x] + g[T \ {x}]
    BY <1>1 DEF Sums
  <2> HIDE DEF x
  <2>2. g[T] = h[x] + g[T \ {x}]
    BY <2>1
  <2> QED BY <2>2 DEF x
<1> QED BY <1>1, <1>2, <1>3, SumsUnique

(* Any element may be split off, not only the one that is chosen.          *)
LEMMA SumSplit ==
  ASSUME NEW S, IsFiniteSet(S), NEW f, \A x \in S : f[x] \in Int, NEW e \in S
  PROVE  SumFunctionOnSet(f, S) = f[e] + SumFunctionOnSet(f, S \ {e})
<1> DEFINE sum(T) == SumFunctionOnSet(f, T)
           G == {T \in SUBSET S : \A d \in T : sum(T) = f[d] + sum(T \ {d})}
<1>1. PICK g : Sums(g, f, S) /\ \A T \in SUBSET S : sum(T) = g[T]
  BY SumIsSums
<1>2. \A T \in SUBSET S : sum(T) \in Int
  BY SumType, FS_Subset
<1>3. ASSUME NEW T \in SUBSET S, \A U \in SUBSET T : U # T => U \in G
      PROVE  T \in G
  <2> SUFFICES ASSUME NEW d \in T PROVE sum(T) = f[d] + sum(T \ {d})
    OBVIOUS
  <2> DEFINE x == CHOOSE y \in T : TRUE
  <2>1. x \in T /\ g[T] = f[x] + g[T \ {x}]
    BY <1>1 DEF Sums
  <2> HIDE DEF x
  <2> HIDE DEF sum
  <2>2. sum(T) = f[x] + sum(T \ {x})
    BY <1>1, <2>1
  <2>3. CASE d = x
    BY <2>2, <2>3
  <2>4. CASE d # x
    <3>1. T \ {x} \in G /\ T \ {d} \in G /\ d \in T \ {x} /\ x \in T \ {d}
      BY <1>3, <2>1, <2>4
    <3>2. (T \ {x}) \ {d} = (T \ {d}) \ {x}
      OBVIOUS
    <3>3. /\ sum(T \ {x}) = f[d] + sum((T \ {x}) \ {d})
          /\ sum(T \ {d}) = f[x] + sum((T \ {x}) \ {d})
      BY <3>1, <3>2
    <3>4. {f[x], f[d], sum((T \ {x}) \ {d})} \subseteq Int
      BY <1>2, <2>1
    <3> QED BY <2>2, <3>3, <3>4
  <2> QED BY <2>3, <2>4
<1> HIDE DEF G
<1>4. SUBSET S \subseteq G
  BY <1>3, SubsetInduction
<1> QED BY <1>4 DEF G

(* When one term changes, the sum changes by as much.                      *)
LEMMA SumChange ==
  ASSUME NEW S, IsFiniteSet(S), NEW f, NEW h, NEW e \in S,
         \A x \in S : f[x] \in Int /\ h[x] \in Int,
         \A x \in S \ {e} : f[x] = h[x]
  PROVE  SumFunctionOnSet(h, S) = SumFunctionOnSet(f, S) - f[e] + h[e]
<1> DEFINE sf == SumFunctionOnSet(f, S \ {e})
           sh == SumFunctionOnSet(h, S \ {e})
<1>0. IsFiniteSet(S \ {e})
  BY FS_RemoveElement
<1>1. sf = sh /\ sf \in Int
  BY <1>0, SumSame, SumType
<1>2. SumFunctionOnSet(f, S) = f[e] + sf /\ SumFunctionOnSet(h, S) = h[e] + sh
  BY SumSplit
<1> HIDE DEF sf, sh
<1> QED BY <1>1, <1>2

LEMMA SumZero ==
  ASSUME NEW S, IsFiniteSet(S), NEW f, \A x \in S : f[x] = 0
  PROVE  SumFunctionOnSet(f, S) = 0
<1> DEFINE G == {T \in SUBSET S : SumFunctionOnSet(f, T) = 0}
<1>1. ASSUME NEW T \in SUBSET S, \A U \in SUBSET T : U # T => U \in G
      PROVE  T \in G
  <2>1. CASE T = {}
    BY <2>1, SumEmpty
  <2>2. ASSUME NEW x \in T PROVE T \in G
    <3>1. T \ {x} \in G
      BY <1>1
    <3>2. SumFunctionOnSet(f, T) = f[x] + SumFunctionOnSet(f, T \ {x})
      BY FS_Subset, SumSplit
    <3> QED BY <3>1, <3>2
  <2> QED BY <2>1, <2>2
<1> HIDE DEF G
<1>2. SUBSET S \subseteq G
  BY <1>1, SubsetInduction
<1> QED BY <1>2 DEF G

LEMMA SumNat ==
  ASSUME NEW S, IsFiniteSet(S), NEW f, \A e \in S : f[e] \in Nat
  PROVE  SumFunctionOnSet(f, S) \in Nat
<1> DEFINE G == {T \in SUBSET S : SumFunctionOnSet(f, T) \in Nat}
<1>1. ASSUME NEW T \in SUBSET S, \A U \in SUBSET T : U # T => U \in G
      PROVE  T \in G
  <2>1. CASE T = {}
    BY <2>1, SumEmpty
  <2>2. ASSUME NEW e \in T PROVE T \in G
    <3>1. T \ {e} \in G /\ f[e] \in Nat
      BY <1>1
    <3>2. SumFunctionOnSet(f, T) = f[e] + SumFunctionOnSet(f, T \ {e})
      <4>1. IsFiniteSet(T) /\ \A d \in T : f[d] \in Int
        BY FS_Subset
      <4> QED BY <4>1, SumSplit
    <3> QED BY <3>1, <3>2
  <2> QED BY <2>1, <2>2
<1> HIDE DEF G
<1>2. SUBSET S \subseteq G
  BY <1>1, SubsetInduction
<1> QED BY <1>2 DEF G

-----------------------------------------------------------------------------
(* How often v occurs in a function or a sequence. *)
Tally(D, f, v) == Cardinality({e \in D : f[e] = v})
OneIf(x, v) == IF x = v THEN 1 ELSE 0

LEMMA TallyIsNat ==
  ASSUME NEW D, IsFiniteSet(D), NEW f, NEW v
  PROVE  Tally(D, f, v) \in Nat
<1>1. {e \in D : f[e] = v} \in SUBSET D
  OBVIOUS
<1> QED BY <1>1, FS_Subset, FS_CardinalityType DEF Tally

LEMMA TallyUpdate ==
  ASSUME NEW D, IsFiniteSet(D), NEW f, NEW g, NEW d \in D, NEW v,
         \A e \in D \ {d} : g[e] = f[e]
  PROVE  Tally(D, g, v) + OneIf(f[d], v) = Tally(D, f, v) + OneIf(g[d], v)
<1>1. PICK A, B : A = {e \in D : f[e] = v} /\ B = {e \in D : g[e] = v}
  OBVIOUS
<1>2. IsFiniteSet(A) /\ Cardinality(A) \in Nat /\ IsFiniteSet(B) /\ Cardinality(B) \in Nat
  <2>1. A \in SUBSET D /\ B \in SUBSET D
    BY <1>1
  <2> QED BY <2>1, FS_Subset, FS_CardinalityType
<1>3. A \ {d} = B \ {d} /\ (d \in A <=> f[d] = v) /\ (d \in B <=> g[d] = v)
  BY <1>1
<1>4. /\ Cardinality(A \ {d}) = IF d \in A THEN Cardinality(A) - 1 ELSE Cardinality(A)
      /\ Cardinality(B \ {d}) = IF d \in B THEN Cardinality(B) - 1 ELSE Cardinality(B)
  BY <1>2, FS_RemoveElement
<1>5. Cardinality(A \ {d}) = Cardinality(B \ {d})
  BY <1>3
<1>6. Cardinality(B) + (IF d \in A THEN 1 ELSE 0) = Cardinality(A) + (IF d \in B THEN 1 ELSE 0)
  BY <1>2, <1>4, <1>5
<1> QED BY <1>1, <1>3, <1>6 DEF Tally, OneIf

LEMMA TallyAppend ==
  ASSUME NEW S, NEW s \in Seq(S), NEW x \in S, NEW v
  PROVE  Tally(DOMAIN Append(s, x), Append(s, x), v)
           = Tally(DOMAIN s, s, v) + OneIf(x, v)
<1>1. PICK n, t, A, B : /\ n = Len(s) /\ t = Append(s, x)
                        /\ A = {k \in DOMAIN s : s[k] = v} /\ B = {k \in DOMAIN t : t[k] = v}
  OBVIOUS
<1>2. /\ n \in Nat /\ DOMAIN s = 1..n /\ DOMAIN t = 1..n + 1 /\ t[n + 1] = x
      /\ \A k \in 1..n : t[k] = s[k]
  BY <1>1
<1>3. n + 1 \notin A /\ IsFiniteSet(A) /\ Cardinality(A) \in Nat
  <2>1. IsFiniteSet(1..n) /\ n + 1 \notin 1..n
    BY <1>2, FS_Interval
  <2>2. A \in SUBSET (1..n)
    BY <1>1, <1>2
  <2> QED BY <2>1, <2>2, FS_Subset, FS_CardinalityType
<1>4. B = IF x = v THEN A \cup {n + 1} ELSE A
  <2>1. 1..n + 1 = (1..n) \cup {n + 1} /\ n + 1 \notin 1..n
    BY <1>2
  <2>2. A = {k \in 1..n : s[k] = v} /\ B = {k \in (1..n) \cup {n + 1} : t[k] = v}
    BY <1>1, <1>2, <2>1
  <2> QED BY <1>2, <2>1, <2>2
<1>5. Cardinality(A \cup {n + 1}) = Cardinality(A) + 1
  BY <1>3, FS_AddElement
<1>6. Cardinality(B) = Cardinality(A) + (IF x = v THEN 1 ELSE 0)
  BY <1>3, <1>4, <1>5
<1> QED BY <1>1, <1>6 DEF Tally, OneIf

LEMMA TallyTail ==
  ASSUME NEW S, NEW s \in Seq(S), s # <<>>, NEW v
  PROVE  Tally(DOMAIN s, s, v)
           = Tally(DOMAIN Tail(s), Tail(s), v) + OneIf(Head(s), v)
<1>1. PICK n, t, A, B, C : /\ n = Len(s) /\ t = Tail(s)
                           /\ A = {k \in DOMAIN s : s[k] = v} /\ B = {k \in DOMAIN t : t[k] = v}
                           /\ C = A \ {1}
  OBVIOUS
<1>2. /\ n \in Nat \ {0} /\ DOMAIN s = 1..n /\ DOMAIN t = 1..n - 1 /\ s[1] = Head(s)
      /\ \A k \in 1..n - 1 : t[k] = s[k + 1]
  <2>1. Len(t) = n - 1 /\ t \in Seq(S) /\ \A k \in 1..Len(t) : t[k] = s[k + 1]
    BY <1>1, HeadTailProperties
  <2> QED BY <1>1, <2>1
<1>3. IsFiniteSet(A) /\ Cardinality(A) \in Nat /\ IsFiniteSet(B) /\ IsFiniteSet(C)
  <2>1. IsFiniteSet(1..n) /\ IsFiniteSet(1..n - 1)
    BY <1>2, FS_Interval
  <2>2. IsFiniteSet(A) /\ Cardinality(A) \in Nat /\ IsFiniteSet(B)
    <3>1. A \in SUBSET (1..n) /\ B \in SUBSET (1..n - 1)
      BY <1>1, <1>2
    <3> QED BY <2>1, <3>1, FS_Subset, FS_CardinalityType
  <2> QED BY <1>1, <2>2, FS_Subset
<1>4. \A k \in B : k + 1 \in C
  BY <1>1, <1>2
<1>5. \A m \in C : m - 1 \in B /\ m - 1 + 1 = m
  BY <1>1, <1>2
<1>6. \A k, j \in B : k + 1 = j + 1 => k = j
  BY <1>1, <1>2
<1>7. PICK f : f = [k \in B |-> k + 1]
  OBVIOUS
<1>8. f \in Bijection(B, C)
  <2>1. f \in Injection(B, C)
    BY <1>4, <1>6, <1>7 DEF Injection, IsInjective
  <2>2. f \in Surjection(B, C)
    BY <1>4, <1>5, <1>7 DEF Surjection
  <2> QED BY <2>1, <2>2 DEF Bijection
<1>9. Cardinality(B) = Cardinality(C)
  BY <1>3, <1>8, FS_Bijection DEF ExistsBijection
<1>10. Cardinality(C) = IF 1 \in A THEN Cardinality(A) - 1 ELSE Cardinality(A)
  BY <1>1, <1>3, FS_RemoveElement
<1>11. 1 \in A <=> Head(s) = v
  BY <1>1, <1>2
<1>12. Cardinality(A) = Cardinality(B) + (IF Head(s) = v THEN 1 ELSE 0)
  BY <1>3, <1>9, <1>10, <1>11
<1> QED BY <1>1, <1>12 DEF Tally, OneIf
=============================================================================
