-------------------------- MODULE ConcurrencyProofs --------------------------
(****************************************************************************)
(* Proofs about the primitives of Linen.Control.Concurrent, for any sets of *)
(* tasks, calls and values, over the instances of MCConcurrency: QSem (no   *)
(* prefix), MVar (M!), QSemN (N!), Chan (C!), STM (T!).                     *)
(****************************************************************************)
EXTENDS MCConcurrency, DataLemmas, SequenceTheorems, TLAPS

-----------------------------------------------------------------------------
(* QSem.                                                                    *)

(* Conservation counts holders, so a permit handed over must go to someone *)
(* who did not hold one already: nobody waits twice or while holding.      *)
WaitersAreDistinct ==
  /\ IsInjective(waiters)
  /\ ToSet(waiters) \cap holders = {}

Inductive == TypeOK /\ NoIdlePermit /\ WaitersAreDistinct /\ PermitsConserved

(* holders is finite, so adding or removing one client changes its size by *)
(* exactly one.                                                            *)
LEMMA HoldersFinite ==
  ASSUME TypeOK
  PROVE  /\ IsFiniteSet(holders)
         /\ Cardinality(holders) \in Nat
         /\ \A c \in Client \ holders :
              Cardinality(holders \cup {c}) = Cardinality(holders) + 1
         /\ \A c \in holders :
              /\ IsFiniteSet(holders \ {c})
              /\ Cardinality(holders \ {c}) = Cardinality(holders) - 1
<1>1. IsFiniteSet(holders)
  BY QSemAssumption, FS_Subset DEF TypeOK
<1>2. Cardinality(holders) \in Nat
  BY <1>1, FS_CardinalityType
<1>3. ASSUME NEW c \in Client \ holders
      PROVE  Cardinality(holders \cup {c}) = Cardinality(holders) + 1
  BY <1>1, FS_AddElement
<1>4. ASSUME NEW c \in holders
      PROVE  /\ IsFiniteSet(holders \ {c})
             /\ Cardinality(holders \ {c}) = Cardinality(holders) - 1
  BY <1>1, FS_RemoveElement
<1> QED BY <1>1, <1>2, <1>3, <1>4

LEMMA InitHolds == Init => Inductive
<1> SUFFICES ASSUME Init PROVE Inductive
  OBVIOUS
<1>1. TypeOK /\ NoIdlePermit
  BY QSemAssumption DEF Init, TypeOK, NoIdlePermit
<1>2. WaitersAreDistinct
  BY EmptyToSet DEF Init, WaitersAreDistinct
<1>3. PermitsConserved
  BY QSemAssumption, FS_EmptySet DEF Init, PermitsConserved
<1> QED BY <1>1, <1>2, <1>3 DEF Inductive

LEMMA WaitStep ==
  ASSUME Inductive, NEW c \in Client, Wait(c)
  PROVE  Inductive'
<1> USE QSemAssumption DEF Inductive
<1>1. CASE count > 0
  <2>1. /\ count' = count - 1 /\ holders' = holders \cup {c}
        /\ UNCHANGED <<waiters, posts>> /\ c \notin holders /\ ~Queued(c)
    BY <1>1 DEF Wait
  <2>2. TypeOK' /\ NoIdlePermit'
    BY <1>1, <2>1 DEF TypeOK, NoIdlePermit
  <2>3. WaitersAreDistinct'
    BY <2>1 DEF WaitersAreDistinct, Queued
  <2>4. PermitsConserved'
    BY <2>1, HoldersFinite DEF PermitsConserved, TypeOK
  <2> QED BY <2>2, <2>3, <2>4
<1>2. CASE ~(count > 0)
  <2>1. /\ waiters' = Append(waiters, c)
        /\ UNCHANGED <<count, holders, posts>> /\ c \notin holders
        /\ c \notin ToSet(waiters)
    BY <1>2 DEF Wait, Queued
  <2>2. TypeOK' /\ NoIdlePermit'
    BY <1>2, <2>1 DEF TypeOK, NoIdlePermit
  <2>3. IsInjective(waiters')
    BY <2>1, InjectiveAppend DEF TypeOK, WaitersAreDistinct
  <2>4. ToSet(waiters') = ToSet(waiters) \cup {c}
    BY <2>1, ToSetAppend DEF TypeOK
  <2>5. WaitersAreDistinct'
    BY <2>1, <2>3, <2>4 DEF WaitersAreDistinct
  <2>6. PermitsConserved'
    BY <2>1 DEF PermitsConserved
  <2> QED BY <2>2, <2>5, <2>6
<1> QED BY <1>1, <1>2

(* A signal, from a client that leaves (released = {c}) or from anyone     *)
(* else (released = {}, and one more post).                                *)
LEMMA SignalStep ==
  ASSUME Inductive, NEW released \in SUBSET holders, Signal(released),
         posts' \in 0..MaxPosts,
         \/ released = {} /\ posts' = posts + 1
         \/ posts' = posts /\ \E c \in holders : released = {c}
  PROVE  Inductive'
<1> USE QSemAssumption DEF Inductive
<1> DEFINE rest == holders \ released
<1>1. /\ IsFiniteSet(rest) /\ Cardinality(rest) \in Nat
      /\ Cardinality(rest) + posts + 1 = Cardinality(holders) + posts'
  <2>1. CASE released = {} /\ posts' = posts + 1
    <3>1. rest = holders
      BY <2>1
    <3> QED BY <2>1, <3>1, HoldersFinite DEF TypeOK
  <2>2. ASSUME posts' = posts, NEW c \in holders, released = {c}
        PROVE  /\ IsFiniteSet(rest) /\ Cardinality(rest) \in Nat
               /\ Cardinality(rest) + posts + 1 = Cardinality(holders) + posts'
    <3>1. IsFiniteSet(rest) /\ Cardinality(rest) = Cardinality(holders) - 1
      BY <2>2, HoldersFinite
    <3>2. Cardinality(rest) \in Nat
      BY <3>1, FS_CardinalityType
    <3> QED BY <2>2, <3>1, <3>2, HoldersFinite DEF TypeOK
  <2> QED BY <2>1, <2>2
<1>2. Cardinality(holders) \in Nat
  BY HoldersFinite
<1>3. CASE waiters # <<>>
  <2> DEFINE w == Head(waiters)
  <2>1. /\ waiters' = Tail(waiters) /\ holders' = rest \cup {w}
        /\ count' = count
    BY <1>3 DEF Signal
  <2>2. /\ w \in Client /\ ToSet(waiters) = {w} \cup ToSet(waiters')
        /\ waiters' \in Seq(Client)
    BY <1>3, <2>1, ToSetHeadTail DEF TypeOK
  <2>3. IsInjective(waiters') /\ w \notin ToSet(waiters')
    BY <1>3, <2>1, InjectiveTail DEF TypeOK, WaitersAreDistinct
  <2>4. count = 0
    BY <1>3 DEF NoIdlePermit, TypeOK
  <2>5. TypeOK' /\ NoIdlePermit'
    BY <2>1, <2>2, <2>4 DEF TypeOK, NoIdlePermit
  <2>6. WaitersAreDistinct'
    BY <2>1, <2>2, <2>3 DEF WaitersAreDistinct
  <2>7. w \notin rest
    BY <2>2 DEF WaitersAreDistinct
  <2>8. Cardinality(holders') = Cardinality(rest) + 1
    BY <1>1, <2>1, <2>7, FS_AddElement
  <2> HIDE DEF rest
  <2>9. /\ count + Cardinality(holders) = Initial + posts
        /\ {count, posts, posts', Initial} \subseteq Nat
    BY DEF PermitsConserved, TypeOK
  <2> HIDE DEF Inductive
  <2>10. count + (Cardinality(rest) + 1) = Initial + posts'
    BY <1>1, <1>2, <2>9
  <2>11. PermitsConserved'
    <3>1. count' = count
      BY <2>1
    <3> QED BY <2>8, <2>10, <3>1 DEF PermitsConserved
  <2> QED BY <2>5, <2>6, <2>11 DEF Inductive
<1>4. CASE waiters = <<>>
  <2>1. count' = count + 1 /\ holders' = rest /\ waiters' = waiters
    BY <1>4 DEF Signal
  <2>2. TypeOK' /\ NoIdlePermit'
    BY <1>4, <2>1 DEF TypeOK, NoIdlePermit
  <2>3. WaitersAreDistinct'
    BY <2>1 DEF WaitersAreDistinct
  <2>4. Cardinality(holders') = Cardinality(rest)
    BY <2>1
  <2> HIDE DEF rest
  <2>5. /\ count + Cardinality(holders) = Initial + posts
        /\ {count, posts, posts', Initial} \subseteq Nat
    BY DEF PermitsConserved, TypeOK
  <2> HIDE DEF Inductive
  <2>6. count + 1 + Cardinality(rest) = Initial + posts'
    BY <1>1, <1>2, <2>5
  <2>7. PermitsConserved'
    BY <2>1, <2>4, <2>6 DEF PermitsConserved
  <2> QED BY <2>2, <2>3, <2>7 DEF Inductive
<1> QED BY <1>3, <1>4

LEMMA InductiveStep == Inductive /\ [Next]_vars => Inductive'
<1> SUFFICES ASSUME Inductive, [Next]_vars PROVE Inductive'
  OBVIOUS
<1>1. CASE Post
  BY <1>1, SignalStep, QSemAssumption DEF Post, Inductive, TypeOK
<1>2. ASSUME NEW c \in Client, Wait(c) PROVE Inductive'
  BY <1>2, WaitStep
<1>3. ASSUME NEW c \in Client, Leave(c) PROVE Inductive'
  BY <1>3, SignalStep DEF Leave, Inductive, TypeOK
<1>4. CASE UNCHANGED vars
  BY <1>4 DEF vars, Inductive, TypeOK, NoIdlePermit, WaitersAreDistinct,
              PermitsConserved
<1> QED BY <1>1, <1>2, <1>3, <1>4 DEF Next

LEMMA InductiveHolds == Spec => []Inductive
BY InitHolds, InductiveStep, PTL DEF Spec

(* The semaphore's state has its types whatever clients and signals do.    *)
THEOREM QSemTypeCorrect == Spec => []TypeOK
<1>1. Inductive => TypeOK
  BY DEF Inductive
<1> QED BY <1>1, InductiveHolds, PTL

(* "Permits available and nobody waiting, or none and perhaps waiters":    *)
(* the invariant QSem.lean states, for every number of tasks.              *)
THEOREM NoPermitIdles == Spec => []NoIdlePermit
<1>1. Inductive => NoIdlePermit
  BY DEF Inductive
<1> QED BY <1>1, InductiveHolds, PTL

(* No permit is lost or made by a wait racing a signal.                    *)
THEOREM PermitsAreConserved == Spec => []PermitsConserved
<1>1. Inductive => PermitsConserved
  BY DEF Inductive
<1> QED BY <1>1, InductiveHolds, PTL

(* A permit handed over goes to the first in the queue, and one that is     *)
(* taken without waiting is taken past nobody: then the queue is empty.     *)
Ahead(d, c) ==
  \E i, j \in DOMAIN waiters : waiters[i] = d /\ waiters[j] = c /\ i < j

LEMMA SignalInOrder ==
  ASSUME Inductive, NEW released, Signal(released),
         NEW c \in Client, Queued(c), c \in ToSet(waiters'),
         NEW d \in holders' \ holders
  PROVE  Ahead(d, c)
<1>1. waiters # <<>> /\ waiters \in Seq(Client)
  BY EmptyToSet DEF Queued, Inductive, TypeOK
<1>2. waiters' = Tail(waiters) /\ d = Head(waiters)
  BY <1>1 DEF Signal
<1>3. PICK k \in DOMAIN Tail(waiters) : Tail(waiters)[k] = c
  BY <1>2 DEF ToSet
<1>4. /\ 1 \in DOMAIN waiters /\ waiters[1] = d
      /\ k + 1 \in DOMAIN waiters /\ waiters[k + 1] = c /\ 1 < k + 1
  BY <1>1, <1>2, <1>3
<1> QED BY <1>4 DEF Ahead

LEMMA StepInOrder ==
  ASSUME Inductive, Next, NEW c \in Client, Queued(c), c \in ToSet(waiters'),
         NEW d \in holders' \ holders
  PROVE  Ahead(d, c)
<1>1. waiters # <<>> /\ count = 0
  BY EmptyToSet DEF Queued, Inductive, TypeOK, NoIdlePermit
<1>2. ASSUME NEW e \in Client, Wait(e) PROVE FALSE
  BY <1>1, <1>2 DEF Wait
<1>3. CASE Post
  BY <1>3, SignalInOrder DEF Post
<1>4. ASSUME NEW e \in Client, Leave(e) PROVE Ahead(d, c)
  BY <1>4, SignalInOrder DEF Leave
<1> QED BY <1>2, <1>3, <1>4 DEF Next

(* First come, first served: nobody is granted a permit past a client that  *)
(* was waiting already and still is.                                        *)
THEOREM NobodyOvertakes == Spec => NoOvertaking
<1>1. ASSUME Inductive, [Next]_vars
      PROVE  [\A c \in Client :
                (Queued(c) /\ c \in ToSet(waiters'))
                  => \A d \in holders' \ holders :
                       \E i, j \in DOMAIN waiters :
                         waiters[i] = d /\ waiters[j] = c /\ i < j]_vars
  BY <1>1, StepInOrder DEF Ahead
<1> QED BY <1>1, InductiveHolds, PTL DEF Spec, NoOvertaking

-----------------------------------------------------------------------------
(* MVar.                                                                    *)

USE NoneAssumption DEF NoneAssumption

LEMMA DequeueType ==
  ASSUME NEW S, NEW q \in Seq(S), q # <<>>
  PROVE  Head(q) \in S /\ Tail(q) \in Seq(S)
  BY HeadTailProperties

LEMMA EnqueueType ==
  ASSUME NEW S, NEW q \in Seq(S), NEW e \in S
  PROVE  Append(q, e) \in Seq(S)
  BY AppendProperties

LEMMA ConsumeValueType ==
  ASSUME M!TypeOK, M!ConsumeValue
  PROVE  /\ value' \in Val \cup {None}
         /\ takers' \in Seq(Op)
         /\ putters' \in Seq(M!Offer)
         /\ readers' \in Seq(Op)
         /\ acked' \in SUBSET Op
<1>1. CASE putters # <<>>
  <2>1. Head(putters) \in M!Offer /\ Tail(putters) \in Seq(M!Offer)
    BY <1>1, DequeueType DEF M!TypeOK
  <2> QED BY <1>1, <2>1 DEF M!TypeOK, M!ConsumeValue, M!Offer
<1>2. CASE putters = <<>>
  BY <1>2 DEF M!TypeOK, M!ConsumeValue
<1> QED BY <1>1, <1>2

LEMMA DeliverValueType ==
  ASSUME M!TypeOK, NEW v \in Val, M!DeliverValue(v)
  PROVE  /\ value' \in Val \cup {None}
         /\ takers' \in Seq(Op)
         /\ putters' \in Seq(M!Offer)
         /\ readers' \in Seq(Op)
         /\ got' \in [Op -> Val \cup {None}]
<1>1. CASE takers # <<>>
  <2>1. Head(takers) \in Op /\ Tail(takers) \in Seq(Op)
    BY <1>1, DequeueType DEF M!TypeOK
  <2> QED BY <1>1, <2>1 DEF M!TypeOK, M!DeliverValue
<1>2. CASE takers = <<>>
  <2>1. <<>> \in Seq(Op)
    BY EmptySeq
  <2> QED BY <1>2, <2>1 DEF M!TypeOK, M!DeliverValue
<1> QED BY <1>1, <1>2

LEMMA TakeBodyType ==
  ASSUME M!TypeOK, NEW op \in Op, M!TakeBody(op),
         call' \in [Op -> M!Calls]
  PROVE  M!TypeOK'
<1>1. CASE value # None
  <2>1. M!ConsumeValue /\ got' = [got EXCEPT ![op] = value]
    BY <1>1 DEF M!TakeBody
  <2>2. got' \in [Op -> Val \cup {None}]
    BY <2>1 DEF M!TypeOK
  <2> QED BY <2>1, <2>2, ConsumeValueType DEF M!TypeOK
<1>2. CASE value = None
  <2>1. Append(takers, op) \in Seq(Op)
    BY EnqueueType DEF M!TypeOK
  <2> QED BY <1>2, <2>1 DEF M!TypeOK, M!TakeBody
<1> QED BY <1>1, <1>2

LEMMA PutBodyType ==
  ASSUME M!TypeOK, NEW op \in Op, NEW v \in Val, M!PutBody(op, v),
         call' \in [Op -> M!Calls]
  PROVE  M!TypeOK'
<1>1. CASE value = None
  <2>1. M!DeliverValue(v) /\ acked' = acked \cup {op}
    BY <1>1 DEF M!PutBody
  <2> QED BY <2>1, DeliverValueType DEF M!TypeOK
<1>2. CASE value # None
  <2>1. Append(putters, [op |-> op, val |-> v]) \in Seq(M!Offer)
    BY EnqueueType DEF M!Offer, M!TypeOK
  <2> QED BY <1>2, <2>1 DEF M!TypeOK, M!PutBody
<1> QED BY <1>1, <1>2

LEMMA MVarTypeStep == M!TypeOK /\ [M!Next]_(M!vars) => M!TypeOK'
<1> SUFFICES ASSUME M!TypeOK, [M!Next]_(M!vars) PROVE M!TypeOK'
  OBVIOUS
<1>1. ASSUME NEW op \in Op, NEW kind \in M!Calls, M!Begin(op, kind)
      PROVE  call' \in [Op -> M!Calls]
  BY <1>1 DEF M!TypeOK, M!Begin
<1>2. ASSUME NEW op \in Op, M!Take(op) \/ M!Swap(op) PROVE M!TypeOK'
  BY <1>1, <1>2, TakeBodyType DEF M!Take, M!Swap, M!Calls
<1>3. ASSUME NEW op \in Op, M!Read(op) PROVE M!TypeOK'
  <2>1. Append(readers, op) \in Seq(Op)
    BY EnqueueType DEF M!TypeOK
  <2> QED BY <1>1, <1>3, <2>1 DEF M!Read, M!Calls, M!TypeOK, M!box
<1>4. ASSUME NEW op \in Op, M!TryTake(op) PROVE M!TypeOK'
  BY <1>1, <1>4, ConsumeValueType DEF M!TryTake, M!Calls, M!TypeOK, M!box
<1>5. ASSUME NEW op \in Op, M!TryRead(op) PROVE M!TypeOK'
  BY <1>1, <1>5 DEF M!TryRead, M!Calls, M!TypeOK, M!box
<1>6. ASSUME NEW op \in Op, NEW v \in Val, M!Put(op, v) PROVE M!TypeOK'
  BY <1>1, <1>6, PutBodyType DEF M!Put, M!Calls
<1>7. ASSUME NEW op \in Op, NEW v \in Val, M!TryPut(op, v) PROVE M!TypeOK'
  BY <1>1, <1>7, DeliverValueType DEF M!TryPut, M!Calls, M!TypeOK, M!box
<1>8. ASSUME NEW op \in Op, NEW v \in Val, M!Restore(op, v) PROVE M!TypeOK'
  <2>1. call' \in [Op -> M!Calls]
    BY <1>8 DEF M!Restore, M!TypeOK, M!Calls
  <2> QED BY <1>8, <2>1, PutBodyType DEF M!Restore
<1>9. CASE UNCHANGED M!vars
  BY <1>9 DEF M!TypeOK, M!vars
<1> QED
  BY <1>2, <1>3, <1>4, <1>5, <1>6, <1>7, <1>8, <1>9 DEF M!Next

(* Every reachable state of an MVar is well-typed. *)
THEOREM MVarTypeCorrect == M!Spec => []M!TypeOK
<1>1. M!Init => M!TypeOK
  BY DEF M!Init, M!TypeOK, M!Calls
<1> QED BY <1>1, MVarTypeStep, PTL DEF M!Spec
-----------------------------------------------------------------------------
LEMMA ConsumeValueStructural ==
  ASSUME M!TypeOK, Structural, value # None, M!ConsumeValue
  PROVE  Structural'
<1>1. CASE putters # <<>>
  <2>1. Head(putters) \in M!Offer
    BY <1>1, DequeueType DEF M!TypeOK
  <2>2. Head(putters).val # None
    BY <2>1 DEF M!Offer
  <2> QED BY <1>1, <2>2 DEF Structural, M!ConsumeValue
<1>2. CASE putters = <<>>
  BY <1>2 DEF Structural, M!ConsumeValue
<1> QED BY <1>1, <1>2

LEMMA DeliverValueStructural ==
  ASSUME M!TypeOK, Structural, value = None, NEW v \in Val, M!DeliverValue(v)
  PROVE  Structural'
  BY DEF Structural, M!DeliverValue

LEMMA MVarStructuralStep == M!TypeOK /\ Structural /\ [M!Next]_(M!vars) => Structural'
<1> SUFFICES ASSUME M!TypeOK, Structural, [M!Next]_(M!vars) PROVE Structural'
  OBVIOUS
<1>1. ASSUME NEW op \in Op, M!TakeBody(op) PROVE Structural'
  <2>1. CASE value # None
    BY <1>1, <2>1, ConsumeValueStructural DEF M!TakeBody
  <2>2. CASE value = None
    BY <1>1, <2>2 DEF M!TakeBody, Structural
  <2> QED BY <2>1, <2>2
<1>2. ASSUME NEW op \in Op, NEW v \in Val, M!PutBody(op, v) PROVE Structural'
  <2>1. CASE value = None
    BY <1>2, <2>1, DeliverValueStructural DEF M!PutBody
  <2>2. CASE value # None
    BY <1>2, <2>2 DEF M!PutBody, Structural
  <2> QED BY <2>1, <2>2
<1>3. ASSUME NEW op \in Op, M!Read(op) \/ M!TryRead(op) PROVE Structural'
  BY <1>3 DEF M!Read, M!TryRead, Structural, M!box
<1>4. ASSUME NEW op \in Op, M!TryTake(op) PROVE Structural'
  BY <1>4, ConsumeValueStructural DEF M!TryTake, Structural, M!box
<1>5. ASSUME NEW op \in Op, NEW v \in Val, M!TryPut(op, v) PROVE Structural'
  BY <1>5, DeliverValueStructural DEF M!TryPut, Structural, M!box
<1>6. CASE UNCHANGED M!vars
  BY <1>6 DEF Structural, M!vars
<1> QED
  BY <1>1, <1>2, <1>3, <1>4, <1>5, <1>6 DEF M!Next, M!Take, M!Swap, M!Put, M!Restore

(* The invariant documented on MVarState holds of every history of calls:  *)
(* no take or read waits beside a value, no put waits beside an empty box. *)
THEOREM StructuralInvariant == M!Spec => []Structural
<1>1. M!Init => Structural
  BY DEF M!Init, Structural
<1> QED BY <1>1, MVarStructuralStep, MVarTypeCorrect, PTL DEF M!Spec

-----------------------------------------------------------------------------
(* QSemN.  The units a signal hands out, waiter by waiter.                  *)

(* An instance names its own copies of the library's operators. *)
LEMMA NLibrary ==
  /\ \A f, S : N!SumFunctionOnSet(f, S) = SumFunctionOnSet(f, S)
  /\ \A S : N!Max(S) = Max(S)
BY DEF N!SumFunctionOnSet, SumFunctionOnSet, N!FoldFunctionOnSet, FoldFunctionOnSet,
       N!MapThenFoldSet, MapThenFoldSet, N!Max, Max

LEMMA DemandStep ==
  ASSUME N!TypeOK, NEW k \in 0..Len(nWaiters)
  PROVE  /\ N!Demand(0) = 0
         /\ N!Demand(k) \in Int
         /\ k < Len(nWaiters) => N!Demand(k + 1) = N!Demand(k) + nWaiters[k + 1].need
<1> DEFINE need == [i \in DOMAIN nWaiters |-> nWaiters[i].need]
           total(j) == SumFunctionOnSet(need, 1..j)
<1>1. /\ nWaiters \in Seq(N!Request) /\ k \in Nat /\ Len(nWaiters) \in Nat
      /\ DOMAIN nWaiters = 1..Len(nWaiters)
  BY DEF N!TypeOK
<1>2. \A i \in DOMAIN nWaiters : nWaiters[i] \in N!Request /\ need[i] = nWaiters[i].need
  BY <1>1
<1>3. \A i \in DOMAIN nWaiters : need[i] \in Int
  BY <1>2 DEF N!Request
<1>4. \A j : N!Demand(j) = total(j)
  BY NLibrary DEF N!Demand
<1> HIDE DEF need
<1>5. 1..0 = {} /\ total(0) = 0
  BY SumEmpty
<1>6. total(k) \in Int
  <2>1. IsFiniteSet(1..k) /\ \A i \in 1..k : need[i] \in Int
    <3>1. \A i \in 1..k : i \in DOMAIN nWaiters
      BY <1>1
    <3>2. IsFiniteSet(1..k)
      BY <1>1, FS_Interval
    <3> QED BY <1>3, <3>1, <3>2
  <2> QED BY <2>1, SumType
<1>7. ASSUME k < Len(nWaiters)
      PROVE  total(k + 1) = total(k) + need[k + 1]
  <2>1. /\ IsFiniteSet(1..(k + 1)) /\ k + 1 \in 1..(k + 1)
        /\ \A i \in 1..(k + 1) : need[i] \in Int
        /\ (1..(k + 1)) \ {k + 1} = 1..k
    <3>1. k + 1 \in 1..(k + 1) /\ (1..(k + 1)) \ {k + 1} = 1..k /\ k + 1 \in Int
      BY <1>1
    <3>2. \A i \in 1..(k + 1) : i \in DOMAIN nWaiters
      BY <1>1, <1>7
    <3>3. IsFiniteSet(1..(k + 1))
      BY <3>1, FS_Interval
    <3> QED BY <1>3, <3>1, <3>2, <3>3
  <2>2. total(k + 1) = need[k + 1] + total(k)
    BY <2>1, SumSplit
  <2> QED BY <1>6, <2>1, <2>2
<1>8. k < Len(nWaiters) => need[k + 1] = nWaiters[k + 1].need
  BY <1>1, <1>2
<1> QED BY <1>4, <1>5, <1>6, <1>7, <1>8

(* The loop stops at the first waiter that cannot be served. *)
LEMMA GreedyLoop ==
  ASSUME N!TypeOK, NEW available \in Nat, NEW k, k = N!Woken(available)
  PROVE  /\ k \in 0..Len(nWaiters) /\ N!Demand(k) <= available
         /\ k < Len(nWaiters) => available < N!Demand(k + 1)
<1> DEFINE S == {j \in 0..Len(nWaiters) : N!Demand(j) <= available}
<1>0. Len(nWaiters) \in Nat
  BY DEF N!TypeOK
<1>1. N!Demand(0) = 0 /\ 0 \in S
  BY <1>0, DemandStep
<1>2. \E j \in S : \A i \in S : j >= i
  BY <1>0, <1>1, BoundedSetHasMax
<1>3. k = Max(S)
  BY NLibrary DEF N!Woken
<1>4. k \in S /\ \A i \in S : k >= i
  BY <1>2, <1>3 DEF Max
<1>5. ASSUME k < Len(nWaiters) PROVE available < N!Demand(k + 1)
  <2>1. k \in 0..Len(nWaiters) /\ k + 1 \in 0..Len(nWaiters) /\ ~(k >= k + 1)
    BY <1>0, <1>4, <1>5
  <2>2. k + 1 \notin S
    BY <1>4, <2>1
  <2>3. N!Demand(k + 1) \in Int
    BY <2>1, DemandStep
  <2> QED BY <2>1, <2>2, <2>3
<1> QED BY <1>4, <1>5

(* No client waits twice, and who waits holds nothing. *)
OneRequestEach ==
  \A i \in DOMAIN nWaiters :
    /\ held[nWaiters[i].client] = 0
    /\ \A j \in DOMAIN nWaiters : i # j => nWaiters[i].client # nWaiters[j].client

NInductive == N!UnitsConserved /\ N!HeadCannotBeServed /\ OneRequestEach

(* What the first j waiters are given, on top of kept. *)
served(kept, j) ==
  [c \in Client |-> IF \E i \in 1..j : nWaiters[i].client = c
                      THEN nWaiters[CHOOSE i \in 1..j : nWaiters[i].client = c].need
                      ELSE kept[c]]

(* SumChange, over the clients.                                             *)
LEMMA ClientSum ==
  \A f, h : \A d \in Client :
    /\ \A c \in Client : f[c] \in Int /\ h[c] \in Int
    /\ \A c \in Client \ {d} : f[c] = h[c]
    => SumFunctionOnSet(h, Client) = SumFunctionOnSet(f, Client) - f[d] + h[d]
BY QSemAssumption, SumChange

LEMMA ServedUnits ==
  ASSUME N!TypeOK, OneRequestEach, NEW kept \in [Client -> 0..MaxAmount],
         \A i \in DOMAIN nWaiters : kept[nWaiters[i].client] = 0,
         NEW k \in 0..Len(nWaiters)
  PROVE  /\ served(kept, k) \in [Client -> 0..MaxAmount]
         /\ \A i \in (k + 1)..Len(nWaiters) : served(kept, k)[nWaiters[i].client] = 0
         /\ SumFunctionOnSet(served(kept, k), Client)
              = SumFunctionOnSet(kept, Client) + N!Demand(k)
<1>0. IsFiniteSet(Client) /\ MaxAmount \in Nat
  BY QSemAssumption, InstanceIsSound DEF N!QSemNAssumption
<1>1. /\ nWaiters \in Seq(N!Request) /\ Len(nWaiters) \in Nat
      /\ DOMAIN nWaiters = 1..Len(nWaiters)
      /\ \A i \in 1..Len(nWaiters) : nWaiters[i] \in [client : Client, need : 0..MaxAmount]
  <2>1. nWaiters \in Seq(N!Request)
    BY DEF N!TypeOK
  <2>2. \A i \in 1..Len(nWaiters) : nWaiters[i] \in N!Request
    BY <2>1
  <2> QED BY <2>1, <2>2 DEF N!Request
<1>2. \A i \in 1..Len(nWaiters) : nWaiters[i].client \in Client /\ nWaiters[i].need \in 0..MaxAmount
  BY <1>1
<1>3. ASSUME NEW j \in 0..Len(nWaiters), NEW i \in 1..j
      PROVE  served(kept, j)[nWaiters[i].client] = nWaiters[i].need
  <2> DEFINE c == nWaiters[i].client
  <2>1. PICK h \in 1..j : h = CHOOSE m \in 1..j : nWaiters[m].client = c
    OBVIOUS
  <2>2. nWaiters[h].client = c
    BY <2>1
  <2>3. h = i
    BY <1>1, <2>2 DEF OneRequestEach
  <2>4. i \in 1..Len(nWaiters) /\ c \in Client
    BY <1>1, <1>2
  <2> QED BY <2>1, <2>3, <2>4 DEF served
<1>4. ASSUME NEW j \in 0..Len(nWaiters), NEW c \in Client, \A i \in 1..j : nWaiters[i].client # c
      PROVE  served(kept, j)[c] = kept[c]
  BY <1>4 DEF served
<1>5. ASSUME NEW j \in 0..Len(nWaiters) PROVE served(kept, j) \in [Client -> 0..MaxAmount]
  <2>1. ASSUME NEW c \in Client PROVE served(kept, j)[c] \in 0..MaxAmount
    <3>1. CASE \E i \in 1..j : nWaiters[i].client = c
      <4>1. PICK i \in 1..j : nWaiters[i].client = c
        BY <3>1
      <4> QED BY <1>1, <1>2, <1>3, <4>1
    <3>2. CASE ~\E i \in 1..j : nWaiters[i].client = c
      BY <1>4, <3>2
    <3> QED BY <3>1, <3>2
  <2> QED BY <2>1 DEF served
<1>6. ASSUME NEW j \in 0..Len(nWaiters), NEW i \in (j + 1)..Len(nWaiters)
      PROVE  served(kept, j)[nWaiters[i].client] = 0
  <2>1. i \in 1..Len(nWaiters) /\ \A m \in 1..j : m \in 1..Len(nWaiters) /\ m # i
    BY <1>1
  <2>2. \A m \in 1..j : nWaiters[m].client # nWaiters[i].client
    BY <1>1, <2>1 DEF OneRequestEach
  <2> QED BY <1>1, <1>2, <1>4, <2>1, <2>2
<1> DEFINE sum(f) == SumFunctionOnSet(f, Client)
           G == {j \in Nat : j <= Len(nWaiters) => sum(served(kept, j)) = sum(kept) + N!Demand(j)}
<1>7. sum(kept) \in Int
  <2>1. \A c \in Client : kept[c] \in Int
    OBVIOUS
  <2> QED BY <1>0, <2>1, SumType
<1>8. 0 \in G
  <2>1. 0 \in 0..Len(nWaiters) /\ 1..0 = {}
    BY <1>1
  <2>2. \A c \in Client : served(kept, 0)[c] = kept[c]
    BY <2>1 DEF served
  <2>3. sum(served(kept, 0)) = sum(kept)
    BY <1>0, <2>2, SumSame
  <2>4. N!Demand(0) = 0
    BY <2>1, DemandStep
  <2> QED BY <1>7, <2>3, <2>4
<1>9. ASSUME NEW j \in Nat, j \in G PROVE j + 1 \in G
  <2> SUFFICES ASSUME j + 1 <= Len(nWaiters)
               PROVE  sum(served(kept, j + 1)) = sum(kept) + N!Demand(j + 1)
    OBVIOUS
  <2>1. /\ j \in 0..Len(nWaiters) /\ j + 1 \in 0..Len(nWaiters)
        /\ j + 1 \in 1..Len(nWaiters) /\ j + 1 \in 1..(j + 1) /\ j < Len(nWaiters)
        /\ j + 1 \in (j + 1)..Len(nWaiters)
        /\ 1..(j + 1) = (1..j) \cup {j + 1}
    BY <1>1
  <2>0. PICK d \in Client, n \in 0..MaxAmount :
          d = nWaiters[j + 1].client /\ n = nWaiters[j + 1].need
    BY <1>2, <2>1
  <2>2. /\ sum(served(kept, j)) = sum(kept) + N!Demand(j)
        /\ N!Demand(j) \in Int /\ N!Demand(j + 1) = N!Demand(j) + n
    BY <1>9, <2>0, <2>1, DemandStep
  <2>3. /\ served(kept, j)[d] = 0 /\ served(kept, j + 1)[d] = n
    BY <1>3, <1>6, <2>0, <2>1
  <2>4. ASSUME NEW c \in Client \ {d} PROVE served(kept, j)[c] = served(kept, j + 1)[c]
    <3>1. CASE \E i \in 1..j : nWaiters[i].client = c
      <4>1. PICK i \in 1..j : nWaiters[i].client = c
        BY <3>1
      <4> QED BY <1>3, <2>1, <4>1
    <3>2. CASE ~\E i \in 1..j : nWaiters[i].client = c
      BY <1>4, <2>0, <2>1, <3>2
    <3> QED BY <3>1, <3>2
  <2>5. /\ served(kept, j) \in [Client -> 0..MaxAmount]
        /\ served(kept, j + 1) \in [Client -> 0..MaxAmount]
    BY <1>5, <2>1
  <2>6. \A c \in Client : served(kept, j)[c] \in Int /\ served(kept, j + 1)[c] \in Int
    BY <2>5
  <2> HIDE DEF G
  <2>7. sum(served(kept, j + 1))
          = sum(served(kept, j)) - served(kept, j)[d] + served(kept, j + 1)[d]
    <3>1. PICK f, h : f = served(kept, j) /\ h = served(kept, j + 1)
      OBVIOUS
    <3>2. /\ \A c \in Client : f[c] \in Int /\ h[c] \in Int
          /\ \A c \in Client \ {d} : f[c] = h[c]
      BY <2>4, <2>6, <3>1
    <3>3. sum(h) = sum(f) - f[d] + h[d]
      BY <3>2, ClientSum
    <3> HIDE DEF sum, served
    <3> QED BY <3>1, <3>3
  <2> HIDE DEF sum
  <2>8. sum(kept) \in Int /\ N!Demand(j) \in Int /\ n \in Int
    BY <1>7, <2>2
  <2>9. sum(served(kept, j)) \in Int
    BY <2>2, <2>8
  <2>10. sum(served(kept, j + 1)) = sum(served(kept, j)) + n
    BY <2>3, <2>7, <2>8, <2>9
  <2> QED BY <2>2, <2>8, <2>10
<1>10. Nat \subseteq G
  <2> HIDE DEF G
  <2> QED BY <1>8, <1>9, NatSetInduction
<1> QED BY <1>1, <1>5, <1>6, <1>10

LEMMA NInitHolds == N!Init => NInductive
<1> SUFFICES ASSUME N!Init PROVE NInductive
  OBVIOUS
<1>1. /\ nCount = Initial /\ nWaiters = <<>> /\ held = [c \in Client |-> 0] /\ posted = 0
      /\ {Initial, MaxAmount, MaxPosted} \subseteq Nat
  BY InstanceIsSound DEF N!Init, N!QSemNAssumption
<1>2. N!TypeOK
  BY <1>1 DEF N!TypeOK
<1>3. SumFunctionOnSet(held, Client) = 0
  BY <1>1, QSemAssumption, SumZero
<1>4. N!UnitsConserved
  BY <1>1, <1>2, <1>3, NLibrary DEF N!UnitsConserved
<1>5. N!HeadCannotBeServed /\ OneRequestEach
  BY <1>1 DEF N!HeadCannotBeServed, OneRequestEach
<1> QED BY <1>4, <1>5 DEF NInductive

(* `signal`: n units come back, kept being what everybody still holds.      *)
LEMMA NSignalStep ==
  ASSUME N!TypeOK, OneRequestEach, NEW n \in Nat, NEW kept \in [Client -> 0..MaxAmount],
         \A i \in DOMAIN nWaiters : kept[nWaiters[i].client] = 0,
         posted' \in 0..MaxPosted,
         nCount + n + SumFunctionOnSet(kept, Client) = Initial + posted',
         N!Signal(n, kept)
  PROVE  NInductive'
<1> DEFINE k == N!Woken(nCount + n)
<1>1. /\ nCount' = nCount + n - N!Demand(k)
      /\ nWaiters' = SubSeq(nWaiters, k + 1, Len(nWaiters))
      /\ held' = served(kept, k)
  BY DEF N!Signal, served
<1>2. /\ nCount \in Nat /\ nCount + n \in Nat /\ Len(nWaiters) \in Nat
      /\ nWaiters \in Seq(N!Request) /\ DOMAIN nWaiters = 1..Len(nWaiters)
  BY DEF N!TypeOK
<1>3. /\ k \in 0..Len(nWaiters) /\ N!Demand(k) <= nCount + n
      /\ k < Len(nWaiters) => nCount + n < N!Demand(k + 1)
  BY <1>2, GreedyLoop
<1>4. /\ N!Demand(k) \in Int
      /\ k < Len(nWaiters) => N!Demand(k + 1) = N!Demand(k) + nWaiters[k + 1].need
  BY <1>3, DemandStep
<1>5. /\ held' \in [Client -> 0..MaxAmount]
      /\ \A i \in (k + 1)..Len(nWaiters) : held'[nWaiters[i].client] = 0
      /\ SumFunctionOnSet(held', Client) = SumFunctionOnSet(kept, Client) + N!Demand(k)
  BY <1>1, <1>3, ServedUnits
<1> HIDE DEF k
<1>6. /\ nWaiters' \in Seq(N!Request) /\ DOMAIN nWaiters' = 1..(Len(nWaiters) - k)
      /\ \A i \in DOMAIN nWaiters' : /\ nWaiters'[i] = nWaiters[k + i]
                                     /\ k + i \in (k + 1)..Len(nWaiters)
                                     /\ k + i \in DOMAIN nWaiters
  BY <1>1, <1>2, <1>3
<1>7. nCount' \in Nat
  BY <1>1, <1>2, <1>3, <1>4
<1>8. N!TypeOK'
  BY <1>5, <1>6, <1>7 DEF N!TypeOK, N!Request
<1>9. OneRequestEach'
  BY <1>3, <1>5, <1>6 DEF OneRequestEach
<1>10. N!UnitsConserved'
  <2>1. SumFunctionOnSet(kept, Client) \in Int
    <3>1. \A c \in Client : kept[c] \in Int
      BY InstanceIsSound DEF N!QSemNAssumption
    <3> QED BY <3>1, QSemAssumption, SumType
  <2>2. nCount' + SumFunctionOnSet(held', Client) = Initial + posted'
    BY <1>1, <1>2, <1>4, <1>5, <2>1
  <2> QED BY <1>8, <2>2, NLibrary DEF N!UnitsConserved
<1>11. N!HeadCannotBeServed'
  <2> SUFFICES ASSUME nWaiters' # <<>> PROVE nCount' < Head(nWaiters').need
    BY DEF N!HeadCannotBeServed
  <2>1. 1 \in DOMAIN nWaiters' /\ k < Len(nWaiters) /\ Head(nWaiters') = nWaiters[k + 1]
    BY <1>2, <1>3, <1>6
  <2>2. nWaiters[k + 1].need \in Int
    <3>1. k + 1 \in 1..Len(nWaiters)
      BY <1>2, <1>3, <2>1
    <3>2. nWaiters[k + 1] \in N!Request
      BY <1>2, <3>1
    <3>3. MaxAmount \in Nat
      BY InstanceIsSound DEF N!QSemNAssumption
    <3> QED BY <3>2, <3>3 DEF N!Request
  <2> QED BY <1>1, <1>2, <1>3, <1>4, <2>1, <2>2
<1> QED BY <1>9, <1>10, <1>11 DEF NInductive

LEMMA NNextStep ==
  ASSUME NInductive, N!Next
  PROVE  NInductive'
<1>0. /\ N!TypeOK /\ OneRequestEach
      /\ nCount + SumFunctionOnSet(held, Client) = Initial + posted
      /\ {Initial, MaxAmount, MaxPosted} \subseteq Nat
  BY InstanceIsSound, NLibrary DEF NInductive, N!UnitsConserved, N!QSemNAssumption
<1>1. /\ nCount \in Nat /\ held \in [Client -> 0..MaxAmount] /\ posted \in 0..MaxPosted
      /\ nWaiters \in Seq(N!Request) /\ DOMAIN nWaiters = 1..Len(nWaiters)
      /\ Len(nWaiters) \in Nat
      /\ \A i \in DOMAIN nWaiters : nWaiters[i] \in N!Request
  BY <1>0 DEF N!TypeOK
<1>2. /\ \A c \in Client : held[c] \in Int
      /\ SumFunctionOnSet(held, Client) \in Int
  <2>1. \A c \in Client : held[c] \in Int
    BY <1>0, <1>1
  <2> QED BY <2>1, QSemAssumption, SumType
<1>3. \A i \in DOMAIN nWaiters : nWaiters[i].client \in Client /\ held[nWaiters[i].client] = 0
  BY <1>0, <1>1 DEF N!Request, OneRequestEach
<1>4. ASSUME NEW n \in 1..MaxAmount, N!Post(n) PROVE NInductive'
  <2>1. n \in Nat /\ posted' = posted + n /\ posted' \in 0..MaxPosted /\ N!Signal(n, held)
    BY <1>0, <1>1, <1>4 DEF N!Post
  <2>2. nCount + n + SumFunctionOnSet(held, Client) = Initial + posted'
    <3>1. posted \in Int /\ Initial \in Int /\ nCount \in Int /\ n \in Int
      BY <1>0, <1>1
    <3> QED BY <1>0, <1>2, <2>1, <3>1
  <2> QED BY <1>0, <1>1, <1>3, <2>1, <2>2, NSignalStep
<1>5. ASSUME NEW c \in Client, N!Leave(c) PROVE NInductive'
  <2>1. PICK kept : kept = [held EXCEPT ![c] = 0]
    OBVIOUS
  <2>2. /\ kept \in [Client -> 0..MaxAmount] /\ kept[c] = 0 /\ held[c] \in Nat /\ held[c] > 0
        /\ \A d \in Client \ {c} : held[d] = kept[d]
        /\ posted' = posted /\ N!Signal(held[c], kept)
    BY <1>0, <1>1, <1>5, <2>1 DEF N!Leave
  <2>3. \A d \in Client : held[d] \in Int /\ kept[d] \in Int
    BY <1>0, <1>2, <2>2
  <2>4. SumFunctionOnSet(kept, Client) = SumFunctionOnSet(held, Client) - held[c] + kept[c]
    BY <2>2, <2>3, ClientSum
  <2>5. nCount + held[c] + SumFunctionOnSet(kept, Client) = Initial + posted'
    BY <1>0, <1>1, <1>2, <2>2, <2>4
  <2>6. \A i \in DOMAIN nWaiters : kept[nWaiters[i].client] = 0
    BY <1>3, <2>2
  <2> QED BY <1>0, <1>1, <2>2, <2>5, <2>6, NSignalStep
<1>6. ASSUME NEW c \in Client, NEW n \in 0..MaxAmount, N!Wait(c, n) PROVE NInductive'
  <2>0. /\ n \in Nat /\ held[c] = 0 /\ posted' = posted
        /\ \A i \in DOMAIN nWaiters : nWaiters[i].client # c
    BY <1>0, <1>6 DEF N!Wait, N!Queued
  <2>1. CASE nCount >= n
    <3>1. /\ nCount' = nCount - n /\ held' = [held EXCEPT ![c] = n]
          /\ nWaiters' = nWaiters
      BY <1>6, <2>1 DEF N!Wait
    <3>2. /\ held' \in [Client -> 0..MaxAmount] /\ held'[c] = n
          /\ \A d \in Client \ {c} : held[d] = held'[d]
      BY <1>1, <3>1
    <3>3. nCount' \in Nat
      BY <1>1, <2>0, <2>1, <3>1
    <3>4. N!TypeOK'
      BY <1>1, <2>0, <3>1, <3>2, <3>3 DEF N!TypeOK
    <3>5. \A d \in Client : held[d] \in Int /\ held'[d] \in Int
      BY <1>0, <1>2, <3>2
    <3>6. SumFunctionOnSet(held', Client) = SumFunctionOnSet(held, Client) - held[c] + held'[c]
      BY <3>2, <3>5, ClientSum
    <3>7. nCount' + SumFunctionOnSet(held', Client) = Initial + posted'
      BY <1>0, <1>1, <1>2, <2>0, <3>1, <3>2, <3>6
    <3>8. N!UnitsConserved'
      BY <3>4, <3>7, NLibrary DEF N!UnitsConserved
    <3>9. OneRequestEach'
      BY <1>0, <1>3, <2>0, <3>1, <3>2 DEF OneRequestEach
    <3>10. N!HeadCannotBeServed'
      <4> SUFFICES ASSUME nWaiters # <<>> PROVE nCount' < Head(nWaiters).need
        BY <3>1 DEF N!HeadCannotBeServed
      <4>1. nCount < Head(nWaiters).need
        BY DEF NInductive, N!HeadCannotBeServed
      <4>2. 1 \in DOMAIN nWaiters /\ Head(nWaiters) = nWaiters[1]
        BY <1>1
      <4>3. nWaiters[1].need \in Int
        BY <1>0, <1>1, <4>2 DEF N!Request
      <4> QED BY <1>1, <2>0, <3>1, <4>1, <4>2, <4>3
    <3> QED BY <3>8, <3>9, <3>10 DEF NInductive
  <2>2. CASE ~(nCount >= n)
    <3>1. PICK w \in N!Request : w = [client |-> c, need |-> n]
      BY DEF N!Request
    <3>2. nWaiters' = Append(nWaiters, w) /\ nCount' = nCount /\ held' = held
      BY <1>6, <2>2, <3>1 DEF N!Wait
    <3>3. /\ nWaiters' \in Seq(N!Request) /\ DOMAIN nWaiters' = 1..(Len(nWaiters) + 1)
          /\ \A i \in DOMAIN nWaiters : i \in DOMAIN nWaiters' /\ nWaiters'[i] = nWaiters[i]
          /\ nWaiters'[Len(nWaiters) + 1] = w /\ w.client = c /\ w.need = n
      BY <1>1, <3>1, <3>2
    <3>4. N!TypeOK'
      BY <1>1, <2>0, <3>2, <3>3 DEF N!TypeOK
    <3>5. N!UnitsConserved'
      BY <1>0, <2>0, <3>2, <3>4, NLibrary DEF N!UnitsConserved
    <3>6. OneRequestEach'
      <4>1. \A i \in DOMAIN nWaiters' : i \in DOMAIN nWaiters \/ i = Len(nWaiters) + 1
        BY <1>1, <3>3
      <4> QED BY <1>0, <1>1, <2>0, <3>2, <3>3, <4>1 DEF OneRequestEach
    <3>7. N!HeadCannotBeServed'
      <4>1. CASE nWaiters = <<>>
        <5>1. Head(nWaiters') = w
          BY <1>1, <3>2, <3>3, <4>1
        <5> QED BY <1>1, <2>0, <2>2, <3>2, <3>3, <5>1 DEF N!HeadCannotBeServed
      <4>2. CASE nWaiters # <<>>
        <5>1. Head(nWaiters') = Head(nWaiters)
          BY <1>1, <3>2, <4>2
        <5> QED BY <3>2, <4>2, <5>1 DEF NInductive, N!HeadCannotBeServed
      <4> QED BY <4>1, <4>2
    <3> QED BY <3>5, <3>6, <3>7 DEF NInductive
  <2> QED BY <2>1, <2>2
<1> QED BY <1>4, <1>5, <1>6 DEF N!Next

(* QSemN!UnitsConserved and HeadCannotBeServed: the greedy loop neither     *)
(* spends a unit twice nor drops one, and it leaves nobody at the head who  *)
(* could be served at once.                                                 *)
THEOREM UnitsAreWellSpent == N!Spec => []UnitsWellSpent
<1>1. NInductive /\ [N!Next]_(N!vars) => NInductive'
  <2> SUFFICES ASSUME NInductive, [N!Next]_(N!vars) PROVE NInductive'
    OBVIOUS
  <2>1. CASE N!Next
    BY <2>1, NNextStep
  <2>2. CASE UNCHANGED N!vars
    BY <2>2
      DEF N!vars, NInductive, N!UnitsConserved, N!HeadCannotBeServed, OneRequestEach,
          N!TypeOK
  <2> QED BY <2>1, <2>2
<1>2. NInductive => UnitsWellSpent
  BY DEF NInductive, UnitsWellSpent
<1> QED BY <1>1, <1>2, NInitHolds, PTL DEF N!Spec

-----------------------------------------------------------------------------
(* Chan.                                                                    *)

LEMMA SubSeqGrows ==
  ASSUME NEW S, NEW d \in Seq(S), NEW w \in S, NEW m \in 1..(Len(d) + 1)
  PROVE  SubSeq(Append(d, w), m, Len(d) + 1) = Append(SubSeq(d, m, Len(d)), w)
<1>1. PICK u \in Seq(S), n \in Nat :
        /\ u = Append(d, w) /\ u = d \o <<w>> /\ n = Len(d) /\ Len(u) = n + 1 /\ u[n + 1] = w
  <2>1. /\ Append(d, w) \in Seq(S) /\ Append(d, w) = d \o <<w>> /\ Len(d) \in Nat
        /\ Len(Append(d, w)) = Len(d) + 1 /\ Append(d, w)[Len(d) + 1] = w
    BY AppendProperties, AppendIsConcat
  <2> QED BY <2>1
<1>2. SubSeq(u, m, n + 1) = SubSeq(u, m, n) \o <<u[n + 1]>>
  <2>1. m \in 1..Len(u) /\ n + 1 \in m..Len(u) /\ n + 1 - 1 = n
    BY <1>1
  <2>2. SubSeq(u, m, n + 1) = SubSeq(u, m, n + 1 - 1) \o <<u[n + 1]>>
    BY <2>1, SubSeqRecursiveSecond
  <2> QED BY <2>1, <2>2
<1>3. SubSeq(u, m, n) = SubSeq(d, m, n)
  <2>1. CASE m <= n
    <3>1. m \in 1..Len(d) /\ n \in 1..Len(d) /\ <<w>> \in Seq(S)
      BY <1>1, <2>1
    <3>2. SubSeq(d \o <<w>>, m, n) = SubSeq(d, m, n)
      BY <3>1, SubSeqOfConcat1
    <3> QED BY <1>1, <3>2
  <2>2. CASE n < m
    <3>1. SubSeq(u, m, n) = <<>> /\ SubSeq(d, m, n) = <<>>
      BY <2>2, SubSeqEmpty
    <3> QED BY <3>1
  <2> QED BY <1>1, <2>1, <2>2
<1>4. SubSeq(d, m, n) \in Seq(S)
  <2>1. \A i \in m..n : d[i] \in S
    BY <1>1, ElementOfSeq
  <2> QED BY <2>1, SubSeqProperties
<1>5. Append(SubSeq(d, m, n), w) = SubSeq(d, m, n) \o <<w>>
  BY <1>4, AppendIsConcat
<1> QED BY <1>1, <1>2, <1>3, <1>5, Zenon

LEMMA SubSeqNonempty ==
  ASSUME NEW S, NEW s \in Seq(S), NEW m \in 1..Len(s), NEW n \in m..Len(s)
  PROVE  SubSeq(s, m, n) # <<>>
<1>1. \A i \in m..n : s[i] \in S
  BY ElementOfSeq
<1>2. Len(SubSeq(s, m, n)) = n - m + 1
  BY <1>1, SubSeqProperties
<1> QED BY <1>2

(* What is left of a stream beyond its first n elements. *)
Beyond(s, n) == SubSeq(s, n + 1, Len(s))

(* Two streams that are matched one to one, as values and reads are: what   *)
(* is left of d beyond a, and what is left of a beyond d.  A new element of *)
(* d meets the first that is left of a if there is one, and else it waits.  *)
LEMMA QueuesMeet ==
  ASSUME NEW S, NEW R, NEW d \in Seq(S), NEW a \in Seq(R), NEW w \in S
  PROVE  /\ Beyond(a, Len(d)) # <<>> =>
              /\ Len(d) < Len(a) /\ Head(Beyond(a, Len(d))) = a[Len(d) + 1]
              /\ Tail(Beyond(a, Len(d))) = Beyond(a, Len(Append(d, w)))
              /\ Beyond(d, Len(a)) = Beyond(Append(d, w), Len(a))
         /\ Beyond(a, Len(d)) = <<>> =>
              /\ Len(d) >= Len(a)
              /\ Append(Beyond(d, Len(a)), w) = Beyond(Append(d, w), Len(a))
              /\ Beyond(a, Len(d)) = Beyond(a, Len(Append(d, w)))
<1>1. PICK m \in Nat, n \in Nat, u \in Seq(S) :
        /\ m = Len(a) /\ n = Len(d) /\ u = Append(d, w) /\ Len(u) = n + 1
  <2>1. /\ Append(d, w) \in Seq(S) /\ Len(d) \in Nat /\ Len(a) \in Nat
        /\ Len(Append(d, w)) = Len(d) + 1
    BY AppendProperties
  <2> QED BY <2>1
<1>2. CASE n < m
  <2>1. n + 1 \in 1..Len(a) /\ m \in (n + 1)..Len(a) /\ n + 1 < m + 1 /\ n < m + 1
    BY <1>1, <1>2
  <2>2. /\ SubSeq(a, n + 1, m) # <<>>
        /\ Head(SubSeq(a, n + 1, m)) = a[n + 1]
        /\ Tail(SubSeq(a, n + 1, m)) = SubSeq(a, n + 1 + 1, m)
    BY <2>1, SubSeqNonempty, HeadTailOfSubSeq
  <2>3. SubSeq(d, m + 1, n) = <<>> /\ SubSeq(u, m + 1, n + 1) = <<>>
    BY <2>1, SubSeqEmpty
  <2> QED BY <1>1, <1>2, <2>2, <2>3 DEF Beyond
<1>3. CASE n >= m
  <2>1. m + 1 \in 1..(Len(d) + 1) /\ m < n + 1 /\ m < n + 1 + 1
    BY <1>1, <1>3
  <2>2. SubSeq(u, m + 1, n + 1) = Append(SubSeq(d, m + 1, n), w)
    BY <1>1, <2>1, SubSeqGrows
  <2>3. SubSeq(a, n + 1, m) = <<>> /\ SubSeq(a, n + 1 + 1, m) = <<>>
    BY <2>1, SubSeqEmpty
  <2> QED BY <1>1, <1>3, <2>2, <2>3 DEF Beyond
<1>4. n < m \/ n >= m
  BY <1>1
<1> QED BY <1>2, <1>3, <1>4, Zenon

LEMMA ChanSequences == \A s : C!ToSet(s) = ToSet(s)
BY DEF C!ToSet, ToSet

LEMMA ChanSound == First \in Endpoint /\ None \notin Write
BY InstanceIsSound DEF C!ChanAssumption

(* EndpointIsStream by its parts: the queues of an endpoint, and what its   *)
(* reads have been answered.  A read is asked once, of one endpoint, and    *)
(* has no answer before.                                                    *)
ChanQueues ==
  \A e \in Endpoint :
    /\ buffer[e] = Beyond(delivered[e], Len(asked[e]))
    /\ chanWaiters[e] = Beyond(asked[e], Len(delivered[e]))

ChanAnswers ==
  \A e \in Endpoint : \A k \in 1..Len(asked[e]) :
    chanGot[asked[e][k]] = IF k <= Len(delivered[e]) THEN delivered[e][k] ELSE None

ChanAsksOnce ==
  /\ \A e, f \in Endpoint : \A i \in DOMAIN asked[e], k \in DOMAIN asked[f] :
       asked[e][i] = asked[f][k] => e = f /\ i = k
  /\ \A r \in Reading : r \notin C!Asked => chanGot[r] = None

ChanStream == C!TypeOK /\ ChanQueues /\ ChanAnswers /\ ChanAsksOnce

LEMMA ChanAsked ==
  ASSUME C!TypeOK
  PROVE  \A r : r \in C!Asked <=> \E e \in Endpoint : \E k \in DOMAIN asked[e] : asked[e][k] = r
BY ChanSequences DEF C!Asked, ToSet

(* `pushToSubscriber`, with the history of the endpoint. *)
LEMMA ChanPushStep ==
  ASSUME ChanStream, NEW e \in Endpoint, NEW w \in Write, C!PushToSubscriber(e, w),
         delivered' = [delivered EXCEPT ![e] = Append(@, w)],
         todo' \in [Write -> Seq(Endpoint)],
         UNCHANGED <<subscribers, asked, written, earlier, joined>>
  PROVE  ChanStream'
<1>0. /\ delivered \in [Endpoint -> Seq(Write)] /\ asked \in [Endpoint -> Seq(Reading)]
      /\ buffer \in [Endpoint -> Seq(Write)] /\ chanWaiters \in [Endpoint -> Seq(Reading)]
      /\ chanGot \in [Reading -> Write \cup {None}]
  BY DEF ChanStream, C!TypeOK
<1>1. PICK d \in Seq(Write), a \in Seq(Reading), b \in Seq(Write), ws \in Seq(Reading) :
        /\ d = delivered[e] /\ a = asked[e] /\ b = buffer[e] /\ ws = chanWaiters[e]
        /\ b = Beyond(d, Len(a)) /\ ws = Beyond(a, Len(d))
  BY <1>0 DEF ChanStream, ChanQueues
<1>a. d \in Seq(Write) /\ a \in Seq(Reading)
  BY <1>1
<1>b. /\ Beyond(a, Len(d)) # <<>> =>
            /\ Len(d) < Len(a) /\ Head(Beyond(a, Len(d))) = a[Len(d) + 1]
            /\ Tail(Beyond(a, Len(d))) = Beyond(a, Len(Append(d, w)))
            /\ Beyond(d, Len(a)) = Beyond(Append(d, w), Len(a))
      /\ Beyond(a, Len(d)) = <<>> =>
            /\ Len(d) >= Len(a)
            /\ Append(Beyond(d, Len(a)), w) = Beyond(Append(d, w), Len(a))
            /\ Beyond(a, Len(d)) = Beyond(a, Len(Append(d, w)))
  BY <1>a, QueuesMeet
<1>2. PICK more \in Seq(Write) :
        /\ more = Append(d, w) /\ Len(more) = Len(d) + 1 /\ more[Len(d) + 1] = w
        /\ \A i \in 1..Len(d) : more[i] = d[i]
  <2>1. /\ Append(d, w) \in Seq(Write) /\ Len(Append(d, w)) = Len(d) + 1
        /\ Append(d, w)[Len(d) + 1] = w /\ \A i \in 1..Len(d) : Append(d, w)[i] = d[i]
    BY AppendProperties
  <2> QED BY <2>1
<1>3. /\ delivered' \in [Endpoint -> Seq(Write)] /\ delivered'[e] = more
      /\ \A f \in Endpoint \ {e} : delivered'[f] = delivered[f]
  BY <1>0, <1>1, <1>2
<1>4. /\ \A f \in Endpoint : \A k \in 1..Len(asked[f]) :
           chanGot[asked[f][k]] = IF k <= Len(delivered[f]) THEN delivered[f][k] ELSE None
      /\ \A f, g \in Endpoint : \A i \in DOMAIN asked[f], k \in DOMAIN asked[g] :
           asked[f][i] = asked[g][k] => f = g /\ i = k
      /\ \A r \in Reading : r \notin C!Asked => chanGot[r] = None
      /\ \A f \in Endpoint : DOMAIN asked[f] = 1..Len(asked[f])
  <2>1. \A f \in Endpoint : DOMAIN asked[f] = 1..Len(asked[f])
    BY <1>0
  <2>2. ChanAnswers /\ ChanAsksOnce
    BY DEF ChanStream
  <2>3. \A f \in Endpoint : \A k \in 1..Len(asked[f]) :
          chanGot[asked[f][k]] = IF k <= Len(delivered[f]) THEN delivered[f][k] ELSE None
    BY <2>2 DEF ChanAnswers
  <2>4. /\ \A f, g \in Endpoint : \A i \in DOMAIN asked[f], k \in DOMAIN asked[g] :
             asked[f][i] = asked[g][k] => f = g /\ i = k
        /\ \A r \in Reading : r \notin C!Asked => chanGot[r] = None
    BY <2>2 DEF ChanAsksOnce
  <2> QED BY <2>1, <2>3, <2>4
<1>5. CASE ws # <<>>
  <2>1. /\ Len(d) < Len(a) /\ Head(ws) = a[Len(d) + 1]
        /\ Tail(ws) = Beyond(a, Len(more))
        /\ b = Beyond(more, Len(a))
    BY <1>1, <1>2, <1>5, <1>b, Zenon
  <2>2. PICK n \in Nat : n = Len(d) + 1 /\ n \in 1..Len(a)
    BY <2>1
  <2>3. /\ chanWaiters' = [chanWaiters EXCEPT ![e] = Tail(ws)] /\ buffer' = buffer
        /\ chanGot' = [chanGot EXCEPT ![Head(ws)] = w] /\ Tail(ws) \in Seq(Reading)
        /\ Head(ws) \in Reading
    BY <1>1, <1>5, HeadTailProperties DEF C!PushToSubscriber
  <2>4. C!TypeOK'
    BY <1>0, <1>3, <2>3 DEF ChanStream, C!TypeOK
  <2>5. ChanQueues'
    BY <1>0, <1>1, <1>2, <1>3, <2>1, <2>3 DEF ChanStream, ChanQueues
  <2>6. ASSUME NEW f \in Endpoint, NEW k \in 1..Len(asked[f])
        PROVE  chanGot'[asked[f][k]]
                 = IF k <= Len(delivered'[f]) THEN delivered'[f][k] ELSE None
    <3>0. asked[f][k] \in Reading /\ k \in Nat /\ Len(delivered[f]) \in Nat /\ Len(d) \in Nat
      BY <1>0
    <3>1. CASE f = e /\ k = n
      <4>1. chanGot'[asked[f][k]] = w
        BY <1>0, <1>1, <2>1, <2>2, <2>3, <3>0, <3>1
      <4> QED BY <1>2, <1>3, <2>2, <3>1, <4>1
    <3>2. CASE ~(f = e /\ k = n)
      <4>1. asked[f][k] # Head(ws)
        <5>1. Head(ws) = asked[e][n] /\ n \in DOMAIN asked[e] /\ k \in DOMAIN asked[f]
          BY <1>1, <1>4, <2>1, <2>2
        <5> QED BY <1>4, <3>2, <5>1
      <4>2. chanGot'[asked[f][k]] = chanGot[asked[f][k]]
        BY <1>0, <2>3, <3>0, <4>1
      <4>3. CASE f # e
        BY <1>3, <1>4, <4>2, <4>3
      <4>4. CASE f = e
        <5>1. k # n /\ n = Len(d) + 1 /\ Len(more) = n
          BY <1>2, <2>2, <3>2, <4>4
        <5>2. k <= Len(d) => more[k] = d[k] /\ k <= Len(more)
          BY <1>2, <3>0, <5>1
        <5>3. ~(k <= Len(d)) => ~(k <= Len(more))
          BY <3>0, <5>1
        <5> QED BY <1>1, <1>3, <1>4, <4>2, <4>4, <5>2, <5>3
      <4> QED BY <4>3, <4>4
    <3> QED BY <3>1, <3>2
  <2>7. ChanAsksOnce'
    <3>1. Head(ws) \in C!Asked
      <4>1. e \in Endpoint /\ n \in DOMAIN asked[e] /\ asked[e][n] = Head(ws)
        BY <1>1, <1>4, <2>1, <2>2
      <4>2. C!TypeOK
        BY DEF ChanStream
      <4> QED BY <4>1, <4>2, ChanAsked
    <3>2. C!Asked' = C!Asked
      BY DEF C!Asked
    <3>3. \A r \in Reading : r \notin C!Asked' => chanGot'[r] = None
      BY <1>0, <1>4, <2>3, <3>1, <3>2
    <3> QED BY <1>4, <3>3 DEF ChanAsksOnce
  <2> QED BY <2>4, <2>5, <2>6, <2>7 DEF ChanStream, ChanAnswers
<1>6. CASE ws = <<>>
  <2>1. /\ Len(d) >= Len(a) /\ Append(b, w) = Beyond(more, Len(a))
        /\ ws = Beyond(a, Len(more))
    BY <1>1, <1>2, <1>6, <1>b, Zenon
  <2>2. /\ buffer' = [buffer EXCEPT ![e] = Append(b, w)] /\ UNCHANGED <<chanWaiters, chanGot>>
        /\ Append(b, w) \in Seq(Write)
    <3>1. Append(b, w) \in Seq(Write)
      <4>1. b \in Seq(Write)
        BY <1>1
      <4> QED BY <4>1, AppendProperties
    <3>2. b = buffer[e] /\ chanWaiters[e] = <<>>
      BY <1>1, <1>6
    <3> QED BY <3>1, <3>2 DEF C!PushToSubscriber
  <2>3. C!TypeOK'
    BY <1>0, <1>3, <2>2 DEF ChanStream, C!TypeOK
  <2>4. ChanQueues'
    BY <1>0, <1>1, <1>2, <1>3, <2>1, <2>2 DEF ChanStream, ChanQueues
  <2>5. ASSUME NEW f \in Endpoint, NEW k \in 1..Len(asked[f])
        PROVE  chanGot[asked[f][k]]
                 = IF k <= Len(delivered'[f]) THEN delivered'[f][k] ELSE None
    <3>1. CASE f # e
      BY <1>3, <1>4, <3>1
    <3>2. CASE f = e
      <4>1. k \in 1..Len(d) /\ k <= Len(d) /\ k <= Len(more)
        BY <1>1, <1>2, <2>1, <3>2
      <4> QED BY <1>1, <1>2, <1>3, <1>4, <3>2, <4>1
    <3> QED BY <3>1, <3>2
  <2>6. ChanAsksOnce'
    <3>1. C!Asked' = C!Asked
      BY DEF C!Asked
    <3> QED BY <1>4, <2>2, <3>1 DEF ChanAsksOnce
  <2> QED BY <2>2, <2>3, <2>4, <2>5, <2>6 DEF ChanStream, ChanAnswers
<1> QED BY <1>5, <1>6

(* `read` and `tryRead`: a new read takes the first value that is queued,   *)
(* or it waits if there is none.                                            *)
LEMMA ChanReadStep ==
  ASSUME ChanStream, NEW e \in Endpoint, NEW r \in Reading, r \notin C!Asked,
         asked' = [asked EXCEPT ![e] = Append(@, r)],
         \/ C!Dequeue(r, e)
         \/ /\ buffer[e] = <<>>
            /\ chanWaiters' = [chanWaiters EXCEPT ![e] = Append(@, r)]
            /\ UNCHANGED <<buffer, chanGot>>,
         UNCHANGED <<subscribers, todo, delivered, written, earlier, joined>>
  PROVE  ChanStream'
<1>0. /\ delivered \in [Endpoint -> Seq(Write)] /\ asked \in [Endpoint -> Seq(Reading)]
      /\ buffer \in [Endpoint -> Seq(Write)] /\ chanWaiters \in [Endpoint -> Seq(Reading)]
      /\ chanGot \in [Reading -> Write \cup {None}]
  BY DEF ChanStream, C!TypeOK
<1>1. PICK d \in Seq(Write), a \in Seq(Reading), b \in Seq(Write), ws \in Seq(Reading) :
        /\ d = delivered[e] /\ a = asked[e] /\ b = buffer[e] /\ ws = chanWaiters[e]
        /\ b = Beyond(d, Len(a)) /\ ws = Beyond(a, Len(d))
  BY <1>0 DEF ChanStream, ChanQueues
<1>a. d \in Seq(Write) /\ a \in Seq(Reading) /\ Len(d) \in Nat /\ Len(a) \in Nat
  BY <1>1
<1>b. /\ Beyond(d, Len(a)) # <<>> =>
            /\ Len(a) < Len(d) /\ Head(Beyond(d, Len(a))) = d[Len(a) + 1]
            /\ Tail(Beyond(d, Len(a))) = Beyond(d, Len(Append(a, r)))
            /\ Beyond(a, Len(d)) = Beyond(Append(a, r), Len(d))
      /\ Beyond(d, Len(a)) = <<>> =>
            /\ Len(a) >= Len(d)
            /\ Append(Beyond(a, Len(d)), r) = Beyond(Append(a, r), Len(d))
            /\ Beyond(d, Len(a)) = Beyond(d, Len(Append(a, r)))
  BY <1>a, QueuesMeet
<1>2. PICK more \in Seq(Reading) :
        /\ more = Append(a, r) /\ Len(more) = Len(a) + 1 /\ more[Len(a) + 1] = r
        /\ \A i \in 1..Len(a) : more[i] = a[i]
  <2>1. /\ Append(a, r) \in Seq(Reading) /\ Len(Append(a, r)) = Len(a) + 1
        /\ Append(a, r)[Len(a) + 1] = r /\ \A i \in 1..Len(a) : Append(a, r)[i] = a[i]
    BY <1>a, AppendProperties
  <2> QED BY <2>1
<1>3. /\ asked' \in [Endpoint -> Seq(Reading)] /\ asked'[e] = more
      /\ \A f \in Endpoint \ {e} : asked'[f] = asked[f]
      /\ \A f \in Endpoint : DOMAIN asked[f] = 1..Len(asked[f])
      /\ \A f \in Endpoint : DOMAIN asked'[f] = 1..Len(asked'[f])
  BY <1>0, <1>1, <1>2
<1>4. /\ \A f \in Endpoint : \A k \in 1..Len(asked[f]) :
           chanGot[asked[f][k]] = IF k <= Len(delivered[f]) THEN delivered[f][k] ELSE None
      /\ \A f, g \in Endpoint : \A i \in DOMAIN asked[f], k \in DOMAIN asked[g] :
           asked[f][i] = asked[g][k] => f = g /\ i = k
      /\ \A p \in Reading : p \notin C!Asked => chanGot[p] = None
  BY DEF ChanStream, ChanAnswers, ChanAsksOnce
<1>5. \A f \in Endpoint : \A k \in 1..Len(asked[f]) : asked[f][k] # r /\ asked[f][k] \in Reading
  <2>1. C!TypeOK
    BY DEF ChanStream
  <2> QED BY <1>0, <1>3, <2>1, ChanAsked
<1>6. \A f \in Endpoint : \A k \in DOMAIN asked'[f] :
        \/ k \in DOMAIN asked[f] /\ asked'[f][k] = asked[f][k]
        \/ f = e /\ k = Len(a) + 1 /\ asked'[f][k] = r
  <2> SUFFICES ASSUME NEW f \in Endpoint, NEW k \in DOMAIN asked'[f]
               PROVE  \/ k \in DOMAIN asked[f] /\ asked'[f][k] = asked[f][k]
                      \/ f = e /\ k = Len(a) + 1 /\ asked'[f][k] = r
    OBVIOUS
  <2>1. CASE f # e
    BY <1>3, <2>1
  <2>2. CASE f = e
    <3>1. k \in 1..(Len(a) + 1)
      BY <1>2, <1>3, <2>2
    <3>2. k \in 1..Len(a) \/ k = Len(a) + 1
      BY <1>a, <3>1
    <3> QED BY <1>1, <1>2, <1>3, <2>2, <3>2
  <2> QED BY <2>1, <2>2
<1>7. \A f, g \in Endpoint : \A i \in DOMAIN asked'[f], k \in DOMAIN asked'[g] :
        asked'[f][i] = asked'[g][k] => f = g /\ i = k
  BY <1>3, <1>4, <1>5, <1>6
<1>8. C!Asked' = C!Asked \cup {r}
  <2>1. (\E f \in Endpoint : \E k \in DOMAIN asked'[f] : asked'[f][k] = r)
    <3>1. Len(a) + 1 \in DOMAIN asked'[e] /\ asked'[e][Len(a) + 1] = r
      BY <1>2, <1>3, <1>a
    <3> QED BY <3>1
  <2>2. \A f \in Endpoint : \A k \in DOMAIN asked[f] :
          k \in DOMAIN asked'[f] /\ asked'[f][k] = asked[f][k]
    <3> SUFFICES ASSUME NEW f \in Endpoint, NEW k \in DOMAIN asked[f]
                 PROVE  k \in DOMAIN asked'[f] /\ asked'[f][k] = asked[f][k]
      OBVIOUS
    <3>1. CASE f # e
      BY <1>3, <3>1
    <3>2. CASE f = e
      <4>1. k \in 1..Len(a) /\ k \in 1..(Len(a) + 1)
        BY <1>a, <1>1, <1>3, <3>2
      <4> QED BY <1>1, <1>2, <1>3, <3>2, <4>1
    <3> QED BY <3>1, <3>2
  <2>3. \A p : p \in C!Asked <=> \E f \in Endpoint : \E k \in DOMAIN asked[f] : asked[f][k] = p
    BY ChanSequences DEF C!Asked, ToSet
  <2>4. C!Asked' = UNION {C!ToSet(asked'[f]) : f \in Endpoint}
    BY DEF C!Asked
  <2>5. \A p : p \in C!Asked' <=>
                  \E f \in Endpoint : \E k \in DOMAIN asked'[f] : asked'[f][k] = p
    <3>1. \A f : C!ToSet(asked'[f]) = {asked'[f][k] : k \in DOMAIN asked'[f]}
      BY DEF C!ToSet
    <3>2. \A p : p \in C!Asked' <=> \E f \in Endpoint : p \in C!ToSet(asked'[f])
      BY <2>4, Zenon
    <3>3. \A p, f : p \in C!ToSet(asked'[f]) <=> \E k \in DOMAIN asked'[f] : asked'[f][k] = p
      <4> TAKE p, f
      <4>1. C!ToSet(asked'[f]) = {asked'[f][k] : k \in DOMAIN asked'[f]}
        BY <3>1
      <4> QED BY <4>1
    <3> QED BY <3>2, <3>3, Zenon
  <2>6. \A p : p \in C!Asked' => p \in C!Asked \/ p = r
    BY <1>6, <2>3, <2>5
  <2>7. r \in C!Asked'
    BY <2>1, <2>5, Zenon
  <2>8. ASSUME NEW p, p \in C!Asked PROVE p \in C!Asked'
    <3>1. PICK f \in Endpoint : \E k \in DOMAIN asked[f] : asked[f][k] = p
      BY <2>3, <2>8, Zenon
    <3>2. PICK k \in DOMAIN asked[f] : asked[f][k] = p
      BY <3>1, Zenon
    <3>3. k \in DOMAIN asked'[f] /\ asked'[f][k] = p
      BY <2>2, <3>2, Zenon
    <3> QED BY <2>5, <3>3, Zenon
  <2> QED BY <2>6, <2>7, <2>8
<1>9. CASE C!Dequeue(r, e)
  <2>1. b # <<>>
    BY <1>1, <1>9 DEF C!Dequeue
  <2>2. /\ Len(a) < Len(d) /\ Head(b) = d[Len(a) + 1] /\ Tail(b) = Beyond(d, Len(more))
        /\ ws = Beyond(more, Len(d))
    BY <1>1, <1>2, <1>b, <2>1, Zenon
  <2>3. /\ chanGot' = [chanGot EXCEPT ![r] = Head(b)] /\ buffer' = [buffer EXCEPT ![e] = Tail(b)]
        /\ chanWaiters' = chanWaiters /\ Head(b) \in Write /\ Tail(b) \in Seq(Write)
    BY <1>1, <1>9, <2>1, HeadTailProperties DEF C!Dequeue
  <2>4. C!TypeOK'
    BY <1>0, <1>3, <2>3 DEF ChanStream, C!TypeOK
  <2>5. ChanQueues'
    BY <1>0, <1>1, <1>2, <1>3, <2>2, <2>3 DEF ChanStream, ChanQueues
  <2>6. ChanAnswers'
    <3> SUFFICES ASSUME NEW f \in Endpoint, NEW k \in 1..Len(asked'[f])
                 PROVE  chanGot'[asked'[f][k]]
                          = IF k <= Len(delivered'[f]) THEN delivered'[f][k] ELSE None
      BY DEF ChanAnswers
    <3>a. k \in DOMAIN asked'[f] /\ delivered' = delivered
      BY <1>3
    <3>1. CASE k \in DOMAIN asked[f] /\ asked'[f][k] = asked[f][k]
      <4>1. k \in 1..Len(asked[f])
        BY <1>3, <3>1
      <4>2. chanGot[asked[f][k]] = IF k <= Len(delivered[f]) THEN delivered[f][k] ELSE None
        BY <1>4, <4>1
      <4>3. asked[f][k] # r /\ asked[f][k] \in Reading
        BY <1>5, <4>1
      <4>4. chanGot'[asked[f][k]] = chanGot[asked[f][k]]
        BY <1>0, <2>3, <4>3
      <4> QED BY <3>a, <3>1, <4>2, <4>4
    <3>2. CASE f = e /\ k = Len(a) + 1 /\ asked'[f][k] = r
      <4>1. chanGot'[r] = d[Len(a) + 1] /\ Len(a) + 1 <= Len(d)
        BY <1>0, <1>a, <2>2, <2>3
      <4> QED BY <1>1, <3>a, <3>2, <4>1
    <3> QED BY <1>6, <3>a, <3>1, <3>2
  <2>7. ChanAsksOnce'
    <3>1. \A p \in Reading : p \notin C!Asked' => chanGot'[p] = None
      BY <1>0, <1>4, <1>8, <2>3
    <3> QED BY <1>7, <3>1 DEF ChanAsksOnce
  <2> QED BY <2>4, <2>5, <2>6, <2>7 DEF ChanStream
<1>10. CASE /\ buffer[e] = <<>>
            /\ chanWaiters' = [chanWaiters EXCEPT ![e] = Append(@, r)]
            /\ UNCHANGED <<buffer, chanGot>>
  <2>1. b = <<>> /\ chanWaiters' = [chanWaiters EXCEPT ![e] = Append(ws, r)]
    BY <1>1, <1>10
  <2>2. /\ Len(a) >= Len(d) /\ Append(ws, r) = Beyond(more, Len(d)) /\ b = Beyond(d, Len(more))
    BY <1>1, <1>2, <1>b, <2>1, Zenon
  <2>3. Append(ws, r) \in Seq(Reading)
    <3>1. ws \in Seq(Reading)
      BY <1>1
    <3> QED BY <3>1, AppendProperties
  <2>4. C!TypeOK'
    <3>1. chanWaiters' \in [Endpoint -> Seq(Reading)]
      BY <1>0, <2>1, <2>3
    <3>2. C!TypeOK
      BY DEF ChanStream
    <3> QED BY <1>3, <1>10, <3>1, <3>2 DEF C!TypeOK
  <2>5. ChanQueues'
    BY <1>0, <1>1, <1>2, <1>3, <1>10, <2>1, <2>2 DEF ChanStream, ChanQueues
  <2>6. ChanAnswers'
    <3> SUFFICES ASSUME NEW f \in Endpoint, NEW k \in 1..Len(asked'[f])
                 PROVE  chanGot'[asked'[f][k]]
                          = IF k <= Len(delivered'[f]) THEN delivered'[f][k] ELSE None
      BY DEF ChanAnswers
    <3>a. k \in DOMAIN asked'[f] /\ delivered' = delivered
      BY <1>3
    <3>1. CASE k \in DOMAIN asked[f] /\ asked'[f][k] = asked[f][k]
      <4>1. k \in 1..Len(asked[f])
        BY <1>3, <3>1
      <4>2. chanGot[asked[f][k]] = IF k <= Len(delivered[f]) THEN delivered[f][k] ELSE None
        BY <1>4, <4>1
      <4> QED BY <1>10, <3>a, <3>1, <4>2
    <3>2. CASE f = e /\ k = Len(a) + 1 /\ asked'[f][k] = r
      <4>1. chanGot[r] = None /\ ~(Len(a) + 1 <= Len(d))
        BY <1>4, <1>a, <2>2
      <4> QED BY <1>1, <1>10, <3>a, <3>2, <4>1
    <3> QED BY <1>6, <3>a, <3>1, <3>2
  <2>7. ChanAsksOnce'
    <3>1. \A p \in Reading : p \notin C!Asked' => chanGot'[p] = None
      BY <1>4, <1>8, <1>10
    <3> QED BY <1>7, <3>1 DEF ChanAsksOnce
  <2> QED BY <2>4, <2>5, <2>6, <2>7 DEF ChanStream
<1> QED BY <1>9, <1>10

LEMMA ChanStreamInit == C!Init => ChanStream
<1> SUFFICES ASSUME C!Init PROVE ChanStream
  OBVIOUS
<1>1. /\ delivered = [e \in Endpoint |-> <<>>] /\ asked = [e \in Endpoint |-> <<>>]
      /\ buffer = [e \in Endpoint |-> <<>>] /\ chanWaiters = [e \in Endpoint |-> <<>>]
      /\ chanGot = [r \in Reading |-> None] /\ subscribers = <<First>>
      /\ todo = [w \in Write |-> <<>>] /\ written = <<>> /\ earlier = [w \in Write |-> {}]
      /\ joined = [e \in Endpoint |-> 0]
  BY DEF C!Init
<1>2. C!TypeOK
  BY <1>1, ChanSound DEF C!TypeOK
<1>3. \A e \in Endpoint : Len(asked[e]) = 0 /\ Len(delivered[e]) = 0
  BY <1>1
<1>4. ChanQueues
  <2>1. Beyond(<<>>, 0) = <<>>
    BY SubSeqEmpty DEF Beyond
  <2> QED BY <1>1, <1>3, <2>1 DEF ChanQueues
<1>5. ChanAnswers /\ ChanAsksOnce
  BY <1>1, <1>3 DEF ChanAnswers, ChanAsksOnce
<1> QED BY <1>2, <1>4, <1>5 DEF ChanStream

LEMMA ChanStreamStep == ChanStream /\ [C!Next]_(C!vars) => ChanStream'
<1> SUFFICES ASSUME ChanStream, [C!Next]_(C!vars) PROVE ChanStream'
  OBVIOUS
<1>0. C!TypeOK
  BY DEF ChanStream
<1>1. ASSUME NEW w \in Write, C!WriteBegin(w) PROVE ChanStream'
  <2>1. UNCHANGED <<subscribers, buffer, chanWaiters, chanGot, delivered, asked, joined>>
    BY <1>1 DEF C!WriteBegin, C!state
  <2>2. C!TypeOK'
    <3>1. /\ todo' \in [Write -> Seq(Endpoint)]
          /\ written' = Append(written, w) /\ written \in Seq(Write)
      BY <1>0, <1>1 DEF C!TypeOK, C!WriteBegin
    <3>2. written' \in Seq(Write)
      BY <3>1, AppendProperties
    <3>3. earlier' \in [Write -> SUBSET Write]
      <4>1. C!Complete \in SUBSET Write
        <5>1. C!Begun \in SUBSET Write
          BY <1>0, ChanSequences, ElementOfSeq DEF C!TypeOK, C!Begun, ToSet
        <5> QED BY <5>1 DEF C!Complete
      <4> QED BY <1>0, <1>1, <4>1 DEF C!TypeOK, C!WriteBegin
    <3> QED BY <1>0, <2>1, <3>1, <3>2, <3>3 DEF C!TypeOK
  <2>3. C!Asked' = C!Asked
    BY <2>1 DEF C!Asked
  <2> QED BY <2>1, <2>2, <2>3 DEF ChanStream, ChanQueues, ChanAnswers, ChanAsksOnce
<1>2. ASSUME NEW w \in Write, C!WritePush(w) PROVE ChanStream'
  <2>1. todo \in [Write -> Seq(Endpoint)] /\ todo[w] \in Seq(Endpoint) /\ todo[w] # <<>>
    BY <1>0, <1>2 DEF C!TypeOK, C!WritePush
  <2>2. Head(todo[w]) \in Endpoint /\ Tail(todo[w]) \in Seq(Endpoint)
    BY <2>1, HeadTailProperties
  <2>3. todo' \in [Write -> Seq(Endpoint)]
    BY <1>2, <2>1, <2>2 DEF C!WritePush
  <2> QED BY <1>2, <2>2, <2>3, ChanPushStep DEF C!WritePush
<1>3. ASSUME NEW e \in Endpoint, C!Dup(e) PROVE ChanStream'
  <2>1. UNCHANGED <<buffer, chanWaiters, chanGot, delivered, asked, todo, written, earlier>>
    BY <1>3 DEF C!Dup
  <2>2. subscribers' \in Seq(Endpoint)
    <3>1. subscribers \in Seq(Endpoint) /\ subscribers' = Append(subscribers, e)
      BY <1>0, <1>3 DEF C!TypeOK, C!Dup
    <3> QED BY <3>1, AppendProperties
  <2>3. C!Asked' = C!Asked
    BY <2>1 DEF C!Asked
  <2>4. joined' \in [Endpoint -> Nat]
    <3>1. Len(written) \in Nat
      BY <1>0 DEF C!TypeOK
    <3> QED BY <1>0, <1>3, <3>1 DEF C!TypeOK, C!Dup
  <2>5. C!TypeOK'
    BY <1>0, <2>1, <2>2, <2>4 DEF C!TypeOK
  <2> QED BY <2>1, <2>3, <2>5 DEF ChanStream, ChanQueues, ChanAnswers, ChanAsksOnce
<1>4. ASSUME NEW e \in Endpoint, NEW r \in Reading, C!ReadNext(r, e) PROVE ChanStream'
  BY <1>4, ChanReadStep DEF C!ReadNext
<1>5. ASSUME NEW e \in Endpoint, NEW r \in Reading, C!TryRead(r, e) PROVE ChanStream'
  BY <1>5, ChanReadStep DEF C!TryRead
<1>6. ASSUME UNCHANGED C!vars PROVE ChanStream'
  <2>1. UNCHANGED <<subscribers, buffer, chanWaiters, chanGot, delivered, asked, todo, written,
                    earlier, joined>>
    BY <1>6 DEF C!vars
  <2>2. C!Asked' = C!Asked
    BY <2>1 DEF C!Asked
  <2> QED BY <2>1, <2>2 DEF ChanStream, C!TypeOK, ChanQueues, ChanAnswers, ChanAsksOnce
<1> QED BY <1>1, <1>2, <1>3, <1>4, <1>5, <1>6 DEF C!Next

(* Each endpoint of a channel is a stream (Chan.lean, `write`, `read`,      *)
(* `tryRead`): its k-th read gets the k-th value pushed to it whichever     *)
(* came first, and what is queued is what is left over.                     *)
THEOREM EndpointsAreStreams == C!Spec => []EndpointIsStream
<1>1. ChanStream => EndpointIsStream
  BY
    DEF ChanStream, ChanQueues, ChanAnswers, Beyond, EndpointIsStream,
        C!EndpointIsStream
<1> QED BY <1>1, ChanStreamInit, ChanStreamStep, PTL DEF C!Spec

(* RealTimeOrder by its parts: what has been pushed somewhere, or is to be, *)
(* has begun, and a write that was complete when another began stays so.    *)
ChanOrder ==
  /\ \A w \in Write : todo[w] # <<>> => w \in ToSet(written)
  /\ \A e \in Endpoint : \A i \in DOMAIN delivered[e] : delivered[e][i] \in ToSet(written)
  /\ \A w \in Write : \A v \in earlier[w] : v \in ToSet(written) /\ todo[v] = <<>>
  /\ \A e \in Endpoint : \A i, j \in DOMAIN delivered[e] :
       delivered[e][i] \in earlier[delivered[e][j]] => i < j

LEMMA ChanOrderInit == C!Init => ChanOrder
BY DEF C!Init, ChanOrder

LEMMA ChanOrderStep == C!TypeOK /\ ChanOrder /\ [C!Next]_(C!vars) => ChanOrder'
<1> SUFFICES ASSUME C!TypeOK, ChanOrder, [C!Next]_(C!vars) PROVE ChanOrder'
  OBVIOUS
<1>0. /\ todo \in [Write -> Seq(Endpoint)] /\ delivered \in [Endpoint -> Seq(Write)]
      /\ earlier \in [Write -> SUBSET Write] /\ written \in Seq(Write)
      /\ \A e \in Endpoint : DOMAIN delivered[e] = 1..Len(delivered[e])
      /\ \A e \in Endpoint : \A i \in DOMAIN delivered[e] : delivered[e][i] \in Write
  BY DEF C!TypeOK
<1>1. ASSUME NEW w \in Write, C!WriteBegin(w) PROVE ChanOrder'
  <2>1. /\ w \notin ToSet(written) /\ UNCHANGED delivered
        /\ ToSet(written') = ToSet(written) \cup {w}
    <3>1. w \notin ToSet(written) /\ written' = Append(written, w) /\ UNCHANGED delivered
      BY <1>1, ChanSequences DEF C!WriteBegin, C!Begun
    <3> QED BY <1>0, <3>1, ToSetAppend
  <2>2. /\ todo' = [todo EXCEPT ![w] = subscribers]
        /\ earlier' = [earlier EXCEPT ![w] = {v \in ToSet(written) : todo[v] = <<>>}]
    BY <1>1, ChanSequences DEF C!WriteBegin, C!Complete, C!Begun
  <2>3. \A v \in Write : v \in ToSet(written) => todo'[v] = todo[v] /\ earlier'[v] = earlier[v]
    BY <1>0, <2>1, <2>2
  <2>4. \A v \in Write : todo'[v] # <<>> => v \in ToSet(written')
    BY <1>0, <2>1, <2>2 DEF ChanOrder
  <2>5. \A u \in Write : \A v \in earlier'[u] :
          v \in ToSet(written) /\ todo[v] = <<>> /\ v \in Write
    BY <1>0, <2>2, ElementOfSeq DEF ChanOrder, ToSet
  <2>6. \A u \in Write : \A v \in earlier'[u] : v \in ToSet(written') /\ todo'[v] = <<>>
    BY <2>1, <2>3, <2>5
  <2>7. \A e \in Endpoint : \A i \in DOMAIN delivered'[e] : delivered'[e][i] \in ToSet(written')
    BY <2>1 DEF ChanOrder
  <2>8. \A e \in Endpoint : \A i, j \in DOMAIN delivered'[e] :
          delivered'[e][i] \in earlier'[delivered'[e][j]] => i < j
    BY <1>0, <2>1, <2>3 DEF ChanOrder
  <2> QED BY <2>4, <2>6, <2>7, <2>8 DEF ChanOrder
<1>2. ASSUME NEW w \in Write, C!WritePush(w) PROVE ChanOrder'
  <2>1. PICK q \in Seq(Endpoint) : q = todo[w] /\ q # <<>>
    BY <1>0, <1>2 DEF C!WritePush
  <2>2. PICK e \in Endpoint : e = Head(q) /\ Tail(q) \in Seq(Endpoint)
    BY <2>1, ToSetHeadTail
  <2>3. PICK d \in Seq(Write), more \in Seq(Write) :
          /\ d = delivered[e] /\ more = Append(d, w) /\ Len(more) = Len(d) + 1
          /\ more[Len(d) + 1] = w /\ \A i \in 1..Len(d) : more[i] = d[i]
          /\ Len(d) \in Nat
    <3>1. PICK d \in Seq(Write) : d = delivered[e]
      BY <1>0
    <3>2. /\ Append(d, w) \in Seq(Write) /\ Len(Append(d, w)) = Len(d) + 1 /\ Len(d) \in Nat
          /\ Append(d, w)[Len(d) + 1] = w /\ \A i \in 1..Len(d) : Append(d, w)[i] = d[i]
      BY AppendProperties
    <3> QED BY <3>1, <3>2
  <2>4. /\ delivered' = [delivered EXCEPT ![e] = more] /\ todo' = [todo EXCEPT ![w] = Tail(q)]
        /\ UNCHANGED <<written, earlier>>
    BY <1>0, <1>2, <2>1, <2>2, <2>3 DEF C!WritePush
  <2>5. w \in ToSet(written) /\ \A u \in Write : w \notin earlier[u]
    BY <2>1 DEF ChanOrder
  <2>6. \A v \in Write : todo'[v] # <<>> => v \in ToSet(written')
    BY <1>0, <2>4, <2>5 DEF ChanOrder
  <2>7. \A u \in Write : \A v \in earlier'[u] : v \in ToSet(written') /\ todo'[v] = <<>>
    BY <1>0, <2>4, <2>5 DEF ChanOrder
  <2>8. \A f \in Endpoint : \A i \in DOMAIN delivered'[f] :
          \/ i \in DOMAIN delivered[f] /\ delivered'[f][i] = delivered[f][i]
          \/ f = e /\ i = Len(d) + 1 /\ delivered'[f][i] = w
    <3> SUFFICES ASSUME NEW f \in Endpoint, NEW i \in DOMAIN delivered'[f]
                 PROVE  \/ i \in DOMAIN delivered[f] /\ delivered'[f][i] = delivered[f][i]
                        \/ f = e /\ i = Len(d) + 1 /\ delivered'[f][i] = w
      OBVIOUS
    <3>1. CASE f # e
      BY <1>0, <2>4, <3>1
    <3>2. CASE f = e
      <4>1. delivered'[f] = more /\ i \in 1..(Len(d) + 1)
        BY <1>0, <2>3, <2>4, <3>2
      <4>2. i \in 1..Len(d) \/ i = Len(d) + 1
        BY <2>3, <4>1
      <4> QED BY <1>0, <2>3, <3>2, <4>1, <4>2
    <3> QED BY <3>1, <3>2
  <2>9. \A f \in Endpoint : \A i \in DOMAIN delivered'[f] : delivered'[f][i] \in ToSet(written')
    BY <2>4, <2>5, <2>8 DEF ChanOrder
  <2>10. ASSUME NEW f \in Endpoint, NEW i \in DOMAIN delivered'[f], NEW j \in DOMAIN delivered'[f],
                delivered'[f][i] \in earlier'[delivered'[f][j]]
         PROVE  i < j
    <3>1. delivered'[f][j] \in Write /\ delivered'[f][i] # w
      BY <1>0, <2>4, <2>5, <2>8, <2>10
    <3>2. i \in DOMAIN delivered[f] /\ delivered'[f][i] = delivered[f][i]
      BY <2>8, <3>1
    <3>3. CASE j \in DOMAIN delivered[f] /\ delivered'[f][j] = delivered[f][j]
      BY <2>4, <2>10, <3>2, <3>3 DEF ChanOrder
    <3>4. CASE f = e /\ j = Len(d) + 1
      <4>1. i \in 1..Len(d)
        BY <1>0, <2>3, <3>2, <3>4
      <4> QED BY <2>3, <3>4, <4>1
    <3> QED BY <2>8, <3>3, <3>4
  <2> QED BY <2>6, <2>7, <2>9, <2>10 DEF ChanOrder
<1>3. ASSUME UNCHANGED <<todo, delivered, earlier, written>> PROVE ChanOrder'
  BY <1>3 DEF ChanOrder
<1> QED BY <1>1, <1>2, <1>3 DEF C!Next, C!vars, C!Dup, C!ReadNext, C!TryRead

(* A write that had returned when another was called comes first on every   *)
(* endpoint that gets both (Chan.lean, `write`): the list of endpoints is   *)
(* copied under the mutex, and a complete write has no endpoint left.       *)
THEOREM WritesKeepRealTimeOrder == C!Spec => []RealTimeOrder
<1>1. ChanOrder => RealTimeOrder
  BY DEF ChanOrder, RealTimeOrder, C!RealTimeOrder
<1>2. C!Init => ChanStream /\ ChanOrder
  BY ChanStreamInit, ChanOrderInit
<1>3. ChanStream /\ ChanOrder /\ [C!Next]_(C!vars) => ChanStream' /\ ChanOrder'
  BY ChanStreamStep, ChanOrderStep DEF ChanStream
<1> QED BY <1>1, <1>2, <1>3, PTL DEF C!Spec

(* SubscribersMissNothing by its parts.  Each write since an endpoint      *)
(* joined has been pushed to it or has it among the endpoints to push to,   *)
(* and not both; of the others, and of an endpoint that has not subscribed, *)
(* neither is true.                                                         *)
Pushed(v, e) == v \in ToSet(delivered[e])
Due(v, e)    == e \in ToSet(todo[v])

JoinedAt(e, k) ==
  \A i \in DOMAIN written :
    IF i <= k THEN ~Pushed(written[i], e) /\ ~Due(written[i], e)
              ELSE Pushed(written[i], e) <=> ~Due(written[i], e)

ChanOnce ==
  /\ IsInjective(written) /\ IsInjective(subscribers)
  /\ \A w \in Write : IsInjective(todo[w])
  /\ \A e \in Endpoint : IsInjective(delivered[e])

ChanJoined ==
  \A e \in Endpoint :
    IF e \in ToSet(subscribers)
      THEN \E k \in 0..Len(written) :
             k = joined[e] /\ (e = First => k = 0) /\ JoinedAt(e, k)
      ELSE \A v \in Write : ~Pushed(v, e) /\ ~Due(v, e)

ChanMembers ==
  /\ First \in ToSet(subscribers)
  /\ \A v \in Write : v \notin ToSet(written) => todo[v] = <<>>
  /\ \A e \in Endpoint : ToSet(delivered[e]) \subseteq ToSet(written)

ChanDelivery == ChanOnce /\ ChanJoined /\ ChanMembers

LEMMA ChanDeliveryInit == C!Init => ChanDelivery
<1> SUFFICES ASSUME C!Init PROVE ChanDelivery
  OBVIOUS
<1>1. /\ delivered = [e \in Endpoint |-> <<>>] /\ subscribers = <<First>>
      /\ todo = [w \in Write |-> <<>>] /\ written = <<>>
      /\ joined = [e \in Endpoint |-> 0]
  BY DEF C!Init
<1>2. IsInjective(<<>>) /\ ToSet(<<>>) = {} /\ DOMAIN <<>> = {} /\ Len(<<>>) = 0
  BY EmptyToSet
<1>3. IsInjective(<<First>>) /\ ToSet(<<First>>) = {First}
  BY DEF IsInjective, ToSet
<1>4. ChanOnce
  BY <1>1, <1>2, <1>3 DEF ChanOnce
<1>5. \A e \in Endpoint : \A v \in Write : ~Pushed(v, e) /\ ~Due(v, e)
  BY <1>1, <1>2 DEF Pushed, Due
<1>6. \A e \in Endpoint : JoinedAt(e, 0)
  BY <1>1, <1>2 DEF JoinedAt
<1>7. ChanJoined
  <2>1. 0 \in 0..Len(written)
    BY <1>1, <1>2
  <2> QED BY <1>1, <1>5, <1>6, <2>1 DEF ChanJoined
<1> QED BY <1>1, <1>2, <1>3, <1>4, <1>7 DEF ChanDelivery, ChanMembers

(* `write` copies the subscribers: each of them is due the new write. *)
LEMMA ChanBeginDelivery ==
  ASSUME C!TypeOK, ChanDelivery, NEW w \in Write, C!WriteBegin(w)
  PROVE  ChanDelivery'
<1>0. /\ todo \in [Write -> Seq(Endpoint)] /\ delivered \in [Endpoint -> Seq(Write)]
      /\ written \in Seq(Write) /\ subscribers \in Seq(Endpoint)
  BY DEF C!TypeOK
<1>1. /\ w \notin ToSet(written) /\ UNCHANGED <<delivered, subscribers, joined>>
      /\ todo' = [todo EXCEPT ![w] = subscribers] /\ written' = Append(written, w)
  <2>1. C!Begun = ToSet(written)
    BY ChanSequences DEF C!Begun
  <2> QED BY <2>1 DEF C!WriteBegin, C!state
<1>2. PICK n \in Nat : n = Len(written)
  BY <1>0
<1>3. /\ ToSet(written') = ToSet(written) \cup {w} /\ Len(written') = n + 1
      /\ written'[n + 1] = w /\ \A i \in 1..n : written'[i] = written[i]
      /\ DOMAIN written = 1..n /\ DOMAIN written' = 1..(n + 1)
  <2>1. /\ Append(written, w) \in Seq(Write) /\ Len(Append(written, w)) = Len(written) + 1
        /\ Append(written, w)[Len(written) + 1] = w
        /\ \A i \in 1..Len(written) : Append(written, w)[i] = written[i]
        /\ ToSet(Append(written, w)) = ToSet(written) \cup {w}
    BY <1>0, AppendProperties, ToSetAppend
  <2> QED BY <1>0, <1>1, <1>2, <2>1
<1>4. \A v \in Write \ {w} : todo'[v] = todo[v]
  BY <1>0, <1>1
<1>5. \A e \in Endpoint : \A v : Pushed(v, e)' <=> Pushed(v, e)
  BY <1>1 DEF Pushed
<1>6. \A e \in Endpoint : \A v \in Write \ {w} : Due(v, e)' <=> Due(v, e)
  BY <1>4 DEF Due
<1>7. \A e \in Endpoint : ~Pushed(w, e) /\ ~Due(w, e) /\ (Due(w, e)' <=> e \in ToSet(subscribers))
  BY <1>0, <1>1, EmptyToSet DEF ChanDelivery, ChanMembers, Pushed, Due
<1>8. ChanOnce'
  <2>1. IsInjective(written')
    BY <1>0, <1>1, InjectiveAppend DEF ChanDelivery, ChanOnce
  <2> QED BY <1>0, <1>1, <2>1 DEF ChanDelivery, ChanOnce
<1>9. \A i \in 1..n : written[i] \in Write \ {w}
  <2>1. \A i \in DOMAIN written : written[i] \in Write /\ written[i] # w
    BY <1>0, <1>1 DEF ToSet
  <2> QED BY <1>3, <2>1
<1>10. ASSUME NEW e \in Endpoint, e \in ToSet(subscribers), NEW k \in 0..n, JoinedAt(e, k)
       PROVE  JoinedAt(e, k)'
  <2> SUFFICES ASSUME NEW i \in 1..(n + 1)
               PROVE  IF i <= k THEN ~Pushed(written[i], e)' /\ ~Due(written[i], e)'
                                ELSE Pushed(written[i], e)' <=> ~Due(written[i], e)'
    BY <1>3 DEF JoinedAt
  <2>1. CASE i \in 1..n
    <3>1. written'[i] = written[i] /\ written[i] \in Write \ {w} /\ i \in DOMAIN written
      BY <1>3, <1>9, <2>1
    <3>2. /\ Pushed(written[i], e)' <=> Pushed(written[i], e)
          /\ Due(written[i], e)' <=> Due(written[i], e)
      BY <1>5, <1>6, <3>1 DEF Pushed, Due
    <3> QED BY <1>10, <3>1, <3>2 DEF JoinedAt
  <2>2. CASE i = n + 1
    <3>1. written'[i] = w /\ ~(i <= k)
      BY <1>3, <2>2
    <3>2. ~Pushed(written[i], e)' /\ Due(written[i], e)'
      BY <1>5, <1>7, <1>10, <3>1 DEF Pushed, Due
    <3> QED BY <3>1, <3>2
  <2> QED BY <2>1, <2>2
<1>11. ChanJoined'
  <2> SUFFICES ASSUME NEW e \in Endpoint
               PROVE  IF e \in ToSet(subscribers)
                        THEN \E k \in 0..(n + 1) :
                               k = joined[e] /\ (e = First => k = 0) /\ JoinedAt(e, k)'
                        ELSE \A v \in Write : ~Pushed(v, e)' /\ ~Due(v, e)'
    BY <1>1, <1>3 DEF ChanJoined
  <2>1. CASE e \in ToSet(subscribers)
    <3>1. PICK k \in 0..n : k = joined[e] /\ (e = First => k = 0) /\ JoinedAt(e, k)
      BY <1>2, <2>1 DEF ChanDelivery, ChanJoined
    <3>2. k \in 0..(n + 1) /\ JoinedAt(e, k)'
      BY <1>10, <2>1, <3>1
    <3> QED BY <2>1, <3>1, <3>2
  <2>2. CASE e \notin ToSet(subscribers)
    BY <1>5, <1>6, <1>7, <2>2 DEF ChanDelivery, ChanJoined
  <2> QED BY <2>1, <2>2
<1>12. ChanMembers'
  BY <1>1, <1>3, <1>4 DEF ChanDelivery, ChanMembers
<1> QED BY <1>8, <1>11, <1>12 DEF ChanDelivery

(* A push moves an endpoint from those that are due the value to those that *)
(* have it.                                                                 *)
LEMMA ChanPushDelivery ==
  ASSUME C!TypeOK, ChanDelivery, NEW w \in Write, C!WritePush(w)
  PROVE  ChanDelivery'
<1>0. /\ todo \in [Write -> Seq(Endpoint)] /\ delivered \in [Endpoint -> Seq(Write)]
      /\ written \in Seq(Write) /\ subscribers \in Seq(Endpoint)
  BY DEF C!TypeOK
<1>1. PICK q \in Seq(Endpoint) : q = todo[w] /\ q # <<>> /\ IsInjective(q)
  BY <1>0 DEF C!WritePush, ChanDelivery, ChanOnce
<1>2. PICK e \in Endpoint, rest \in Seq(Endpoint) :
        /\ e = Head(q) /\ rest = Tail(q) /\ ToSet(q) = {e} \cup ToSet(rest)
        /\ IsInjective(rest) /\ e \notin ToSet(rest)
  BY <1>1, ToSetHeadTail, InjectiveTail
<1>3. PICK d \in Seq(Write) : d = delivered[e] /\ IsInjective(d)
  BY <1>0 DEF ChanDelivery, ChanOnce
<1>4. /\ delivered' = [delivered EXCEPT ![e] = Append(d, w)] /\ todo' = [todo EXCEPT ![w] = rest]
      /\ UNCHANGED <<subscribers, written, joined>>
  BY <1>0, <1>1, <1>2, <1>3 DEF C!WritePush
<1>5. Due(w, e) /\ w \in ToSet(written) /\ e \in ToSet(subscribers)
  <2>1. Due(w, e)
    BY <1>1, <1>2 DEF Due
  <2>2. w \in ToSet(written)
    BY <1>1 DEF ChanDelivery, ChanMembers
  <2> QED BY <2>1, <2>2 DEF ChanDelivery, ChanJoined
<1>6. ~Pushed(w, e)
  <2>1. PICK k \in 0..Len(written) : JoinedAt(e, k)
    BY <1>5 DEF ChanDelivery, ChanJoined
  <2>2. PICK i \in DOMAIN written : written[i] = w
    BY <1>5 DEF ToSet
  <2> QED BY <1>5, <2>1, <2>2 DEF JoinedAt
<1>7. /\ ToSet(Append(d, w)) = ToSet(d) \cup {w} /\ IsInjective(Append(d, w))
  <2>1. w \notin ToSet(d)
    BY <1>3, <1>6 DEF Pushed
  <2> QED BY <1>3, <2>1, ToSetAppend, InjectiveAppend
<1>8. \A f \in Endpoint, v \in Write : ~(f = e /\ v = w) =>
        (Pushed(v, f)' <=> Pushed(v, f)) /\ (Due(v, f)' <=> Due(v, f))
  <2> SUFFICES ASSUME NEW f \in Endpoint, NEW v \in Write, ~(f = e /\ v = w)
               PROVE  (Pushed(v, f)' <=> Pushed(v, f)) /\ (Due(v, f)' <=> Due(v, f))
    OBVIOUS
  <2>1. Pushed(v, f)' <=> Pushed(v, f)
    <3>1. CASE f = e
      <4>1. ToSet(delivered'[f]) = ToSet(delivered[f]) \cup {w} /\ v # w
        BY <1>0, <1>3, <1>4, <1>7, <3>1
      <4> QED BY <4>1 DEF Pushed
    <3>2. CASE f # e
      BY <1>0, <1>4, <3>2 DEF Pushed
    <3> QED BY <3>1, <3>2
  <2>2. Due(v, f)' <=> Due(v, f)
    <3>1. CASE v = w
      <4>1. ToSet(todo[v]) = {e} \cup ToSet(todo'[v]) /\ f # e
        BY <1>0, <1>1, <1>2, <1>4, <3>1
      <4> QED BY <4>1 DEF Due
    <3>2. CASE v # w
      BY <1>0, <1>4, <3>2 DEF Due
    <3> QED BY <3>1, <3>2
  <2> QED BY <2>1, <2>2
<1>9. Pushed(w, e)' /\ ~Due(w, e)'
  BY <1>0, <1>2, <1>4, <1>7 DEF Pushed, Due
<1>10. ChanOnce'
  BY <1>0, <1>2, <1>4, <1>7 DEF ChanDelivery, ChanOnce
<1>11. ASSUME NEW f \in Endpoint, NEW k \in 0..Len(written), JoinedAt(f, k)
       PROVE  JoinedAt(f, k)'
  <2> SUFFICES ASSUME NEW i \in DOMAIN written
               PROVE  IF i <= k THEN ~Pushed(written[i], f)' /\ ~Due(written[i], f)'
                                ELSE Pushed(written[i], f)' <=> ~Due(written[i], f)'
    BY <1>4 DEF JoinedAt
  <2>1. PICK v \in Write : v = written[i]
    BY <1>0
  <2>2. IF i <= k THEN ~Pushed(v, f) /\ ~Due(v, f) ELSE Pushed(v, f) <=> ~Due(v, f)
    BY <1>11, <2>1 DEF JoinedAt
  <2>3. IF i <= k THEN ~Pushed(v, f)' /\ ~Due(v, f)' ELSE Pushed(v, f)' <=> ~Due(v, f)'
    <3>1. CASE f = e /\ v = w
      BY <1>5, <1>6, <1>9, <2>2, <3>1
    <3>2. CASE ~(f = e /\ v = w)
      BY <1>8, <2>2, <3>2
    <3> QED BY <3>1, <3>2
  <2>4. /\ Pushed(written[i], f)' <=> Pushed(v, f)' 
        /\ Due(written[i], f)' <=> Due(v, f)'
    BY <1>4, <2>1 DEF Pushed, Due
  <2> QED BY <2>3, <2>4
<1>12. ChanJoined'
  <2> SUFFICES ASSUME NEW f \in Endpoint
               PROVE  IF f \in ToSet(subscribers)
                        THEN \E k \in 0..Len(written) :
                               k = joined[f] /\ (f = First => k = 0) /\ JoinedAt(f, k)'
                        ELSE \A v \in Write : ~Pushed(v, f)' /\ ~Due(v, f)'
    BY <1>4 DEF ChanJoined
  <2>1. CASE f \in ToSet(subscribers)
    BY <1>11, <2>1 DEF ChanDelivery, ChanJoined
  <2>2. CASE f \notin ToSet(subscribers)
    BY <1>5, <1>8, <2>2 DEF ChanDelivery, ChanJoined
  <2> QED BY <2>1, <2>2
<1>13. ChanMembers'
  <2>1. \A v \in Write : v \notin ToSet(written) => todo'[v] = <<>>
    BY <1>0, <1>4, <1>5 DEF ChanDelivery, ChanMembers
  <2>2. \A f \in Endpoint : ToSet(delivered'[f]) \subseteq ToSet(written)
    BY <1>0, <1>3, <1>4, <1>5, <1>7 DEF ChanDelivery, ChanMembers
  <2> QED BY <1>4, <2>1, <2>2 DEF ChanDelivery, ChanMembers
<1> QED BY <1>10, <1>12, <1>13 DEF ChanDelivery

(* `dup`: a new endpoint starts with the next write. *)
LEMMA ChanDupDelivery ==
  ASSUME C!TypeOK, ChanDelivery, NEW e \in Endpoint, C!Dup(e)
  PROVE  ChanDelivery'
<1>0. /\ subscribers \in Seq(Endpoint) /\ written \in Seq(Write)
      /\ joined \in [Endpoint -> Nat]
  BY DEF C!TypeOK
<1>1. /\ e \notin ToSet(subscribers) /\ subscribers' = Append(subscribers, e)
      /\ UNCHANGED <<delivered, todo, written>>
      /\ joined' = [joined EXCEPT ![e] = Len(written)]
  BY ChanSequences DEF C!Dup
<1>2. ToSet(subscribers') = ToSet(subscribers) \cup {e} /\ IsInjective(subscribers')
  BY <1>0, <1>1, ToSetAppend, InjectiveAppend DEF ChanDelivery, ChanOnce
<1>3. /\ \A f, v : (Pushed(v, f)' <=> Pushed(v, f)) /\ (Due(v, f)' <=> Due(v, f))
      /\ \A f, k : JoinedAt(f, k)' <=> JoinedAt(f, k)
  BY <1>1 DEF Pushed, Due, JoinedAt
<1>4. JoinedAt(e, Len(written)) /\ Len(written) \in 0..Len(written)
  <2>1. Len(written) \in Nat /\ DOMAIN written = 1..Len(written)
    BY <1>0
  <2>2. \A i \in DOMAIN written : i <= Len(written) /\ written[i] \in Write
    BY <1>0, <2>1
  <2>3. \A v \in Write : ~Pushed(v, e) /\ ~Due(v, e)
    BY <1>1 DEF ChanDelivery, ChanJoined
  <2> QED BY <2>1, <2>2, <2>3 DEF JoinedAt
<1>5. e # First
  BY <1>1 DEF ChanDelivery, ChanMembers
<1>6. ChanJoined'
  <2> SUFFICES ASSUME NEW f \in Endpoint
               PROVE  IF f \in ToSet(subscribers')
                        THEN \E k \in 0..Len(written) :
                               k = joined'[f] /\ (f = First => k = 0) /\ JoinedAt(f, k)'
                        ELSE \A v \in Write : ~Pushed(v, f)' /\ ~Due(v, f)'
    BY <1>1 DEF ChanJoined
  <2>1. CASE f = e
    BY <1>0, <1>1, <1>2, <1>3, <1>4, <1>5, <2>1
  <2>2. CASE f # e
    <3>1. f \in ToSet(subscribers') <=> f \in ToSet(subscribers)
      BY <1>2, <2>2
    <3>2. joined'[f] = joined[f]
      BY <1>0, <1>1, <2>2
    <3> QED BY <1>3, <3>1, <3>2 DEF ChanDelivery, ChanJoined
  <2> QED BY <2>1, <2>2
<1> QED BY <1>1, <1>2, <1>6 DEF ChanDelivery, ChanOnce, ChanMembers

LEMMA ChanDeliveryStep == C!TypeOK /\ ChanDelivery /\ [C!Next]_(C!vars) => ChanDelivery'
<1> SUFFICES ASSUME C!TypeOK, ChanDelivery, [C!Next]_(C!vars) PROVE ChanDelivery'
  OBVIOUS
<1>1. ASSUME UNCHANGED <<subscribers, delivered, todo, written, joined>> PROVE ChanDelivery'
  BY <1>1 DEF ChanDelivery, ChanOnce, ChanJoined, ChanMembers, JoinedAt, Pushed, Due
<1> QED BY <1>1, ChanBeginDelivery, ChanPushDelivery, ChanDupDelivery
    DEF C!Next, C!vars, C!ReadNext, C!TryRead

LEMMA ChanEveryWrite ==
  ASSUME C!TypeOK, ChanDelivery, NEW e \in Endpoint, e \in ToSet(subscribers),
         NEW since, since = {written[i] : i \in (joined[e] + 1)..Len(written)}
  PROVE  /\ e = First => joined[e] = 0
         /\ IsInjective(delivered[e])
         /\ ToSet(delivered[e]) \subseteq since
         /\ \A v \in since : todo[v] = <<>> => v \in ToSet(delivered[e])
<1>0. written \in Seq(Write) /\ Len(written) \in Nat /\ DOMAIN written = 1..Len(written)
  BY DEF C!TypeOK
<1>1. PICK k \in 0..Len(written) : k = joined[e] /\ (e = First => k = 0) /\ JoinedAt(e, k)
  BY DEF ChanDelivery, ChanJoined
<1>2. \A i \in DOMAIN written : i \in (k + 1)..Len(written) <=> ~(i <= k)
  BY <1>0
<1>3. \A i \in DOMAIN written : Pushed(written[i], e) => written[i] \in since
  BY <1>1, <1>2 DEF JoinedAt
<1>4. ToSet(delivered[e]) \subseteq since
  <2>1. \A v \in ToSet(delivered[e]) : \E i \in DOMAIN written : v = written[i]
    BY DEF ChanDelivery, ChanMembers, ToSet
  <2> QED BY <1>3, <2>1 DEF Pushed
<1>5. ASSUME NEW v \in since, todo[v] = <<>> PROVE v \in ToSet(delivered[e])
  <2>1. PICK i \in (k + 1)..Len(written) : v = written[i]
    BY <1>1
  <2>2. i \in DOMAIN written /\ ~(i <= k)
    BY <1>0, <2>1
  <2>3. ~Due(v, e)
    BY <1>5, EmptyToSet DEF Due
  <2> QED BY <1>1, <2>1, <2>2, <2>3 DEF JoinedAt, Pushed
<1> QED BY <1>1, <1>4, <1>5 DEF ChanDelivery, ChanOnce

(* From its `dup` on, an endpoint is given each write that was called (all  *)
(* that have returned, each once) and nothing older (Chan.lean, `write`,    *)
(* `dup`): a `dup` in the middle of a write does not tear it.               *)
THEOREM WritesReachEverySubscriber == C!Spec => []SubscribersMissNothing
<1>1. C!TypeOK /\ ChanDelivery => SubscribersMissNothing
  <2> SUFFICES ASSUME C!TypeOK, ChanDelivery, NEW e \in C!ToSet(subscribers)
               PROVE  LET since == {written[i] : i \in (joined[e] + 1)..Len(written)} IN
                      /\ e = First => joined[e] = 0
                      /\ C!IsInjective(delivered[e])
                      /\ C!ToSet(delivered[e]) \subseteq since
                      /\ since \cap C!Complete \subseteq C!ToSet(delivered[e])
    BY DEF SubscribersMissNothing, C!SubscribersMissNothing
  <2> DEFINE since == {written[i] : i \in (joined[e] + 1)..Len(written)}
  <2>1. e \in ToSet(subscribers) /\ e \in Endpoint
    BY ChanSequences, ElementOfSeq DEF C!TypeOK, ToSet
  <2>2. /\ e = First => joined[e] = 0
        /\ IsInjective(delivered[e])
        /\ ToSet(delivered[e]) \subseteq since
        /\ \A v \in since : todo[v] = <<>> => v \in ToSet(delivered[e])
    BY <2>1, ChanEveryWrite
  <2>3. \A v \in C!Complete : todo[v] = <<>>
    BY DEF C!Complete
  <2>4. IsInjective(delivered[e]) <=> C!IsInjective(delivered[e])
    BY DEF IsInjective, C!IsInjective
  <2> QED BY <2>2, <2>3, <2>4, ChanSequences
<1>2. C!Init => ChanStream /\ ChanDelivery
  BY ChanStreamInit, ChanDeliveryInit
<1>3. ChanStream /\ ChanDelivery /\ [C!Next]_(C!vars) => ChanStream' /\ ChanDelivery'
  BY ChanStreamStep, ChanDeliveryStep DEF ChanStream
<1>4. ChanStream => C!TypeOK
  BY DEF ChanStream
<1> QED BY <1>1, <1>2, <1>3, <1>4, PTL DEF C!Spec

-----------------------------------------------------------------------------
(* MVar implements MVarContract.                                            *)

(* A stream that grows, and a queue that loses its head. *)
LEMMA BeyondAppend ==
  ASSUME NEW S, NEW s \in Seq(S), NEW e \in S, NEW n \in Nat
  PROVE  /\ n <= Len(s) => Beyond(Append(s, e), n) = Append(Beyond(s, n), e)
         /\ n > Len(s) => Beyond(Append(s, e), n) = <<>> /\ Beyond(s, n) = <<>>
<1>1. PICK m \in Nat, u \in Seq(S) : m = Len(s) /\ u = Append(s, e) /\ Len(u) = m + 1
  <2>1. Append(s, e) \in Seq(S) /\ Len(s) \in Nat /\ Len(Append(s, e)) = Len(s) + 1
    BY AppendProperties
  <2> QED BY <2>1
<1>2. CASE n <= m
  <2>1. n + 1 \in 1..(Len(s) + 1)
    BY <1>1, <1>2
  <2>2. SubSeq(Append(s, e), n + 1, Len(s) + 1) = Append(SubSeq(s, n + 1, Len(s)), e)
    BY <2>1, SubSeqGrows
  <2>3. ~(n > m)
    BY <1>2
  <2> QED BY <1>1, <2>2, <2>3 DEF Beyond
<1>3. CASE n > m
  <2>1. m < n + 1 /\ m + 1 < n + 1 /\ ~(n <= m)
    BY <1>3
  <2>2. SubSeq(u, n + 1, m + 1) = <<>> /\ SubSeq(s, n + 1, m) = <<>>
    BY <2>1, SubSeqEmpty
  <2> QED BY <1>1, <2>1, <2>2 DEF Beyond
<1>4. n <= m \/ n > m
  OBVIOUS
<1> QED BY <1>2, <1>3, <1>4

LEMMA BeyondHead ==
  ASSUME NEW S, NEW s \in Seq(S), NEW n \in Nat
  PROVE  /\ n < Len(s) => /\ Beyond(s, n) # <<>> /\ Head(Beyond(s, n)) = s[n + 1]
                          /\ Tail(Beyond(s, n)) = Beyond(s, n + 1)
         /\ n >= Len(s) => Beyond(s, n) = <<>>
<1>1. PICK m \in Nat : m = Len(s)
  OBVIOUS
<1>2. CASE n < m
  <2>1. n + 1 \in 1..Len(s) /\ m \in (n + 1)..Len(s) /\ ~(n >= m)
    BY <1>1, <1>2
  <2>2. /\ SubSeq(s, n + 1, m) # <<>>
        /\ Head(SubSeq(s, n + 1, m)) = s[n + 1]
        /\ Tail(SubSeq(s, n + 1, m)) = SubSeq(s, n + 1 + 1, m)
    BY <2>1, SubSeqNonempty, HeadTailOfSubSeq
  <2> QED BY <1>1, <2>1, <2>2 DEF Beyond
<1>3. CASE n >= m
  <2>1. m < n + 1 /\ ~(n < m)
    BY <1>3
  <2>2. SubSeq(s, n + 1, m) = <<>>
    BY <2>1, SubSeqEmpty
  <2> QED BY <1>1, <2>1, <2>2 DEF Beyond
<1>4. n < m \/ n >= m
  OBVIOUS
<1> QED BY <1>2, <1>3, <1>4

(* The two histories against the state: the box holds the first value no    *)
(* take has claimed, the queues are the takes and the puts beyond, and what *)
(* has been answered and acknowledged is what the contract says.            *)
HistOffer == [op : Op \cup {None}, val : Val]

HistBox ==
  /\ value = M!Contract!Visible(puts, takes)
  /\ takers = Beyond(takes, Len(puts))
  /\ putters = Beyond(puts, Len(takes) + 1)

HistAnswered ==
  \A k \in DOMAIN takes : got[takes[k]] = IF k <= Len(puts) THEN puts[k].val ELSE None

HistAcked ==
  acked = {puts[k].op : k \in {i \in DOMAIN puts : i <= Len(takes) + 1}} \ {None}

HistCalls ==
  /\ IsInjective(takes)
  /\ \A k \in DOMAIN takes : call[takes[k]] \in {"take", "swap", "restore"}
  /\ \A k \in DOMAIN puts : puts[k].op = None \/ call[puts[k].op] \in {"put", "restore"}
  /\ \A o \in Op : call[o] = "swap" => \E k \in DOMAIN takes : takes[k] = o
  /\ \A o \in ToSet(readers) : call[o] = "read" /\ got[o] = None
  /\ \A o \in Op : call[o] = "idle" => got[o] = None

Histories ==
  /\ M!TypeOK /\ Structural
  /\ puts \in Seq(HistOffer) /\ takes \in Seq(Op)
  /\ HistBox /\ HistAnswered /\ HistAcked /\ HistCalls

LEMMA MVarSequences == \A s : M!ToSet(s) = ToSet(s)
BY DEF M!ToSet, ToSet

(* What a put or a take does to the elements of its history. *)
LEMMA HistAppend ==
  ASSUME NEW S, NEW s \in Seq(S), NEW e \in S
  PROVE  /\ Append(s, e) \in Seq(S) /\ Len(Append(s, e)) = Len(s) + 1
         /\ DOMAIN Append(s, e) = DOMAIN s \cup {Len(s) + 1}
         /\ Append(s, e)[Len(s) + 1] = e
         /\ \A i \in DOMAIN s : Append(s, e)[i] = s[i] /\ i \in Nat /\ i >= 1 /\ i <= Len(s)
         /\ DOMAIN s = 1..Len(s) /\ Len(s) \in Nat
BY AppendProperties

(* Settle is what a state that agrees with its histories says. *)
LEMMA HistSettle ==
  ASSUME NEW R, R \subseteq Op,
         /\ takes' \in Seq(Op) /\ puts' \in Seq(HistOffer)
         /\ HistAnswered' /\ IsInjective(takes') /\ HistAcked'
         /\ got' \in [Op -> Val \cup {None}],
         \A o \in Op : (\A k \in DOMAIN takes' : ~(takes'[k] = o /\ k <= Len(puts'))) =>
           got'[o] = IF o \in R THEN M!Contract!Visible(puts', takes') ELSE got[o]
  PROVE  M!Contract!Settle(R)
<1>1. ASSUME NEW o \in Op
      PROVE  got'[o] = IF \E k \in DOMAIN takes' : takes'[k] = o /\ k <= Len(puts')
                         THEN LET k == CHOOSE i \in DOMAIN takes' : takes'[i] = o
                              IN  puts'[k].val
                       ELSE IF o \in R THEN M!Contract!Visible(puts', takes') ELSE got[o]
  <2>1. CASE \E k \in DOMAIN takes' : takes'[k] = o /\ k <= Len(puts')
    <3>1. PICK k \in DOMAIN takes' : takes'[k] = o /\ k <= Len(puts')
      BY <2>1
    <3>2. (CHOOSE i \in DOMAIN takes' : takes'[i] = o) = k
      BY <3>1 DEF IsInjective
    <3>3. got'[o] = puts'[k].val
      BY <3>1 DEF HistAnswered
    <3> QED BY <2>1, <3>2, <3>3
  <2>2. CASE ~\E k \in DOMAIN takes' : takes'[k] = o /\ k <= Len(puts')
    BY <2>2
  <2> QED BY <2>1, <2>2
<1>2. got' = [o \in Op |->
               IF \E k \in DOMAIN takes' : takes'[k] = o /\ k <= Len(puts')
                 THEN LET k == CHOOSE i \in DOMAIN takes' : takes'[i] = o
                      IN  puts'[k].val
               ELSE IF o \in R THEN M!Contract!Visible(puts', takes') ELSE got[o]]
  BY <1>1
<1>3. acked' = {puts'[k].op : k \in {i \in DOMAIN puts' : i <= Len(takes') + 1}} \ {None}
  BY DEF HistAcked
<1> QED BY <1>2, <1>3 DEF M!Contract!Settle

(* A take, by whatever operation: `take` itself, the first half of swap,    *)
(* or a tryTake that finds a value.                                         *)
LEMMA HistTake ==
  ASSUME Histories, NEW op \in Op, call[op] = "idle", M!TakeBody(op), M!LogTake(op),
         M!TypeOK'
  PROVE  /\ puts' \in Seq(HistOffer) /\ takes' \in Seq(Op)
         /\ HistBox' /\ HistAnswered' /\ HistAcked' /\ IsInjective(takes')
         /\ \A o \in Op \ {op} : got'[o] = got[o]
         /\ readers' = readers
         /\ M!Contract!Settle({})
<1>0. /\ puts \in Seq(HistOffer) /\ takes \in Seq(Op) /\ got \in [Op -> Val \cup {None}]
      /\ takers \in Seq(Op) /\ got' \in [Op -> Val \cup {None}]
  BY DEF Histories, M!TypeOK
<1>1. takes' = Append(takes, op) /\ puts' = puts
  BY DEF M!LogTake
<1>2. PICK p, t, n : /\ p = Len(puts) /\ t = Len(takes) /\ n = Len(takes')
                     /\ p \in Nat /\ t \in Nat /\ n = t + 1
  <2>1. Len(puts) \in Nat /\ Len(takes) \in Nat /\ Len(takes') = Len(takes) + 1
    BY <1>0, <1>1, HistAppend
  <2> QED BY <2>1
<1>3. /\ takes' \in Seq(Op) /\ DOMAIN takes' = DOMAIN takes \cup {n} /\ takes'[n] = op
      /\ \A i \in DOMAIN takes : takes'[i] = takes[i] /\ takes[i] \in Op /\ i \in 1..t
  BY <1>0, <1>1, <1>2, HistAppend
<1>4. \A i \in DOMAIN puts : puts[i] \in HistOffer /\ i \in 1..p
  BY <1>0, <1>2
<1>5. op \notin ToSet(takes)
  BY DEF Histories, HistCalls, ToSet
<1>6. IsInjective(takes')
  BY <1>0, <1>1, <1>5, InjectiveAppend DEF Histories, HistCalls
<1>7. value = IF p > t THEN puts[t + 1].val ELSE None
  BY <1>2 DEF Histories, HistBox, M!Contract!Visible
<1>8. \A k \in DOMAIN takes : got[takes[k]] = IF k <= p THEN puts[k].val ELSE None
  BY <1>2 DEF Histories, HistAnswered
<1>9. got[op] = None
  BY DEF Histories, HistCalls
<1>a. /\ acked = {puts[k].op : k \in {i \in DOMAIN puts : i <= t + 1}} \ {None}
      /\ HistAcked' <=> acked' = {puts[k].op : k \in {i \in DOMAIN puts : i <= n + 1}} \ {None}
  BY <1>1, <1>2 DEF Histories, HistAcked
<1>10. CASE p > t
  <2>1. value # None /\ n \in DOMAIN puts /\ puts[n] \in HistOffer
    <3>1. n \in DOMAIN puts
      BY <1>0, <1>2, <1>10
    <3> QED BY <1>2, <1>4, <1>7, <1>10, <3>1, NoneAssumption DEF HistOffer
  <2>2. got' = [got EXCEPT ![op] = value] /\ M!ConsumeValue
    BY <2>1 DEF M!TakeBody
  <2>3. HistAnswered'
    <3> SUFFICES ASSUME NEW k \in DOMAIN takes'
                 PROVE  got'[takes'[k]] = IF k <= p THEN puts[k].val ELSE None
      BY <1>1, <1>2 DEF HistAnswered
    <3>1. CASE k = n
      BY <1>0, <1>2, <1>3, <1>7, <1>10, <2>2, <3>1
    <3>2. CASE k \in DOMAIN takes
      <4>1. takes'[k] = takes[k] /\ takes[k] # op
        BY <1>3, <1>5, <3>2 DEF ToSet
      <4> QED BY <1>0, <1>3, <1>8, <2>2, <3>2, <4>1
    <3> QED BY <1>3, <3>1, <3>2
  <2>4. ASSUME putters # <<>> PROVE HistBox' /\ HistAcked' /\ readers' = readers
    <3>1. n < p
      <4>1. ~(n >= p)
        BY <1>0, <1>2, <2>4, BeyondHead DEF Histories, HistBox
      <4> QED BY <1>2, <4>1
    <3>2. /\ Head(putters) = puts[n + 1] /\ Tail(putters) = Beyond(puts, n + 1)
          /\ n \in Nat
      BY <1>0, <1>2, <3>1, BeyondHead DEF Histories, HistBox
    <3>3. /\ value' = puts[n + 1].val /\ putters' = Beyond(puts, n + 1)
          /\ acked' = acked \cup {puts[n + 1].op} /\ takers' = takers /\ readers' = readers
      BY <2>2, <2>4, <3>2 DEF M!ConsumeValue
    <3>4. takers = Beyond(takes, p) /\ takers' = Beyond(takes', p)
      <4>1. takers = Beyond(takes, p) /\ Beyond(takes, p) = <<>> /\ p >= n
        BY <1>0, <1>2, <1>10, BeyondHead DEF Histories, HistBox
      <4>2. Beyond(takes', p) = <<>>
        BY <1>2, <1>3, <4>1, BeyondHead
      <4> QED BY <3>3, <4>1, <4>2
    <3>5. HistBox'
      BY <1>1, <1>2, <3>1, <3>3, <3>4 DEF HistBox, M!Contract!Visible
    <3>6. HistAcked'
      <4>1. puts[n + 1].op # None
        <5>1. Head(putters) \in M!Offer
          BY <2>4, DequeueType DEF Histories, M!TypeOK
        <5> QED BY <3>2, <5>1, NoCallAssumption DEF M!Offer
      <4>2. {i \in DOMAIN puts : i <= n + 1} = {i \in DOMAIN puts : i <= t + 1} \cup {n + 1}
        BY <1>0, <1>2, <3>1
      <4>3. {puts[k].op : k \in {i \in DOMAIN puts : i <= n + 1}}
              = {puts[k].op : k \in {i \in DOMAIN puts : i <= t + 1}} \cup {puts[n + 1].op}
        BY <4>2
      <4>4. PICK A, B : /\ acked = A \ {None} /\ B = A \cup {puts[n + 1].op}
                        /\ acked' = B \ {None} => HistAcked'
        BY <1>a, <4>3, Zenon
      <4> QED BY <3>3, <4>1, <4>4
    <3> QED BY <3>3, <3>5, <3>6, <2>3
  <2>5. ASSUME putters = <<>> PROVE HistBox' /\ HistAcked' /\ readers' = readers
    <3>1. n = p
      <4>1. ~(n < p)
        BY <1>0, <1>2, <2>5, BeyondHead DEF Histories, HistBox
      <4> QED BY <1>2, <1>10, <4>1
    <3>2. /\ value' = None /\ putters' = putters /\ acked' = acked /\ takers' = takers
          /\ readers' = readers
      BY <2>2, <2>5 DEF M!ConsumeValue
    <3>3. takers' = Beyond(takes', p)
      <4>1. takers = Beyond(takes, p) /\ Beyond(takes, p) = <<>> /\ p >= n
        BY <1>0, <1>2, <1>10, BeyondHead DEF Histories, HistBox
      <4>2. Beyond(takes', p) = <<>>
        BY <1>2, <1>3, <4>1, BeyondHead
      <4> QED BY <3>2, <4>1, <4>2
    <3>4. putters' = Beyond(puts, n + 1)
      <4>1. n + 1 \in Nat /\ n + 1 >= p
        BY <1>2, <3>1
      <4> QED BY <1>0, <1>2, <2>5, <3>2, <4>1, BeyondHead
    <3>5. HistBox'
      BY <1>1, <1>2, <3>1, <3>2, <3>3, <3>4 DEF HistBox, M!Contract!Visible
    <3>6. HistAcked'
      <4>1. {i \in DOMAIN puts : i <= n + 1} = {i \in DOMAIN puts : i <= t + 1}
        BY <1>2, <1>4, <3>1
      <4>2. {puts[k].op : k \in {i \in DOMAIN puts : i <= n + 1}}
              = {puts[k].op : k \in {i \in DOMAIN puts : i <= t + 1}}
        BY <4>1
      <4> QED BY <1>a, <3>2, <4>2, Zenon
    <3> QED BY <3>2, <3>5, <3>6, <2>3
  <2>6. HistBox' /\ HistAcked' /\ readers' = readers
    BY <2>4, <2>5
  <2>7. \A o \in Op \ {op} : got'[o] = got[o]
    BY <1>0, <2>2
  <2>8. M!Contract!Settle({})
    <3>1. takes'[n] = op /\ n \in DOMAIN takes' /\ n <= Len(puts')
      BY <1>1, <1>2, <1>3, <1>10
    <3> QED BY <1>0, <1>1, <1>3, <1>6, <2>3, <2>6, <2>7, <3>1, HistSettle
  <2> QED BY <1>0, <1>1, <1>3, <1>6, <2>3, <2>6, <2>7, <2>8
<1>11. CASE p <= t
  <2>1. value = None
    BY <1>2, <1>7, <1>11
  <2>2. takers' = Append(takers, op) /\ UNCHANGED <<value, putters, readers, got, acked>>
    BY <2>1 DEF M!TakeBody
  <2>3. HistAnswered'
    <3> SUFFICES ASSUME NEW k \in DOMAIN takes'
                 PROVE  got[takes'[k]] = IF k <= p THEN puts[k].val ELSE None
      BY <1>1, <1>2, <2>2 DEF HistAnswered
    <3>1. CASE k = n
      BY <1>2, <1>3, <1>9, <1>11, <3>1
    <3>2. CASE k \in DOMAIN takes
      BY <1>3, <1>8, <3>2
    <3> QED BY <1>3, <3>1, <3>2
  <2>4. takers' = Beyond(takes', p)
    BY <1>0, <1>1, <1>2, <1>11, <2>2, BeyondAppend DEF Histories, HistBox
  <2>5. putters' = Beyond(puts, n + 1)
    <3>1. t + 1 \in Nat /\ n + 1 \in Nat /\ t + 1 >= p /\ n + 1 >= p
      BY <1>2, <1>11
    <3>2. putters = Beyond(puts, t + 1)
      BY <1>2 DEF Histories, HistBox
    <3> QED BY <1>0, <1>2, <2>2, <3>1, <3>2, BeyondHead
  <2>6. HistBox'
    <3>1. ~(p > n)
      BY <1>2, <1>11
    <3> QED BY <1>1, <1>2, <2>1, <2>2, <2>4, <2>5, <3>1 DEF HistBox, M!Contract!Visible
  <2>7. HistAcked'
    <3>1. {i \in DOMAIN puts : i <= n + 1} = {i \in DOMAIN puts : i <= t + 1}
      BY <1>2, <1>4, <1>11
    <3> QED BY <1>a, <2>2, <3>1, Zenon
  <2>8. M!Contract!Settle({})
    BY <1>0, <1>1, <1>3, <1>6, <2>2, <2>3, <2>7, HistSettle
  <2> QED BY <1>0, <1>1, <1>3, <1>6, <2>2, <2>3, <2>6, <2>7, <2>8
<1> QED BY <1>2, <1>10, <1>11

(* A put, by whatever operation: `put` itself, the second half of swap, or  *)
(* a tryPut that finds the box empty.                                       *)
LEMMA HistPut ==
  ASSUME Histories, NEW op \in Op, NEW v \in Val, M!PutBody(op, v), M!LogPut(op, v),
         M!TypeOK'
  PROVE  /\ puts' \in Seq(HistOffer) /\ takes' = takes
         /\ HistBox' /\ HistAnswered' /\ HistAcked'
         /\ \A o \in Op : got'[o] = got[o] \/ o \in ToSet(takes) \/ o \in ToSet(readers)
         /\ ToSet(readers') = IF M!Contract!Visible(puts', takes) = None THEN ToSet(readers) ELSE {}
         /\ \A o \in ToSet(readers') : got'[o] = got[o]
         /\ M!Contract!Settle(ToSet(readers))
<1>0. /\ puts \in Seq(HistOffer) /\ takes \in Seq(Op) /\ got \in [Op -> Val \cup {None}]
      /\ takers \in Seq(Op) /\ got' \in [Op -> Val \cup {None}] /\ readers \in Seq(Op)
      /\ putters \in Seq(M!Offer)
  BY DEF Histories, M!TypeOK
<1>1. PICK new \in HistOffer : /\ new = [op |-> op, val |-> v] /\ puts' = Append(puts, new)
                               /\ takes' = takes /\ new.op = op /\ new.val = v
  BY DEF M!LogPut, HistOffer
<1>2. PICK p, t, n : /\ p = Len(puts) /\ t = Len(takes) /\ n = Len(puts')
                     /\ p \in Nat /\ t \in Nat /\ n = p + 1
  <2>1. Len(puts) \in Nat /\ Len(takes) \in Nat /\ Len(puts') = Len(puts) + 1
    BY <1>0, <1>1, HistAppend
  <2> QED BY <2>1
<1>3. /\ puts' \in Seq(HistOffer) /\ DOMAIN puts' = DOMAIN puts \cup {n} /\ puts'[n] = new
      /\ \A i \in DOMAIN puts : puts'[i] = puts[i] /\ puts[i] \in HistOffer /\ i \in 1..p
      /\ DOMAIN puts = 1..p
  BY <1>0, <1>1, <1>2, HistAppend
<1>4. \A i \in DOMAIN takes : takes[i] \in Op /\ i \in 1..t
  BY <1>0, <1>2
<1>5. value = IF p > t THEN puts[t + 1].val ELSE None
  BY <1>2 DEF Histories, HistBox, M!Contract!Visible
<1>6. \A k \in DOMAIN takes : got[takes[k]] = IF k <= p THEN puts[k].val ELSE None
  BY <1>2 DEF Histories, HistAnswered
<1>7. IsInjective(takes') /\ takes' \in Seq(Op)
  BY <1>0, <1>1 DEF Histories, HistCalls
<1>8. /\ acked = {puts[k].op : k \in {i \in DOMAIN puts : i <= t + 1}} \ {None}
      /\ HistAcked' <=> acked' = {puts'[k].op : k \in {i \in DOMAIN puts' : i <= t + 1}} \ {None}
  BY <1>1, <1>2 DEF Histories, HistAcked
<1>9. \A o \in ToSet(readers) : o \in Op /\ got[o] = None /\ o \notin ToSet(takes)
  <2>1. \A o \in ToSet(readers) : o \in Op
    BY <1>0 DEF ToSet
  <2> QED BY <2>1 DEF Histories, HistCalls, ToSet
<1>10. op # None
  BY NoCallAssumption
<1>11. CASE p > t
  <2>1. value # None /\ t + 1 \in DOMAIN puts
    <3>1. t + 1 \in DOMAIN puts
      BY <1>0, <1>2, <1>11
    <3>2. puts[t + 1].val \in Val
      BY <1>3, <3>1 DEF HistOffer
    <3> QED BY <1>5, <1>11, <3>1, <3>2, NoneAssumption
  <2>2. /\ putters' = Append(putters, new) /\ UNCHANGED <<value, takers, readers, got, acked>>
        /\ readers = <<>>
    BY <1>1, <2>1 DEF M!PutBody, Histories, Structural
  <2>3. HistAnswered'
    <3> SUFFICES ASSUME NEW k \in DOMAIN takes
                 PROVE  got[takes[k]] = IF k <= n THEN puts'[k].val ELSE None
      BY <1>1, <1>2, <2>2 DEF HistAnswered
    <3>1. k <= p /\ k <= n /\ k \in DOMAIN puts
      BY <1>2, <1>3, <1>4, <1>11
    <3> QED BY <1>3, <1>6, <3>1
  <2>4. HistBox'
    <3>1. M!Contract!Visible(puts', takes') = value
      <4>1. n > t /\ puts'[t + 1] = puts[t + 1]
        BY <1>2, <1>3, <1>11, <2>1
      <4> QED BY <1>1, <1>2, <1>5, <1>11, <4>1 DEF M!Contract!Visible
    <3>2. takers = Beyond(takes, n)
      <4>1. n \in Nat /\ n >= t /\ p >= t
        BY <1>2, <1>11
      <4>2. takers = Beyond(takes, p)
        BY <1>2 DEF Histories, HistBox
      <4> QED BY <1>0, <1>2, <4>1, <4>2, BeyondHead
    <3>3. putters' = Beyond(puts', t + 1)
      <4>1. t + 1 \in Nat /\ t + 1 <= p
        BY <1>2, <1>11
      <4>2. putters = Beyond(puts, t + 1)
        BY <1>2 DEF Histories, HistBox
      <4> QED BY <1>0, <1>1, <1>2, <2>2, <4>1, <4>2, BeyondAppend
    <3> QED BY <1>1, <1>2, <2>2, <3>1, <3>2, <3>3 DEF HistBox
  <2>5. HistAcked'
    <3>1. {i \in DOMAIN puts' : i <= t + 1} = {i \in DOMAIN puts : i <= t + 1}
      BY <1>2, <1>3, <1>11
    <3>2. {puts'[k].op : k \in {i \in DOMAIN puts' : i <= t + 1}}
            = {puts[k].op : k \in {i \in DOMAIN puts : i <= t + 1}}
      BY <1>3, <3>1
    <3> QED BY <1>8, <2>2, <3>2, Zenon
  <2>6. M!Contract!Visible(puts', takes) # None
    BY <1>1, <2>1, <2>2, <2>4 DEF HistBox
  <2>7. ToSet(readers) = {}
    BY <2>2, EmptyToSet
  <2>8. M!Contract!Settle(ToSet(readers))
    BY <1>0, <1>1, <1>3, <1>7, <2>2, <2>3, <2>5, <2>7, HistSettle
  <2> QED BY <1>1, <1>3, <2>2, <2>3, <2>4, <2>5, <2>6, <2>7, <2>8
<1>12. CASE p <= t
  <2>1. value = None /\ putters = <<>>
    BY <1>2, <1>5, <1>12 DEF Histories, Structural
  <2>2. M!DeliverValue(v) /\ acked' = acked \cup {op}
    BY <2>1 DEF M!PutBody
  <2>3. HistAcked'
    <3>1. {i \in DOMAIN puts' : i <= t + 1} = {i \in DOMAIN puts : i <= t + 1} \cup {n}
      BY <1>2, <1>3, <1>12
    <3>2. {puts'[k].op : k \in {i \in DOMAIN puts' : i <= t + 1}}
            = {puts[k].op : k \in {i \in DOMAIN puts : i <= t + 1}} \cup {op}
      <4>1. \A k \in {i \in DOMAIN puts : i <= t + 1} : puts'[k].op = puts[k].op
        BY <1>3
      <4>2. puts'[n].op = op
        BY <1>1, <1>3
      <4> QED BY <3>1, <4>1, <4>2
    <3> QED BY <1>8, <1>10, <2>2, <3>2
  <2>4. putters' = Beyond(puts', t + 1)
    <3>1. t + 1 \in Nat /\ t + 1 >= n
      BY <1>2, <1>12
    <3>2. Beyond(puts', t + 1) = <<>>
      BY <1>2, <1>3, <3>1, BeyondHead
    <3> QED BY <2>1, <2>2, <3>2 DEF M!DeliverValue
  <2>5. CASE takers # <<>>
    <3>1. p < t /\ n <= t /\ n \in DOMAIN takes
      <4>1. ~(p >= t)
        BY <1>0, <1>2, <2>5, BeyondHead DEF Histories, HistBox
      <4> QED BY <1>0, <1>2, <4>1
    <3>2. Head(takers) = takes[n] /\ Tail(takers) = Beyond(takes, n)
      BY <1>0, <1>2, <3>1, BeyondHead DEF Histories, HistBox
    <3>3. /\ takers' = Beyond(takes, n) /\ got' = [got EXCEPT ![takes[n]] = v]
          /\ UNCHANGED <<value, readers>>
      BY <2>2, <2>5, <3>2 DEF M!DeliverValue
    <3>4. M!Contract!Visible(puts', takes') = None
      <4>1. ~(n > t)
        BY <1>2, <3>1
      <4> QED BY <1>1, <1>2, <4>1 DEF M!Contract!Visible
    <3>5. HistBox'
      BY <1>1, <1>2, <2>1, <2>4, <3>3, <3>4 DEF HistBox
    <3>6. HistAnswered'
      <4> SUFFICES ASSUME NEW k \in DOMAIN takes
                   PROVE  got'[takes[k]] = IF k <= n THEN puts'[k].val ELSE None
        BY <1>1, <1>2 DEF HistAnswered
      <4>1. CASE k = n
        BY <1>0, <1>1, <1>2, <1>3, <1>4, <3>1, <3>3, <4>1
      <4>2. CASE k # n
        <5>1. takes[k] # takes[n] /\ takes[k] \in Op
          BY <1>4, <3>1, <4>2 DEF Histories, HistCalls, IsInjective
        <5>2. got'[takes[k]] = got[takes[k]]
          BY <1>0, <3>3, <5>1
        <5>3. k <= p => k <= n /\ k \in DOMAIN puts
          BY <1>2, <1>3, <1>4
        <5>4. ~(k <= p) => ~(k <= n)
          BY <1>2, <1>4, <4>2
        <5> QED BY <1>3, <1>6, <5>2, <5>3, <5>4
      <4> QED BY <4>1, <4>2
    <3>7. takes[n] \in ToSet(takes) /\ \A o \in Op : o # takes[n] => got'[o] = got[o]
      BY <1>0, <3>1, <3>3 DEF ToSet
    <3>8. M!Contract!Settle(ToSet(readers))
      <4>1. ASSUME NEW o \in Op, \A k \in DOMAIN takes' : ~(takes'[k] = o /\ k <= Len(puts'))
            PROVE  got'[o] = IF o \in ToSet(readers)
                               THEN M!Contract!Visible(puts', takes') ELSE got[o]
        <5>1. o # takes[n]
          BY <1>1, <1>2, <3>1, <4>1
        <5> QED BY <1>9, <3>4, <3>7, <5>1
      <4>2. ToSet(readers) \subseteq Op
        BY <1>9
      <4> QED BY <1>0, <1>3, <1>7, <2>3, <3>6, <4>1, <4>2, HistSettle
    <3>9. \A o \in ToSet(readers') : got'[o] = got[o]
      BY <1>9, <3>3, <3>7
    <3> QED BY <1>1, <1>3, <2>3, <3>3, <3>4, <3>5, <3>6, <3>7, <3>8, <3>9
  <2>6. CASE takers = <<>>
    <3>1. p = t
      <4>1. ~(p < t)
        BY <1>0, <1>2, <2>6, BeyondHead DEF Histories, HistBox
      <4> QED BY <1>2, <1>12, <4>1
    <3>2. /\ value' = v /\ takers' = takers /\ readers' = <<>>
          /\ got' = [o \in Op |-> IF o \in ToSet(readers) THEN v ELSE got[o]]
      BY <2>2, <2>6, MVarSequences DEF M!DeliverValue
    <3>3. M!Contract!Visible(puts', takes') = v
      <4>1. n > t /\ n = t + 1
        BY <1>2, <3>1
      <4> QED BY <1>1, <1>2, <1>3, <4>1 DEF M!Contract!Visible
    <3>4. takers' = Beyond(takes, n)
      <4>1. n \in Nat /\ n >= t
        BY <1>2, <3>1
      <4> QED BY <1>0, <1>2, <2>6, <3>2, <4>1, BeyondHead
    <3>5. HistBox'
      BY <1>1, <1>2, <2>4, <3>2, <3>3, <3>4 DEF HistBox
    <3>6. HistAnswered'
      <4> SUFFICES ASSUME NEW k \in DOMAIN takes
                   PROVE  got'[takes[k]] = IF k <= n THEN puts'[k].val ELSE None
        BY <1>1, <1>2 DEF HistAnswered
      <4>1. k <= p /\ k <= n /\ k \in DOMAIN puts
        BY <1>2, <1>3, <1>4, <3>1
      <4>2. takes[k] \notin ToSet(readers) /\ takes[k] \in Op
        BY <1>4, <1>9 DEF ToSet
      <4> QED BY <1>3, <1>6, <3>2, <4>1, <4>2
    <3>7. M!Contract!Settle(ToSet(readers))
      <4>1. ToSet(readers) \subseteq Op
        BY <1>9
      <4>2. \A o \in Op : got'[o] = IF o \in ToSet(readers)
                                      THEN M!Contract!Visible(puts', takes') ELSE got[o]
        BY <3>2, <3>3
      <4> QED BY <1>0, <1>3, <1>7, <2>3, <3>6, <4>1, <4>2, HistSettle
    <3>8. ToSet(readers') = {} /\ M!Contract!Visible(puts', takes) # None
      BY <1>1, <3>2, <3>3, EmptyToSet, NoneAssumption
    <3>9. \A o \in Op : got'[o] = got[o] \/ o \in ToSet(readers)
      BY <3>2
    <3> QED BY <1>1, <1>3, <2>3, <3>5, <3>6, <3>7, <3>8, <3>9
  <2> QED BY <2>5, <2>6
<1> QED BY <1>2, <1>11, <1>12

LEMMA HistIdle ==
  ASSUME Histories, NEW op \in Op, call[op] = "idle"
  PROVE  /\ ~M!Contract!Called(op)
         /\ op \notin ToSet(readers) /\ got[op] = None
         /\ \A k \in DOMAIN takes : takes[k] # op
         /\ \A k \in DOMAIN puts : puts[k].op # op
<1>1. op \notin ToSet(readers) /\ got[op] = None
  BY DEF Histories, HistCalls
<1>2. /\ \A k \in DOMAIN takes : takes[k] # op
      /\ \A k \in DOMAIN puts : puts[k].op # op
  BY NoCallAssumption DEF Histories, HistCalls
<1>3. op \notin acked
  BY <1>2 DEF Histories, HistAcked
<1> QED BY <1>1, <1>2, <1>3, MVarSequences DEF M!Contract!Called

LEMMA HistOps ==
  ASSUME Histories
  PROVE  /\ \A k \in DOMAIN puts : puts[k].op \in Op \cup {None}
         /\ \A o \in ToSet(readers) : o \in Op
<1>1. puts \in Seq(HistOffer) /\ readers \in Seq(Op)
  BY DEF Histories, M!TypeOK
<1>2. \A k \in DOMAIN puts : puts[k] \in HistOffer
  BY <1>1
<1> QED BY <1>1, <1>2, ElementOfSeq DEF HistOffer, ToSet

LEMMA HistTakeStep ==
  ASSUME Histories, NEW op \in Op, NEW kind \in {"take", "swap"}, M!Begin(op, kind),
         M!TakeBody(op), M!LogTake(op), M!TypeOK', Structural'
  PROVE  Histories' /\ M!Contract!Take(op)
<1>0. call[op] = "idle" /\ call' = [call EXCEPT ![op] = kind] /\ call \in [Op -> M!Calls]
  BY DEF M!Begin, Histories, M!TypeOK
<1>1. /\ puts' \in Seq(HistOffer) /\ takes' \in Seq(Op)
      /\ HistBox' /\ HistAnswered' /\ HistAcked' /\ IsInjective(takes')
      /\ \A o \in Op \ {op} : got'[o] = got[o]
      /\ readers' = readers
      /\ M!Contract!Settle({})
  BY <1>0, HistTake
<1>2. /\ ~M!Contract!Called(op) /\ op \notin ToSet(readers)
      /\ \A k \in DOMAIN takes : takes[k] # op
      /\ \A k \in DOMAIN puts : puts[k].op # op
  BY <1>0, HistIdle
<1>3. PICK n : /\ takes' = Append(takes, op) /\ puts' = puts /\ takes \in Seq(Op)
               /\ DOMAIN takes' = DOMAIN takes \cup {n} /\ takes'[n] = op
               /\ \A i \in DOMAIN takes : takes'[i] = takes[i] /\ takes[i] \in Op
  <2>1. takes' = Append(takes, op) /\ puts' = puts /\ takes \in Seq(Op)
    BY DEF M!LogTake, Histories
  <2> QED BY <2>1, HistAppend
<1>4. \A o \in Op \ {op} : call'[o] = call[o]
  BY <1>0
<1>5. call'[op] = kind
  BY <1>0
<1>6. HistCalls'
  <2>1. \A k \in DOMAIN takes' : call'[takes'[k]] \in {"take", "swap", "restore"}
    BY <1>2, <1>3, <1>4, <1>5 DEF Histories, HistCalls
  <2>2. \A k \in DOMAIN puts' : puts'[k].op = None \/ call'[puts'[k].op] \in {"put", "restore"}
    <3>1. \A k \in DOMAIN puts : puts[k].op \in Op \cup {None}
      BY HistOps
    <3> QED BY <1>2, <1>3, <1>4, <3>1 DEF Histories, HistCalls
  <2>3. \A o \in Op : call'[o] = "swap" => \E k \in DOMAIN takes' : takes'[k] = o
    BY <1>3, <1>4 DEF Histories, HistCalls
  <2>4. \A o \in ToSet(readers') : call'[o] = "read" /\ got'[o] = None
    <3>1. \A o \in ToSet(readers) : o \in Op \ {op}
      BY <1>2 DEF Histories, M!TypeOK, ToSet
    <3> QED BY <1>1, <1>4, <3>1 DEF Histories, HistCalls
  <2>5. \A o \in Op : call'[o] = "idle" => got'[o] = None
    BY <1>1, <1>4, <1>5 DEF Histories, HistCalls
  <2> QED BY <1>1, <2>1, <2>2, <2>3, <2>4, <2>5 DEF HistCalls
<1> QED BY <1>1, <1>2, <1>3, <1>6 DEF Histories, M!Contract!Take

LEMMA HistPutStep ==
  ASSUME Histories, NEW op \in Op, NEW v \in Val, NEW kind \in {"put", "restore"},
         \/ call[op] = "idle"
         \/ call[op] = "swap" /\ got[op] # None /\ kind = "restore",
         call' = [call EXCEPT ![op] = kind],
         M!PutBody(op, v), M!LogPut(op, v), M!TypeOK', Structural'
  PROVE  Histories' /\ M!Contract!Put(op, v)
<1>0. call \in [Op -> M!Calls]
  BY DEF Histories, M!TypeOK
<1>1. /\ puts' \in Seq(HistOffer) /\ takes' = takes
      /\ HistBox' /\ HistAnswered' /\ HistAcked'
      /\ \A o \in Op : got'[o] = got[o] \/ o \in ToSet(takes) \/ o \in ToSet(readers)
      /\ ToSet(readers') = IF M!Contract!Visible(puts', takes) = None THEN ToSet(readers) ELSE {}
      /\ \A o \in ToSet(readers') : got'[o] = got[o]
      /\ M!Contract!Settle(ToSet(readers))
  BY HistPut
<1>2. PICK n : /\ puts' = Append(puts, [op |-> op, val |-> v]) /\ puts \in Seq(HistOffer)
               /\ DOMAIN puts' = DOMAIN puts \cup {n} /\ puts'[n].op = op
               /\ \A i \in DOMAIN puts : puts'[i] = puts[i] /\ puts[i] \in HistOffer
  <2>1. /\ puts' = Append(puts, [op |-> op, val |-> v]) /\ puts \in Seq(HistOffer)
        /\ [op |-> op, val |-> v] \in HistOffer
    BY DEF M!LogPut, Histories, HistOffer
  <2> QED BY <2>1, HistAppend
<1>3. call'[op] = kind /\ \A o \in Op \ {op} : call'[o] = call[o]
  BY <1>0
<1>4. /\ \A k \in DOMAIN puts : puts[k].op # op
      /\ op \notin ToSet(readers)
      /\ \A k \in DOMAIN takes : takes[k] = op => kind = "restore" /\ call[op] = "swap"
  BY HistIdle, NoCallAssumption DEF Histories, HistCalls
<1>5. \A k \in DOMAIN takes : takes[k] \in Op
  BY DEF Histories
<1>6. HistCalls'
  <2>1. \A k \in DOMAIN takes' : call'[takes'[k]] \in {"take", "swap", "restore"}
    BY <1>1, <1>3, <1>4, <1>5 DEF Histories, HistCalls
  <2>2. \A k \in DOMAIN puts' : puts'[k].op = None \/ call'[puts'[k].op] \in {"put", "restore"}
    <3>1. \A k \in DOMAIN puts : puts[k].op \in Op \cup {None}
      BY HistOps
    <3> QED BY <1>2, <1>3, <1>4, <3>1 DEF Histories, HistCalls
  <2>3. \A o \in Op : call'[o] = "swap" => \E k \in DOMAIN takes' : takes'[k] = o
    BY <1>1, <1>3 DEF Histories, HistCalls
  <2>4. \A o \in ToSet(readers') : call'[o] = "read" /\ got'[o] = None
    <3>1. \A o \in ToSet(readers') : o \in ToSet(readers)
      BY <1>1
    <3>2. \A o \in ToSet(readers) : o \in Op \ {op}
      BY <1>4 DEF Histories, M!TypeOK, ToSet
    <3> QED BY <1>1, <1>3, <3>1, <3>2 DEF Histories, HistCalls
  <2>5. \A o \in Op : call'[o] = "idle" => got'[o] = None
    <3> SUFFICES ASSUME NEW o \in Op, call'[o] = "idle" PROVE got'[o] = None
      OBVIOUS
    <3>1. call[o] = "idle"
      BY <1>3
    <3>2. o \notin ToSet(takes) /\ o \notin ToSet(readers) /\ got[o] = None
      BY <3>1, HistIdle DEF ToSet
    <3> QED BY <1>1, <3>2
  <2>6. IsInjective(takes')
    BY <1>1 DEF Histories, HistCalls
  <2> QED BY <2>1, <2>2, <2>3, <2>4, <2>5, <2>6 DEF HistCalls
<1>7. \/ ~M!Contract!Called(op)
      \/ /\ \E k \in DOMAIN takes : takes[k] = op /\ k <= Len(puts)
         /\ \A k \in DOMAIN puts : puts[k].op # op
  <2>1. CASE call[op] = "idle"
    BY <2>1, HistIdle
  <2>2. CASE call[op] = "swap" /\ got[op] # None
    <3>1. PICK k \in DOMAIN takes : takes[k] = op
      BY <2>2 DEF Histories, HistCalls
    <3>2. k <= Len(puts)
      BY <2>2, <3>1 DEF Histories, HistAnswered
    <3> QED BY <1>4, <3>1, <3>2
  <2> QED BY <2>1, <2>2
<1>8. M!Contract!Put(op, v)
  BY <1>1, <1>2, <1>7, MVarSequences DEF M!Contract!Put
<1> QED BY <1>1, <1>6, <1>8 DEF Histories

(* A read that finds a value, and one that waits for it. *)
LEMMA HistReadStep ==
  ASSUME Histories, NEW op \in Op, M!Begin(op, "read"),
         \/ value # None /\ got' = [got EXCEPT ![op] = value] /\ UNCHANGED M!box
         \/ /\ value = None /\ readers' = Append(readers, op)
            /\ UNCHANGED <<value, takers, putters, got>>,
         UNCHANGED acked, M!LogNothing, M!TypeOK', Structural'
  PROVE  Histories' /\ M!Contract!Read(op)
<1>0. /\ call[op] = "idle" /\ call' = [call EXCEPT ![op] = "read"] /\ call \in [Op -> M!Calls]
      /\ UNCHANGED <<puts, takes, acked>> /\ got \in [Op -> Val \cup {None}]
      /\ readers \in Seq(Op)
  BY DEF M!Begin, M!LogNothing, Histories, M!TypeOK
<1>1. /\ ~M!Contract!Called(op) /\ op \notin ToSet(readers)
      /\ \A k \in DOMAIN takes : takes[k] # op
      /\ \A k \in DOMAIN puts : puts[k].op # op
  BY <1>0, HistIdle
<1>2. /\ UNCHANGED <<value, takers, putters>>
      /\ call'[op] = "read" /\ \A o \in Op \ {op} : call'[o] = call[o]
      /\ \A o \in Op \ {op} : got'[o] = got[o]
  BY <1>0 DEF M!box
<1>3. /\ \A k \in DOMAIN takes : takes[k] \in Op \ {op}
      /\ \A k \in DOMAIN puts : puts[k].op \in (Op \ {op}) \cup {None}
      /\ \A o \in ToSet(readers) : o \in Op \ {op}
  <2>1. \A k \in DOMAIN takes : takes[k] \in Op
    BY DEF Histories
  <2> QED BY <1>1, <2>1, HistOps
<1>4. HistBox' /\ HistAcked'
  BY <1>0, <1>2 DEF Histories, HistBox, HistAcked, M!Contract!Visible
<1>5. HistAnswered'
  BY <1>0, <1>2, <1>3 DEF Histories, HistAnswered
<1>6. \/ ToSet(readers') = ToSet(readers) /\ value # None
      \/ ToSet(readers') = ToSet(readers) \cup {op} /\ got' = got /\ value = None
  BY <1>0, ToSetAppend DEF M!box
<1>7. HistCalls'
  <2>1. /\ IsInjective(takes')
        /\ \A k \in DOMAIN takes' : call'[takes'[k]] \in {"take", "swap", "restore"}
        /\ \A o \in Op : call'[o] = "swap" => \E k \in DOMAIN takes' : takes'[k] = o
    BY <1>0, <1>2, <1>3 DEF Histories, HistCalls
  <2>2. \A k \in DOMAIN puts' : puts'[k].op = None \/ call'[puts'[k].op] \in {"put", "restore"}
    BY <1>0, <1>2, <1>3 DEF Histories, HistCalls
  <2>3. got[op] = None
    BY <1>0, HistIdle
  <2>4. \A o \in ToSet(readers') : call'[o] = "read" /\ got'[o] = None
    BY <1>2, <1>3, <1>6, <2>3 DEF Histories, HistCalls
  <2>5. \A o \in Op : call'[o] = "idle" => got'[o] = None
    BY <1>2 DEF Histories, HistCalls
  <2> QED BY <2>1, <2>2, <2>4, <2>5 DEF HistCalls
<1>8. value = M!Contract!Visible(puts, takes)
  BY DEF Histories, HistBox
<1>9. M!Contract!Read(op)
  BY <1>0, <1>1, <1>6, <1>8, MVarSequences DEF M!Contract!Read
<1> QED BY <1>0, <1>4, <1>5, <1>7, <1>9 DEF Histories

LEMMA HistInit == M!HInit => Histories /\ M!Contract!Init
<1> SUFFICES ASSUME M!HInit PROVE Histories /\ M!Contract!Init
  OBVIOUS
<1>1. /\ value \in Val \cup {None} /\ takers = <<>> /\ putters = <<>> /\ readers = <<>>
      /\ call = [o \in Op |-> "idle"] /\ got = [o \in Op |-> None] /\ acked = {}
      /\ puts = (IF value = None THEN <<>> ELSE <<[op |-> None, val |-> value]>>)
      /\ takes = <<>>
  BY DEF M!HInit, M!Init
<1>2. M!TypeOK /\ Structural
  BY <1>1 DEF M!TypeOK, M!Calls, Structural
<1>3. PICK n : /\ n \in {0, 1} /\ Len(puts) = n /\ DOMAIN puts = 1..n /\ Len(takes) = 0
               /\ n = 0 <=> value = None
               /\ n = 1 => puts[1].val = value /\ puts[1].op = None
               /\ puts \in Seq(HistOffer) /\ takes \in Seq(Op) /\ DOMAIN takes = {}
  <2>1. CASE value = None
    BY <1>1, <2>1
  <2>2. CASE value # None
    <3>1. [op |-> None, val |-> value] \in HistOffer
      BY <1>1, <2>2 DEF HistOffer
    <3>2. /\ puts = <<[op |-> None, val |-> value]>> /\ Len(puts) = 1 /\ DOMAIN puts = 1..1
          /\ puts[1].val = value /\ puts[1].op = None /\ puts \in Seq(HistOffer)
      BY <1>1, <2>2, <3>1
    <3>3. takes \in Seq(Op) /\ DOMAIN takes = {} /\ Len(takes) = 0
      BY <1>1
    <3> QED BY <2>2, <3>2, <3>3
  <2> QED BY <2>1, <2>2
<1>4. HistBox
  <2>1. value = M!Contract!Visible(puts, takes)
    BY <1>3 DEF M!Contract!Visible
  <2>2. n \in Nat /\ 0 + 1 \in Nat /\ 0 + 1 >= n /\ n >= 0
    BY <1>3
  <2>3. Beyond(takes, n) = <<>> /\ Beyond(puts, 0 + 1) = <<>>
    BY <1>3, <2>2, BeyondHead
  <2> QED BY <1>1, <1>3, <2>1, <2>3 DEF HistBox
<1>5. HistAnswered
  BY <1>3 DEF HistAnswered
<1>6. \A k \in DOMAIN puts : k = 1 /\ n = 1
  BY <1>3
<1>7. HistAcked
  BY <1>1, <1>3, <1>6 DEF HistAcked
<1>8. HistCalls
  BY <1>1, <1>3, <1>6, EmptyToSet DEF HistCalls
<1>9. M!Contract!Init
  <2>1. puts = <<>> \/ \E v \in Val : puts = <<[op |-> None, val |-> v]>>
    BY <1>1
  <2> QED BY <1>1, <2>1, MVarSequences, EmptyToSet DEF M!Contract!Init
<1> QED BY <1>2, <1>3, <1>4, <1>5, <1>7, <1>8, <1>9 DEF Histories

(* An operation that fails changes none of what the contract speaks of. *)
LEMMA HistFailStep ==
  ASSUME Histories, NEW op \in Op, M!Begin(op, "failed"),
         UNCHANGED <<M!box, got, acked>>, M!LogNothing, M!TypeOK', Structural'
  PROVE  Histories' /\ UNCHANGED M!Contract!vars
<1>0. /\ call[op] = "idle" /\ call' = [call EXCEPT ![op] = "failed"] /\ call \in [Op -> M!Calls]
      /\ UNCHANGED <<puts, takes, acked, got, value, takers, putters, readers>>
  BY DEF M!Begin, M!LogNothing, Histories, M!TypeOK, M!box
<1>1. /\ op \notin ToSet(readers)
      /\ \A k \in DOMAIN takes : takes[k] # op /\ takes[k] \in Op
      /\ \A k \in DOMAIN puts : puts[k].op # op
  <2>1. \A k \in DOMAIN takes : takes[k] \in Op
    BY DEF Histories
  <2> QED BY <1>0, <2>1, HistIdle
<1>2. call'[op] = "failed" /\ \A o \in Op \ {op} : call'[o] = call[o]
  BY <1>0
<1>3. HistBox' /\ HistAcked' /\ HistAnswered'
  BY <1>0 DEF Histories, HistBox, HistAcked, HistAnswered, M!Contract!Visible
<1>4. HistCalls'
  <2>1. /\ IsInjective(takes')
        /\ \A k \in DOMAIN takes' : call'[takes'[k]] \in {"take", "swap", "restore"}
        /\ \A o \in Op : call'[o] = "swap" => \E k \in DOMAIN takes' : takes'[k] = o
    BY <1>0, <1>1, <1>2 DEF Histories, HistCalls
  <2>2. \A k \in DOMAIN puts' : puts'[k].op = None \/ call'[puts'[k].op] \in {"put", "restore"}
    BY <1>0, <1>1, <1>2, HistOps DEF Histories, HistCalls
  <2>3. \A o \in ToSet(readers') : call'[o] = "read" /\ got'[o] = None
    BY <1>0, <1>1, <1>2, HistOps DEF Histories, HistCalls
  <2>4. \A o \in Op : call'[o] = "idle" => got'[o] = None
    BY <1>0, <1>2 DEF Histories, HistCalls
  <2> QED BY <2>1, <2>2, <2>3, <2>4 DEF HistCalls
<1> QED BY <1>0, <1>3, <1>4 DEF Histories, M!Contract!vars

LEMMA HistStep ==
  Histories /\ [M!HNext]_(M!hvars) => Histories' /\ [M!Contract!Next]_(M!Contract!vars)
<1> SUFFICES ASSUME Histories, [M!HNext]_(M!hvars)
             PROVE  Histories' /\ [M!Contract!Next]_(M!Contract!vars)
  OBVIOUS
<1>1. M!TypeOK' /\ Structural'
  <2>1. [M!Next]_(M!vars)
    BY
      DEF M!HNext, M!hvars, M!Next, M!vars, M!HTake, M!HTryTake, M!HPut, M!HTryPut,
          M!HRead
  <2> QED BY <2>1, MVarTypeStep, MVarStructuralStep DEF Histories
<1>2. ASSUME NEW op \in Op, M!HTake(op)
      PROVE  Histories' /\ M!Contract!Take(op)
  BY <1>1, <1>2, HistTakeStep DEF M!HTake, M!Take, M!Swap
<1>3. ASSUME NEW op \in Op, M!HTryTake(op)
      PROVE  Histories' /\ (M!Contract!Take(op) \/ UNCHANGED M!Contract!vars)
  <2>1. CASE value # None
    <3>1. M!Begin(op, "take") /\ M!TakeBody(op) /\ M!LogTake(op)
      BY <1>3, <2>1 DEF M!HTryTake, M!TryTake, M!TakeBody
    <3> QED BY <1>1, <3>1, HistTakeStep
  <2>2. CASE value = None
    BY <1>1, <1>3, <2>2, HistFailStep DEF M!HTryTake, M!TryTake
  <2> QED BY <2>1, <2>2
<1>4. ASSUME NEW op \in Op, NEW v \in Val, M!HPut(op, v)
      PROVE  Histories' /\ M!Contract!Put(op, v)
  <2>1. CASE M!Put(op, v)
    BY <1>1, <1>4, <2>1, HistPutStep DEF M!HPut, M!Put, M!Begin
  <2>2. CASE M!Restore(op, v)
    BY <1>1, <1>4, <2>2, HistPutStep DEF M!HPut, M!Restore
  <2> QED BY <1>4, <2>1, <2>2 DEF M!HPut
<1>5. ASSUME NEW op \in Op, NEW v \in Val, M!HTryPut(op, v)
      PROVE  Histories' /\ (M!Contract!Put(op, v) \/ UNCHANGED M!Contract!vars)
  <2>1. CASE value = None
    <3>1. M!Begin(op, "put") /\ M!PutBody(op, v) /\ M!LogPut(op, v)
      BY <1>5, <2>1 DEF M!HTryPut, M!TryPut, M!PutBody
    <3> QED BY <1>1, <3>1, HistPutStep DEF M!Begin
  <2>2. CASE value # None
    BY <1>1, <1>5, <2>2, HistFailStep DEF M!HTryPut, M!TryPut
  <2> QED BY <2>1, <2>2
<1>6. ASSUME NEW op \in Op, M!HRead(op)
      PROVE  Histories' /\ (M!Contract!Read(op) \/ UNCHANGED M!Contract!vars)
  <2>1. CASE M!Begin(op, "read")
    <3>1. \/ value # None /\ got' = [got EXCEPT ![op] = value] /\ UNCHANGED M!box
          \/ /\ value = None /\ readers' = Append(readers, op)
             /\ UNCHANGED <<value, takers, putters, got>>
      BY <1>6, <2>1 DEF M!HRead, M!Read, M!TryRead, M!Begin, Histories, M!TypeOK
    <3>2. UNCHANGED acked /\ M!LogNothing
      BY <1>6 DEF M!HRead, M!Read, M!TryRead
    <3> QED BY <1>1, <2>1, <3>1, <3>2, HistReadStep
  <2>2. CASE ~M!Begin(op, "read")
    BY <1>1, <1>6, <2>2, HistFailStep DEF M!HRead, M!Read, M!TryRead
  <2> QED BY <2>1, <2>2
<1>7. ASSUME UNCHANGED M!hvars PROVE Histories' /\ UNCHANGED M!Contract!vars
  <2>1. UNCHANGED <<value, takers, putters, readers, call, got, acked, puts, takes>>
    BY <1>7 DEF M!hvars
  <2>2. HistBox' /\ HistAcked' /\ HistAnswered' /\ HistCalls'
    BY <2>1
      DEF Histories, HistBox, HistAcked, HistAnswered, HistCalls, M!Contract!Visible
  <2> QED BY <1>1, <2>1, <2>2 DEF Histories, M!Contract!vars
<1>8. ASSUME M!HNext PROVE Histories' /\ [M!Contract!Next]_(M!Contract!vars)
  <2>1. PICK op \in Op : \/ M!HTake(op) \/ M!HTryTake(op) \/ M!HRead(op)
                         \/ \E v \in Val : M!HPut(op, v) \/ M!HTryPut(op, v)
    BY <1>8 DEF M!HNext
  <2> QED BY <1>2, <1>3, <1>4, <1>5, <1>6, <2>1 DEF M!Contract!Next
<1> QED BY <1>7, <1>8

(* The MVar of the source keeps the contract (MVar.lean, all operations):   *)
(* whatever mix of blocking, trying and swapping calls runs, the k-th take  *)
(* gets the k-th put's value, and a put is acknowledged exactly when the    *)
(* box has had room for it.                                                 *)
THEOREM MVarImplementsContract == M!HSpec => M!KeepsContract
<1> QED BY HistInit, HistStep, PTL DEF M!HSpec, M!KeepsContract, M!Contract!Spec

-----------------------------------------------------------------------------
(* STM: what `bind` computes, turn by turn.                                 *)
Turn(u, i) == IF u.ok THEN T!Exec(u, i) ELSE u

(* A set of indices, folded in order: nothing gives s.                      *)
Folded(g, s, p) ==
  [U \in SUBSET DOMAIN p |->
     IF U = {} THEN s ELSE LET x == T!Max(U) IN Turn(g[U \ {x}], p[x])]

LEMMA LargestIndex ==
  ASSUME NEW p, NEW n \in Nat, DOMAIN p = 1..n, NEW U \in SUBSET DOMAIN p, U # {}
  PROVE  /\ T!Max(U) \in U /\ \A y \in U : T!Max(U) >= y
         /\ IsFiniteSet(U) /\ Cardinality(U) \in Nat
         /\ Cardinality(U \ {T!Max(U)}) = Cardinality(U) - 1
<1>1. IsFiniteSet(DOMAIN p)
  BY FS_Interval
<1>2. IsFiniteSet(U) /\ Cardinality(U) \in Nat
  BY <1>1, FS_Subset, FS_CardinalityType
<1>3. \E x \in U : \A y \in U : x >= y
  <2>1. U \in SUBSET (0..n)
    OBVIOUS
  <2> QED BY <2>1, BoundedSetHasMax
<1>4. T!Max(U) \in U /\ \A y \in U : T!Max(U) >= y
  BY <1>3 DEF T!Max
<1> QED BY <1>2, <1>4, FS_RemoveElement

LEMMA FoldExists ==
  ASSUME NEW p, NEW n \in Nat, DOMAIN p = 1..n, NEW s
  PROVE  \E g : g = Folded(g, s, p)
<1> DEFINE upTo(g, m) == \A U \in SUBSET DOMAIN p :
                           Cardinality(U) <= m => g[U] = Folded(g, s, p)[U]
           G == {m \in Nat : \E g : DOMAIN g = SUBSET DOMAIN p /\ upTo(g, m)}
<1>0. \A U \in SUBSET DOMAIN p : IsFiniteSet(U) /\ Cardinality(U) \in 0..n
  <2>1. IsFiniteSet(1..n) /\ Cardinality(1..n) = n
    BY FS_Interval
  <2> QED BY <2>1, FS_Subset, FS_CardinalityType
<1>1. 0 \in G
  <2>1. PICK g : g = [U \in SUBSET DOMAIN p |-> s]
    OBVIOUS
  <2>2. \A U \in SUBSET DOMAIN p : Cardinality(U) <= 0 => U = {}
    BY <1>0, FS_EmptySet
  <2>3. upTo(g, 0)
    BY <2>1, <2>2 DEF Folded
  <2> QED BY <2>1, <2>3
<1>2. ASSUME NEW m \in Nat, m \in G PROVE m + 1 \in G
  <2>1. PICK g : DOMAIN g = SUBSET DOMAIN p /\ upTo(g, m)
    BY <1>2
  <2>2. PICK h : h = Folded(g, s, p)
    OBVIOUS
  <2>3. ASSUME NEW U \in SUBSET DOMAIN p, Cardinality(U) <= m + 1
        PROVE  h[U] = Folded(h, s, p)[U]
    <3>1. CASE U = {}
      BY <2>2, <3>1 DEF Folded
    <3>2. CASE U # {}
      <4>1. PICK x : x = T!Max(U)
        OBVIOUS
      <4>2. U \ {x} \in SUBSET DOMAIN p /\ Cardinality(U \ {x}) <= m
        BY <1>0, <2>3, <3>2, <4>1, LargestIndex
      <4>3. g[U \ {x}] = h[U \ {x}]
        BY <2>1, <2>2, <4>2
      <4>4. h[U] = Turn(g[U \ {x}], p[x]) /\ Folded(h, s, p)[U] = Turn(h[U \ {x}], p[x])
        BY <2>2, <3>2, <4>1 DEF Folded
      <4> QED BY <4>3, <4>4
    <3> QED BY <3>1, <3>2
  <2>4. DOMAIN h = SUBSET DOMAIN p
    BY <2>2 DEF Folded
  <2>5. upTo(h, m + 1)
    BY <2>3
  <2> QED BY <2>4, <2>5
<1>3. n \in G
  <2> HIDE DEF G
  <2> QED BY <1>1, <1>2, NatSetInduction
<1>4. PICK g : DOMAIN g = SUBSET DOMAIN p /\ upTo(g, n)
  BY <1>3
<1>5. PICK h : h = Folded(g, s, p)
  OBVIOUS
<1>6. \A U \in SUBSET DOMAIN p : g[U] = h[U]
  BY <1>0, <1>4, <1>5
<1>7. h = Folded(h, s, p)
  <2>1. ASSUME NEW U \in SUBSET DOMAIN p, U # {}
        PROVE  g[U \ {T!Max(U)}] = h[U \ {T!Max(U)}]
    BY <1>6
  <2> QED BY <1>5, <2>1 DEF Folded
<1> QED BY <1>7

(* `bind` is its turns, one after the other. *)
LEMMA BindUnfolds ==
  ASSUME NEW p, NEW n \in Nat, DOMAIN p = 1..n, NEW s
  PROVE  \E f : /\ f[0] = s /\ f[n] = T!Bind(s, p)
                /\ \A k \in 1..n : f[k] = Turn(f[k-1], p[k])
<1>1. PICK g : g = (CHOOSE h : h = Folded(h, s, p))
  OBVIOUS
<1>2. g = Folded(g, s, p)
  BY <1>1, FoldExists
<1>3. T!Bind(s, p) = g[DOMAIN p]
  BY <1>1 DEF T!Bind, T!FoldLeft, T!MapThenFoldSet, Folded, Turn
<1>4. PICK f : f = [k \in 0..n |-> g[1..k]]
  OBVIOUS
<1>5. ASSUME NEW k \in 1..n PROVE f[k] = Turn(f[k-1], p[k])
  <2>1. 1..k \in SUBSET DOMAIN p /\ 1..k # {} /\ k \in 1..k
    <3>1. k \in 1..k /\ 1..k \subseteq 1..n
      OBVIOUS
    <3> QED BY <3>1
  <2>2. T!Max(1..k) = k
    <3>1. T!Max(1..k) \in 1..k /\ T!Max(1..k) >= k
      BY <2>1, LargestIndex
    <3> QED BY <3>1
  <2>3. (1..k) \ {k} = 1..k-1
    OBVIOUS
  <2>4. g[1..k] = Turn(g[1..k-1], p[k])
    BY <1>2, <2>1, <2>2, <2>3 DEF Folded
  <2> QED BY <1>4, <2>4
<1>6. f[0] = s
  <2>1. 1..0 = {} /\ {} \in SUBSET DOMAIN p
    OBVIOUS
  <2>2. g[{}] = s
    BY <1>2, <2>1 DEF Folded
  <2> QED BY <1>4, <2>1, <2>2
<1>7. n \in 0..n /\ f[n] = g[1..n]
  BY <1>4
<1> QED BY <1>3, <1>5, <1>6, <1>7

-----------------------------------------------------------------------------
(* STM: what one instruction does to the TVars, to the hand and to what the *)
(* two lists of the queue stand for.                                        *)
Content(q) == q.readEnd \o T!Reverse(q.writeEnd)

InHand == StmVal \cup {Empty}

Queues == [readEnd : Seq(StmVal), writeEnd : Seq(StmVal)]

Attempt == [heap : [Cell -> InHand], queue : Queues, hand : InHand, ok : BOOLEAN]

(* Nothing moved, or one value did: between a TMVar and the hand, or        *)
(* between the queue and the hand.                                          *)
Unmoved(s, r) ==
  r.heap = s.heap /\ r.hand = s.hand /\ Content(r.queue) = Content(s.queue)

MovedInHeap(s, r) ==
  /\ Content(r.queue) = Content(s.queue)
  /\ \E c \in Cell :
       /\ s.hand = Empty \/ s.heap[c] = Empty
       /\ r.heap = [s.heap EXCEPT ![c] = s.hand] /\ r.hand = s.heap[c]

Enqueued(s, r) ==
  /\ s.hand # Empty /\ r.hand = Empty /\ r.heap = s.heap
  /\ Content(r.queue) = Append(Content(s.queue), s.hand)

Dequeued(s, r) ==
  /\ s.hand = Empty /\ r.heap = s.heap
  /\ Content(s.queue) # <<>>
  /\ r.hand = Head(Content(s.queue)) /\ Content(r.queue) = Tail(Content(s.queue))

LEMMA ReverseOf ==
  ASSUME NEW S, NEW s \in Seq(S)
  PROVE  /\ T!Reverse(s) \in Seq(S) /\ Len(T!Reverse(s)) = Len(s)
         /\ \A i \in 1..Len(s) : T!Reverse(s)[i] = s[Len(s) - i + 1]
<1>1. Len(s) \in Nat /\ \A i \in 1..Len(s) : Len(s) - i + 1 \in 1..Len(s)
  OBVIOUS
<1>2. T!Reverse(s) = [i \in 1..Len(s) |-> s[Len(s) - i + 1]]
  BY DEF T!Reverse
<1>3. \A i \in 1..Len(s) : s[Len(s) - i + 1] \in S
  BY <1>1
<1>4. T!Reverse(s) \in [1..Len(s) -> S]
  BY <1>2, <1>3
<1> QED BY <1>1, <1>2, <1>4

LEMMA ReverseEmpty == T!Reverse(<<>>) = <<>>
<1>1. <<>> \in Seq({}) /\ Len(<<>>) = 0
  OBVIOUS
<1>2. T!Reverse(<<>>) \in Seq({}) /\ Len(T!Reverse(<<>>)) = 0
  BY <1>1, ReverseOf
<1> QED BY <1>2

LEMMA ReversePush ==
  ASSUME NEW S, NEW x \in S, NEW s \in Seq(S)
  PROVE  T!Reverse(<<x>> \o s) = Append(T!Reverse(s), x)
<1>1. PICK u, a, b : u = <<x>> \o s /\ a = T!Reverse(u) /\ b = Append(T!Reverse(s), x)
  OBVIOUS
<1>2. <<x>> \in Seq(S) /\ Len(<<x>>) = 1 /\ <<x>>[1] = x
  OBVIOUS
<1>3. /\ u \in Seq(S) /\ Len(u) = Len(s) + 1 /\ u[1] = x
      /\ \A i \in 2..Len(s) + 1 : u[i] = s[i - 1]
  <2>1. /\ u \in Seq(S) /\ Len(u) = 1 + Len(s)
        /\ \A i \in 1..1 + Len(s) : u[i] = IF i <= 1 THEN <<x>>[i] ELSE s[i - 1]
    BY <1>1, <1>2, ConcatProperties
  <2> QED BY <1>2, <2>1
<1>4. /\ a \in Seq(S) /\ Len(a) = Len(s) + 1
      /\ \A i \in 1..Len(s) + 1 : a[i] = u[Len(s) + 1 - i + 1]
  <2>1. /\ a \in Seq(S) /\ Len(a) = Len(u)
        /\ \A i \in 1..Len(u) : a[i] = u[Len(u) - i + 1]
    BY <1>1, <1>3, ReverseOf
  <2> QED BY <1>3, <2>1
<1>5. /\ T!Reverse(s) \in Seq(S) /\ Len(T!Reverse(s)) = Len(s)
      /\ \A i \in 1..Len(s) : T!Reverse(s)[i] = s[Len(s) - i + 1]
  BY ReverseOf
<1>6. /\ b \in Seq(S) /\ Len(b) = Len(s) + 1 /\ b[Len(s) + 1] = x
      /\ \A i \in 1..Len(s) : b[i] = s[Len(s) - i + 1]
  BY <1>1, <1>5
<1>7. ASSUME NEW i \in 1..Len(s) PROVE a[i] = b[i]
  <2>1. PICK k : k = Len(s) + 1 - i + 1
    OBVIOUS
  <2>2. /\ k \in 2..Len(s) + 1 /\ i \in 1..Len(s) + 1
        /\ k - 1 = Len(s) - i + 1
    BY <2>1
  <2>3. a[i] = u[k] /\ u[k] = s[k - 1] /\ b[i] = s[Len(s) - i + 1]
    BY <1>3, <1>4, <1>6, <2>1, <2>2
  <2> QED BY <2>2, <2>3
<1>8. a[Len(s) + 1] = x
  <2>1. Len(s) + 1 \in 1..Len(s) + 1 /\ Len(s) + 1 - (Len(s) + 1) + 1 = 1
    OBVIOUS
  <2> QED BY <1>3, <1>4, <2>1
<1>9. \A i \in 1..Len(a) : a[i] = b[i]
  BY <1>4, <1>6, <1>7, <1>8
<1>10. a = b
  BY <1>4, <1>6, <1>9, SeqEqual
<1> QED BY <1>1, <1>10

LEMMA ContentIsSeq ==
  ASSUME NEW q \in Queues
  PROVE  /\ Content(q) \in Seq(StmVal)
         /\ Content(q) = <<>> <=> q.readEnd = <<>> /\ q.writeEnd = <<>>
<1>1. PICK a, b : a = q.readEnd /\ b = q.writeEnd
  OBVIOUS
<1>2. a \in Seq(StmVal) /\ b \in Seq(StmVal)
  BY <1>1 DEF Queues
<1>3. T!Reverse(b) \in Seq(StmVal) /\ Len(T!Reverse(b)) = Len(b)
  BY <1>2, ReverseOf
<1>4. /\ a \o T!Reverse(b) \in Seq(StmVal)
      /\ Len(a \o T!Reverse(b)) = Len(a) + Len(T!Reverse(b))
  BY <1>2, <1>3, ConcatProperties
<1>5. /\ a = <<>> <=> Len(a) = 0
      /\ b = <<>> <=> Len(b) = 0
      /\ a \o T!Reverse(b) = <<>> <=> Len(a \o T!Reverse(b)) = 0
  BY <1>2, <1>4
<1>6. Len(a) \in Nat /\ Len(b) \in Nat
  BY <1>2
<1> QED BY <1>1, <1>3, <1>4, <1>5, <1>6 DEF Content

(* Turning the back list over is not seen. *)
LEMMA RefillKeeps ==
  ASSUME NEW s \in Attempt, ~T!IsEmptyTQueue(s)
  PROVE  /\ T!Refill(s) \in Attempt
         /\ T!Refill(s).heap = s.heap /\ T!Refill(s).hand = s.hand
         /\ T!Refill(s).ok = s.ok
         /\ T!Refill(s).queue.readEnd # <<>>
         /\ Content(T!Refill(s).queue) = Content(s.queue)
<1>1. PICK q, a, b : q = s.queue /\ a = q.readEnd /\ b = q.writeEnd
  OBVIOUS
<1>2. a \in Seq(StmVal) /\ b \in Seq(StmVal) /\ q \in Queues
  BY <1>1 DEF Attempt, Queues
<1>3. CASE a # <<>>
  BY <1>1, <1>3 DEF T!Refill
<1>4. CASE a = <<>>
  <2>1. PICK d, r : d = T!Reverse(b) /\ r = [readEnd |-> d, writeEnd |-> <<>>]
    OBVIOUS
  <2>2. T!Refill(s) = [s EXCEPT !.queue = r]
    BY <1>1, <1>4, <2>1 DEF T!Refill
  <2>3. d \in Seq(StmVal) /\ Len(d) = Len(b) /\ r \in Queues /\ r.readEnd = d /\ r.writeEnd = <<>>
    <3>1. d \in Seq(StmVal) /\ Len(d) = Len(b)
      BY <1>2, <2>1, ReverseOf
    <3> QED BY <2>1, <3>1 DEF Queues
  <2>4. b # <<>>
    BY <1>1, <1>4 DEF T!IsEmptyTQueue
  <2>5. d # <<>>
    BY <1>2, <2>3, <2>4
  <2>6. Content(r) = Content(q)
    <3>1. Content(r) = d \o <<>> /\ Content(q) = <<>> \o d
      BY <1>1, <1>4, <2>1, <2>3, ReverseEmpty DEF Content
    <3>2. d \o <<>> = d /\ <<>> \o d = d
      BY <2>3, ConcatEmptySeq
    <3> QED BY <3>1, <3>2
  <2>7. /\ [s EXCEPT !.queue = r] \in Attempt
        /\ [s EXCEPT !.queue = r].heap = s.heap /\ [s EXCEPT !.queue = r].hand = s.hand
        /\ [s EXCEPT !.queue = r].ok = s.ok /\ [s EXCEPT !.queue = r].queue = r
    BY <2>3 DEF Attempt
  <2> QED BY <1>1, <2>2, <2>3, <2>5, <2>6, <2>7
<1> QED BY <1>3, <1>4

(* What an instruction may do. *)
Does(s, i, r) ==
  /\ r \in Attempt
  /\ ~r.ok => T!CanRetry(i) /\ Unmoved(s, r)
  /\ T!Looks(i) => Unmoved(s, r)
  /\ s.hand = Empty /\ ~T!Takes(i) => r.hand = Empty
  /\ \/ Unmoved(s, r)
     \/ MovedInHeap(s, r)
     \/ i.op = "write" /\ Enqueued(s, r)
     \/ i.op \in {"dequeue", "tryDequeue"} /\ Dequeued(s, r)

LEMMA RetryDoes ==
  ASSUME NEW s \in Attempt
  PROVE  T!Retry(s) \in Attempt /\ ~T!Retry(s).ok /\ Unmoved(s, T!Retry(s))
BY DEF T!Retry, Attempt, Unmoved

(* A TMVar and the hand exchange what they hold. *)
LEMMA ExchangeDoes ==
  ASSUME NEW s \in Attempt, s.ok, NEW c \in Cell, NEW r,
         \/ s.hand = Empty /\ r = [s EXCEPT !.heap[c] = Empty, !.hand = s.heap[c]]
         \/ s.heap[c] = Empty /\ r = [s EXCEPT !.heap[c] = s.hand, !.hand = Empty]
  PROVE  r \in Attempt /\ r.ok /\ r.hand = s.heap[c] /\ MovedInHeap(s, r)
<1>1. s.heap \in [Cell -> InHand] /\ s.hand \in InHand /\ s.heap[c] \in InHand
  BY DEF Attempt
<1>2. PICK h : h = [s.heap EXCEPT ![c] = s.hand]
  OBVIOUS
<1>3. r = [s EXCEPT !.heap = h, !.hand = s.heap[c]]
  BY <1>2
<1>4. h \in [Cell -> InHand]
  BY <1>1, <1>2
<1>5. /\ r \in Attempt /\ r.ok /\ r.heap = h /\ r.hand = s.heap[c] /\ r.queue = s.queue
  BY <1>1, <1>3, <1>4 DEF Attempt
<1>6. s.hand = Empty \/ s.heap[c] = Empty
  OBVIOUS
<1> QED BY <1>2, <1>5, <1>6 DEF MovedInHeap

LEMMA PushDoes ==
  ASSUME NEW s \in Attempt, s.ok, s.hand # Empty, NEW r, r = T!WriteTQueue(s)
  PROVE  r \in Attempt /\ r.ok /\ Enqueued(s, r)
<1>1. PICK q, x, a, b : q = s.queue /\ x = s.hand /\ a = q.readEnd /\ b = q.writeEnd
  OBVIOUS
<1>2. /\ q \in Queues /\ x \in StmVal /\ a \in Seq(StmVal) /\ b \in Seq(StmVal)
      /\ x \in InHand /\ Empty \in InHand
  BY <1>1 DEF Attempt, Queues, InHand
<1>3. PICK w : w = [q EXCEPT !.writeEnd = <<x>> \o b]
  OBVIOUS
<1>4. <<x>> \o b \in Seq(StmVal)
  <2>1. <<x>> \in Seq(StmVal)
    BY <1>2
  <2> QED BY <1>2, <2>1, ConcatProperties
<1>5. w \in Queues /\ w.readEnd = a /\ w.writeEnd = <<x>> \o b
  BY <1>1, <1>2, <1>3, <1>4 DEF Queues
<1>6. r = [s EXCEPT !.queue = w, !.hand = Empty]
  BY <1>1, <1>3 DEF T!WriteTQueue
<1>7. r \in Attempt /\ r.ok /\ r.queue = w /\ r.hand = Empty /\ r.heap = s.heap
  BY <1>2, <1>5, <1>6 DEF Attempt
<1>8. Content(w) = Append(Content(q), x)
  <2>1. PICK d : d = T!Reverse(b)
    OBVIOUS
  <2>2. d \in Seq(StmVal) /\ T!Reverse(<<x>> \o b) = Append(d, x)
    BY <1>2, <2>1, ReverseOf, ReversePush
  <2>3. Content(w) = a \o Append(d, x) /\ Content(q) = a \o d
    BY <1>1, <1>5, <2>1, <2>2 DEF Content
  <2>4. <<x>> \in Seq(StmVal) /\ Append(d, x) = d \o <<x>>
    BY <1>2, <2>2
  <2>5. a \in Seq(StmVal) /\ d \in Seq(StmVal) /\ <<x>> \in Seq(StmVal)
    BY <1>2, <2>2, <2>4
  <2>6. (a \o d) \o <<x>> = a \o (d \o <<x>>) /\ a \o d \in Seq(StmVal)
    BY <2>5, ConcatAssociative, ConcatProperties
  <2>7. Append(a \o d, x) = (a \o d) \o <<x>>
    BY <1>2, <2>6
  <2> QED BY <2>3, <2>4, <2>6, <2>7
<1> QED BY <1>1, <1>7, <1>8 DEF Enqueued

LEMMA PopDoes ==
  ASSUME NEW s \in Attempt, s.ok, s.hand = Empty, ~T!IsEmptyTQueue(s),
         NEW r, r = T!ReadTQueue(s)
  PROVE  r \in Attempt /\ r.ok /\ Dequeued(s, r)
<1>1. PICK f, q, a, b : f = T!Refill(s) /\ q = f.queue /\ a = q.readEnd /\ b = q.writeEnd
  OBVIOUS
<1>2. /\ f \in Attempt /\ f.heap = s.heap /\ f.hand = s.hand /\ f.ok = s.ok
      /\ a # <<>> /\ Content(q) = Content(s.queue)
  BY <1>1, RefillKeeps
<1>3. q \in Queues /\ a \in Seq(StmVal) /\ b \in Seq(StmVal)
  BY <1>1, <1>2 DEF Attempt, Queues
<1>4. PICK w, x : w = [q EXCEPT !.readEnd = Tail(a)] /\ x = Head(a)
  OBVIOUS
<1>5. x \in StmVal /\ x \in InHand /\ Tail(a) \in Seq(StmVal)
  BY <1>2, <1>3, <1>4, HeadTailProperties DEF InHand
<1>6. w \in Queues /\ w.readEnd = Tail(a) /\ w.writeEnd = b
  BY <1>1, <1>3, <1>4, <1>5 DEF Queues
<1>7. r = [f EXCEPT !.queue = w, !.hand = x]
  BY <1>1, <1>4 DEF T!ReadTQueue
<1>8. r \in Attempt /\ r.ok = f.ok /\ r.queue = w /\ r.hand = x /\ r.heap = f.heap
  BY <1>2, <1>5, <1>6, <1>7 DEF Attempt
<1>9. /\ Content(q) # <<>> /\ Head(Content(q)) = x /\ Content(w) = Tail(Content(q))
  <2>1. PICK d, u : d = T!Reverse(b) /\ u = a \o d
    OBVIOUS
  <2>2. d \in Seq(StmVal)
    BY <1>3, <2>1, ReverseOf
  <2>3. Content(q) = u /\ Content(w) = Tail(a) \o d
    BY <1>1, <1>6, <2>1 DEF Content
  <2>4. Len(a) \in Nat \ {0} /\ Len(d) \in Nat
    BY <1>2, <1>3, <2>2
  <2>5. /\ u \in Seq(StmVal) /\ Len(u) = Len(a) + Len(d)
        /\ \A i \in 1..Len(a) + Len(d) : u[i] = IF i <= Len(a) THEN a[i] ELSE d[i - Len(a)]
    BY <1>3, <2>1, <2>2, ConcatProperties
  <2>6. u # <<>> /\ u[1] = a[1]
    BY <2>4, <2>5
  <2>7. Head(u) = x
    BY <1>2, <1>3, <1>4, <2>5, <2>6
  <2>8. /\ Len(Tail(a)) = Len(a) - 1
        /\ \A i \in 1..Len(Tail(a)) : Tail(a)[i] = a[i + 1]
    BY <1>2, <1>3, HeadTailProperties
  <2>9. /\ Tail(u) \in Seq(StmVal) /\ Len(Tail(u)) = Len(u) - 1
        /\ \A i \in 1..Len(Tail(u)) : Tail(u)[i] = u[i + 1]
    BY <2>5, <2>6, HeadTailProperties
  <2>10. PICK t : t = Tail(a)
    OBVIOUS
  <2>11. /\ t \o d \in Seq(StmVal) /\ Len(t \o d) = Len(t) + Len(d)
         /\ \A i \in 1..Len(t) + Len(d) : (t \o d)[i] = IF i <= Len(t) THEN t[i] ELSE d[i - Len(t)]
    <3>1. t \in Seq(StmVal)
      BY <1>5, <2>10
    <3> QED BY <2>2, <3>1, ConcatProperties
  <2>12. Len(t) = Len(a) - 1 /\ Len(t \o d) = Len(Tail(u))
    BY <2>4, <2>5, <2>8, <2>9, <2>10, <2>11
  <2>13. ASSUME NEW i \in 1..Len(t \o d) PROVE (t \o d)[i] = Tail(u)[i]
    <3>1. Tail(u)[i] = u[i + 1] /\ i \in Nat /\ i + 1 \in 1..Len(a) + Len(d)
      BY <2>4, <2>5, <2>9, <2>11, <2>12
    <3>2. CASE i <= Len(t)
      <4>1. (t \o d)[i] = t[i] /\ t[i] = a[i + 1]
        BY <2>4, <2>8, <2>10, <2>11, <2>12, <3>1, <3>2
      <4>2. u[i + 1] = a[i + 1]
        BY <2>4, <2>5, <2>12, <3>1, <3>2
      <4> QED BY <3>1, <4>1, <4>2
    <3>3. CASE ~(i <= Len(t))
      <4>1. (t \o d)[i] = d[i - Len(t)]
        BY <2>11, <3>3
      <4>2. u[i + 1] = d[i + 1 - Len(a)] /\ i + 1 - Len(a) = i - Len(t)
        BY <2>4, <2>5, <2>12, <3>1, <3>3
      <4> QED BY <3>1, <4>1, <4>2
    <3> QED BY <3>2, <3>3
  <2>14. t \o d = Tail(u)
    BY <2>9, <2>11, <2>12, <2>13, SeqEqual
  <2> QED BY <2>3, <2>6, <2>7, <2>10, <2>14
<1> QED BY <1>1, <1>2, <1>8, <1>9 DEF Dequeued

LEMMA ExecDoes ==
  ASSUME NEW s \in Attempt, s.ok, NEW i \in T!Instruction,
         T!Takes(i) => s.hand = Empty, i.op = "write" => s.hand # Empty
  PROVE  Does(s, i, T!Exec(s, i))
<1>1. PICK r : r = T!Exec(s, i)
  OBVIOUS
<1>2. PICK c : c = i.cell
  OBVIOUS
<1>3. Unmoved(s, s)
  BY DEF Unmoved
<1>4. CASE i.op \in {"take", "put", "read", "tryTake", "tryPut"}
  <2>1. c \in Cell
    BY <1>2, <1>4 DEF T!Instruction
  <2>2. CASE i.op \in {"take", "tryTake"}
    <3>1. s.hand = Empty /\ ~T!Looks(i)
      BY <2>2 DEF T!Takes, T!Looks
    <3>2. CASE s.heap[c] # Empty
      <4>1. r = [s EXCEPT !.heap[c] = Empty, !.hand = s.heap[c]]
        BY <1>1, <1>2, <2>2, <3>2 DEF T!Exec, T!TakeTMVar, T!TryTakeTMVar
      <4>2. r \in Attempt /\ r.ok /\ MovedInHeap(s, r)
        BY <2>1, <3>1, <4>1, ExchangeDoes
      <4> QED BY <1>1, <2>2, <3>1, <4>2 DEF Does, T!Takes
    <3>3. CASE s.heap[c] = Empty /\ i.op = "take"
      <4>1. r = T!Retry(s)
        BY <1>1, <1>2, <3>3 DEF T!Exec, T!TakeTMVar
      <4>2. r \in Attempt /\ ~r.ok /\ Unmoved(s, r)
        BY <4>1, RetryDoes
      <4> QED BY <1>1, <3>1, <3>3, <4>2 DEF Does, T!Takes, T!CanRetry
    <3>4. CASE s.heap[c] = Empty /\ i.op = "tryTake"
      <4>1. r = s
        BY <1>1, <1>2, <3>4 DEF T!Exec, T!TryTakeTMVar
      <4> QED BY <1>1, <1>3, <3>1, <4>1 DEF Does
    <3> QED BY <2>2, <3>2, <3>3, <3>4
  <2>3. CASE i.op \in {"put", "tryPut"}
    <3>1. ~T!Looks(i)
      BY <2>3 DEF T!Looks
    <3>2. CASE s.heap[c] = Empty
      <4>1. r = [s EXCEPT !.heap[c] = s.hand, !.hand = Empty]
        BY <1>1, <1>2, <2>3, <3>2 DEF T!Exec, T!PutTMVar, T!TryPutTMVar
      <4>2. r \in Attempt /\ r.ok /\ r.hand = Empty /\ MovedInHeap(s, r)
        BY <2>1, <3>2, <4>1, ExchangeDoes
      <4> QED BY <1>1, <3>1, <4>2 DEF Does
    <3>3. CASE s.heap[c] # Empty /\ i.op = "put"
      <4>1. r = T!Retry(s)
        BY <1>1, <1>2, <3>3 DEF T!Exec, T!PutTMVar
      <4>2. r \in Attempt /\ ~r.ok /\ Unmoved(s, r)
        BY <4>1, RetryDoes
      <4>3. r.hand = s.hand
        BY <4>2 DEF Unmoved
      <4> QED BY <1>1, <3>1, <3>3, <4>2, <4>3 DEF Does, T!CanRetry
    <3>4. CASE s.heap[c] # Empty /\ i.op = "tryPut"
      <4>1. r = s
        BY <1>1, <1>2, <3>4 DEF T!Exec, T!TryPutTMVar
      <4> QED BY <1>1, <1>3, <3>1, <4>1 DEF Does
    <3> QED BY <2>3, <3>2, <3>3, <3>4
  <2>4. CASE i.op = "read"
    <3>1. r = s \/ r = T!Retry(s)
      BY <1>1, <2>4 DEF T!Exec, T!ReadTMVar
    <3>2. r \in Attempt /\ Unmoved(s, r) /\ r.hand = s.hand
      BY <1>3, <3>1, RetryDoes DEF Unmoved
    <3> QED BY <1>1, <2>4, <3>2 DEF Does, T!CanRetry
  <2> QED BY <1>4, <2>2, <2>3, <2>4
<1>5. CASE i.op \in {"write", "dequeue", "tryDequeue", "peek"}
  <2>1. CASE i.op = "write"
    <3>1. r = T!WriteTQueue(s)
      BY <1>1, <2>1 DEF T!Exec
    <3>2. r \in Attempt /\ r.ok /\ Enqueued(s, r)
      BY <2>1, <3>1, PushDoes
    <3>3. r.hand = Empty
      BY <3>2 DEF Enqueued
    <3> QED BY <1>1, <2>1, <3>2, <3>3 DEF Does, T!Looks
  <2>2. CASE i.op \in {"dequeue", "tryDequeue"}
    <3>1. s.hand = Empty /\ ~T!Looks(i) /\ T!Takes(i)
      BY <2>2 DEF T!Takes, T!Looks
    <3>2. CASE ~T!IsEmptyTQueue(s)
      <4>1. r = T!ReadTQueue(s)
        BY <1>1, <2>2, <3>2 DEF T!Exec, T!TryReadTQueue
      <4>2. r \in Attempt /\ r.ok /\ Dequeued(s, r)
        BY <3>1, <3>2, <4>1, PopDoes
      <4> QED BY <1>1, <2>2, <3>1, <4>2 DEF Does
    <3>3. CASE T!IsEmptyTQueue(s) /\ i.op = "dequeue"
      <4>1. r = T!Retry(s)
        BY <1>1, <3>3 DEF T!Exec, T!ReadTQueue
      <4>2. r \in Attempt /\ ~r.ok /\ Unmoved(s, r)
        BY <4>1, RetryDoes
      <4> QED BY <1>1, <3>1, <3>3, <4>2 DEF Does, T!CanRetry
    <3>4. CASE T!IsEmptyTQueue(s) /\ i.op = "tryDequeue"
      <4>1. r = s
        BY <1>1, <3>4 DEF T!Exec, T!TryReadTQueue
      <4> QED BY <1>1, <1>3, <3>1, <4>1 DEF Does
    <3> QED BY <2>2, <3>2, <3>3, <3>4
  <2>3. CASE i.op = "peek"
    <3>1. r = IF T!IsEmptyTQueue(s) THEN T!Retry(s) ELSE T!Refill(s)
      BY <1>1, <2>3 DEF T!Exec, T!PeekTQueue
    <3>2. r \in Attempt /\ Unmoved(s, r)
      <4>1. CASE T!IsEmptyTQueue(s)
        BY <3>1, <4>1, RetryDoes
      <4>2. CASE ~T!IsEmptyTQueue(s)
        BY <3>1, <4>2, RefillKeeps DEF Unmoved
      <4> QED BY <4>1, <4>2
    <3>3. r.hand = s.hand
      BY <3>2 DEF Unmoved
    <3> QED BY <1>1, <2>3, <3>2, <3>3 DEF Does, T!CanRetry
  <2> QED BY <1>5, <2>1, <2>2, <2>3
<1> QED BY <1>4, <1>5 DEF T!Instruction

-----------------------------------------------------------------------------
(* STM: a value that moves is in one place before and after.                *)
Occurs(h, hands, q, v) ==
  Tally(Cell, h, v) + Tally(Thread, hands, v) + Tally(DOMAIN q, q, v)

(* Every value is as often in the places of r as in those of s.            *)
SameCounts(s, r, hands, t) ==
  \A v \in StmVal :
    Occurs(r.heap, [hands EXCEPT ![t] = r.hand], Content(r.queue), v)
      = Occurs(s.heap, [hands EXCEPT ![t] = s.hand], Content(s.queue), v)

LEMMA StmSizes ==
  ASSUME NEW S
  PROVE  (T!IsFiniteSet(S) <=> IsFiniteSet(S)) /\ T!Cardinality(S) = Cardinality(S)
BY DEF T!IsFiniteSet, IsFiniteSet, T!Cardinality, Cardinality

LEMMA StmConstants ==
  /\ IsFiniteSet(Cell) /\ IsFiniteSet(Thread) /\ Empty \notin StmVal
  /\ Programs \subseteq T!Program
  /\ \A p \in Programs : T!WritesLast(p)
<1>1. T!STMAssumption
  BY InstanceIsSound
<1>2. \A p \in Programs : T!WritesLast(p)
  BY ProgramsWriteLast
<1> QED BY <1>1, <1>2, StmSizes DEF T!STMAssumption

LEMMA TalliesAreNat ==
  ASSUME NEW h, NEW g, NEW q \in Seq(StmVal), NEW v
  PROVE  /\ Tally(Cell, h, v) \in Nat
         /\ Tally(Thread, g, v) \in Nat
         /\ Tally(DOMAIN q, q, v) \in Nat
<1>1. IsFiniteSet(DOMAIN q)
  <2>1. DOMAIN q = 1..Len(q) /\ Len(q) \in Nat
    OBVIOUS
  <2> QED BY <2>1, FS_Interval
<1> QED BY <1>1, StmConstants, TallyIsNat

LEMMA MovesKeepCounts ==
  ASSUME NEW s \in Attempt, NEW r \in Attempt, NEW hands \in [Thread -> InHand],
         NEW t \in Thread,
         Unmoved(s, r) \/ MovedInHeap(s, r) \/ Enqueued(s, r) \/ Dequeued(s, r)
  PROVE  SameCounts(s, r, hands, t)
<1> SUFFICES ASSUME NEW v \in StmVal
             PROVE  Occurs(r.heap, [hands EXCEPT ![t] = r.hand], Content(r.queue), v)
                      = Occurs(s.heap, [hands EXCEPT ![t] = s.hand], Content(s.queue), v)
  BY DEF SameCounts
<1>1. PICK a, b, p, q : /\ a = [hands EXCEPT ![t] = s.hand] /\ b = [hands EXCEPT ![t] = r.hand]
                        /\ p = Content(s.queue) /\ q = Content(r.queue)
  OBVIOUS
<1>2. /\ a \in [Thread -> InHand] /\ b = [a EXCEPT ![t] = r.hand] /\ a[t] = s.hand
      /\ p \in Seq(StmVal) /\ q \in Seq(StmVal)
      /\ s.heap \in [Cell -> InHand]
  <2>1. s.hand \in InHand /\ s.queue \in Queues /\ r.queue \in Queues
        /\ s.heap \in [Cell -> InHand]
    BY DEF Attempt
  <2> QED BY <1>1, <2>1, ContentIsSeq
<1>3. PICK hs, hr, gs, gr, qs, qr :
        /\ hs = Tally(Cell, s.heap, v) /\ hr = Tally(Cell, r.heap, v)
        /\ gs = Tally(Thread, a, v) /\ gr = Tally(Thread, b, v)
        /\ qs = Tally(DOMAIN p, p, v) /\ qr = Tally(DOMAIN q, q, v)
  OBVIOUS
<1>4. hs \in Nat /\ hr \in Nat /\ gs \in Nat /\ gr \in Nat /\ qs \in Nat /\ qr \in Nat
  BY <1>2, <1>3, TalliesAreNat
<1>5. gr + OneIf(s.hand, v) = gs + OneIf(r.hand, v)
  <2>1. b[t] = r.hand /\ \A u \in Thread \ {t} : b[u] = a[u]
    BY <1>2
  <2>2. Tally(Thread, b, v) + OneIf(a[t], v) = Tally(Thread, a, v) + OneIf(b[t], v)
    BY <2>1, StmConstants, TallyUpdate
  <2> QED BY <1>2, <1>3, <2>1, <2>2
<1>6. v # Empty /\ OneIf(Empty, v) = 0 /\ OneIf(s.hand, v) \in Nat /\ OneIf(r.hand, v) \in Nat
  BY StmConstants DEF OneIf
<1>7. hr + gr + qr = hs + gs + qs
  <2>1. CASE Unmoved(s, r)
    <3>1. hr = hs /\ qr = qs /\ r.hand = s.hand
      BY <1>1, <1>3, <2>1 DEF Unmoved
    <3> QED BY <1>4, <1>5, <1>6, <3>1
  <2>2. CASE MovedInHeap(s, r)
    <3>1. PICK c \in Cell : r.heap = [s.heap EXCEPT ![c] = s.hand] /\ r.hand = s.heap[c]
      BY <2>2 DEF MovedInHeap
    <3>2. hr + OneIf(s.heap[c], v) = hs + OneIf(s.hand, v)
      <4>1. PICK f, g : f = s.heap /\ g = r.heap
        OBVIOUS
      <4>2. g[c] = s.hand /\ \A e \in Cell \ {c} : g[e] = f[e]
        BY <1>2, <3>1, <4>1
      <4>3. Tally(Cell, g, v) + OneIf(f[c], v) = Tally(Cell, f, v) + OneIf(g[c], v)
        BY <4>2, StmConstants, TallyUpdate
      <4> QED BY <1>3, <4>1, <4>2, <4>3
    <3>3. qr = qs
      BY <1>1, <1>3, <2>2 DEF MovedInHeap
    <3> QED BY <1>4, <1>5, <1>6, <3>1, <3>2, <3>3
  <2>3. CASE Enqueued(s, r)
    <3>1. s.hand # Empty /\ r.hand = Empty /\ r.heap = s.heap /\ q = Append(p, s.hand)
      BY <1>1, <2>3 DEF Enqueued
    <3>2. s.hand \in StmVal
      BY <3>1 DEF Attempt, InHand
    <3>3. qr = qs + OneIf(s.hand, v) /\ hr = hs
      BY <1>2, <1>3, <3>1, <3>2, TallyAppend
    <3>4. gr + OneIf(s.hand, v) = gs
      BY <1>4, <1>5, <1>6, <3>1
    <3> QED BY <1>4, <1>6, <3>3, <3>4
  <2>4. CASE Dequeued(s, r)
    <3>1. s.hand = Empty /\ r.heap = s.heap /\ p # <<>> /\ r.hand = Head(p) /\ q = Tail(p)
      BY <1>1, <2>4 DEF Dequeued
    <3>2. qs = qr + OneIf(r.hand, v) /\ hr = hs
      BY <1>2, <1>3, <3>1, TallyTail
    <3> QED BY <1>4, <1>5, <1>6, <3>1, <3>2
  <2> QED BY <2>1, <2>2, <2>3, <2>4
<1> QED BY <1>1, <1>3, <1>7 DEF Occurs

-----------------------------------------------------------------------------
(* STM: what a run of `bind` does, if it writes only after its last chance  *)
(* to retry and its one hand suffices.                                      *)
InOrder(s, r) ==
  \/ Content(r.queue) = Content(s.queue)
  \/ Content(s.queue) # <<>> /\ Content(r.queue) = Tail(Content(s.queue))
  \/ \E x \in StmVal : Content(r.queue) = Append(Content(s.queue), x)

OnQueue(i) == i.op \in {"write", "dequeue", "tryDequeue"}

(* After k turns of p, begun in s. *)
AfterTurns(s, p, k, u, hands, t) ==
  /\ u \in Attempt /\ InOrder(s, u) /\ SameCounts(s, u, hands, t)
  /\ ~u.ok => Unmoved(s, u)
  /\ (\A j \in 1..k : T!Looks(p[j])) => Unmoved(s, u)
  /\ u.ok /\ s.hand = Empty /\ (\A j \in 1..k : ~T!Takes(p[j])) => u.hand = Empty
  /\ (\A j \in 1..k : ~OnQueue(p[j])) => Content(u.queue) = Content(s.queue)

(* What a run has done in the end. *)
Ran(s, r, hands, t) ==
  /\ r \in Attempt /\ InOrder(s, r) /\ SameCounts(s, r, hands, t)
  /\ ~r.ok => Unmoved(s, r)

LEMMA OneTurn ==
  ASSUME NEW s \in Attempt, NEW n \in Nat, NEW p \in [1..n -> T!Instruction],
         T!OneHandSuffices(p, s.hand # Empty),
         NEW hands \in [Thread -> InHand], NEW t \in Thread,
         NEW k \in Nat, k + 1 \in 1..n, NEW u, NEW w, w = Turn(u, p[k + 1]),
         AfterTurns(s, p, k, u, hands, t)
  PROVE  AfterTurns(s, p, k + 1, w, hands, t)
<1>1. /\ \A j \in 1..k : j \in 1..k + 1 /\ k + 1 \in 1..k + 1 /\ k + 1 - 1 = k
      /\ k + 1 \in 1..k + 1
  OBVIOUS
<1>2. CASE ~u.ok
  BY <1>1, <1>2 DEF AfterTurns, Turn
<1>3. CASE u.ok
  <2>1. PICK i : i = p[k + 1]
    OBVIOUS
  <2>2. /\ i \in T!Instruction /\ u \in Attempt
        /\ T!CanRetry(i) => \A j \in 1..k : T!Looks(p[j])
        /\ T!Takes(i) => s.hand = Empty /\ \A j \in 1..k : ~T!Takes(p[j])
        /\ i.op = "write" => s.hand # Empty /\ \A j \in 1..k : T!Looks(p[j])
    <3>1. k + 1 \in DOMAIN p /\ k + 1 - 1 = k
      OBVIOUS
    <3> QED BY <2>1, <3>1 DEF T!OneHandSuffices, AfterTurns
  <2>3. (\A j \in 1..k : T!Looks(p[j])) => Unmoved(s, u)
    BY DEF AfterTurns
  <2>4. T!Takes(i) => u.hand = Empty
    BY <1>3, <2>2 DEF AfterTurns
  <2>5. i.op = "write" => u.hand # Empty
    BY <2>2, <2>3 DEF Unmoved
  <2>6. Does(u, i, w)
    <3>1. w = T!Exec(u, i)
      BY <1>3, <2>1 DEF Turn
    <3> QED BY <1>3, <2>2, <2>4, <2>5, <3>1, ExecDoes
  <2>7. w \in Attempt
    BY <2>6 DEF Does
  <2>8. ~w.ok => Unmoved(s, w)
    <3>1. ~w.ok => T!CanRetry(i) /\ Unmoved(u, w)
      BY <2>6 DEF Does
    <3> QED BY <2>2, <2>3, <3>1 DEF Unmoved
  <2>9. (\A j \in 1..k + 1 : T!Looks(p[j])) => Unmoved(s, w)
    <3> SUFFICES ASSUME \A j \in 1..k + 1 : T!Looks(p[j]) PROVE Unmoved(s, w)
      OBVIOUS
    <3>1. T!Looks(i) /\ \A j \in 1..k : T!Looks(p[j])
      BY <1>1, <2>1
    <3>2. Unmoved(u, w)
      BY <2>6, <3>1 DEF Does
    <3> QED BY <2>3, <3>1, <3>2 DEF Unmoved
  <2>10. w.ok /\ s.hand = Empty /\ (\A j \in 1..k + 1 : ~T!Takes(p[j])) => w.hand = Empty
    <3> SUFFICES ASSUME s.hand = Empty, \A j \in 1..k + 1 : ~T!Takes(p[j])
                 PROVE  w.hand = Empty
      OBVIOUS
    <3>1. ~T!Takes(i) /\ \A j \in 1..k : ~T!Takes(p[j])
      BY <1>1, <2>1
    <3>2. u.hand = Empty
      BY <1>3, <3>1 DEF AfterTurns
    <3> QED BY <2>6, <3>1, <3>2 DEF Does
  <2>11. \/ Content(w.queue) = Content(u.queue)
         \/ i.op = "write" /\ Enqueued(u, w)
         \/ i.op \in {"dequeue", "tryDequeue"} /\ Dequeued(u, w)
    BY <2>6 DEF Does, Unmoved, MovedInHeap
  <2>12. (\A j \in 1..k : ~OnQueue(p[j])) => Content(u.queue) = Content(s.queue)
    BY DEF AfterTurns
  <2>13. (\A j \in 1..k + 1 : ~OnQueue(p[j])) => Content(w.queue) = Content(s.queue)
    <3> SUFFICES ASSUME \A j \in 1..k + 1 : ~OnQueue(p[j])
                 PROVE  Content(w.queue) = Content(s.queue)
      OBVIOUS
    <3>1. ~OnQueue(i) /\ \A j \in 1..k : ~OnQueue(p[j])
      BY <1>1, <2>1
    <3> QED BY <2>11, <2>12, <3>1 DEF OnQueue
  <2>14. InOrder(s, w)
    <3>1. CASE Content(w.queue) = Content(u.queue)
      BY <3>1 DEF AfterTurns, InOrder
    <3>2. CASE OnQueue(i) /\ (Enqueued(u, w) \/ Dequeued(u, w))
      <4>1. \A j \in 1..k : ~OnQueue(p[j])
        <5>1. CASE i.op = "write"
          BY <2>2, <5>1 DEF OnQueue, T!Looks
        <5>2. CASE i.op \in {"dequeue", "tryDequeue"}
          <6>1. T!Takes(i) /\ s.hand = Empty /\ \A j \in 1..k : ~T!Takes(p[j])
            BY <2>2, <5>2 DEF T!Takes
          <6>2. \A j \in 1..k : p[j].op # "write"
            <7>1. \A j \in 1..k : j \in DOMAIN p
              OBVIOUS
            <7> QED BY <6>1, <7>1 DEF T!OneHandSuffices
          <6> QED BY <6>1, <6>2 DEF OnQueue, T!Takes
        <5> QED BY <3>2, <5>1, <5>2 DEF OnQueue
      <4>2. Content(u.queue) = Content(s.queue)
        BY <2>12, <4>1
      <4>3. Enqueued(u, w) => u.hand \in StmVal
        BY <2>2 DEF Enqueued, Attempt, InHand
      <4> QED BY <3>2, <4>2, <4>3 DEF InOrder, Enqueued, Dequeued
    <3> QED BY <2>11, <3>1, <3>2 DEF OnQueue
  <2>15. SameCounts(s, w, hands, t)
    <3>1. Unmoved(u, w) \/ MovedInHeap(u, w) \/ Enqueued(u, w) \/ Dequeued(u, w)
      BY <2>6 DEF Does
    <3>2. u \in Attempt /\ w \in Attempt
      BY <2>2, <2>7
    <3>3. SameCounts(u, w, hands, t)
      BY <3>1, <3>2, MovesKeepCounts
    <3>4. SameCounts(s, u, hands, t)
      BY DEF AfterTurns
    <3> QED BY <3>3, <3>4 DEF SameCounts
  <2> QED BY <2>7, <2>8, <2>9, <2>10, <2>13, <2>14, <2>15 DEF AfterTurns
<1> QED BY <1>2, <1>3

LEMMA BindRuns ==
  ASSUME NEW s \in Attempt, s.ok, NEW p \in Seq(T!Instruction),
         T!OneHandSuffices(p, s.hand # Empty),
         NEW hands \in [Thread -> InHand], NEW t \in Thread
  PROVE  Ran(s, T!Bind(s, p), hands, t)
<1>1. PICK n \in Nat : p \in [1..n -> T!Instruction] /\ DOMAIN p = 1..n
  BY LenProperties
<1>2. PICK f : /\ f[0] = s /\ f[n] = T!Bind(s, p)
               /\ \A k \in 1..n : f[k] = Turn(f[k-1], p[k])
  BY <1>1, BindUnfolds
<1> DEFINE G == {k \in Nat : k <= n => AfterTurns(s, p, k, f[k], hands, t)}
<1>3. 0 \in G
  BY <1>2 DEF AfterTurns, InOrder, SameCounts, Unmoved
<1>4. ASSUME NEW k \in Nat, k \in G PROVE k + 1 \in G
  <2> SUFFICES ASSUME k + 1 <= n PROVE AfterTurns(s, p, k + 1, f[k + 1], hands, t)
    OBVIOUS
  <2>1. k + 1 \in 1..n /\ k + 1 - 1 = k /\ k <= n
    OBVIOUS
  <2>2. f[k + 1] = Turn(f[k], p[k + 1]) /\ AfterTurns(s, p, k, f[k], hands, t)
    BY <1>2, <1>4, <2>1
  <2> QED BY <1>1, <2>1, <2>2, OneTurn
<1>5. n \in G
  <2> HIDE DEF G
  <2> QED BY <1>3, <1>4, NatSetInduction
<1>6. AfterTurns(s, p, n, f[n], hands, t)
  BY <1>5
<1> QED BY <1>2, <1>6 DEF AfterTurns, Ran

LEMMA OrElseRuns ==
  ASSUME NEW s \in Attempt, s.ok, NEW p \in T!Program, T!WritesLast(p),
         s.hand # Empty <=> T!Brings(p),
         NEW hands \in [Thread -> InHand], NEW t \in Thread
  PROVE  Ran(s, T!OrElse(s, p), hands, t)
<1>1. /\ p.main \in Seq(T!Instruction) /\ p.alt \in Seq(T!Instruction)
      /\ T!OneHandSuffices(p.main, s.hand # Empty)
      /\ T!OneHandSuffices(p.alt, s.hand # Empty)
  <2>1. PICK brings : brings = T!Brings(p)
    OBVIOUS
  <2>2. T!OneHandSuffices(p.main, brings) /\ T!OneHandSuffices(p.alt, brings)
    BY <2>1 DEF T!WritesLast
  <2>3. p.main \in Seq(T!Instruction) /\ p.alt \in Seq(T!Instruction)
    BY DEF T!Program
  <2> QED BY <2>1, <2>2, <2>3 DEF T!OneHandSuffices
<1>2. PICK first : first = T!Bind(s, p.main)
  OBVIOUS
<1>3. Ran(s, first, hands, t)
  BY <1>1, <1>2, BindRuns
<1>4. CASE first.ok \/ p.alt = <<>>
  BY <1>2, <1>3, <1>4 DEF T!OrElse
<1>5. CASE ~first.ok /\ p.alt # <<>>
  <2>1. PICK u, r : u = [first EXCEPT !.ok = TRUE] /\ r = T!Bind(u, p.alt)
    OBVIOUS
  <2>2. T!OrElse(s, p) = r
    BY <1>2, <1>5, <2>1 DEF T!OrElse
  <2>3. /\ first \in Attempt /\ Unmoved(s, first)
    BY <1>3, <1>5 DEF Ran
  <2>4. u \in Attempt /\ u.ok /\ Unmoved(s, u)
    BY <2>1, <2>3 DEF Attempt, Unmoved
  <2>5. T!OneHandSuffices(p.alt, u.hand # Empty)
    <3>1. u.hand = s.hand
      BY <2>4 DEF Unmoved
    <3> QED BY <1>1, <3>1
  <2>6. Ran(u, r, hands, t)
    BY <1>1, <2>1, <2>4, <2>5, BindRuns
  <2>7. Ran(s, r, hands, t)
    BY <2>4, <2>6 DEF Ran, Unmoved, InOrder, SameCounts
  <2> QED BY <2>2, <2>7
<1> QED BY <1>4, <1>5

-----------------------------------------------------------------------------
(* STM: what atomically keeps.  A thread that has still to commit has in    *)
(* hand what it came with, as an attempt that retried moved nothing.        *)
StmInductive ==
  /\ T!ValuesConserved
  /\ \A t \in running : hand[t] # Empty <=> T!Brings(program[t])

LEMMA PlacesAreOccurrences ==
  \A v : T!PlacesOf(v) = Occurs(heap, hand, Content(queue), v)
<1>1. T!Contents = Content(queue)
  BY DEF T!Contents, Content
<1>2. ASSUME NEW v PROVE T!PlacesOf(v) = Occurs(heap, hand, Content(queue), v)
  <2>1. PICK q : q = T!Contents
    OBVIOUS
  <2>2. T!PlacesOf(v) = T!Cardinality({c \in Cell : heap[c] = v})
          + T!Cardinality({t \in Thread : hand[t] = v})
          + T!Cardinality({k \in DOMAIN q : q[k] = v})
    BY <2>1 DEF T!PlacesOf
  <2>3. T!PlacesOf(v) = Tally(Cell, heap, v) + Tally(Thread, hand, v) + Tally(DOMAIN q, q, v)
    BY <2>2, StmSizes DEF Tally
  <2> QED BY <1>1, <2>1, <2>3 DEF Occurs
<1> QED BY <1>2

LEMMA AtomicallyKeeps ==
  ASSUME StmInductive, NEW t \in Thread, T!Atomically(t)
  PROVE  /\ StmInductive'
         /\ <<heap, T!Contents>>' # <<heap, T!Contents>> => running' # running
         /\ \/ T!Contents' = T!Contents
            \/ T!Contents # <<>> /\ T!Contents' = Tail(T!Contents)
            \/ T!Contents' # <<>> /\ T!Front(T!Contents') = T!Contents
<1>1. /\ heap \in [Cell -> InHand] /\ queue \in Queues /\ hand \in [Thread -> InHand]
      /\ program \in [Thread -> Programs] /\ running \in SUBSET Thread /\ t \in running
      /\ hand[t] # Empty <=> T!Brings(program[t])
      /\ \A v \in StmVal : Occurs(heap, hand, Content(queue), v) = 1
  BY PlacesAreOccurrences
     DEF StmInductive, T!ValuesConserved, T!TypeOK, InHand, Queues, T!Atomically
<1>2. PICK s, p, r : s = T!Attempted(t) /\ p = program[t] /\ r = T!OrElse(s, p)
  OBVIOUS
<1>3. /\ s \in Attempt /\ s.ok /\ s.heap = heap /\ s.queue = queue /\ s.hand = hand[t]
  BY <1>1, <1>2 DEF T!Attempted, Attempt
<1>4. p \in T!Program /\ T!WritesLast(p) /\ (s.hand # Empty <=> T!Brings(p))
  BY <1>1, <1>2, <1>3, StmConstants
<1>5. Ran(s, r, hand, t)
  BY <1>1, <1>2, <1>3, <1>4, OrElseRuns
<1>6. /\ heap' = r.heap /\ queue' = r.queue /\ hand' = [hand EXCEPT ![t] = r.hand]
      /\ running' = (IF r.ok THEN running \ {t} ELSE running) /\ program' = program
  BY <1>2 DEF T!Atomically, T!Store
<1>7. r \in Attempt /\ r.heap \in [Cell -> InHand] /\ r.queue \in Queues /\ r.hand \in InHand
  BY <1>5 DEF Ran, Attempt
<1>8. hand = [hand EXCEPT ![t] = s.hand]
  BY <1>1, <1>3
<1>9. T!TypeOK'
  BY <1>1, <1>6, <1>7 DEF T!TypeOK, InHand, Queues
<1>10. (\A v : T!PlacesOf(v) = Occurs(heap, hand, Content(queue), v))'
  BY PlacesAreOccurrences, PTL
<1>11. ASSUME NEW x \in StmVal PROVE T!PlacesOf(x)' = 1
  <2>1. Occurs(r.heap, [hand EXCEPT ![t] = r.hand], Content(r.queue), x)
          = Occurs(s.heap, [hand EXCEPT ![t] = s.hand], Content(s.queue), x)
    BY <1>5 DEF Ran, SameCounts
  <2>2. T!PlacesOf(x)' = Occurs(heap', hand', Content(queue'), x)
    BY <1>10 DEF Occurs, Content
  <2> QED BY <1>1, <1>3, <1>6, <1>8, <2>1, <2>2
<1>12. ASSUME NEW u \in running' PROVE hand'[u] # Empty <=> T!Brings(program[u])
  <2>1. CASE u # t
    BY <1>1, <1>6, <2>1 DEF StmInductive
  <2>2. CASE u = t
    <3>1. ~r.ok
      BY <1>6, <2>2
    <3>2. r.hand = s.hand
      BY <1>5, <3>1 DEF Ran, Unmoved
    <3> QED BY <1>1, <1>3, <1>6, <2>2, <3>2
  <2> QED BY <2>1, <2>2
<1>13. StmInductive'
  BY <1>6, <1>9, <1>11, <1>12 DEF StmInductive, T!ValuesConserved
<1>14. T!Contents = Content(s.queue) /\ T!Contents' = Content(r.queue)
  BY <1>3, <1>6 DEF T!Contents, Content
<1>15. <<heap, T!Contents>>' # <<heap, T!Contents>> => running' # running
  <2>1. CASE r.ok
    BY <1>1, <1>6, <2>1
  <2>2. CASE ~r.ok
    <3>1. Unmoved(s, r)
      BY <1>5, <2>2 DEF Ran
    <3> QED BY <1>3, <1>6, <1>14, <3>1 DEF Unmoved
  <2> QED BY <2>1, <2>2
<1>16. \/ T!Contents' = T!Contents
       \/ T!Contents # <<>> /\ T!Contents' = Tail(T!Contents)
       \/ T!Contents' # <<>> /\ T!Front(T!Contents') = T!Contents
  <2>1. CASE \E x \in StmVal : Content(r.queue) = Append(Content(s.queue), x)
    <3>1. PICK x, a, b : /\ x \in StmVal /\ a = Content(s.queue) /\ b = Content(r.queue)
                                    /\ b = Append(a, x)
      BY <2>1
    <3>2. a \in Seq(StmVal)
      BY <1>1, <1>3, <3>1, ContentIsSeq
    <3>3. b # <<>> /\ b \in Seq(StmVal) /\ Len(b) = Len(a) + 1 /\ Len(a) \in Nat
          /\ \A j \in 1..Len(a) : b[j] = a[j]
      BY <3>1, <3>2
    <3>4. PICK d : d = SubSeq(b, 1, Len(a))
      OBVIOUS
    <3>5. d \in Seq(StmVal) /\ Len(d) = Len(a) /\ \A j \in 1..Len(d) : d[j] = a[j]
      BY <3>2, <3>3, <3>4
    <3>6. d = a
      BY <3>2, <3>5, SeqEqual
    <3>7. T!Front(b) = SubSeq(b, 1, Len(a))
      BY <3>3 DEF T!Front
    <3> QED BY <1>14, <3>1, <3>3, <3>4, <3>6, <3>7
  <2> QED BY <1>5, <1>14, <2>1 DEF Ran, InOrder
<1> QED BY <1>13, <1>15, <1>16

LEMMA StmSteps ==
  ASSUME StmInductive, [T!Next]_(T!vars)
  PROVE  /\ StmInductive'
         /\ [<<heap, T!Contents>>' # <<heap, T!Contents>> => running' # running]_(T!vars)
         /\ [\/ T!Contents' = T!Contents
             \/ T!Contents # <<>> /\ T!Contents' = Tail(T!Contents)
             \/ T!Contents' # <<>> /\ T!Front(T!Contents') = T!Contents]_queue
<1>1. CASE UNCHANGED T!vars
  <2>1. UNCHANGED <<heap, queue, program, hand, running>>
    BY <1>1 DEF T!vars
  <2>2. T!ValuesConserved'
    BY <2>1 DEF StmInductive, T!ValuesConserved, T!TypeOK, T!PlacesOf, T!Contents
  <2> QED BY <1>1, <2>1, <2>2 DEF StmInductive
<1>2. CASE T!Next
  BY <1>2, AtomicallyKeeps DEF T!Next
<1> QED BY <1>1, <1>2

LEMMA StmInit == T!Init => StmInductive
<1> SUFFICES ASSUME T!Init PROVE StmInductive
  OBVIOUS
<1>1. T!TypeOK
  <2>1. queue \in [readEnd : Seq(StmVal), writeEnd : Seq(StmVal)]
    <3>1. T!SeqOf(StmVal, 1) \subseteq Seq(StmVal) /\ T!SeqOf(StmVal, 2) \subseteq Seq(StmVal)
      <4> SUFFICES ASSUME NEW m \in Nat, NEW x \in T!SeqOf(StmVal, m)
                   PROVE  x \in Seq(StmVal)
        OBVIOUS
      <4>1. PICK k \in Nat : x \in [1..k -> StmVal]
        BY DEF T!SeqOf
      <4> QED BY <4>1
    <3> QED BY <3>1 DEF T!Init
  <2> QED BY <2>1 DEF T!Init, T!TypeOK
<1>2. \A t \in running : hand[t] # Empty <=> T!Brings(program[t])
  BY DEF T!Init
<1>3. \A v \in StmVal : T!PlacesOf(v) = 1
  BY DEF T!Init
<1> QED BY <1>1, <1>2, <1>3 DEF StmInductive, T!ValuesConserved

(* ValuesConserved: whatever transactions run, retry and fall back to their *)
(* alternatives, each value is in one TMVar, in the queue or in one hand.   *)
THEOREM ValuesAreConserved == T!Spec => []ValuesConserved
<1>1. StmInductive => ValuesConserved
  BY DEF StmInductive, ValuesConserved
<1>2. StmInductive /\ [T!Next]_(T!vars) => StmInductive'
  BY StmSteps
<1> QED BY <1>1, <1>2, StmInit, PTL DEF T!Spec

(* TransactionsAreClean: an attempt that retries changes no TVar, and the   *)
(* queue is first in, first out, although its two lists turn over.          *)
THEOREM TransactionsStayClean == T!Spec => TransactionsAreClean
<1> DEFINE trace == <<heap, T!Contents>>' # <<heap, T!Contents>> => running' # running
           fifo == \/ T!Contents' = T!Contents
                   \/ T!Contents # <<>> /\ T!Contents' = Tail(T!Contents)
                   \/ T!Contents' # <<>> /\ T!Front(T!Contents') = T!Contents
<1>1. StmInductive /\ [T!Next]_(T!vars) => StmInductive' /\ [trace]_(T!vars) /\ [fifo]_queue
  BY StmSteps
<1>2. T!RetryLeavesNoTrace <=> [][trace]_(T!vars)
  BY DEF T!RetryLeavesNoTrace
<1>3. T!QueueIsFifo <=> [][fifo]_queue
  BY DEF T!QueueIsFifo
<1> QED BY <1>1, <1>2, <1>3, StmInit, PTL DEF T!Spec, TransactionsAreClean
=============================================================================
