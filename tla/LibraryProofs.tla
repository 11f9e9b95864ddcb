---------------------------- MODULE LibraryProofs ----------------------------
(****************************************************************************)
(* Proofs about the database drivers, over the instances of MCLibrary.      *)
(****************************************************************************)
EXTENDS MCLibrary, ConcurrencyProofs

-----------------------------------------------------------------------------
PoolInductive == Pool!TypeOK /\ OnePlaceEach

LEMMA FrontLast ==
  ASSUME NEW S, NEW s \in Seq(S), s # <<>>,
         \A i, k \in DOMAIN s : i # k => s[i] # s[k]
  PROVE  /\ Front(s) \in Seq(S) /\ Last(s) \in S
         /\ \A i, k \in DOMAIN Front(s) : i # k => Front(s)[i] # Front(s)[k]
         /\ ToSet(Front(s)) = ToSet(s) \ {Last(s)}
         /\ Last(s) \in ToSet(s)
<1>1. Len(s) \in Nat \ {0} /\ DOMAIN s = 1..Len(s) /\ Last(s) = s[Len(s)]
  BY DEF Last
<1>2. /\ Front(s) \in Seq(S) /\ DOMAIN Front(s) = 1..Len(s) - 1
      /\ \A i \in 1..Len(s) - 1 : Front(s)[i] = s[i]
  BY <1>1 DEF Front
<1>3. ToSet(Front(s)) = ToSet(s) \ {Last(s)}
  BY <1>1, <1>2 DEF ToSet
<1> QED BY <1>1, <1>2, <1>3 DEF ToSet

LEMMA FrontLength ==
  ASSUME NEW S, NEW s \in Seq(S), s # <<>>
  PROVE  Len(Front(s)) = Len(s) - 1
<1>1. Len(s) \in Nat /\ Len(s) >= 1
  OBVIOUS
<1>2. Len(s) - 1 \in Nat /\ 1 \in Int
  BY <1>1
<1>3. Len(SubSeq(s, 1, Len(s) - 1)) = Len(s) - 1
  BY <1>1, <1>2
<1> QED BY <1>3 DEF Front

(* An instance names its own copies of the library's operators. *)
LEMMA PoolSequences ==
  /\ \A s : Pool!Last(s) = Last(s) /\ Pool!Front(s) = Front(s)
  /\ \A s : Pool!ToSet(s) = ToSet(s)
BY DEF Pool!Last, Pool!Front, Pool!ToSet, Last, Front, ToSet

LEMMA PoolInitHolds == Pool!Init => PoolInductive
<1> SUFFICES ASSUME Pool!Init PROVE PoolInductive
  OBVIOUS
<1>1. Running = {} /\ Held = {} /\ ToSet(available) = {}
  BY EmptyToSet DEF Pool!Init, Running, Held
<1>2. OnePlaceEach
  BY <1>1 DEF Pool!Init, OnePlaceEach
<1>3. Pool!TypeOK
  BY SqlPoolAssumption DEF Pool!Init, Pool!TypeOK
<1> QED BY <1>2, <1>3 DEF PoolInductive

(* Whatever starts or stops an attempt to connect leaves the places alone.  *)
LEMMA PoolWaitingStep ==
  ASSUME PoolInductive, NEW u \in User,
         Pool!Reserve(u) \/ Pool!Exceed(u) \/ Pool!ConnectFails(u)
  PROVE  PoolInductive'
<1>1. UNCHANGED <<available, conn, closing, live>> /\ Running' = Running
  BY
    DEF Pool!Reserve, Pool!Exceed, Pool!ConnectFails, Running, PoolInductive,
        Pool!TypeOK
<1>2. Pool!TypeOK'
  BY SqlPoolAssumption
    DEF Pool!Reserve, Pool!Exceed, Pool!ConnectFails, PoolInductive, Pool!TypeOK
<1>3. Held' = Held
  BY <1>1 DEF Held
<1>4. OnePlaceEach'
  BY <1>1, <1>3 DEF OnePlaceEach, PoolInductive
<1> QED BY <1>2, <1>4 DEF PoolInductive

(* The connection c begins to run a session of u. *)
LEMMA PoolRunStep ==
  ASSUME PoolInductive, NEW u \in User, u \notin Running, NEW c \in Conn,
         Running' = Running \cup {u}, conn' = [conn EXCEPT ![u] = c]
  PROVE  /\ Held' = Held \cup {c}
         /\ c \notin Held => \A v, w \in Running' : v # w => conn'[v] # conn'[w]
<1>1. /\ \A v \in Running : conn'[v] = conn[v]
      /\ conn'[u] = c
  BY DEF Running, PoolInductive, Pool!TypeOK
<1>2. Held' = Held \cup {c}
  BY <1>1 DEF Held
<1> QED BY <1>1, <1>2 DEF Held, PoolInductive, OnePlaceEach

LEMMA PoolTakeIdleStep ==
  ASSUME PoolInductive, NEW u \in User, Pool!TakeIdle(u)
  PROVE  PoolInductive'
<1> DEFINE c == Last(available)
<1>1. /\ Front(available) \in Seq(Conn) /\ c \in Conn /\ c \in ToSet(available)
      /\ ToSet(available') = ToSet(available) \ {c}
      /\ \A i, k \in DOMAIN available' : i # k => available'[i] # available'[k]
  <2>1. available' = Front(available) /\ available # <<>>
    BY PoolSequences DEF Pool!TakeIdle
  <2>2. available \in Seq(Conn) /\ \A i, k \in DOMAIN available : i # k => available[i] # available[k]
    BY DEF PoolInductive, Pool!TypeOK, OnePlaceEach
  <2> QED BY <2>1, <2>2, FrontLast
<1>2. u \notin Running /\ Running' = Running \cup {u}
  BY DEF Pool!TakeIdle, Running, PoolInductive, Pool!TypeOK
<1>3. /\ Held' = Held \cup {c} /\ c \notin Held
      /\ \A v, w \in Running' : v # w => conn'[v] # conn'[w]
  BY <1>1, <1>2, PoolRunStep, PoolSequences
    DEF Pool!TakeIdle, PoolInductive, OnePlaceEach
<1>4. Pool!TypeOK'
  BY <1>1, PoolSequences DEF Pool!TakeIdle, PoolInductive, Pool!TypeOK
<1>5. OnePlaceEach'
  BY <1>1, <1>3 DEF Pool!TakeIdle, PoolInductive, OnePlaceEach
<1> QED BY <1>4, <1>5 DEF PoolInductive

LEMMA PoolConnectStep ==
  ASSUME PoolInductive, NEW u \in User, Pool!Connect(u)
  PROVE  PoolInductive'
<1>1. PICK c \in Conn \ live : live' = live \cup {c} /\ conn' = [conn EXCEPT ![u] = c]
  BY DEF Pool!Connect
<1>2. u \notin Running /\ Running' = Running \cup {u}
  BY DEF Pool!Connect, Running, PoolInductive, Pool!TypeOK
<1>3. /\ Held' = Held \cup {c} /\ c \notin Held
      /\ \A v, w \in Running' : v # w => conn'[v] # conn'[w]
  BY <1>1, <1>2, PoolRunStep DEF PoolInductive, OnePlaceEach
<1>4. Pool!TypeOK'
  BY <1>1 DEF Pool!Connect, PoolInductive, Pool!TypeOK
<1>5. OnePlaceEach'
  BY <1>1, <1>3 DEF Pool!Connect, PoolInductive, OnePlaceEach
<1> QED BY <1>4, <1>5 DEF PoolInductive

LEMMA PoolReleaseStep ==
  ASSUME PoolInductive, NEW u \in User, Pool!Release(u)
  PROVE  PoolInductive'
<1> DEFINE c == conn[u]
<1>1. u \in Running /\ c \in Held
  BY DEF Pool!Release, Running, Held
<1>2. c \in Conn /\ c \notin ToSet(available)
  BY <1>1 DEF PoolInductive, Pool!TypeOK, OnePlaceEach
<1>3. Running' = Running \ {u} /\ \A v \in Running' : conn'[v] = conn[v]
  BY DEF Pool!Release, Running, PoolInductive, Pool!TypeOK
<1>4. Held' = Held \ {c}
  BY <1>1, <1>3 DEF Held, PoolInductive, OnePlaceEach
<1>5. /\ available' \in Seq(Conn)
      /\ ToSet(available') = ToSet(available) \cup {c}
  BY <1>2, ToSetAppend DEF Pool!Release, PoolInductive, Pool!TypeOK
<1>6. \A i, k \in DOMAIN available' : i # k => available'[i] # available'[k]
  <2>1. /\ available \in Seq(Conn) /\ available' = Append(available, c)
        /\ \A i, k \in DOMAIN available : i # k => available[i] # available[k]
        /\ \A i \in DOMAIN available : available[i] # c
    BY <1>2 DEF Pool!Release, PoolInductive, Pool!TypeOK, OnePlaceEach, ToSet
  <2> QED BY <1>2, <2>1
<1>7. Pool!TypeOK'
  BY <1>5 DEF Pool!Release, PoolInductive, Pool!TypeOK
<1>8. OnePlaceEach'
  BY <1>1, <1>3, <1>4, <1>5, <1>6 DEF Pool!Release, PoolInductive, OnePlaceEach
<1> QED BY <1>7, <1>8 DEF PoolInductive

LEMMA PoolDestroyStep ==
  ASSUME PoolInductive, Pool!Destroy
  PROVE  PoolInductive'
<1>1. Running' = Running /\ Held' = Held
  BY DEF Pool!Destroy, Running, Held
<1>2. ToSet(available') = {} /\ closing' = ToSet(available) /\ DOMAIN available' = {}
  BY EmptyToSet, PoolSequences DEF Pool!Destroy
<1>3. closing' \in SUBSET Conn
  BY <1>2 DEF ToSet, PoolInductive, Pool!TypeOK
<1>4. Pool!TypeOK'
  BY <1>3 DEF Pool!Destroy, PoolInductive, Pool!TypeOK
<1>5. OnePlaceEach'
  BY <1>1, <1>2 DEF Pool!Destroy, PoolInductive, OnePlaceEach
<1> QED BY <1>4, <1>5 DEF PoolInductive

LEMMA PoolCloseStep ==
  ASSUME PoolInductive, Pool!Close
  PROVE  PoolInductive'
<1>1. Running' = Running /\ Held' = Held /\ UNCHANGED available
  BY DEF Pool!Close, Running, Held
<1>2. Pool!TypeOK'
  BY DEF Pool!Close, PoolInductive, Pool!TypeOK
<1>3. OnePlaceEach'
  BY <1>1 DEF Pool!Close, PoolInductive, OnePlaceEach
<1> QED BY <1>2, <1>3 DEF PoolInductive

LEMMA PoolInductiveStep ==
  ASSUME PoolInductive, [Pool!Next]_(Pool!vars)
  PROVE  PoolInductive'
<1>1. CASE Pool!Next
  BY <1>1, PoolWaitingStep, PoolTakeIdleStep, PoolConnectStep, PoolReleaseStep,
        PoolDestroyStep, PoolCloseStep
  DEF Pool!Next
<1>2. CASE UNCHANGED Pool!vars
  BY <1>2 DEF Pool!vars, PoolInductive, Pool!TypeOK, OnePlaceEach, Running, Held
<1> QED BY <1>1, <1>2

-----------------------------------------------------------------------------
(* SqlPoolState!OnePlaceEach: a connection is idle, or held by one session, *)
(* or being closed, and never two of these; none is open and in no place.   *)
THEOREM OnePlaceForEach == Pool!Spec => []OnePlaceEach
<1>1. PoolInductive /\ [Pool!Next]_(Pool!vars) => PoolInductive'
  BY PoolInductiveStep
<1>2. PoolInductive => OnePlaceEach
  BY DEF PoolInductive
<1> QED BY PoolInitHolds, <1>1, <1>2, PTL DEF Pool!Spec

-----------------------------------------------------------------------------
(* How many connections there are, and how many the pool has counted.       *)
PoolCounts ==
  /\ Len(available) + Cardinality(Busy) <= Cardinality(User)
  /\ inUse <= Cardinality(Busy) + failures

LEMMA PoolCardinality ==
  /\ Pool!Busy = Busy /\ Pool!Running = Running
  /\ \A S : Pool!Cardinality(S) = Cardinality(S)
BY DEF Pool!Cardinality, Cardinality, Pool!Busy, Busy, Pool!Running, Running

LEMMA BusyCount ==
  /\ Busy \subseteq User /\ IsFiniteSet(Busy) /\ IsFiniteSet(User)
  /\ Cardinality(Busy) \in Nat /\ Cardinality(User) \in Nat
  /\ Cardinality(Busy) <= Cardinality(User)
<1>1. Busy \subseteq User
  BY DEF Busy
<1> QED BY <1>1, SqlPoolAssumption, FS_Subset, FS_CardinalityType

(* One task enters `use`, or leaves it. *)
LEMMA BusyStep ==
  ASSUME Pool!TypeOK, NEW u \in User, NEW s \in {"idle", "connecting", "running"},
         pc' = [pc EXCEPT ![u] = s]
  PROVE  /\ Cardinality(Busy') \in Nat /\ Cardinality(Busy') <= Cardinality(User)
         /\ pc[u] = "idle" /\ s # "idle" => Cardinality(Busy') = Cardinality(Busy) + 1
         /\ pc[u] # "idle" /\ s = "idle" => Cardinality(Busy') = Cardinality(Busy) - 1
         /\ pc[u] # "idle" /\ s # "idle" => Cardinality(Busy') = Cardinality(Busy)
<1>1. \A v \in User : pc'[v] = IF v = u THEN s ELSE pc[v]
  BY DEF Pool!TypeOK
<1>2. CASE s # "idle"
  <2>1. Busy' = Busy \cup {u}
    BY <1>1, <1>2 DEF Busy
  <2>2. pc[u] = "idle" => u \notin Busy
    BY DEF Busy
  <2>3. pc[u] # "idle" => u \in Busy
    BY DEF Busy
  <2> QED BY <1>2, <2>1, <2>2, <2>3, BusyCount, FS_AddElement, FS_Subset,
        FS_CardinalityType
<1>3. CASE s = "idle"
  <2>1. Busy' = Busy \ {u}
    BY <1>1, <1>3 DEF Busy
  <2>3. pc[u] # "idle" => u \in Busy
    BY DEF Busy
  <2>4. Busy' \subseteq User
    BY <2>1, BusyCount
  <2> QED BY <1>3, <2>1, <2>3, <2>4, BusyCount, FS_RemoveElement, FS_Subset,
        FS_CardinalityType
<1> QED BY <1>2, <1>3

LEMMA PoolCountsStep ==
  ASSUME Pool!TypeOK, PoolCounts, Pool!Next
  PROVE  PoolCounts'
<1>1. /\ available \in Seq(Conn) /\ Len(available) \in Nat /\ inUse \in Nat /\ failures \in Nat
      /\ Cardinality(Busy) \in Nat /\ Cardinality(User) \in Nat
      /\ Cardinality(Busy) <= Cardinality(User)
      /\ Len(available) + Cardinality(Busy) <= Cardinality(User)
      /\ inUse <= Cardinality(Busy) + failures
      /\ conn \in [User -> Conn \cup {NoConn}]
  BY BusyCount, SqlPoolAssumption DEF Pool!TypeOK, PoolCounts
<1>2. ASSUME NEW u \in User, Pool!TakeIdle(u) PROVE PoolCounts'
  <2>0. /\ available # <<>> /\ available' = Front(available) /\ inUse' = inUse + 1
        /\ failures' = failures /\ pc[u] = "idle" /\ pc' = [pc EXCEPT ![u] = "running"]
    BY <1>2, PoolSequences DEF Pool!TakeIdle
  <2>1. Cardinality(Busy') = Cardinality(Busy) + 1
    BY <2>0, BusyStep
  <2>2. Len(available') = Len(available) - 1
    BY <1>1, <2>0, FrontLength
  <2> QED BY <1>1, <2>0, <2>1, <2>2 DEF PoolCounts
<1>3. ASSUME NEW u \in User, Pool!Reserve(u) \/ Pool!Exceed(u) PROVE PoolCounts'
  <2>1. /\ available = <<>> /\ available' = <<>> /\ inUse' \in {inUse, inUse + 1}
        /\ failures' = failures /\ Cardinality(Busy') = Cardinality(Busy) + 1
        /\ Cardinality(Busy') <= Cardinality(User)
    BY <1>3, BusyStep DEF Pool!Reserve, Pool!Exceed
  <2>2. Len(available') = 0
    BY <2>1
  <2> QED BY <1>1, <2>1, <2>2 DEF PoolCounts
<1>4. ASSUME NEW u \in User, Pool!Connect(u) PROVE PoolCounts'
  <2>1. /\ UNCHANGED <<available, inUse, failures>> /\ Cardinality(Busy') = Cardinality(Busy)
    BY <1>4, BusyStep DEF Pool!Connect
  <2> QED BY <1>1, <2>1 DEF PoolCounts
<1>5. ASSUME NEW u \in User, Pool!ConnectFails(u) PROVE PoolCounts'
  <2>1. /\ UNCHANGED <<available, inUse>> /\ failures' = failures + 1
        /\ Cardinality(Busy') = Cardinality(Busy) - 1
    BY <1>5, BusyStep DEF Pool!ConnectFails
  <2> QED BY <1>1, <2>1 DEF PoolCounts
<1>6. ASSUME NEW u \in User, Pool!Release(u) PROVE PoolCounts'
  <2>1. /\ available' = Append(available, conn[u]) /\ failures' = failures
        /\ inUse' = IF inUse = 0 THEN 0 ELSE inUse - 1
        /\ Cardinality(Busy') = Cardinality(Busy) - 1 /\ Cardinality(Busy') \in Nat
    BY <1>6, BusyStep DEF Pool!Release
  <2>2. Len(available') = Len(available) + 1
    BY <1>1, <2>1
  <2> QED BY <1>1, <2>1, <2>2 DEF PoolCounts
<1>7. ASSUME Pool!Destroy PROVE PoolCounts'
  <2>1. available' = <<>> /\ UNCHANGED <<inUse, failures>> /\ Busy' = Busy
    BY <1>7 DEF Pool!Destroy, Busy
  <2>2. Len(available') = 0
    BY <2>1
  <2> QED BY <1>1, <2>1, <2>2 DEF PoolCounts
<1>8. ASSUME Pool!Close PROVE PoolCounts'
  BY <1>8 DEF Pool!Close, PoolCounts, Busy
<1> QED BY <1>2, <1>3, <1>4, <1>5, <1>6, <1>7, <1>8 DEF Pool!Next

(* The counts bound the connections that are open. *)
LEMMA PoolCountsSuffice ==
  ASSUME PoolInductive, PoolCounts
  PROVE  PoolStaysInBounds
<1>1. /\ available \in Seq(Conn) /\ Len(available) \in Nat
      /\ DOMAIN available = 1..Len(available)
      /\ live = Held \cup ToSet(available) \cup closing
  BY DEF PoolInductive, Pool!TypeOK, OnePlaceEach
<1>2. /\ Running \subseteq Busy /\ IsFiniteSet(Running) /\ IsFiniteSet(Busy \ Running)
      /\ Cardinality(Running) \in Nat /\ Cardinality(Busy \ Running) \in Nat
      /\ Cardinality(Busy) = Cardinality(Running) + Cardinality(Busy \ Running)
  <2>1. Running \subseteq Busy
    BY DEF Running, Busy
  <2>2. IsFiniteSet(Running) /\ IsFiniteSet(Busy \ Running)
    BY <2>1, BusyCount, FS_Subset
  <2>3. Busy = Running \cup (Busy \ Running) /\ Running \cap (Busy \ Running) = {}
    BY <2>1
  <2>4. Cardinality(Running \cup (Busy \ Running))
          = Cardinality(Running) + Cardinality(Busy \ Running)
              - Cardinality(Running \cap (Busy \ Running))
    BY <2>2, FS_Union
  <2>5. /\ Cardinality(Running \cap (Busy \ Running)) = 0
        /\ Cardinality(Running \cup (Busy \ Running)) = Cardinality(Busy)
    BY <2>3, FS_EmptySet, Zenon
  <2>6. Cardinality(Running) \in Nat /\ Cardinality(Busy \ Running) \in Nat
    BY <2>2, FS_CardinalityType
  <2>7. Cardinality(Busy) = Cardinality(Running) + Cardinality(Busy \ Running)
    BY <2>4, <2>5, <2>6
  <2> QED BY <2>1, <2>2, <2>6, <2>7
<1>3. IsFiniteSet(Held) /\ Cardinality(Held) \in Nat /\ Cardinality(Held) <= Cardinality(Running)
  <2> DEFINE f == [u \in Running |-> conn[u]]
  <2>1. f \in Surjection(Running, Held)
    BY DEF Held, Surjection
  <2> HIDE DEF f
  <2> QED BY <1>2, <2>1, FS_Surjection, FS_CardinalityType
<1>4. /\ IsFiniteSet(ToSet(available)) /\ Cardinality(ToSet(available)) \in Nat
      /\ Cardinality(ToSet(available)) <= Len(available)
  <2>1. available \in Surjection(1..Len(available), ToSet(available))
    BY <1>1 DEF ToSet, Surjection
  <2>2. IsFiniteSet(1..Len(available)) /\ Cardinality(1..Len(available)) = Len(available)
    BY <1>1, FS_Interval
  <2> QED BY <2>1, <2>2, FS_Surjection, FS_CardinalityType
<1>5. /\ Cardinality(live \ closing) \in Nat
      /\ Cardinality(live \ closing) <= Cardinality(Held) + Cardinality(ToSet(available))
  <2>1. live \ closing \subseteq Held \cup ToSet(available)
    BY <1>1
  <2>2. /\ IsFiniteSet(Held \cup ToSet(available))
        /\ Cardinality(Held \cup ToSet(available))
             = Cardinality(Held) + Cardinality(ToSet(available))
                 - Cardinality(Held \cap ToSet(available))
    BY <1>3, <1>4, FS_Union
  <2>3. Cardinality(Held \cap ToSet(available)) = 0
    <3>1. Held \cap ToSet(available) = {}
      BY DEF PoolInductive, OnePlaceEach
    <3> QED BY <3>1, FS_EmptySet, Zenon
  <2>4. /\ IsFiniteSet(live \ closing)
        /\ Cardinality(live \ closing) <= Cardinality(Held \cup ToSet(available))
    BY <2>1, <2>2, FS_Subset
  <2>5. Cardinality(live \ closing) \in Nat
    BY <2>4, FS_CardinalityType
  <2> QED BY <1>3, <1>4, <2>2, <2>3, <2>4, <2>5
<1>6. Pool!DemandBoundsPool
  <2>1. Cardinality(live \ closing) + Cardinality(Busy \ Running) <= Cardinality(User)
    <3>1. /\ Len(available) + Cardinality(Busy) <= Cardinality(User)
          /\ Cardinality(User) \in Nat
      BY BusyCount DEF PoolCounts
    <3> QED BY <1>1, <1>2, <1>3, <1>4, <1>5, <3>1
  <2>2. /\ Pool!Cardinality(live \ closing) = Cardinality(live \ closing)
        /\ Pool!Cardinality(Pool!Busy \ Pool!Running) = Cardinality(Busy \ Running)
        /\ Pool!Cardinality(User) = Cardinality(User)
    BY PoolCardinality
  <2> QED BY <2>1, <2>2 DEF Pool!DemandBoundsPool
<1>7. Pool!OvercountIsFailures
  <2>1. Pool!Cardinality(Pool!Busy) = Cardinality(Busy)
    BY PoolCardinality
  <2> QED BY <2>1 DEF PoolInductive, PoolCounts, Pool!OvercountIsFailures
<1> QED BY <1>6, <1>7 DEF PoolStaysInBounds

(* MCLibrary!PoolStaysInBounds (see SqlPool): no more connections than      *)
(* tasks that want one, whatever maxSize is, and a count that only failed   *)
(* attempts push up.                                                        *)
THEOREM DemandBoundsThePool == Pool!Spec => []PoolStaysInBounds
<1>1. Pool!Init => PoolCounts
  <2> SUFFICES ASSUME Pool!Init PROVE PoolCounts
    OBVIOUS
  <2>1. available = <<>> /\ inUse = 0 /\ failures = 0 /\ Busy = {}
    BY DEF Pool!Init, Busy
  <2>2. Len(available) = 0 /\ Cardinality(Busy) = 0
    BY <2>1, FS_EmptySet
  <2> QED BY <2>1, <2>2, BusyCount DEF PoolCounts
<1>2. PoolInductive /\ PoolCounts /\ [Pool!Next]_(Pool!vars) => PoolInductive' /\ PoolCounts'
  <2> SUFFICES ASSUME PoolInductive, PoolCounts, [Pool!Next]_(Pool!vars)
               PROVE  PoolInductive' /\ PoolCounts'
    OBVIOUS
  <2>1. PoolInductive'
    BY PoolInductiveStep
  <2>2. CASE Pool!Next
    BY <2>1, <2>2, PoolCountsStep DEF PoolInductive
  <2>3. CASE UNCHANGED Pool!vars
    BY <2>1, <2>3 DEF Pool!vars, PoolCounts, Busy
  <2> QED BY <2>2, <2>3
<1>3. PoolInductive /\ PoolCounts => PoolStaysInBounds
  BY PoolCountsSuffice
<1> QED BY <1>1, <1>2, <1>3, PoolInitHolds, PTL DEF Pool!Spec

-----------------------------------------------------------------------------
(* A wrapper's pointer is set exactly while libpq has what it points to, so *)
(* a NULL pointer is all that stands between a call and a freed handle; and *)
(* while a call waits, neither the garbage collector nor another call takes *)
(* its connection away. *)
PgPointersTrue ==
  \A h \in Pg!Handle :
    (pgPtr[h] = TRUE <=> pgNative[h] = "open") /\ (pgPtr[h] = TRUE => pgHeld[h] = TRUE)

PgCallsKeepTheirs ==
  /\ \A c \in waiting : pgPtr[c] = TRUE
  /\ values \subseteq waiting

PgInductive == Pg!TypeOK /\ PgPointersTrue /\ PgCallsKeepTheirs

(* ForeignResource, as a promise about one step. *)
PgStepKeepsContract == Pg!Contract!Call

LEMMA PgIsSound == Pg!PgHandlesAssumption
BY LibrariesAreSound

LEMMA PgInitHolds == Pg!Init => PgInductive /\ Pg!Contract!Init
  BY
    DEF Pg!Init, PgInductive, Pg!TypeOK, PgPointersTrue, PgCallsKeepTheirs,
        Pg!Contract!Init, Pg!live, Pg!gone

(* Wrapping what libpq has just returned. *)
LEMMA PgWrapStep ==
  ASSUME PgInductive, NEW h \in Pg!Handle, pgNative[h] = "none", Pg!Wrap(h),
         pgTouched' \in SUBSET Pg!Handle, h \in pgTouched', pgTouched' \cap Pg!gone = {},
         waiting' \subseteq waiting, values' \subseteq values, values' \subseteq waiting',
         pgTouched' \subseteq Pg!live \cup {h}
  PROVE  PgInductive' /\ PgStepKeepsContract
<1>1. Pg!TypeOK'
  BY DEF PgInductive, Pg!TypeOK, Pg!Wrap
<1>2. PgPointersTrue'
  BY DEF PgInductive, Pg!TypeOK, PgPointersTrue, Pg!Wrap
<1>3. PgCallsKeepTheirs'
  BY DEF PgInductive, Pg!TypeOK, PgPointersTrue, PgCallsKeepTheirs, Pg!Wrap, Pg!Handle
<1>4. PgStepKeepsContract
  <2>1. \A g \in Pg!Handle \ {h} : pgNative'[g] = pgNative[g]
    BY DEF PgInductive, Pg!TypeOK, Pg!Wrap
  <2>2. pgNative'[h] \in {"open", "gone"}
    BY DEF PgInductive, Pg!TypeOK, Pg!Wrap
  <2> QED BY <2>1, <2>2
    DEF PgStepKeepsContract, Pg!Contract!Call, Pg!live, Pg!gone, PgInductive, Pg!TypeOK
<1> QED BY <1>1, <1>2, <1>3, <1>4 DEF PgInductive

(* Releasing what a wrapper has, unless a call waits on it. *)
LEMMA PgReleaseStep ==
  ASSUME PgInductive, NEW h \in Pg!Handle, h \notin waiting, Pg!Release(h),
         NEW kept \in BOOLEAN, pgHeld' = [pgHeld EXCEPT ![h] = kept],
         UNCHANGED <<waiting, values>>
  PROVE  PgInductive' /\ PgStepKeepsContract
<1>1. Pg!TypeOK'
  BY DEF PgInductive, Pg!TypeOK, Pg!Release, Pg!reach
<1>2. PgPointersTrue'
  BY DEF PgInductive, Pg!TypeOK, PgPointersTrue, Pg!Release
<1>3. PgCallsKeepTheirs'
  BY DEF PgInductive, Pg!TypeOK, PgCallsKeepTheirs, Pg!Release, Pg!Handle
<1>4. PgStepKeepsContract
  <2>1. \A g \in Pg!Handle \ {h} : pgNative'[g] = pgNative[g]
    BY DEF PgInductive, Pg!TypeOK, Pg!Release
  <2>2. CASE pgPtr[h] = TRUE
    <3>1. pgNative[h] = "open"
      BY <2>2 DEF PgInductive, PgPointersTrue
    <3>2. pgNative' = [pgNative EXCEPT ![h] = "gone"] /\ pgTouched' = {h}
      BY <2>2 DEF Pg!Release, Pg!reach
    <3>3. pgNative'[h] = "gone"
      BY <3>2 DEF PgInductive, Pg!TypeOK
    <3> QED BY <2>1, <3>1, <3>2, <3>3
      DEF PgStepKeepsContract, Pg!Contract!Call, Pg!live, Pg!gone
  <2>3. CASE pgPtr[h] = FALSE
    <3>1. pgNative' = pgNative /\ pgTouched' = {}
      BY <2>3 DEF Pg!Release, Pg!reach
    <3> QED BY <3>1
      DEF PgStepKeepsContract, Pg!Contract!Call, Pg!live, Pg!gone, PgInductive,
          Pg!TypeOK
  <2> QED BY <2>2, <2>3 DEF PgInductive, Pg!TypeOK
<1> QED BY <1>1, <1>2, <1>3, <1>4 DEF PgInductive

(* A call that reaches what a wrapper has, and releases nothing. *)
LEMMA PgAskStep ==
  ASSUME PgInductive, NEW h \in Pg!Handle, pgTouched' = Pg!reach(h), UNCHANGED <<pgNative, pgPtr, pgHeld>>,
         waiting' \subseteq PgConn, values' \subseteq waiting',
         \A c \in waiting' \ waiting : pgPtr[c] = TRUE
  PROVE  PgInductive' /\ PgStepKeepsContract
<1>1. Pg!TypeOK'
  BY DEF PgInductive, Pg!TypeOK, Pg!reach
<1>2. PgPointersTrue' /\ PgCallsKeepTheirs'
  BY DEF PgInductive, PgPointersTrue, PgCallsKeepTheirs
<1>3. PgStepKeepsContract
  <2>1. pgTouched' \subseteq Pg!Handle /\ \A g \in pgTouched' : pgPtr[g] = TRUE
    BY DEF PgInductive, Pg!TypeOK, Pg!reach
  <2>2. pgTouched' \subseteq Pg!live
    BY <2>1 DEF PgInductive, PgPointersTrue, Pg!live
  <2>3. Pg!live' = Pg!live /\ Pg!gone' = Pg!gone /\ Pg!live \cap Pg!gone = {}
        /\ Pg!live \cup Pg!gone \subseteq Pg!Handle
    BY DEF Pg!live, Pg!gone
  <2> QED BY <2>2, <2>3 DEF PgStepKeepsContract, Pg!Contract!Call
<1> QED BY <1>1, <1>2, <1>3 DEF PgInductive

LEMMA PgBeginStep ==
  ASSUME PgInductive, NEW c \in PgConn, NEW withValues \in BOOLEAN, Pg!Begin(c, withValues)
  PROVE  PgInductive' /\ PgStepKeepsContract
<1>1. /\ waiting' \subseteq PgConn /\ values' \subseteq waiting'
      /\ \A d \in waiting' \ waiting : pgPtr[d] = TRUE
  BY DEF Pg!Begin, Pg!MayCall, PgInductive, Pg!TypeOK, PgCallsKeepTheirs
<1>2. pgTouched' = Pg!reach(c) /\ UNCHANGED <<pgNative, pgPtr, pgHeld>>
  BY DEF Pg!Begin
<1> QED BY <1>1, <1>2, PgAskStep DEF Pg!Handle

LEMMA PgReturnStep ==
  ASSUME PgInductive, NEW c \in PgConn, Pg!Return(c)
  PROVE  PgInductive' /\ PgStepKeepsContract
<1>1. /\ pgNative[c] = "open" /\ pgPtr[c] = TRUE
      /\ waiting' \subseteq waiting /\ values' \subseteq values /\ values' \subseteq waiting'
  <2>1. c \in waiting /\ waiting' = waiting \ {c} /\ values' = values \ {c}
    BY DEF Pg!Return
  <2> QED BY <2>1 DEF PgInductive, PgPointersTrue, PgCallsKeepTheirs, Pg!Handle
<1>2. CASE pgTouched' = {c} /\ UNCHANGED <<pgNative, pgPtr, pgHeld>>
  <2>1. pgTouched' = Pg!reach(c)
    BY <1>1, <1>2 DEF Pg!reach
  <2>2. waiting' \subseteq PgConn /\ \A d \in waiting' \ waiting : pgPtr[d] = TRUE
    BY <1>1 DEF PgInductive, Pg!TypeOK
  <2> QED BY <1>1, <1>2, <2>1, <2>2, PgAskStep DEF Pg!Handle
<1>3. ASSUME NEW r \in Res, pgNative[r] = "none", Pg!Wrap(r), pgTouched' = {c, r}
      PROVE  PgInductive' /\ PgStepKeepsContract
  <2>1. /\ pgTouched' \in SUBSET Pg!Handle /\ r \in pgTouched' /\ pgTouched' \cap Pg!gone = {}
        /\ pgTouched' \subseteq Pg!live \cup {r} /\ r \in Pg!Handle
    BY <1>1, <1>3 DEF Pg!Handle, Pg!live, Pg!gone
  <2> QED BY <1>1, <1>3, <2>1, PgWrapStep
<1> QED BY <1>2, <1>3 DEF Pg!Return

LEMMA PgConnStep ==
  ASSUME PgInductive, NEW c \in PgConn,
         \/ Pg!Connect(c) \/ Pg!ConnectStart(c) \/ Pg!Close(c) \/ Pg!AskConnection(c)
  PROVE  PgInductive' /\ PgStepKeepsContract
<1>1. c \in Pg!Handle
  BY DEF Pg!Handle
<1>2. CASE Pg!Connect(c)
  BY <1>1, <1>2, PgWrapStep
    DEF Pg!Connect, Pg!gone, Pg!live, PgInductive, PgCallsKeepTheirs
<1>3. CASE Pg!ConnectStart(c)
  <2>1. Pg!Wrap(c)
    BY <1>3 DEF Pg!ConnectStart, Pg!Wrap
  <2> QED BY <1>1, <1>3, <2>1, PgWrapStep
    DEF Pg!ConnectStart, Pg!gone, Pg!live, PgInductive, PgCallsKeepTheirs
<1>4. CASE Pg!Close(c)
  <2>1. pgHeld[c] \in BOOLEAN /\ pgHeld' = [pgHeld EXCEPT ![c] = pgHeld[c]]
    BY <1>1, <1>4 DEF Pg!Close, PgInductive, Pg!TypeOK
  <2> QED BY <1>1, <1>4, <2>1, PgReleaseStep DEF Pg!Close, Pg!MayCall
<1>5. CASE Pg!AskConnection(c)
  BY <1>1, <1>5, PgAskStep
    DEF Pg!AskConnection, PgInductive, Pg!TypeOK, PgCallsKeepTheirs
<1> QED BY <1>2, <1>3, <1>4, <1>5

LEMMA PgHandleStep ==
  ASSUME Pg!PgHandlesAssumption, PgInductive,
         \/ \E r \in Res : Pg!Clear(r) \/ Pg!AskResult(r)
         \/ \E h \in Pg!Handle : Pg!Drop(h)
  PROVE  PgInductive' /\ PgStepKeepsContract
<1>1. ASSUME NEW r \in Res, Pg!Clear(r) PROVE PgInductive' /\ PgStepKeepsContract
  <2>1. r \in Pg!Handle /\ r \notin waiting
    BY DEF Pg!Handle, Pg!PgHandlesAssumption, PgInductive, Pg!TypeOK
  <2>2. PICK kept \in BOOLEAN : pgHeld' = [pgHeld EXCEPT ![r] = kept]
    BY <1>1 DEF Pg!Clear
  <2> QED BY <1>1, <2>1, <2>2, PgReleaseStep DEF Pg!Clear
<1>2. ASSUME NEW r \in Res, Pg!AskResult(r) PROVE PgInductive' /\ PgStepKeepsContract
  BY <1>2, PgAskStep
    DEF Pg!AskResult, Pg!Handle, PgInductive, Pg!TypeOK, PgCallsKeepTheirs
<1>3. ASSUME NEW h \in Pg!Handle, Pg!Drop(h) PROVE PgInductive' /\ PgStepKeepsContract
  BY <1>3, PgReleaseStep DEF Pg!Drop
<1> QED BY <1>1, <1>2, <1>3

LEMMA PgNextStep ==
  ASSUME Pg!PgHandlesAssumption, PgInductive, Pg!Next
  PROVE  PgInductive' /\ PgStepKeepsContract
<1>1. CASE \E c \in PgConn : Pg!Connect(c) \/ Pg!ConnectStart(c) \/ Pg!Close(c) \/ Pg!AskConnection(c)
  BY <1>1, PgConnStep
<1>2. CASE \E c \in PgConn : Pg!Begin(c, TRUE) \/ Pg!Begin(c, FALSE)
  BY <1>2, PgBeginStep
<1>3. CASE \E c \in PgConn : Pg!Return(c)
  BY <1>3, PgReturnStep
<1>4. CASE \/ \E r \in Res : Pg!Clear(r) \/ Pg!AskResult(r)
           \/ \E h \in Pg!Handle : Pg!Drop(h)
  BY <1>4, PgHandleStep
<1> QED
  BY <1>1, <1>2, <1>3, <1>4
  DEF Pg!Next, Pg!Inform, Pg!ConnectPoll, Pg!Nonblocking, Pg!Escape, Pg!ConsumeInput,
        Pg!Notifies, Pg!PutCopy,
      Pg!Exec, Pg!Prepare, Pg!ExecParams, Pg!ExecPrepared, Pg!Reset, Pg!GetValue

LEMMA PgInductiveStep ==
  ASSUME Pg!PgHandlesAssumption, PgInductive, [Pg!Next]_(Pg!vars)
  PROVE  PgInductive' /\ [PgStepKeepsContract]_(Pg!vars)
<1>1. CASE Pg!Next
  BY <1>1, PgNextStep
<1>2. CASE UNCHANGED Pg!vars
  BY <1>2 DEF Pg!vars, PgInductive, Pg!TypeOK, PgPointersTrue, PgCallsKeepTheirs
<1> QED BY <1>1, <1>2

-----------------------------------------------------------------------------
(* Every variable keeps its type. *)
THEOREM PgTypeCorrect == Pg!Spec => []Pg!TypeOK
<1> USE PgIsSound
<1>1. PgInductive => Pg!TypeOK
  BY DEF PgInductive
<1> QED BY <1>1, PgInitHolds, PgInductiveStep, PTL DEF Pg!Spec

(* PgHandles!NothingStranded: whatever libpq has open, some wrapper that    *)
(* the program holds can release, and calls wait on open connections only.  *)
THEOREM PgNothingStranded == Pg!Spec => []Pg!NothingStranded
<1> USE PgIsSound
<1>1. PgInductive => Pg!NothingStranded
  <2> SUFFICES ASSUME PgInductive PROVE Pg!NothingStranded
    OBVIOUS
  <2>1. \A h \in Pg!live : pgPtr[h] = TRUE /\ pgHeld[h] = TRUE
    BY DEF PgInductive, PgPointersTrue, Pg!live
  <2>2. waiting \subseteq Pg!live /\ values \subseteq waiting
    BY DEF PgInductive, Pg!TypeOK, PgPointersTrue, PgCallsKeepTheirs, Pg!live, Pg!Handle
  <2> QED BY <2>1, <2>2 DEF Pg!NothingStranded
<1> QED BY <1>1, PgInitHolds, PgInductiveStep, PTL DEF Pg!Spec

(* PgHandles!KeepsContract: PgHandles implements ForeignResource, and step  *)
(* for step: no call hands libpq a handle that is gone.                            *)
THEOREM PgImplementsContract == Pg!Spec => Pg!KeepsContract
<1> USE PgIsSound
<1>1. [PgStepKeepsContract]_(Pg!vars) => [Pg!Contract!Call]_<<Pg!live, Pg!gone, pgTouched>>
  BY DEF PgStepKeepsContract, Pg!vars, Pg!live, Pg!gone
<1>2. [PgStepKeepsContract]_(Pg!vars) => [Pg!Contract!Call]_(Pg!vars)
  BY DEF PgStepKeepsContract
<1> QED
  BY <1>1, <1>2, PgInitHolds, PgInductiveStep, PTL
  DEF Pg!Spec, Pg!KeepsContract, Pg!Contract!Spec, Pg!Contract!vars

-----------------------------------------------------------------------------
(* DuckDB.  As for libpq the pointer of an owning wrapper is set exactly    *)
(* while DuckDB has what it points to, and that of a vector only then; but  *)
(* a wrapper whose reference a call lost keeps its pointer although nobody  *)
(* holds it.                                                                *)
DuckPointersTrue ==
  \A h \in Duck!Handle : /\ duckPtr[h] = TRUE => duckNative[h] = "open"
                         /\ duckNative[h] = "open" => duckPtr[h] = TRUE \/ h \notin Duck!Owner

DuckOwned ==
  \A h \in Duck!Owner : duckNative[h] = "open" => duckHeld[h] = TRUE \/ h \in duckLost

DuckInductive == Duck!TypeOK /\ DuckPointersTrue /\ DuckOwned
DuckStepKeepsContract == Duck!Contract!Call

LEMMA DuckClasses ==
  /\ None \notin Chunk /\ Vector \cap Duck!Owner = {}
  /\ Vector \subseteq Duck!Handle /\ Duck!Owner \subseteq Duck!Handle
  /\ Database \cup Connection \cup Statement \cup Appender \cup Result \cup Chunk = Duck!Owner
BY LibrariesAreSound DEF Duck!DuckHandlesAssumption, Duck!Owner, Duck!Handle

LEMMA DuckInitHolds == Duck!Init => DuckInductive /\ Duck!Contract!Init
<1> SUFFICES ASSUME Duck!Init PROVE DuckInductive /\ Duck!Contract!Init
  OBVIOUS
<1>1. Duck!TypeOK
  BY DEF Duck!Init, Duck!TypeOK
<1>2. DuckPointersTrue /\ DuckOwned
  BY DuckClasses DEF Duck!Init, DuckPointersTrue, DuckOwned
<1>3. Duck!live = {} /\ Duck!gone = {} /\ duckTouched = {}
  BY DEF Duck!Init, Duck!live, Duck!gone
<1> QED BY <1>1, <1>2, <1>3 DEF DuckInductive, Duck!Contract!Init

(* Something new is made, and wrapped or destroyed at once.                 *)
LEMMA DuckWrapStep ==
  ASSUME DuckInductive, NEW h \in Duck!Handle, duckNative[h] = "none",
         Duck!Wrap(h) \/ (h \in Vector /\ Duck!WrapVector(h)),
         duckTouched' \subseteq Duck!live \cup {h}, h \in duckTouched',
         UNCHANGED <<duckLost, chunkOf>>
  PROVE  DuckInductive' /\ DuckStepKeepsContract
<1>0. /\ duckNative \in [Duck!Handle -> {"none", "open", "gone"}]
      /\ duckPtr \in [Duck!Handle -> BOOLEAN] /\ duckHeld \in [Duck!Handle -> BOOLEAN]
  BY DEF DuckInductive, Duck!TypeOK
<1>1. \/ /\ duckNative' = [duckNative EXCEPT ![h] = "open"]
         /\ duckPtr' = [duckPtr EXCEPT ![h] = TRUE]
         /\ duckHeld' = [duckHeld EXCEPT ![h] = TRUE]
      \/ duckNative' = [duckNative EXCEPT ![h] = "gone"] /\ UNCHANGED <<duckPtr, duckHeld>>
      \/ /\ duckNative' = [duckNative EXCEPT ![h] = "open"] /\ h \notin Duck!Owner
         /\ UNCHANGED <<duckPtr, duckHeld>>
  BY DuckClasses DEF Duck!Wrap, Duck!WrapVector
<1>2. Duck!TypeOK'
  <2>1. duckTouched' \subseteq Duck!Handle
    BY DEF Duck!live
  <2> QED BY <1>0, <1>1, <2>1 DEF DuckInductive, Duck!TypeOK
<1>3. DuckPointersTrue'
  BY <1>0, <1>1 DEF DuckInductive, DuckPointersTrue
<1>4. DuckOwned'
  BY <1>0, <1>1, DuckClasses DEF DuckInductive, DuckOwned
<1>5. DuckStepKeepsContract
  <2>1. \A g \in Duck!Handle \ {h} : duckNative'[g] = duckNative[g]
    BY <1>0, <1>1
  <2>2. duckNative'[h] \in {"open", "gone"}
    BY <1>0, <1>1
  <2> QED BY <2>1, <2>2
    DEF DuckStepKeepsContract, Duck!Contract!Call, Duck!live, Duck!gone
<1> QED BY <1>2, <1>3, <1>4, <1>5 DEF DuckInductive

(* What a wrapper has is released.                                          *)
LEMMA DuckReleaseStep ==
  ASSUME DuckInductive, NEW h \in Duck!Handle, Duck!Release(h),
         duckHeld' \in [Duck!Handle -> BOOLEAN],
         \A g \in Duck!Handle \ {h} : duckHeld'[g] = duckHeld[g],
         duckLost \subseteq duckLost', duckLost' \subseteq Duck!Handle, UNCHANGED chunkOf
  PROVE  DuckInductive' /\ DuckStepKeepsContract
<1>0. /\ duckNative \in [Duck!Handle -> {"none", "open", "gone"}]
      /\ duckPtr \in [Duck!Handle -> BOOLEAN]
  BY DEF DuckInductive, Duck!TypeOK
<1>1. /\ duckPtr' = [duckPtr EXCEPT ![h] = FALSE]
      /\ duckPtr[h] = TRUE => /\ duckNative' = [duckNative EXCEPT ![h] = "gone"]
                              /\ duckTouched' = {h}
      /\ duckPtr[h] = FALSE => duckNative' = duckNative /\ duckTouched' = {}
  BY <1>0 DEF Duck!Release, Duck!reach
<1>2. /\ duckPtr[h] \in BOOLEAN
      /\ duckPtr[h] = TRUE => duckNative[h] = "open" /\ duckNative'[h] = "gone"
      /\ duckPtr[h] = FALSE => duckNative'[h] = duckNative[h]
      /\ \A g \in Duck!Handle \ {h} : duckNative'[g] = duckNative[g] /\ duckPtr'[g] = duckPtr[g]
      /\ duckPtr'[h] = FALSE /\ (h \in Duck!Owner => duckNative'[h] # "open")
  BY <1>0, <1>1 DEF DuckInductive, DuckPointersTrue
<1>3. Duck!TypeOK'
  BY <1>0, <1>1, <1>2 DEF DuckInductive, Duck!TypeOK
<1>4. DuckPointersTrue'
  BY <1>2 DEF DuckInductive, DuckPointersTrue
<1>5. DuckOwned'
  BY <1>2, DuckClasses DEF DuckInductive, DuckOwned
<1>6. DuckStepKeepsContract
  <2>1. CASE duckPtr[h] = TRUE
    BY <1>1, <1>2, <2>1
      DEF DuckStepKeepsContract, Duck!Contract!Call, Duck!live, Duck!gone
  <2>2. CASE duckPtr[h] = FALSE
    BY <1>1, <2>2 DEF DuckStepKeepsContract, Duck!Contract!Call, Duck!live, Duck!gone
  <2> QED BY <1>2, <2>1, <2>2
<1> QED BY <1>3, <1>4, <1>5, <1>6 DEF DuckInductive

(* A call that releases nothing; references may be dropped or lost.         *)
LEMMA DuckAskStep ==
  ASSUME DuckInductive, UNCHANGED <<duckNative, duckPtr>>,
         duckHeld' \in [Duck!Handle -> BOOLEAN],
         duckLost \subseteq duckLost', duckLost' \subseteq Duck!Handle,
         \A g \in Duck!Owner : duckHeld[g] = TRUE => duckHeld'[g] = TRUE \/ g \in duckLost',
         chunkOf' \in [Vector -> Chunk \cup {None}],
         duckTouched' \subseteq Duck!live
  PROVE  DuckInductive' /\ DuckStepKeepsContract
<1>1. Duck!TypeOK'
  <2>1. duckTouched' \subseteq Duck!Handle
    BY DEF Duck!live
  <2> QED BY <2>1 DEF DuckInductive, Duck!TypeOK
<1>2. DuckPointersTrue' /\ DuckOwned'
  BY DEF DuckInductive, DuckPointersTrue, DuckOwned
<1>3. DuckStepKeepsContract
  <2>1. /\ Duck!live' = Duck!live /\ Duck!gone' = Duck!gone /\ Duck!live \cap Duck!gone = {}
        /\ Duck!live \cup Duck!gone \subseteq Duck!Handle
    BY DEF Duck!live, Duck!gone
  <2> QED BY <2>1 DEF DuckStepKeepsContract, Duck!Contract!Call
<1> QED BY <1>1, <1>2, <1>3 DEF DuckInductive

LEMMA DuckReach ==
  ASSUME DuckInductive, NEW h \in Duck!Handle
  PROVE  Duck!reach(h) \subseteq Duck!live /\ (duckPtr[h] = TRUE => h \in Duck!live)
BY DEF DuckInductive, DuckPointersTrue, Duck!TypeOK, Duck!reach, Duck!live

(* The operations that all classes of handles share.                        *)
LEMMA DuckMake ==
  ASSUME DuckInductive, NEW parents \in SUBSET Duck!Handle, NEW h \in Duck!Handle,
         \/ Duck!Make(parents, h)
         \/ h \in Vector /\ Duck!MakeNew(parents, h) /\ Duck!WrapVector(h)
  PROVE  DuckInductive' /\ DuckStepKeepsContract
<1>1. /\ duckNative[h] = "none" /\ UNCHANGED <<duckLost, chunkOf>>
      /\ Duck!Wrap(h) \/ (h \in Vector /\ Duck!WrapVector(h))
      /\ duckTouched' = {h} \cup parents
  BY DEF Duck!Make, Duck!MakeNew
<1>2. \A p \in parents : duckPtr[p] = TRUE
  BY DEF Duck!Make, Duck!MakeNew, DuckInductive, Duck!TypeOK
<1>3. parents \subseteq Duck!live
  BY <1>2, DuckReach
<1> QED BY <1>1, <1>3, DuckWrapStep

LEMMA DuckLose ==
  ASSUME DuckInductive, NEW h \in Duck!Handle, Duck!Lose(h)
  PROVE  /\ duckHeld' \in [Duck!Handle -> BOOLEAN]
         /\ \A g \in Duck!Handle \ {h} : duckHeld'[g] = duckHeld[g]
         /\ duckLost' = duckLost \cup {h} /\ duckLost' \subseteq Duck!Handle
<1>1. PICK kept \in BOOLEAN : duckHeld' = [duckHeld EXCEPT ![h] = kept]
  BY DEF Duck!Lose
<1> QED BY <1>1 DEF Duck!Lose, DuckInductive, Duck!TypeOK

LEMMA DuckAsk ==
  ASSUME DuckInductive, NEW h \in Duck!Handle, Duck!Ask(h) \/ Duck!AskAndLose(h)
  PROVE  DuckInductive' /\ DuckStepKeepsContract
<1>0. /\ duckHeld \in [Duck!Handle -> BOOLEAN] /\ duckLost \subseteq Duck!Handle
      /\ chunkOf \in [Vector -> Chunk \cup {None}]
  BY DEF DuckInductive, Duck!TypeOK
<1>1. /\ UNCHANGED <<duckNative, duckPtr, chunkOf>> /\ duckTouched' \subseteq Duck!live
  BY DuckReach DEF Duck!Ask, Duck!AskAndLose
<1>2. CASE Duck!Ask(h)
  BY <1>0, <1>1, <1>2, DuckAskStep DEF Duck!Ask
<1>3. CASE Duck!AskAndLose(h)
  <2>1. /\ duckHeld' \in [Duck!Handle -> BOOLEAN]
        /\ \A g \in Duck!Handle \ {h} : duckHeld'[g] = duckHeld[g]
        /\ duckLost' = duckLost \cup {h} /\ duckLost' \subseteq Duck!Handle
    BY <1>3, DuckLose DEF Duck!AskAndLose
  <2> QED BY <1>0, <1>1, <2>1, DuckClasses, DuckAskStep
<1> QED BY <1>2, <1>3

LEMMA DuckDestroy ==
  ASSUME DuckInductive, NEW h \in Duck!Handle, Duck!Destroy(h)
  PROVE  DuckInductive' /\ DuckStepKeepsContract
BY DuckLose, DuckReleaseStep DEF Duck!Destroy

LEMMA DuckDrop ==
  ASSUME DuckInductive, NEW h \in Duck!Owner, Duck!Drop(h)
  PROVE  DuckInductive' /\ DuckStepKeepsContract
<1>0. /\ duckHeld \in [Duck!Handle -> BOOLEAN] /\ duckLost \subseteq Duck!Handle
      /\ chunkOf \in [Vector -> Chunk \cup {None}] /\ h \in Duck!Handle
  BY DuckClasses DEF DuckInductive, Duck!TypeOK
<1>1. duckHeld' = [duckHeld EXCEPT ![h] = FALSE] /\ UNCHANGED <<duckLost, chunkOf>>
  BY DEF Duck!Drop
<1>2. CASE h \in duckLost
  <2>1. UNCHANGED <<duckNative, duckPtr>> /\ duckTouched' = {}
    BY <1>2 DEF Duck!Drop
  <2> QED BY <1>0, <1>1, <1>2, <2>1, DuckClasses, DuckAskStep
<1>3. CASE h \notin duckLost
  <2>1. Duck!Release(h)
    BY <1>3 DEF Duck!Drop
  <2> QED BY <1>0, <1>1, <2>1, DuckReleaseStep
<1> QED BY <1>2, <1>3

LEMMA DuckVectors ==
  ASSUME DuckInductive, NEW v \in Vector,
         \/ \E k \in Chunk : Duck!linen_duckdb_data_chunk_get_vector(k, v)
         \/ Duck!UseVector(v) \/ Duck!DropVector(v)
  PROVE  DuckInductive' /\ DuckStepKeepsContract
<1>0. /\ duckHeld \in [Duck!Handle -> BOOLEAN] /\ duckLost \subseteq Duck!Handle
      /\ duckPtr \in [Duck!Handle -> BOOLEAN]
      /\ chunkOf \in [Vector -> Chunk \cup {None}] /\ v \in Duck!Handle /\ v \notin Duck!Owner
      /\ Chunk \subseteq Duck!Handle
  BY DuckClasses DEF DuckInductive, Duck!TypeOK
<1>1. ASSUME NEW k \in Chunk, Duck!linen_duckdb_data_chunk_get_vector(k, v)
      PROVE  DuckInductive' /\ DuckStepKeepsContract
  <2>1. /\ duckHeld' = [duckHeld EXCEPT ![v] = TRUE] /\ chunkOf' = [chunkOf EXCEPT ![v] = k]
        /\ duckTouched' = {k} /\ UNCHANGED <<duckNative, duckPtr, duckLost>> /\ duckPtr[k] = TRUE
    BY <1>0, <1>1 DEF Duck!linen_duckdb_data_chunk_get_vector
  <2>2. duckTouched' \subseteq Duck!live
    BY <1>0, <2>1, DuckReach
  <2> QED BY <1>0, <2>1, <2>2, DuckClasses, DuckAskStep
<1>2. ASSUME Duck!UseVector(v) PROVE DuckInductive' /\ DuckStepKeepsContract
  <2>1. UNCHANGED <<duckNative, duckPtr, duckHeld, duckLost, chunkOf>>
    BY <1>2 DEF Duck!UseVector
  <2>2. duckTouched' \subseteq Duck!live
    <3>1. CASE chunkOf[v] = None
      BY <1>0, <1>2, <3>1, DuckReach DEF Duck!UseVector
    <3>2. CASE chunkOf[v] # None
      <4>1. PICK k \in Chunk : k = chunkOf[v]
        BY <1>0, <3>2
      <4>2. duckTouched' = {k} /\ duckPtr[k] = TRUE /\ k \in Duck!Handle
        BY <1>0, <1>2, <3>2, <4>1 DEF Duck!UseVector
      <4> QED BY <4>2, DuckReach
    <3> QED BY <3>1, <3>2
  <2> QED BY <1>0, <2>1, <2>2, DuckAskStep
<1>3. ASSUME Duck!DropVector(v) PROVE DuckInductive' /\ DuckStepKeepsContract
  <2>1. /\ duckHeld' = [duckHeld EXCEPT ![v] = FALSE] /\ chunkOf' = [chunkOf EXCEPT ![v] = None]
        /\ duckTouched' = {} /\ UNCHANGED <<duckNative, duckPtr, duckLost>>
    BY <1>3 DEF Duck!DropVector
  <2> QED BY <1>0, <2>1, DuckClasses, DuckAskStep
<1> QED BY <1>1, <1>2, <1>3

LEMMA DuckNextStep ==
  ASSUME DuckInductive, Duck!Next
  PROVE  DuckInductive' /\ DuckStepKeepsContract
<1>0. /\ Database \subseteq Duck!Handle /\ Connection \subseteq Duck!Handle
      /\ Statement \subseteq Duck!Handle /\ Appender \subseteq Duck!Handle
      /\ Result \subseteq Duck!Handle /\ Chunk \subseteq Duck!Handle /\ Vector \subseteq Duck!Handle
  BY DuckClasses
<1>1. ASSUME NEW h \in Duck!Handle, Duck!Make({}, h)
      PROVE  DuckInductive' /\ DuckStepKeepsContract
  BY <1>1, DuckMake
<1>2. ASSUME NEW g \in Duck!Handle, NEW h \in Duck!Handle, Duck!Make({g}, h)
      PROVE  DuckInductive' /\ DuckStepKeepsContract
  BY <1>2, DuckMake
<1>3. ASSUME NEW h \in Duck!Handle, Duck!Ask(h) \/ Duck!AskAndLose(h)
      PROVE  DuckInductive' /\ DuckStepKeepsContract
  BY <1>3, DuckAsk
<1>4. ASSUME NEW h \in Duck!Handle, Duck!Destroy(h)
      PROVE  DuckInductive' /\ DuckStepKeepsContract
  BY <1>4, DuckDestroy
<1>5. ASSUME NEW h \in Duck!Owner, Duck!Drop(h)
      PROVE  DuckInductive' /\ DuckStepKeepsContract
  BY <1>5, DuckDrop
<1>6. ASSUME NEW v \in Vector, Duck!UseVector(v) \/ Duck!DropVector(v)
      PROVE  DuckInductive' /\ DuckStepKeepsContract
  BY <1>6, DuckVectors
<1>7. ASSUME NEW k \in Chunk, NEW v \in Vector, Duck!linen_duckdb_data_chunk_get_vector(k, v)
      PROVE  DuckInductive' /\ DuckStepKeepsContract
  BY <1>7, DuckVectors
<1>8. CASE \E d \in Database :
             \/ Duck!linen_duckdb_open(d) \/ Duck!linen_duckdb_close(d)
             \/ \E c \in Connection : Duck!linen_duckdb_connect(d, c)
  BY <1>0, <1>1, <1>2, <1>4, <1>8
  DEF Duck!linen_duckdb_open, Duck!linen_duckdb_close, Duck!linen_duckdb_connect
<1>9. CASE \E c \in Connection :
             \/ Duck!linen_duckdb_interrupt(c) \/ Duck!linen_duckdb_disconnect(c) \/ Duck!Ask(c)
             \/ \E s \in Statement : Duck!linen_duckdb_prepare(c, s)
             \/ \E a \in Appender : Duck!linen_duckdb_appender_create(c, a)
             \/ \E r \in Result : Duck!linen_duckdb_query(c, r)
  BY <1>0, <1>2, <1>3, <1>4, <1>9
  DEF Duck!linen_duckdb_interrupt, Duck!linen_duckdb_disconnect,
        Duck!linen_duckdb_prepare,
      Duck!linen_duckdb_appender_create, Duck!linen_duckdb_query
<1>10. CASE \E s \in Statement :
              \/ Duck!bind(s) \/ Duck!StatementInfo(s) \/ Duck!linen_duckdb_destroy_prepare(s)
              \/ \E r \in Result : Duck!linen_duckdb_execute_prepared(s, r)
  BY <1>0, <1>2, <1>3, <1>4, <1>10
  DEF Duck!bind, Duck!StatementInfo, Duck!linen_duckdb_destroy_prepare,
      Duck!linen_duckdb_execute_prepared
<1>11. CASE \/ \E a \in Appender : \/ Duck!append(a) \/ Duck!linen_duckdb_appender_flush(a)
                                   \/ Duck!linen_duckdb_appender_destroy(a)
            \/ \E r \in Result :
                 \/ Duck!ResultInfo(r) \/ Duck!linen_duckdb_destroy_result(r)
                 \/ \E k \in Chunk : Duck!linen_duckdb_fetch_chunk(r, k)
  BY <1>0, <1>2, <1>3, <1>4, <1>11
  DEF Duck!append, Duck!linen_duckdb_appender_flush, Duck!linen_duckdb_appender_destroy,
      Duck!ResultInfo, Duck!linen_duckdb_destroy_result, Duck!linen_duckdb_fetch_chunk
<1>12. CASE \E k \in Chunk :
              \/ Duck!linen_duckdb_create_data_chunk(k)
              \/ Duck!linen_duckdb_data_chunk_get_size(k)
              \/ Duck!linen_duckdb_destroy_data_chunk(k)
              \/ \E v \in Vector : Duck!linen_duckdb_data_chunk_get_vector(k, v)
  BY <1>0, <1>1, <1>3, <1>4, <1>7, <1>12
  DEF Duck!linen_duckdb_create_data_chunk, Duck!linen_duckdb_data_chunk_get_size,
      Duck!linen_duckdb_destroy_data_chunk
<1>13. CASE \E v \in Vector :
              \/ Duck!linen_duckdb_create_vector(v) \/ Duck!linen_duckdb_destroy_vector(v)
              \/ Duck!UseVector(v) \/ Duck!DropVector(v)
  <2>1. ASSUME NEW v \in Vector, Duck!linen_duckdb_create_vector(v)
        PROVE  DuckInductive' /\ DuckStepKeepsContract
    BY <1>0, <2>1, DuckMake DEF Duck!linen_duckdb_create_vector
  <2> QED BY <1>0, <1>4, <1>6, <1>13, <2>1 DEF Duck!linen_duckdb_destroy_vector
<1>14. CASE \E h \in Duck!Owner : Duck!Drop(h)
  BY <1>5, <1>14
<1> QED
  BY <1>8, <1>9, <1>10, <1>11, <1>12, <1>13, <1>14 DEF Duck!Next

LEMMA DuckInductiveStep ==
  ASSUME DuckInductive, [Duck!Next]_(Duck!vars)
  PROVE  DuckInductive' /\ [DuckStepKeepsContract]_(Duck!vars)
<1>1. CASE Duck!Next
  BY <1>1, DuckNextStep
<1>2. CASE UNCHANGED Duck!vars
  BY <1>2 DEF Duck!vars, DuckInductive, Duck!TypeOK, DuckPointersTrue, DuckOwned
<1> QED BY <1>1, <1>2

(* DuckHandles!NothingStranded, with the types.                             *)
LEMMA DuckNothingStranded == DuckInductive => Duck!TypeOK /\ Duck!NothingStranded
<1> SUFFICES ASSUME DuckInductive PROVE Duck!NothingStranded
  BY DEF DuckInductive
<1>1. \A h \in Duck!live \cap Duck!Owner :
        duckPtr[h] = TRUE /\ (duckHeld[h] = TRUE \/ h \in duckLost)
  BY DEF DuckInductive, DuckPointersTrue, DuckOwned, Duck!live
<1> QED BY <1>1 DEF Duck!NothingStranded

(* DuckHandles!KeepsContract: DuckHandles implements ForeignResource, step  *)
(* for step, in whatever order handles are made, destroyed and dropped.     *)
THEOREM DuckImplementsContract == Duck!Spec => Duck!KeepsContract
<1>1. [DuckStepKeepsContract]_(Duck!vars)
        => [Duck!Contract!Call]_<<Duck!live, Duck!gone, duckTouched>>
  BY DEF DuckStepKeepsContract, Duck!vars, Duck!live, Duck!gone
<1>2. [DuckStepKeepsContract]_(Duck!vars) => [Duck!Contract!Call]_(Duck!vars)
  BY DEF DuckStepKeepsContract
<1> QED
  BY <1>1, <1>2, DuckInitHolds, DuckInductiveStep, PTL
  DEF Duck!Spec, Duck!KeepsContract, Duck!Contract!Spec, Duck!Contract!vars

-----------------------------------------------------------------------------
(* SQLite.  A wrapper's pointer is set exactly while SQLite has its handle  *)
(* open, and then the program holds the wrapper: a close or a finalize      *)
(* loses a reference, but only of a wrapper with nothing left to release.   *)
(* An open statement keeps its connection from going, closed or not, and a  *)
(* closed one is kept by nothing else.                                      *)
LiteTypes ==
  /\ liteNative \in [Sqlite!Handle -> {"none", "open", "zombie", "gone"}]
  /\ litePtr \in [Sqlite!Handle -> BOOLEAN] /\ liteHeld \in [Sqlite!Handle -> BOOLEAN]
  /\ liteLost \in [Sqlite!Handle -> BOOLEAN] /\ active \subseteq Stmt
  /\ liteTouched \subseteq Sqlite!Handle

LiteOwned ==
  \A h \in Sqlite!Handle :
    /\ litePtr[h] = TRUE <=> liteNative[h] = "open"
    /\ liteNative[h] = "open" => liteHeld[h] = TRUE
    /\ liteHeld[h] = TRUE => liteNative[h] # "none"
    /\ liteLost[h] = TRUE => liteNative[h] \notin {"none", "open"}

LiteZombie ==
  /\ \A s \in Stmt : liteNative[s] # "zombie"
  /\ \A s \in Stmt : liteNative[s] = "open" => liteNative[Db] \in {"open", "zombie"}
  /\ liteNative[Db] = "zombie" => \E s \in Stmt : liteNative[s] = "open"

LiteHandles == LiteTypes /\ LiteOwned /\ LiteZombie

LiteStepKeepsContract == Sqlite!Contract!Call

(* What a step on the handle h does to the handles. *)
LiteStep(h) ==
  /\ LiteHandles' /\ LiteStepKeepsContract
  /\ \A s \in Stmt \ {h} : liteNative[s] = "open" => liteNative'[s] = "open"

LEMMA LiteClasses ==
  /\ Db \notin Stmt /\ None \notin Closure /\ Sqlite!IsFiniteSet(Name)
  /\ Stmt \subseteq Sqlite!Handle /\ Db \in Sqlite!Handle /\ Sqlite!Handle = Stmt \cup {Db}
BY LibrariesAreSound DEF Sqlite!SqliteHandlesAssumption, Sqlite!Handle

LEMMA LiteReach ==
  ASSUME LiteHandles, NEW h \in Sqlite!Handle
  PROVE  /\ Sqlite!reach(h) \subseteq Sqlite!live
         /\ litePtr[h] = TRUE => Sqlite!reach(h) = {h, Db} /\ {h, Db} \subseteq Sqlite!live
         /\ litePtr[h] = FALSE => Sqlite!reach(h) = {}
<1>1. /\ litePtr[h] \in BOOLEAN /\ litePtr[h] = TRUE => liteNative[h] = "open"
  BY DEF LiteHandles, LiteTypes, LiteOwned
<1>2. liteNative[h] = "open" => liteNative[Db] \in {"open", "zombie"}
  BY LiteClasses DEF LiteHandles, LiteZombie
<1> QED BY <1>1, <1>2, LiteClasses DEF Sqlite!reach, Sqlite!live

(* A call that releases nothing. *)
LEMMA LiteAskStep ==
  ASSUME LiteHandles, UNCHANGED <<liteNative, litePtr, liteHeld, liteLost>>,
         active' \subseteq Stmt, liteTouched' \subseteq Sqlite!live
  PROVE  \A h : LiteStep(h)
<1>1. LiteHandles'
  <2>1. liteTouched' \subseteq Sqlite!Handle
    BY DEF Sqlite!live
  <2> QED BY <2>1 DEF LiteHandles, LiteTypes, LiteOwned, LiteZombie
<1>2. LiteStepKeepsContract
  <2>1. /\ Sqlite!live' = Sqlite!live /\ Sqlite!gone' = Sqlite!gone
        /\ Sqlite!live \cap Sqlite!gone = {} /\ Sqlite!live \cup Sqlite!gone \subseteq Sqlite!Handle
    BY DEF Sqlite!live, Sqlite!gone
  <2> QED BY <2>1 DEF LiteStepKeepsContract, Sqlite!Contract!Call
<1> QED BY <1>1, <1>2 DEF LiteStep

(* A call on a wrapper that has nothing to release. *)
LEMMA LiteForgetStep ==
  ASSUME LiteHandles, NEW h \in Sqlite!Handle, UNCHANGED <<liteNative, litePtr>>,
         litePtr[h] = FALSE, liteHeld[h] = TRUE, NEW kept \in BOOLEAN, NEW given \in BOOLEAN,
         liteHeld' = [liteHeld EXCEPT ![h] = kept], liteLost' = [liteLost EXCEPT ![h] = given],
         active' \subseteq Stmt, liteTouched' = {}
  PROVE  LiteStep(h)
<1>1. LiteTypes'
  BY DEF LiteHandles, LiteTypes
<1>2. LiteOwned'
  BY DEF LiteHandles, LiteTypes, LiteOwned
<1>3. LiteZombie'
  BY DEF LiteHandles, LiteZombie
<1>4. LiteStepKeepsContract
  BY DEF LiteStepKeepsContract, Sqlite!Contract!Call, Sqlite!live, Sqlite!gone
<1> QED BY <1>1, <1>2, <1>3, <1>4 DEF LiteStep, LiteHandles

(* The pointer of a wrapper is released: native' has it gone, or a zombie.  *)
LEMMA LiteReleaseStep ==
  ASSUME LiteHandles, NEW h \in Sqlite!Handle, litePtr[h] = TRUE,
         liteNative' \in [Sqlite!Handle -> {"none", "open", "zombie", "gone"}],
         \A g \in Stmt \ {h} : liteNative'[g] = liteNative[g],
         liteNative'[h] \in {"zombie", "gone"},
         h # Db => \/ liteNative'[Db] = liteNative[Db]
                   \/ liteNative[Db] = "zombie" /\ liteNative'[Db] = "gone",
         LiteZombie', liteTouched' = {h, Db}, litePtr' = [litePtr EXCEPT ![h] = FALSE],
         NEW kept \in BOOLEAN, NEW given \in BOOLEAN,
         liteHeld' = [liteHeld EXCEPT ![h] = kept], liteLost' = [liteLost EXCEPT ![h] = given],
         active' \subseteq Stmt
  PROVE  LiteStep(h)
<1>1. LiteTypes'
  BY LiteClasses DEF LiteHandles, LiteTypes
<1>2. LiteOwned'
  BY LiteClasses DEF LiteHandles, LiteTypes, LiteOwned
<1>3. LiteStepKeepsContract
  <2>1. /\ \A g \in Sqlite!Handle \ {h, Db} : liteNative'[g] = liteNative[g]
        /\ liteNative[h] = "open"
        /\ liteNative[Db] \in {"open", "zombie"}
    BY LiteClasses DEF LiteHandles, LiteTypes, LiteOwned, LiteZombie
  <2>2. /\ Sqlite!live' \cup Sqlite!gone' = Sqlite!live \cup Sqlite!gone
        /\ Sqlite!live' \cup Sqlite!gone' \subseteq Sqlite!Handle
        /\ Sqlite!live' \cap Sqlite!gone' = {}
    BY <2>1, LiteClasses DEF Sqlite!live, Sqlite!gone
  <2>3. /\ Sqlite!gone \subseteq Sqlite!gone' /\ Sqlite!gone' \ Sqlite!gone \subseteq {h, Db}
        /\ {h, Db} \subseteq Sqlite!live \ Sqlite!gone
    BY <2>1, LiteClasses DEF Sqlite!live, Sqlite!gone
  <2> QED BY <2>2, <2>3 DEF LiteStepKeepsContract, Sqlite!Contract!Call
<1> QED BY <1>1, <1>2, <1>3 DEF LiteStep, LiteHandles

(* sqlite3_close_v2 by way of the connection's wrapper. *)
LEMMA LiteCloseStep ==
  ASSUME LiteHandles, litePtr[Db] = TRUE, liteNative' = Sqlite!sqlite3_close_v2(liteNative),
         liteTouched' = {Db}, litePtr' = [litePtr EXCEPT ![Db] = FALSE],
         NEW kept \in BOOLEAN, NEW given \in BOOLEAN,
         liteHeld' = [liteHeld EXCEPT ![Db] = kept], liteLost' = [liteLost EXCEPT ![Db] = given],
         active' \subseteq Stmt
  PROVE  LiteStep(Db)
<1>0. liteNative[Db] = "open" /\ liteNative \in [Sqlite!Handle -> {"none", "open", "zombie", "gone"}]
  BY LiteClasses DEF LiteHandles, LiteTypes, LiteOwned
<1>1. PICK state \in {"zombie", "gone"} :
        /\ liteNative' = [liteNative EXCEPT ![Db] = state]
        /\ state = "zombie" <=> \E s \in Stmt : liteNative[s] = "open"
  <2>1. Sqlite!openStatements(liteNative) = {} <=> ~\E s \in Stmt : liteNative[s] = "open"
    BY DEF Sqlite!openStatements
  <2> QED BY <2>1 DEF Sqlite!sqlite3_close_v2
<1>2. /\ liteNative' \in [Sqlite!Handle -> {"none", "open", "zombie", "gone"}]
      /\ \A g \in Stmt : liteNative'[g] = liteNative[g] /\ liteNative'[Db] = state
  BY <1>0, <1>1, LiteClasses
<1>3. LiteZombie'
  BY <1>1, <1>2, LiteClasses DEF LiteHandles, LiteZombie
<1>4. liteNative'[Db] \in {"zombie", "gone"} /\ liteTouched' = {Db, Db}
  BY <1>0, <1>1, LiteClasses
<1> QED BY <1>0, <1>2, <1>3, <1>4, LiteReleaseStep, LiteClasses

(* sqlite3_finalize by way of a statement's wrapper. *)
LEMMA LiteFinalizeStep ==
  ASSUME LiteHandles, NEW s \in Stmt, litePtr[s] = TRUE,
         liteNative' = Sqlite!sqlite3_finalize(liteNative, s),
         liteTouched' = {s, Db}, litePtr' = [litePtr EXCEPT ![s] = FALSE],
         NEW kept \in BOOLEAN, NEW given \in BOOLEAN,
         liteHeld' = [liteHeld EXCEPT ![s] = kept], liteLost' = [liteLost EXCEPT ![s] = given],
         active' \subseteq Stmt
  PROVE  LiteStep(s)
<1>0. /\ liteNative[s] = "open" /\ liteNative[Db] \in {"open", "zombie"} /\ s # Db
      /\ liteNative \in [Sqlite!Handle -> {"none", "open", "zombie", "gone"}] /\ s \in Sqlite!Handle
  BY LiteClasses DEF LiteHandles, LiteTypes, LiteOwned, LiteZombie
<1> DEFINE left == [liteNative EXCEPT ![s] = "gone"]
           last == liteNative[Db] = "zombie" /\ \A g \in Stmt \ {s} : liteNative[g] # "open"
<1>1. /\ left \in [Sqlite!Handle -> {"none", "open", "zombie", "gone"}]
      /\ left[s] = "gone" /\ \A g \in Sqlite!Handle \ {s} : left[g] = liteNative[g]
  BY <1>0
<1>2. Sqlite!openStatements(left) = {} <=> \A g \in Stmt \ {s} : liteNative[g] # "open"
  BY <1>1, LiteClasses DEF Sqlite!openStatements
<1>3. liteNative' = IF last THEN [left EXCEPT ![Db] = "gone"] ELSE left
  BY <1>0, <1>1, <1>2, LiteClasses DEF Sqlite!sqlite3_finalize
<1> HIDE DEF left
<1>4. /\ liteNative' \in [Sqlite!Handle -> {"none", "open", "zombie", "gone"}]
      /\ \A g \in Stmt \ {s} : liteNative'[g] = liteNative[g]
      /\ liteNative'[s] = "gone"
      /\ liteNative'[Db] = IF last THEN "gone" ELSE liteNative[Db]
  BY <1>0, <1>1, <1>3, LiteClasses
<1>5. LiteZombie'
  BY <1>0, <1>4, LiteClasses DEF LiteHandles, LiteZombie
<1>6. /\ liteNative'[s] \in {"zombie", "gone"}
      /\ \/ liteNative'[Db] = liteNative[Db]
         \/ liteNative[Db] = "zombie" /\ liteNative'[Db] = "gone"
  BY <1>4
<1> QED BY <1>0, <1>4, <1>5, <1>6, LiteReleaseStep

(* A new connection, or a statement of an open one; without memory for the  *)
(* wrapper it is released at once.                                          *)
LEMMA LiteMakeStep ==
  ASSUME LiteHandles, NEW h \in Sqlite!Handle, liteNative[h] = "none",
         h # Db => litePtr[Db] = TRUE,
         \/ /\ liteNative' = [liteNative EXCEPT ![h] = "open"]
            /\ litePtr' = [litePtr EXCEPT ![h] = TRUE]
            /\ liteHeld' = [liteHeld EXCEPT ![h] = TRUE]
         \/ liteNative' = [liteNative EXCEPT ![h] = "gone"] /\ UNCHANGED <<litePtr, liteHeld>>,
         UNCHANGED <<liteLost, active>>, liteTouched' = {h, Db}
  PROVE  LiteStep(h)
<1>1. PICK made \in {"open", "gone"} :
        /\ liteNative' = [liteNative EXCEPT ![h] = made]
        /\ made = "open" => /\ litePtr' = [litePtr EXCEPT ![h] = TRUE]
                            /\ liteHeld' = [liteHeld EXCEPT ![h] = TRUE]
        /\ made = "gone" => UNCHANGED <<litePtr, liteHeld>>
  OBVIOUS
<1>2. LiteTypes'
  BY <1>1, LiteClasses DEF LiteHandles, LiteTypes
<1>3. /\ liteNative'[h] = made /\ \A g \in Sqlite!Handle \ {h} : liteNative'[g] = liteNative[g]
      /\ h # Db => liteNative[Db] = "open" /\ liteNative'[Db] = "open"
  BY <1>1, LiteClasses DEF LiteHandles, LiteTypes, LiteOwned
<1>4. LiteOwned'
  BY <1>1, <1>3 DEF LiteHandles, LiteTypes, LiteOwned
<1>5. LiteZombie'
  BY <1>3, LiteClasses DEF LiteHandles, LiteZombie
<1>6. LiteStepKeepsContract
  BY <1>3, LiteClasses
    DEF LiteStepKeepsContract, Sqlite!Contract!Call, Sqlite!live, Sqlite!gone
<1> QED BY <1>2, <1>3, <1>4, <1>5, <1>6, LiteClasses DEF LiteStep, LiteHandles

(* The statement of a callback under way is open: no call that could        *)
(* finalize it may be made before the callback returns.                     *)
LiteFrame ==
  /\ frame = {} \/ \E f \in [stmt : Stmt, closure : Closure] : frame = {f}
  /\ \A f \in frame : liteNative[f.stmt] = "open"

LEMMA LiteFrameKept ==
  ASSUME LiteFrame, NEW h, LiteStep(h), h \in Stmt => Sqlite!Free(h), frame' = frame
  PROVE  LiteHandles' /\ LiteStepKeepsContract /\ LiteFrame'
BY DEF LiteFrame, LiteStep, Sqlite!Free

LEMMA LiteAsk ==
  ASSUME LiteHandles, LiteFrame, liteTouched' \subseteq Sqlite!live, active' \subseteq Stmt,
         UNCHANGED <<liteNative, litePtr, liteHeld, liteLost, frame>>
  PROVE  LiteHandles' /\ LiteStepKeepsContract /\ LiteFrame'
BY LiteAskStep, LiteFrameKept, LiteClasses

LEMMA LiteDbSteps ==
  ASSUME LiteHandles, LiteFrame,
         Sqlite!Open \/ Sqlite!Close \/ Sqlite!AskConnection
  PROVE  LiteHandles' /\ LiteStepKeepsContract /\ LiteFrame'
<1>0. Db \in Sqlite!Handle /\ Db \notin Stmt /\ litePtr[Db] \in BOOLEAN /\ liteLost[Db] \in BOOLEAN
      /\ active \subseteq Stmt
  BY LiteClasses DEF LiteHandles, LiteTypes
<1>1. CASE Sqlite!Open
  <2>1. LiteStep(Db)
    BY <1>0, <1>1, LiteMakeStep DEF Sqlite!Open
  <2> QED BY <1>0, <1>1, <2>1, LiteFrameKept DEF Sqlite!Open
<1>2. CASE Sqlite!Close
  <2>1. PICK kept \in BOOLEAN : liteHeld' = [liteHeld EXCEPT ![Db] = kept]
    BY <1>2 DEF Sqlite!Close
  <2>2. /\ litePtr' = [litePtr EXCEPT ![Db] = FALSE] /\ liteLost' = [liteLost EXCEPT ![Db] = TRUE]
        /\ active' = active /\ frame' = frame /\ liteHeld[Db] = TRUE
        /\ liteTouched' = Sqlite!reach(Db)
    BY <1>0, <1>2 DEF Sqlite!Close, LiteHandles, LiteTypes
  <2>3. CASE litePtr[Db] = TRUE
    <3>1. liteNative' = Sqlite!sqlite3_close_v2(liteNative) /\ liteTouched' = {Db}
      BY <1>0, <1>2, <2>2, <2>3, LiteReach DEF Sqlite!Close, Sqlite!Becomes
    <3>2. LiteStep(Db)
      BY <1>0, <2>1, <2>2, <2>3, <3>1, LiteCloseStep
    <3> QED BY <1>0, <2>2, <3>2, LiteFrameKept
  <2>4. CASE litePtr[Db] = FALSE
    <3>0. liteNative' = liteNative /\ liteTouched' = {}
      BY <1>0, <1>2, <2>2, <2>4, LiteReach DEF Sqlite!Close
    <3>1. liteNative' = liteNative /\ liteTouched' = {} /\ litePtr' = litePtr
      BY <1>0, <2>2, <2>4, <3>0 DEF LiteHandles, LiteTypes
    <3>2. LiteStep(Db)
      BY <1>0, <2>1, <2>2, <2>4, <3>1, LiteForgetStep
    <3> QED BY <1>0, <2>2, <3>2, LiteFrameKept
  <2> QED BY <1>0, <2>3, <2>4
<1>3. CASE Sqlite!AskConnection
  BY <1>0, <1>3, LiteReach, LiteAsk DEF Sqlite!AskConnection, Sqlite!handleVars
<1> QED BY <1>1, <1>2, <1>3

LEMMA LiteStatementSteps ==
  ASSUME LiteHandles, LiteFrame, NEW s \in Stmt,
         \/ Sqlite!Prepare(s) \/ Sqlite!Step(s) \/ Sqlite!Reset(s) \/ Sqlite!Finalize(s)
         \/ Sqlite!AskStatement(s)
  PROVE  LiteHandles' /\ LiteStepKeepsContract /\ LiteFrame'
<1>0. /\ s \in Sqlite!Handle /\ s # Db /\ litePtr[s] \in BOOLEAN /\ Db \in Sqlite!Handle
      /\ litePtr[Db] \in BOOLEAN /\ active \subseteq Stmt
  BY LiteClasses DEF LiteHandles, LiteTypes
<1>1. CASE Sqlite!Prepare(s)
  <2>1. liteNative[s] = "none" /\ frame' = frame /\ Sqlite!Free(s)
    BY <1>1 DEF Sqlite!Prepare, LiteFrame, Sqlite!Free
  <2>2. CASE liteTouched' = Sqlite!reach(Db) /\ UNCHANGED Sqlite!handleVars
    BY <1>0, <2>1, <2>2, LiteReach, LiteAsk DEF Sqlite!handleVars
  <2>3. CASE ~(liteTouched' = Sqlite!reach(Db) /\ UNCHANGED Sqlite!handleVars)
    <3>1. LiteStep(s)
      BY <1>0, <1>1, <2>1, <2>3, LiteMakeStep DEF Sqlite!Prepare
    <3> QED BY <2>1, <3>1, LiteFrameKept
  <2> QED BY <2>2, <2>3
<1>2. CASE Sqlite!Step(s)
  <2>1. active' \subseteq Stmt
    BY <1>0, <1>2 DEF Sqlite!Step
  <2> QED BY <1>0, <1>2, <2>1, LiteReach, LiteAsk DEF Sqlite!Step
<1>3. CASE Sqlite!Reset(s)
  <2>1. active' \subseteq Stmt
    BY <1>0, <1>3 DEF Sqlite!Reset
  <2> QED BY <1>0, <1>3, <2>1, LiteReach, LiteAsk DEF Sqlite!Reset
<1>4. CASE Sqlite!Finalize(s)
  <2>1. PICK kept \in BOOLEAN : liteHeld' = [liteHeld EXCEPT ![s] = kept]
    BY <1>4 DEF Sqlite!Finalize
  <2>2. /\ litePtr' = [litePtr EXCEPT ![s] = FALSE] /\ liteLost' = [liteLost EXCEPT ![s] = TRUE]
        /\ active' \subseteq Stmt /\ frame' = frame /\ liteHeld[s] = TRUE
        /\ liteTouched' = Sqlite!reach(s) /\ Sqlite!Free(s)
    BY <1>0, <1>4 DEF Sqlite!Finalize, LiteHandles, LiteTypes
  <2>3. CASE litePtr[s] = TRUE
    <3>1. liteNative' = Sqlite!sqlite3_finalize(liteNative, s) /\ liteTouched' = {s, Db}
      BY <1>0, <1>4, <2>2, <2>3, LiteReach DEF Sqlite!Finalize, Sqlite!Becomes
    <3>2. LiteStep(s)
      BY <1>0, <2>1, <2>2, <2>3, <3>1, LiteFinalizeStep
    <3> QED BY <2>2, <3>2, LiteFrameKept
  <2>4. CASE litePtr[s] = FALSE
    <3>0. liteNative' = liteNative /\ liteTouched' = {}
      BY <1>0, <1>4, <2>2, <2>4, LiteReach DEF Sqlite!Finalize
    <3>1. liteNative' = liteNative /\ liteTouched' = {} /\ litePtr' = litePtr
      BY <1>0, <2>2, <2>4, <3>0 DEF LiteHandles, LiteTypes
    <3>2. LiteStep(s)
      BY <1>0, <2>1, <2>2, <2>4, <3>1, LiteForgetStep
    <3> QED BY <2>2, <3>2, LiteFrameKept
  <2> QED BY <1>0, <2>3, <2>4
<1>5. CASE Sqlite!AskStatement(s)
  BY <1>0, <1>5, LiteReach, LiteAsk DEF Sqlite!AskStatement, Sqlite!handleVars
<1> QED BY <1>1, <1>2, <1>3, <1>4, <1>5

LEMMA LiteDrop ==
  ASSUME LiteHandles, LiteFrame, NEW h \in Sqlite!Handle, Sqlite!Drop(h)
  PROVE  LiteHandles' /\ LiteStepKeepsContract /\ LiteFrame'
<1>1. /\ liteHeld' = [liteHeld EXCEPT ![h] = FALSE] /\ liteHeld[h] = TRUE
      /\ litePtr[h] \in BOOLEAN /\ liteLost[h] \in BOOLEAN /\ active \subseteq Stmt
      /\ liteLost' = [liteLost EXCEPT ![h] = liteLost[h]] /\ liteLost' = liteLost
      /\ frame' = frame /\ (h \in Stmt => Sqlite!Free(h))
  BY DEF Sqlite!Drop, LiteHandles, LiteTypes
<1>2. CASE liteLost[h] = FALSE /\ litePtr[h] = TRUE
  <2>1. /\ liteTouched' = {h, Db} /\ litePtr' = [litePtr EXCEPT ![h] = FALSE]
        /\ active' \subseteq Stmt
        /\ h = Db => liteNative' = Sqlite!sqlite3_close_v2(liteNative)
        /\ h # Db => liteNative' = Sqlite!sqlite3_finalize(liteNative, h)
    BY <1>1, <1>2 DEF Sqlite!Drop, Sqlite!Becomes
  <2>2. CASE h = Db
    <3>1. liteTouched' = {Db}
      BY <2>1, <2>2
    <3>2. LiteStep(Db)
      BY <1>1, <1>2, <2>1, <2>2, <3>1, LiteCloseStep
    <3> QED BY <1>1, <2>2, <3>2, LiteFrameKept
  <2>3. CASE h \in Stmt
    <3>1. LiteStep(h)
      BY <1>1, <1>2, <2>1, <2>3, LiteFinalizeStep, LiteClasses
    <3> QED BY <1>1, <3>1, LiteFrameKept
  <2> QED BY <2>2, <2>3, LiteClasses
<1>3. CASE ~(liteLost[h] = FALSE /\ litePtr[h] = TRUE)
  <2>1. litePtr[h] = FALSE
    BY <1>1, <1>3 DEF LiteHandles, LiteOwned
  <2>2. liteTouched' = {} /\ UNCHANGED <<liteNative, litePtr>> /\ active' = active
    BY <1>1, <1>3 DEF Sqlite!Drop
  <2>3. LiteStep(h)
    BY <1>1, <2>1, <2>2, LiteForgetStep
  <2> QED BY <1>1, <2>3, LiteFrameKept
<1> QED BY <1>2, <1>3

LEMMA LiteCallbackSteps ==
  ASSUME LiteHandles, LiteFrame,
         \/ \E s \in Stmt, n \in Name : Sqlite!EnterCallback(s, n) /\ registered[n] \in Closure
         \/ Sqlite!FuncArg \/ Sqlite!LeaveCallback
  PROVE  LiteHandles' /\ LiteStepKeepsContract /\ LiteFrame'
<1>0. active \subseteq Stmt /\ \A s \in Stmt : litePtr[s] = TRUE => liteNative[s] = "open"
  BY LiteClasses DEF LiteHandles, LiteTypes, LiteOwned
<1>1. \A s \in Stmt : liteNative[s] = "open" => {s, Db} \subseteq Sqlite!live
  BY LiteClasses DEF LiteHandles, LiteZombie, Sqlite!live
<1>2. ASSUME NEW s \in Stmt, NEW n \in Name, Sqlite!EnterCallback(s, n), registered[n] \in Closure
      PROVE  LiteHandles' /\ LiteStepKeepsContract /\ LiteFrame'
  <2>1. /\ UNCHANGED <<liteNative, litePtr, liteHeld, liteLost>> /\ liteNative[s] = "open"
        /\ active' \subseteq Stmt /\ liteTouched' = {s, Db} /\ frame = {}
        /\ frame' = {} \/ frame' = {[stmt |-> s, closure |-> registered[n]]}
    BY <1>0, <1>2, LiteClasses DEF Sqlite!EnterCallback, LiteHandles, LiteTypes
  <2>2. LiteStep(Db)
    BY <1>1, <2>1, LiteAskStep
  <2>3. LiteFrame'
    BY <1>2, <2>1 DEF LiteFrame
  <2> QED BY <2>2, <2>3 DEF LiteStep
<1>3. CASE Sqlite!FuncArg
  <2>1. PICK f \in frame : liteTouched' = {f.stmt, Db}
    BY <1>3 DEF Sqlite!FuncArg
  <2>2. f.stmt \in Stmt /\ liteNative[f.stmt] = "open"
    BY <2>1 DEF LiteFrame
  <2> QED BY <1>0, <1>1, <1>3, <2>1, <2>2, LiteAsk DEF Sqlite!FuncArg, Sqlite!handleVars
<1>4. CASE Sqlite!LeaveCallback
  <2>1. PICK f \in frame : liteTouched' = {f.stmt, Db}
    BY <1>4 DEF Sqlite!LeaveCallback
  <2>2. f.stmt \in Stmt /\ liteNative[f.stmt] = "open"
    BY <2>1 DEF LiteFrame
  <2>3. /\ UNCHANGED <<liteNative, litePtr, liteHeld, liteLost>> /\ active' \subseteq Stmt
        /\ frame' = {}
    BY <1>0, <1>4 DEF Sqlite!LeaveCallback, Sqlite!handleVars
  <2>4. LiteStep(Db)
    BY <1>1, <2>1, <2>2, <2>3, LiteAskStep
  <2> QED BY <2>3, <2>4 DEF LiteStep, LiteFrame
<1> QED BY <1>2, <1>3, <1>4

(* Each closure that SQLite did not refuse, and whose calls found memory,   *)
(* has the references of the program, of the functions registered with it   *)
(* and of the call under way.                                               *)
LiteClosureTypes ==
  /\ registered \in [Name -> Closure \cup {None}]
  /\ refs \in [Closure -> Int] /\ mine \in [Closure -> {0, 1}]
  /\ refused \subseteq Closure /\ starved \subseteq Closure

InCall(c) == IF \E f \in frame : f.closure = c THEN 1 ELSE 0

LiteCounts ==
  /\ LiteClosureTypes
  /\ \A c \in Closure \ (refused \cup starved) :
       refs[c] = mine[c] + Cardinality(Sqlite!names(c)) + InCall(c)

LEMMA LiteCardinality == \A S : Sqlite!Cardinality(S) = Cardinality(S)
  BY DEF Sqlite!Cardinality, Cardinality

LEMMA LiteFinite == IsFiniteSet(Name)
  BY LiteClasses DEF Sqlite!IsFiniteSet, IsFiniteSet

LEMMA LiteNames ==
  ASSUME NEW c
  PROVE  /\ Sqlite!names(c) \subseteq Name /\ IsFiniteSet(Sqlite!names(c))
         /\ Cardinality(Sqlite!names(c)) \in Nat
<1>1. Sqlite!names(c) \subseteq Name
  BY DEF Sqlite!names
<1> QED BY <1>1, LiteFinite, FS_Subset, FS_CardinalityType

(* Registering a name, and taking it back. *)
LEMMA LiteOneName ==
  ASSUME NEW c, NEW n \in Name
  PROVE  /\ n \in Sqlite!names(c) =>
              /\ Cardinality(Sqlite!names(c) \cap {n}) = 1
              /\ Sqlite!names(c) \cup {n} = Sqlite!names(c)
              /\ Cardinality(Sqlite!names(c) \ {n}) = Cardinality(Sqlite!names(c)) - 1
         /\ n \notin Sqlite!names(c) =>
              /\ Cardinality(Sqlite!names(c) \cap {n}) = 0
              /\ Sqlite!names(c) \ {n} = Sqlite!names(c)
              /\ Cardinality(Sqlite!names(c) \cup {n}) = Cardinality(Sqlite!names(c)) + 1
<1>1. CASE n \in Sqlite!names(c)
  <2>1. Sqlite!names(c) \cap {n} = {n} /\ Sqlite!names(c) \cup {n} = Sqlite!names(c)
    BY <1>1
  <2> QED BY <1>1, <2>1, LiteNames, FS_Singleton, FS_RemoveElement
<1>2. CASE n \notin Sqlite!names(c)
  <2>1. Sqlite!names(c) \cap {n} = {} /\ Sqlite!names(c) \ {n} = Sqlite!names(c)
    BY <1>2
  <2> QED BY <1>2, <2>1, LiteNames, FS_EmptySet, FS_AddElement
<1> QED BY <1>1, <1>2

LEMMA LiteReferences ==
  ASSUME LiteFrame, NEW c
  PROVE  Sqlite!references(c) = mine[c] + Cardinality(Sqlite!names(c)) + InCall(c)
<1> DEFINE calls == {f \in frame : f.closure = c}
<1>1. calls = {} \/ \E f \in frame : calls = {f}
  BY DEF LiteFrame
<1>2. Cardinality(calls) = InCall(c)
  BY <1>1, FS_EmptySet, FS_Singleton DEF InCall
<1> QED BY <1>2, LiteCardinality DEF Sqlite!references

(* Nothing about the closures changes. *)
LEMMA LiteCountsKept ==
  ASSUME LiteCounts, UNCHANGED <<registered, refs, mine, refused, starved, frame>>
  PROVE  LiteCounts'
<1>1. \A c : Sqlite!names(c)' = Sqlite!names(c) /\ InCall(c)' = InCall(c)
  BY DEF Sqlite!names, InCall
<1> QED BY <1>1 DEF LiteCounts, LiteClosureTypes

(* A connection that goes takes its functions along. *)
LEMMA LiteBecomesCounts ==
  ASSUME LiteCounts, NEW nat, Sqlite!Becomes(nat), frame' = frame
  PROVE  LiteCounts'
<1>1. CASE nat[Db] = "gone"
  <2>1. /\ registered' = [n \in Name |-> None]
        /\ refs' = [c \in Closure |-> refs[c] - Cardinality(Sqlite!names(c) \cap Name)]
        /\ UNCHANGED <<mine, refused, starved>>
    BY <1>1, LiteCardinality DEF Sqlite!Becomes, Sqlite!NoFunction, Sqlite!xdestroy
  <2>2. \A c \in Closure : Sqlite!names(c)' = {} /\ Sqlite!names(c) \cap Name = Sqlite!names(c)
    BY <2>1, LiteClasses DEF Sqlite!names
  <2>3. \A c \in Closure : /\ Cardinality(Sqlite!names(c)') = 0 /\ InCall(c)' = InCall(c)
                           /\ refs'[c] = refs[c] - Cardinality(Sqlite!names(c))
    BY <2>1, <2>2, FS_EmptySet DEF InCall
  <2>4. LiteClosureTypes'
    <3>1. ASSUME NEW c \in Closure
          PROVE  refs[c] - Cardinality(Sqlite!names(c) \cap Name) \in Int
      <4>1. Cardinality(Sqlite!names(c) \cap Name) = Cardinality(Sqlite!names(c))
        BY <2>2, Zenon
      <4>2. Cardinality(Sqlite!names(c)) \in Int
        BY LiteNames
      <4>3. refs[c] \in Int
        BY DEF LiteCounts, LiteClosureTypes
      <4> QED BY <4>1, <4>2, <4>3
    <3> QED BY <2>1, <3>1 DEF LiteCounts, LiteClosureTypes
  <2>5. ASSUME NEW c \in Closure \ (refused \cup starved)'
        PROVE  refs'[c] = mine'[c] + Cardinality(Sqlite!names(c)') + InCall(c)'
    <3>1. refs[c] = mine[c] + Cardinality(Sqlite!names(c)) + InCall(c) /\ mine'[c] = mine[c]
      BY <2>1 DEF LiteCounts
    <3>2. mine[c] \in Int /\ Cardinality(Sqlite!names(c)) \in Int /\ InCall(c) \in Int
      BY LiteNames DEF LiteCounts, LiteClosureTypes, InCall
    <3> QED BY <2>3, <3>1, <3>2
  <2> QED BY <2>4, <2>5 DEF LiteCounts
<1>2. CASE nat[Db] # "gone"
  BY <1>2, LiteCountsKept DEF Sqlite!Becomes
<1> QED BY <1>1, <1>2

LEMMA LiteCreateCounts ==
  ASSUME LiteCounts, NEW c \in Closure, NEW n \in Name, Sqlite!CreateFunction(c, n)
  PROVE  LiteCounts'
<1>0. /\ refs \in [Closure -> Int] /\ mine \in [Closure -> {0, 1}] /\ c \notin refused
      /\ registered \in [Name -> Closure \cup {None}] /\ mine[c] = 1
      /\ refused \subseteq Closure /\ starved \subseteq Closure
      /\ starved' = starved /\ frame' = frame
  BY DEF Sqlite!CreateFunction, LiteCounts, LiteClosureTypes
<1>1. PICK kept \in {0, 1} :
        /\ mine' = [mine EXCEPT ![c] = kept]
        /\ IF Sqlite!Busy(n)
           THEN /\ refused' = refused \cup {c}
                /\ refs' = [Sqlite!plus(c, kept + 1) EXCEPT ![c] = @ - 3]
                /\ UNCHANGED registered
           ELSE /\ refs' = [Sqlite!xdestroy({n}, Sqlite!plus(c, kept + 1)) EXCEPT ![c] = @ - 1]
                /\ registered' = [registered EXCEPT ![n] = c]
                /\ UNCHANGED refused
  BY DEF Sqlite!CreateFunction
<1> DEFINE called == Sqlite!plus(c, kept + 1)
<1>2. /\ called \in [Closure -> Int] /\ called[c] = refs[c] + kept + 1
      /\ \A d \in Closure \ {c} : called[d] = refs[d]
  BY <1>0 DEF Sqlite!plus
<1>3. \A d \in Closure : InCall(d)' = InCall(d) /\ InCall(d) \in Int
  BY <1>0 DEF InCall
<1>4. \A d \in Closure \ (refused \cup starved) :
        refs[d] = mine[d] + Cardinality(Sqlite!names(d)) + InCall(d)
  BY DEF LiteCounts
<1> HIDE DEF called
<1>5. CASE Sqlite!Busy(n)
  <2>1. /\ refused' = refused \cup {c} /\ refs' = [called EXCEPT ![c] = @ - 3]
        /\ registered' = registered
    BY <1>1, <1>5 DEF called
  <2>2. /\ refs' \in [Closure -> Int] /\ mine' \in [Closure -> {0, 1}]
        /\ \A d \in Closure \ {c} : refs'[d] = refs[d] /\ mine'[d] = mine[d]
    BY <1>0, <1>1, <1>2, <2>1
  <2>3. \A d : Sqlite!names(d)' = Sqlite!names(d)
    BY <2>1 DEF Sqlite!names
  <2>4. LiteClosureTypes'
    BY <1>0, <2>1, <2>2 DEF LiteClosureTypes
  <2> QED BY <1>0, <1>3, <1>4, <2>1, <2>2, <2>3, <2>4 DEF LiteCounts
<1>6. CASE ~Sqlite!Busy(n)
  <2>1. /\ refused' = refused /\ registered' = [registered EXCEPT ![n] = c]
        /\ refs' = [Sqlite!xdestroy({n}, called) EXCEPT ![c] = @ - 1]
        /\ mine' = [mine EXCEPT ![c] = kept]
    BY <1>1, <1>6 DEF called
  <2>2. Sqlite!xdestroy({n}, called)
          = [d \in Closure |-> called[d] - Cardinality(Sqlite!names(d) \cap {n})]
    BY LiteCardinality DEF Sqlite!xdestroy
  <2>3. \A d \in Closure : /\ Cardinality(Sqlite!names(d) \cap {n}) \in Int
                           /\ Cardinality(Sqlite!names(d)) \in Int
    <3> SUFFICES ASSUME NEW d \in Closure
                 PROVE  /\ Cardinality(Sqlite!names(d) \cap {n}) \in Int
                        /\ Cardinality(Sqlite!names(d)) \in Int
      OBVIOUS
    <3>1. Cardinality(Sqlite!names(d)) \in Int
      BY LiteNames
    <3>2. n \in Sqlite!names(d) => Cardinality(Sqlite!names(d) \cap {n}) = 1
      BY LiteOneName, Zenon
    <3>3. n \notin Sqlite!names(d) => Cardinality(Sqlite!names(d) \cap {n}) = 0
      BY LiteOneName, Zenon
    <3> QED BY <3>1, <3>2, <3>3
  <2>4. /\ refs' \in [Closure -> Int] /\ mine' \in [Closure -> {0, 1}]
        /\ \A d \in Closure \ {c} :
             refs'[d] = refs[d] - Cardinality(Sqlite!names(d) \cap {n}) /\ mine'[d] = mine[d]
        /\ refs'[c] = refs[c] + kept + 1 - Cardinality(Sqlite!names(c) \cap {n}) - 1
        /\ mine'[c] = kept
    <3>1. PICK destroyed \in [Closure -> Int] :
            /\ destroyed = Sqlite!xdestroy({n}, called)
            /\ \A d \in Closure :
                 destroyed[d] = called[d] - Cardinality(Sqlite!names(d) \cap {n})
      <4>1. ASSUME NEW d \in Closure
            PROVE  called[d] - Cardinality(Sqlite!names(d) \cap {n}) \in Int
        BY <1>2, <2>3
      <4> QED BY <2>2, <4>1
    <3>2. refs' = [destroyed EXCEPT ![c] = @ - 1]
      BY <2>1, <3>1
    <3>3. /\ refs' \in [Closure -> Int] /\ refs'[c] = destroyed[c] - 1
          /\ \A d \in Closure \ {c} : refs'[d] = destroyed[d]
      BY <3>2
    <3>4. /\ mine' \in [Closure -> {0, 1}] /\ mine'[c] = kept
          /\ \A d \in Closure \ {c} : mine'[d] = mine[d]
      BY <1>0, <2>1
    <3>5. refs'[c] = refs[c] + kept + 1 - Cardinality(Sqlite!names(c) \cap {n}) - 1
      <4>1. destroyed[c] = called[c] - Cardinality(Sqlite!names(c) \cap {n})
        BY <3>1
      <4>2. Cardinality(Sqlite!names(c) \cap {n}) \in Int
        BY <2>3
      <4>3. refs'[c] = destroyed[c] - 1 /\ called[c] = refs[c] + kept + 1
        BY <1>2, <3>3
      <4>4. refs[c] \in Int /\ kept \in Int
        BY <1>0
      <4> QED BY <4>1, <4>2, <4>3, <4>4
    <3>6. \A d \in Closure \ {c} : refs'[d] = refs[d] - Cardinality(Sqlite!names(d) \cap {n})
      BY <1>2, <3>1, <3>3
    <3> QED BY <3>3, <3>4, <3>5, <3>6
  <2>5. /\ Sqlite!names(c)' = Sqlite!names(c) \cup {n}
        /\ \A d \in Closure \ {c} : Sqlite!names(d)' = Sqlite!names(d) \ {n}
    BY <1>0, <2>1 DEF Sqlite!names
  <2>6. LiteClosureTypes'
    BY <1>0, <2>1, <2>4 DEF LiteClosureTypes
  <2>7. ASSUME NEW d \in Closure \ (refused \cup starved)
        PROVE  refs'[d] = mine'[d] + Cardinality(Sqlite!names(d)') + InCall(d)'
    <3>1. refs[d] = mine[d] + Cardinality(Sqlite!names(d)) + InCall(d)
      BY <1>4
    <3>2. InCall(d) \in Int /\ InCall(d)' = InCall(d) /\ mine[d] \in Int /\ kept \in Int
      BY <1>0, <1>3
    <3>3. CASE d = c
      <4>1. Cardinality(Sqlite!names(c)')
              = Cardinality(Sqlite!names(c)) + 1 - Cardinality(Sqlite!names(c) \cap {n})
        <5>1. Cardinality(Sqlite!names(c)') = Cardinality(Sqlite!names(c) \cup {n})
          BY <2>5, Zenon
        <5>2. Cardinality(Sqlite!names(c)) \in Int
          BY <2>3
        <5>3. CASE n \in Sqlite!names(c)
          <6>1. /\ Cardinality(Sqlite!names(c) \cap {n}) = 1
                /\ Cardinality(Sqlite!names(c) \cup {n}) = Cardinality(Sqlite!names(c))
            BY <5>3, LiteOneName, Zenon
          <6> QED BY <5>1, <5>2, <6>1
        <5>4. CASE n \notin Sqlite!names(c)
          <6>1. /\ Cardinality(Sqlite!names(c) \cap {n}) = 0
                /\ Cardinality(Sqlite!names(c) \cup {n}) = Cardinality(Sqlite!names(c)) + 1
            BY <5>4, LiteOneName, Zenon
          <6> QED BY <5>1, <5>2, <6>1
        <5> QED BY <5>3, <5>4
      <4> QED BY <1>0, <2>3, <2>4, <3>1, <3>2, <3>3, <4>1
    <3>4. CASE d # c
      <4>1. Cardinality(Sqlite!names(d)')
              = Cardinality(Sqlite!names(d)) - Cardinality(Sqlite!names(d) \cap {n})
        <5>1. Cardinality(Sqlite!names(d)') = Cardinality(Sqlite!names(d) \ {n})
          BY <2>5, <3>4, Zenon
        <5>2. Cardinality(Sqlite!names(d)) \in Int
          BY <2>3
        <5>3. CASE n \in Sqlite!names(d)
          <6>1. /\ Cardinality(Sqlite!names(d) \cap {n}) = 1
                /\ Cardinality(Sqlite!names(d) \ {n}) = Cardinality(Sqlite!names(d)) - 1
            BY <5>3, LiteOneName, Zenon
          <6> QED BY <5>1, <5>2, <6>1
        <5>4. CASE n \notin Sqlite!names(d)
          <6>1. /\ Cardinality(Sqlite!names(d) \cap {n}) = 0
                /\ Cardinality(Sqlite!names(d) \ {n}) = Cardinality(Sqlite!names(d))
            BY <5>4, LiteOneName, Zenon
          <6> QED BY <5>1, <5>2, <6>1
        <5> QED BY <5>3, <5>4
      <4> QED BY <1>0, <2>3, <2>4, <3>1, <3>2, <3>4, <4>1
    <3> QED BY <3>3, <3>4
  <2> QED BY <1>0, <2>1, <2>6, <2>7 DEF LiteCounts
<1> QED BY <1>5, <1>6

LEMMA LiteClosureSteps ==
  ASSUME LiteCounts, LiteFrame,
         \/ \E n \in Name : Sqlite!DeleteFunction(n)
         \/ \E s \in Stmt, n \in Name : Sqlite!EnterCallback(s, n)
         \/ Sqlite!LeaveCallback \/ \E c \in Closure : Sqlite!DropClosure(c)
  PROVE  LiteCounts'
<1>0. /\ refs \in [Closure -> Int] /\ mine \in [Closure -> {0, 1}]
      /\ registered \in [Name -> Closure \cup {None}]
      /\ refused \subseteq Closure /\ starved \subseteq Closure
  BY DEF LiteCounts, LiteClosureTypes
<1>1. ASSUME NEW d \in Closure \ (refused \cup starved)
      PROVE  /\ refs[d] = mine[d] + Cardinality(Sqlite!names(d)) + InCall(d)
             /\ Cardinality(Sqlite!names(d)) \in Int /\ InCall(d) \in Int /\ mine[d] \in Int
  <2>1. Cardinality(Sqlite!names(d)) \in Int
    BY LiteNames
  <2> QED BY <1>0, <2>1 DEF LiteCounts, InCall
<1>2. registered' = registered => \A d : Sqlite!names(d)' = Sqlite!names(d)
  BY DEF Sqlite!names
<1>3. frame' = frame => \A d : InCall(d)' = InCall(d)
  BY DEF InCall
<1>4. ASSUME NEW n \in Name, Sqlite!DeleteFunction(n) PROVE LiteCounts'
  <2>1. CASE Sqlite!Busy(n)
    BY <1>4, <2>1, LiteCountsKept DEF Sqlite!DeleteFunction
  <2>2. CASE ~Sqlite!Busy(n)
    <3>1. /\ refs' = [d \in Closure |-> refs[d] - Cardinality(Sqlite!names(d) \cap {n})]
          /\ registered' = [registered EXCEPT ![n] = None]
          /\ UNCHANGED <<mine, refused, starved, frame>>
      BY <1>4, <2>2, LiteCardinality DEF Sqlite!DeleteFunction, Sqlite!xdestroy
    <3>2. \A d \in Closure : Sqlite!names(d)' = Sqlite!names(d) \ {n}
      BY <1>0, <3>1, LiteClasses DEF Sqlite!names
    <3>3. ASSUME NEW d \in Closure
          PROVE  /\ Cardinality(Sqlite!names(d) \cap {n}) \in Int
                 /\ Cardinality(Sqlite!names(d)')
                      = Cardinality(Sqlite!names(d)) - Cardinality(Sqlite!names(d) \cap {n})
      <4>0. Cardinality(Sqlite!names(d)') = Cardinality(Sqlite!names(d) \ {n})
        BY <3>2, Zenon
      <4>1. Cardinality(Sqlite!names(d)) \in Int
        BY LiteNames
      <4>2. CASE n \in Sqlite!names(d)
        <5>1. /\ Cardinality(Sqlite!names(d) \cap {n}) = 1
              /\ Cardinality(Sqlite!names(d) \ {n}) = Cardinality(Sqlite!names(d)) - 1
          BY <4>2, LiteOneName, Zenon
        <5> QED BY <4>0, <4>1, <5>1
      <4>3. CASE n \notin Sqlite!names(d)
        <5>1. /\ Cardinality(Sqlite!names(d) \cap {n}) = 0
              /\ Cardinality(Sqlite!names(d) \ {n}) = Cardinality(Sqlite!names(d))
          BY <4>3, LiteOneName, Zenon
        <5> QED BY <4>0, <4>1, <5>1
      <4> QED BY <4>2, <4>3
    <3>4. /\ refs' \in [Closure -> Int]
          /\ \A d \in Closure : refs'[d] = refs[d] - Cardinality(Sqlite!names(d) \cap {n})
      <4>1. ASSUME NEW d \in Closure
            PROVE  refs[d] - Cardinality(Sqlite!names(d) \cap {n}) \in Int
        BY <1>0, <3>3
      <4> QED BY <3>1, <4>1
    <3>5. LiteClosureTypes'
      BY <1>0, <3>1, <3>4 DEF LiteClosureTypes
    <3>6. ASSUME NEW d \in Closure \ (refused \cup starved)
          PROVE  refs'[d] = mine'[d] + Cardinality(Sqlite!names(d)') + InCall(d)'
      <4>1. /\ mine'[d] = mine[d] /\ InCall(d)' = InCall(d)
            /\ d \in Closure \ (refused \cup starved)
        BY <1>3, <3>1
      <4>2. /\ refs[d] = mine[d] + Cardinality(Sqlite!names(d)) + InCall(d)
            /\ Cardinality(Sqlite!names(d)) \in Int /\ InCall(d) \in Int /\ mine[d] \in Int
        BY <1>1, <4>1
      <4>3. refs'[d] = refs[d] - Cardinality(Sqlite!names(d) \cap {n})
        BY <3>4, <4>1
      <4>4. /\ Cardinality(Sqlite!names(d) \cap {n}) \in Int
            /\ Cardinality(Sqlite!names(d)')
                 = Cardinality(Sqlite!names(d)) - Cardinality(Sqlite!names(d) \cap {n})
        BY <3>3, <4>1
      <4> QED BY <4>1, <4>2, <4>3, <4>4
    <3> QED BY <3>1, <3>5, <3>6 DEF LiteCounts
  <2> QED BY <2>1, <2>2
<1>5. ASSUME NEW s \in Stmt, NEW n \in Name, Sqlite!EnterCallback(s, n) PROVE LiteCounts'
  <2>1. PICK c \in Closure : c = registered[n]
    BY <1>0, <1>5 DEF Sqlite!EnterCallback
  <2>2. /\ refs' = [refs EXCEPT ![c] = @ + 1] /\ UNCHANGED <<registered, mine, refused>>
        /\ frame = {} /\ \/ frame' = {[stmt |-> s, closure |-> c]} /\ starved' = starved
                         \/ frame' = {} /\ starved' = starved \cup {c}
    BY <1>5, <2>1 DEF Sqlite!EnterCallback, Sqlite!plus
  <2>3. /\ refs' \in [Closure -> Int] /\ refs'[c] = refs[c] + 1
        /\ \A d \in Closure \ {c} : refs'[d] = refs[d]
    BY <1>0, <2>2
  <2>4. LiteClosureTypes'
    BY <1>0, <2>2, <2>3 DEF LiteClosureTypes
  <2>5. InCall(c) = 0 /\ \A d \in Closure \ {c} : InCall(d) = 0
    BY <2>2 DEF InCall
  <2>6. /\ c \notin starved' => InCall(c)' = 1
        /\ \A d \in Closure \ {c} : InCall(d)' = 0
    <3>1. CASE frame' = {[stmt |-> s, closure |-> c]}
      BY <3>1 DEF InCall
    <3>2. CASE frame' = {} /\ starved' = starved \cup {c}
      BY <3>2 DEF InCall
    <3> QED BY <2>2, <3>1, <3>2
  <2>7. ASSUME NEW d \in Closure \ (refused \cup starved)'
        PROVE  refs'[d] = mine'[d] + Cardinality(Sqlite!names(d)') + InCall(d)'
    <3>1. d \in Closure \ (refused \cup starved) /\ mine'[d] = mine[d]
          /\ Sqlite!names(d)' = Sqlite!names(d)
      BY <1>2, <2>2
    <3>2. CASE d = c
      BY <1>1, <2>3, <2>5, <2>6, <3>1, <3>2
    <3>3. CASE d # c
      BY <1>1, <2>3, <2>5, <2>6, <3>1, <3>3
    <3> QED BY <3>2, <3>3
  <2> QED BY <2>4, <2>7 DEF LiteCounts
<1>6. CASE Sqlite!LeaveCallback
  <2>1. PICK f \in frame : refs' = [refs EXCEPT ![f.closure] = @ + (-1)]
    BY <1>6 DEF Sqlite!LeaveCallback, Sqlite!plus
  <2>2. PICK c \in Closure : c = f.closure /\ frame = {f}
    BY <2>1 DEF LiteFrame
  <2>3. /\ refs' \in [Closure -> Int] /\ refs'[c] = refs[c] - 1
        /\ \A d \in Closure \ {c} : refs'[d] = refs[d]
    BY <1>0, <2>1, <2>2
  <2>4. frame' = {} /\ UNCHANGED <<registered, mine, refused, starved>>
    BY <1>6 DEF Sqlite!LeaveCallback
  <2>5. /\ InCall(c) = 1 /\ InCall(c)' = 0 /\ \A d \in Closure \ {c} : InCall(d)' = InCall(d)
    BY <2>2, <2>4 DEF InCall
  <2>6. LiteClosureTypes'
    BY <1>0, <2>3, <2>4 DEF LiteClosureTypes
  <2>7. ASSUME NEW d \in Closure \ (refused \cup starved)
        PROVE  refs'[d] = mine'[d] + Cardinality(Sqlite!names(d)') + InCall(d)'
    <3>1. mine'[d] = mine[d] /\ Sqlite!names(d)' = Sqlite!names(d)
      BY <1>2, <2>4
    <3>2. CASE d = c
      BY <1>1, <2>3, <2>5, <3>1, <3>2
    <3>3. CASE d # c
      BY <1>1, <2>3, <2>5, <3>1, <3>3
    <3> QED BY <3>2, <3>3
  <2> QED BY <2>4, <2>6, <2>7 DEF LiteCounts
<1>7. ASSUME NEW c \in Closure, Sqlite!DropClosure(c) PROVE LiteCounts'
  <2>1. /\ refs' = [refs EXCEPT ![c] = @ + (-1)] /\ mine' = [mine EXCEPT ![c] = 0] /\ mine[c] = 1
        /\ UNCHANGED <<registered, refused, starved, frame>>
    BY <1>7 DEF Sqlite!DropClosure, Sqlite!plus
  <2>2. /\ refs' \in [Closure -> Int] /\ mine' \in [Closure -> {0, 1}]
        /\ refs'[c] = refs[c] - 1 /\ mine'[c] = 0
        /\ \A d \in Closure \ {c} : refs'[d] = refs[d] /\ mine'[d] = mine[d]
    BY <1>0, <2>1
  <2>3. LiteClosureTypes'
    BY <1>0, <2>1, <2>2 DEF LiteClosureTypes
  <2>4. ASSUME NEW d \in Closure \ (refused \cup starved)
        PROVE  refs'[d] = mine'[d] + Cardinality(Sqlite!names(d)') + InCall(d)'
    <3>1. InCall(d)' = InCall(d) /\ Sqlite!names(d)' = Sqlite!names(d)
      BY <1>2, <1>3, <2>1
    <3>2. CASE d = c
      BY <1>1, <2>1, <2>2, <3>1, <3>2
    <3>3. CASE d # c
      BY <1>1, <2>2, <3>1, <3>3
    <3> QED BY <3>2, <3>3
  <2> QED BY <2>1, <2>3, <2>4 DEF LiteCounts
<1> QED BY <1>4, <1>5, <1>6, <1>7

-----------------------------------------------------------------------------
LiteInductive == LiteHandles /\ LiteFrame /\ LiteCounts

LEMMA LiteInitHolds == Sqlite!Init => LiteInductive /\ Sqlite!Contract!Init
<1> SUFFICES ASSUME Sqlite!Init PROVE LiteInductive /\ Sqlite!Contract!Init
  OBVIOUS
<1>1. LiteHandles /\ LiteFrame
  BY LiteClasses
    DEF Sqlite!Init, LiteHandles, LiteTypes, LiteOwned, LiteZombie, LiteFrame
<1>2. LiteCounts
  <2>1. /\ registered = [n \in Name |-> None] /\ frame = {} /\ refused = {} /\ starved = {}
        /\ refs = [c \in Closure |-> 1] /\ mine = [c \in Closure |-> 1]
    BY DEF Sqlite!Init, Sqlite!NoFunction
  <2>2. \A c \in Closure : Sqlite!names(c) = {} /\ InCall(c) = 0
    BY <2>1, LiteClasses DEF Sqlite!names, InCall
  <2>3. \A c \in Closure : Cardinality(Sqlite!names(c)) = 0
    BY <2>2, FS_EmptySet, Zenon
  <2> QED BY <2>1, <2>2, <2>3 DEF LiteCounts, LiteClosureTypes
<1>3. Sqlite!Contract!Init
  BY DEF Sqlite!Init, Sqlite!Contract!Init, Sqlite!live, Sqlite!gone
<1> QED BY <1>1, <1>2, <1>3 DEF LiteInductive

LEMMA LiteNextStep ==
  ASSUME LiteInductive, Sqlite!Next
  PROVE  LiteInductive' /\ LiteStepKeepsContract
<1>0. LiteHandles /\ LiteFrame /\ LiteCounts
  BY DEF LiteInductive
<1>1. CASE Sqlite!Open \/ Sqlite!Close \/ Sqlite!AskConnection
  <2>1. LiteCounts'
    <3>1. CASE UNCHANGED Sqlite!closureVars /\ UNCHANGED frame
      BY <1>0, <3>1, LiteCountsKept DEF Sqlite!closureVars
    <3>2. CASE Sqlite!Becomes(Sqlite!sqlite3_close_v2(liteNative)) /\ UNCHANGED frame
      BY <1>0, <3>2, LiteBecomesCounts
    <3> QED BY <1>1, <3>1, <3>2 DEF Sqlite!Open, Sqlite!Close, Sqlite!AskConnection
  <2> QED BY <1>0, <1>1, <2>1, LiteDbSteps DEF LiteInductive
<1>2. ASSUME NEW s \in Stmt, \/ Sqlite!Prepare(s) \/ Sqlite!Step(s) \/ Sqlite!Reset(s)
                             \/ Sqlite!Finalize(s) \/ Sqlite!AskStatement(s)
      PROVE  LiteInductive' /\ LiteStepKeepsContract
  <2>1. LiteCounts'
    <3>1. CASE UNCHANGED Sqlite!closureVars /\ UNCHANGED frame
      BY <1>0, <3>1, LiteCountsKept DEF Sqlite!closureVars
    <3>2. CASE Sqlite!Becomes(Sqlite!sqlite3_finalize(liteNative, s)) /\ UNCHANGED frame
      BY <1>0, <3>2, LiteBecomesCounts
    <3> QED
      BY <1>2, <3>1, <3>2
      DEF Sqlite!Prepare, Sqlite!Step, Sqlite!Reset, Sqlite!Finalize,
            Sqlite!AskStatement
  <2> QED BY <1>0, <1>2, <2>1, LiteStatementSteps DEF LiteInductive
<1>3. ASSUME NEW h \in Sqlite!Handle, Sqlite!Drop(h)
      PROVE  LiteInductive' /\ LiteStepKeepsContract
  <2>1. LiteCounts'
    <3>1. CASE UNCHANGED Sqlite!closureVars /\ UNCHANGED frame
      BY <1>0, <3>1, LiteCountsKept DEF Sqlite!closureVars
    <3>2. ASSUME NEW nat, Sqlite!Becomes(nat), UNCHANGED frame PROVE LiteCounts'
      BY <1>0, <3>2, LiteBecomesCounts
    <3> QED BY <1>3, <3>1, <3>2 DEF Sqlite!Drop
  <2> QED BY <1>0, <1>3, <2>1, LiteDrop DEF LiteInductive
<1>4. ASSUME NEW n \in Name, \/ Sqlite!DeleteFunction(n)
                             \/ \E c \in Closure : Sqlite!CreateFunction(c, n)
      PROVE  LiteInductive' /\ LiteStepKeepsContract
  <2>1. LiteCounts'
    BY <1>0, <1>4, LiteCreateCounts, LiteClosureSteps
  <2>2. /\ UNCHANGED Sqlite!handleVars /\ UNCHANGED frame /\ liteTouched' = {Db}
        /\ litePtr[Db] = TRUE
    BY <1>0, <1>4, LiteClasses
    DEF Sqlite!DeleteFunction, Sqlite!CreateFunction, LiteHandles, LiteTypes
  <2>3. liteTouched' \subseteq Sqlite!live /\ active' \subseteq Stmt
    BY <1>0, <2>2, LiteReach, LiteClasses DEF LiteHandles, LiteTypes, Sqlite!handleVars
  <2> QED BY <1>0, <2>1, <2>2, <2>3, LiteAsk DEF LiteInductive, Sqlite!handleVars
<1>5. ASSUME NEW c \in Closure, Sqlite!DropClosure(c)
      PROVE  LiteInductive' /\ LiteStepKeepsContract
  <2>1. LiteCounts'
    BY <1>0, <1>5, LiteClosureSteps
  <2>2. UNCHANGED Sqlite!handleVars /\ UNCHANGED frame /\ liteTouched' = {}
    BY <1>5 DEF Sqlite!DropClosure
  <2>3. liteTouched' \subseteq Sqlite!live /\ active' \subseteq Stmt
    BY <1>0, <2>2 DEF LiteHandles, LiteTypes, Sqlite!handleVars
  <2> QED BY <1>0, <2>1, <2>2, <2>3, LiteAsk DEF LiteInductive, Sqlite!handleVars
<1>6. ASSUME NEW s \in Stmt, NEW n \in Name, Sqlite!EnterCallback(s, n)
      PROVE  LiteInductive' /\ LiteStepKeepsContract
  <2>1. registered[n] \in Closure
    BY <1>0, <1>6 DEF Sqlite!EnterCallback, LiteCounts, LiteClosureTypes
  <2> QED BY <1>0, <1>6, <2>1, LiteCallbackSteps, LiteClosureSteps DEF LiteInductive
<1>7. CASE Sqlite!FuncArg \/ Sqlite!LeaveCallback
  <2>1. CASE Sqlite!FuncArg
    <3>1. LiteCounts'
      BY <1>0, <2>1, LiteCountsKept DEF Sqlite!FuncArg, Sqlite!closureVars
    <3> QED BY <1>0, <2>1, <3>1, LiteCallbackSteps DEF LiteInductive
  <2>2. CASE Sqlite!LeaveCallback
    BY <1>0, <2>2, LiteCallbackSteps, LiteClosureSteps DEF LiteInductive
  <2> QED BY <1>7, <2>1, <2>2
<1> QED
  BY <1>1, <1>2, <1>3, <1>4, <1>5, <1>6, <1>7
  DEF Sqlite!Next, Sqlite!Exec, Sqlite!AskStatistics, Sqlite!ClearBindings, Sqlite!Bind,
      Sqlite!Column, Sqlite!FuncResult

LEMMA LiteInductiveStep ==
  ASSUME LiteInductive, [Sqlite!Next]_(Sqlite!vars)
  PROVE  LiteInductive' /\ [LiteStepKeepsContract]_(Sqlite!vars)
<1>1. CASE Sqlite!Next
  BY <1>1, LiteNextStep
<1>2. CASE UNCHANGED Sqlite!vars
  <2>1. LiteHandles' /\ LiteFrame'
    BY <1>2
      DEF Sqlite!vars, Sqlite!handleVars, LiteInductive, LiteHandles, LiteTypes,
          LiteOwned,
                LiteZombie, LiteFrame
  <2>2. LiteCounts'
    BY <1>2, LiteCountsKept DEF Sqlite!vars, Sqlite!closureVars, LiteInductive
  <2> QED BY <1>2, <2>1, <2>2 DEF LiteInductive
<1> QED BY <1>1, <1>2

(* SqliteHandles!NothingStranded with the types, and its ClosureCounted. *)
LEMMA LiteInvariants ==
  LiteInductive => Sqlite!TypeOK /\ Sqlite!NothingStranded /\ Sqlite!ClosureCounted
<1> SUFFICES ASSUME LiteInductive
             PROVE  Sqlite!TypeOK /\ Sqlite!NothingStranded /\ Sqlite!ClosureCounted
  OBVIOUS
<1>1. Sqlite!TypeOK
  <2>1. Sqlite!Cardinality(frame) <= 1
    <3>1. Sqlite!Cardinality(frame) = Cardinality(frame)
      BY LiteCardinality
    <3>2. frame = {} \/ \E f : frame = {f}
      BY DEF LiteInductive, LiteFrame
    <3>3. Cardinality(frame) \in {0, 1}
      BY <3>2, FS_EmptySet, FS_Singleton
    <3> QED BY <3>1, <3>3
  <2> QED BY <2>1 DEF LiteInductive, LiteHandles, LiteTypes, LiteFrame, LiteCounts,
                      LiteClosureTypes, Sqlite!TypeOK
<1>2. Sqlite!NothingStranded
  BY DEF LiteInductive, LiteHandles, LiteOwned, LiteZombie, Sqlite!NothingStranded,
         Sqlite!openStatements
<1>3. Sqlite!ClosureCounted
  BY LiteReferences DEF LiteInductive, LiteCounts, Sqlite!ClosureCounted
<1> QED BY <1>1, <1>2, <1>3

(* SqliteHandles!KeepsContract: SqliteHandles implements ForeignResource,   *)
(* step for step: no call of the binding hands SQLite a connection or a     *)
(* statement that is gone, whatever was closed, finalized or dropped before *)
(* it, zombies and callbacks included.                                      *)
THEOREM SqliteImplementsContract == Sqlite!Spec => Sqlite!KeepsContract
<1>1. [LiteStepKeepsContract]_(Sqlite!vars)
        => [Sqlite!Contract!Call]_<<Sqlite!live, Sqlite!gone, liteTouched>>
  BY DEF LiteStepKeepsContract, Sqlite!vars, Sqlite!handleVars, Sqlite!live, Sqlite!gone
<1>2. [LiteStepKeepsContract]_(Sqlite!vars) => [Sqlite!Contract!Call]_(Sqlite!vars)
  BY DEF LiteStepKeepsContract
<1> QED
  BY <1>1, <1>2, LiteInitHolds, LiteInductiveStep, PTL
  DEF Sqlite!Spec, Sqlite!KeepsContract, Sqlite!Contract!Spec, Sqlite!Contract!vars

-----------------------------------------------------------------------------
(* The closure behind a scalar function of DuckDB.  While no two updates of *)
(* its count have overlapped, at most one is under way, and it has read     *)
(* what is there; the count is the references of the program, of DuckDB, of *)
(* each call that has retained and not released, and of the calls that      *)
(* were not made.                                                           *)
ExtraHolding == {t \in Worker : doing[t] \in {"call", "release"}}

ExtraTypes ==
  /\ doing \in [Worker -> {"out", "retain", "call", "release"}] /\ seen \in [Worker -> Int]
  /\ own \in Nat /\ leaked \in Nat /\ rc \in Int
  /\ stored \in BOOLEAN /\ freed \in BOOLEAN /\ overlapped \in BOOLEAN

ExtraCount ==
  rc = own + (IF stored THEN 1 ELSE 0) + Cardinality(ExtraHolding) + leaked

ExtraExact ==
  /\ \A t, u \in Extra!Updating : t = u
  /\ \A t \in Extra!Updating : seen[t] = rc
  /\ \A t \in Worker : doing[t] = "retain" => stored = TRUE
  /\ ExtraCount
  /\ freed = TRUE <=> rc = 0

ExtraInductive == ExtraTypes /\ (overlapped = FALSE => ExtraExact)

LEMMA ExtraFinite ==
  /\ IsFiniteSet(Worker) /\ IsFiniteSet(ExtraHolding) /\ Cardinality(ExtraHolding) \in Nat
  /\ \A S : Extra!Cardinality(S) = Cardinality(S)
<1>1. IsFiniteSet(Worker)
  BY LibrariesAreSound DEF Extra!DuckCallbackAssumption, Extra!IsFiniteSet, IsFiniteSet
<1>2. ExtraHolding \subseteq Worker
  BY DEF ExtraHolding
<1>3. \A S : Extra!Cardinality(S) = Cardinality(S)
  BY DEF Extra!Cardinality, Cardinality
<1> QED BY <1>1, <1>2, <1>3, FS_Subset, FS_CardinalityType

LEMMA ExtraInitHolds == Extra!Init => ExtraInductive
<1> SUFFICES ASSUME Extra!Init PROVE ExtraInductive
  OBVIOUS
<1>1. ExtraTypes
  <2>1. /\ doing \in [Worker -> {"out", "retain", "call", "release"}]
        /\ seen \in [Worker -> Int]
    BY DEF Extra!Init
  <2>2. own \in Nat /\ leaked \in Nat /\ rc \in Int
    BY DEF Extra!Init
  <2>3. stored \in BOOLEAN /\ freed \in BOOLEAN /\ overlapped \in BOOLEAN
    BY DEF Extra!Init
  <2> QED BY <2>1, <2>2, <2>3 DEF ExtraTypes
<1>2. ExtraHolding = {} /\ Extra!Updating = {}
  BY DEF Extra!Init, ExtraHolding, Extra!Updating
<1>3. Cardinality(ExtraHolding) = 0
  BY <1>2, FS_EmptySet, Zenon
<1>4. \A t \in Worker : doing[t] # "retain"
  BY DEF Extra!Init
<1>5. own = 1 /\ rc = 1 /\ stored = FALSE /\ freed = FALSE /\ leaked = 0
  BY DEF Extra!Init
<1>6. ExtraCount
  BY <1>3, <1>5 DEF ExtraCount
<1> QED BY <1>1, <1>2, <1>4, <1>5, <1>6 DEF ExtraInductive, ExtraExact

(* What the program and DuckDB do between queries, when nobody updates.     *)
LEMMA ExtraIdleSteps ==
  ASSUME ExtraInductive,
         Extra!Share \/ Extra!DropOwn \/ Extra!SetExtra \/ Extra!Delete
  PROVE  ExtraInductive'
<1>1. /\ UNCHANGED <<doing, seen, leaked, overlapped>>
      /\ \A t \in Worker : doing[t] = "out"
  BY DEF Extra!Share, Extra!DropOwn, Extra!SetExtra, Extra!Delete, Extra!Idle
<1>2. ExtraTypes'
  <2>1. own' \in Nat /\ rc' \in Int
    BY DEF ExtraInductive, ExtraTypes, Extra!Share, Extra!DropOwn, Extra!SetExtra,
           Extra!Delete
  <2>2. stored' \in BOOLEAN
    BY DEF ExtraInductive, ExtraTypes, Extra!Share, Extra!DropOwn, Extra!SetExtra,
           Extra!Delete
  <2>3. freed' = freed \/ freed' = (freed \/ rc = 1)
    BY DEF Extra!Share, Extra!DropOwn, Extra!SetExtra, Extra!Delete
  <2>4. freed' \in BOOLEAN
    BY <2>3 DEF ExtraInductive, ExtraTypes
  <2> QED BY <1>1, <2>1, <2>2, <2>4 DEF ExtraInductive, ExtraTypes
<1>3. ASSUME overlapped = FALSE PROVE ExtraExact'
  <2>1. PICK n \in Nat : n = Cardinality(ExtraHolding)
    BY ExtraFinite
  <2>2. Cardinality(ExtraHolding') = n
    <3>1. ExtraHolding' = ExtraHolding
      BY <1>1 DEF ExtraHolding
    <3> QED BY <2>1, <3>1, Zenon
  <2>3. ExtraCount /\ (freed = TRUE <=> rc = 0)
    BY <1>3 DEF ExtraInductive, ExtraExact
  <2>4. own' + (IF stored' THEN 1 ELSE 0) - rc' = own + (IF stored THEN 1 ELSE 0) - rc
    BY
      DEF ExtraInductive, ExtraTypes, Extra!Share, Extra!DropOwn, Extra!SetExtra,
          Extra!Delete
  <2>5. ExtraCount'
    BY <1>1, <1>2, <2>1, <2>2, <2>3, <2>4 DEF ExtraCount, ExtraInductive, ExtraTypes
  <2>6. freed' = TRUE <=> rc' = 0
    <3>1. rc \in Nat /\ own \in Nat
      BY <2>1, <2>3 DEF ExtraCount, ExtraInductive, ExtraTypes
    <3>2. CASE Extra!Share
      BY <2>1, <2>3, <3>1, <3>2 DEF Extra!Share, ExtraCount, ExtraInductive, ExtraTypes
    <3>3. CASE Extra!SetExtra
      BY <2>3, <3>1, <3>3 DEF Extra!SetExtra
    <3>4. CASE Extra!DropOwn \/ Extra!Delete
      <4>1. rc > 0
        BY <2>1, <2>3, <3>4
          DEF Extra!DropOwn, Extra!Delete, ExtraCount, ExtraInductive, ExtraTypes
      <4>2. rc' = rc - 1 /\ freed' = (freed \/ rc = 1)
        BY <3>4 DEF Extra!DropOwn, Extra!Delete
      <4>3. freed = FALSE
        BY <2>3, <4>1 DEF ExtraInductive, ExtraTypes
      <4>4. freed' = TRUE <=> rc = 1
        BY <4>2, <4>3, Zenon
      <4> QED BY <3>1, <4>1, <4>2, <4>4
    <3> QED BY <3>2, <3>3, <3>4
  <2>7. Extra!Updating' = {} /\ \A t \in Worker : doing'[t] # "retain"
    BY <1>1 DEF Extra!Updating
  <2> QED BY <2>5, <2>6, <2>7 DEF ExtraExact
<1> QED BY <1>1, <1>2, <1>3 DEF ExtraInductive

(* A thread reads the count: it is alone, or updates have overlapped.       *)
LEMMA ExtraBeginStep ==
  ASSUME ExtraInductive, NEW t \in Worker, NEW update \in {"retain", "release"},
         Extra!Begin(t, update), UNCHANGED <<own, stored, rc, freed, leaked>>,
         update = "retain" => doing[t] = "out" /\ stored = TRUE,
         update = "release" => doing[t] = "call"
  PROVE  ExtraInductive'
<1>0. /\ doing \in [Worker -> {"out", "retain", "call", "release"}] /\ seen \in [Worker -> Int]
      /\ rc \in Int
  BY DEF ExtraInductive, ExtraTypes
<1>1. /\ doing' = [doing EXCEPT ![t] = update] /\ seen' = [seen EXCEPT ![t] = rc]
      /\ overlapped' = (overlapped \/ Extra!Updating # {})
  BY DEF Extra!Begin
<1>2. /\ doing'[t] = update /\ seen'[t] = rc /\ \A u \in Worker \ {t} : doing'[u] = doing[u]
  BY <1>0, <1>1
<1>3. ExtraTypes'
  BY <1>0, <1>1 DEF ExtraInductive, ExtraTypes
<1>4. ASSUME overlapped' = FALSE PROVE ExtraExact'
  <2>1. overlapped = FALSE /\ Extra!Updating = {}
    BY <1>1, <1>4 DEF ExtraInductive, ExtraTypes
  <2>2. ExtraExact
    BY <2>1 DEF ExtraInductive
  <2>3. Extra!Updating' = {t}
    BY <1>2, <2>1 DEF Extra!Updating
  <2>4. Cardinality(ExtraHolding') = Cardinality(ExtraHolding)
    <3>1. ExtraHolding' = ExtraHolding
      BY <1>2 DEF ExtraHolding
    <3> QED BY <3>1, Zenon
  <2>5. ExtraCount'
    BY <2>2, <2>4 DEF ExtraExact, ExtraCount
  <2>6. \A u \in Worker : doing'[u] = "retain" => stored' = TRUE
    BY <1>2, <2>2 DEF ExtraExact
  <2> QED BY <1>2, <2>2, <2>3, <2>5, <2>6 DEF ExtraExact
<1> QED BY <1>3, <1>4 DEF ExtraInductive

(* It writes back what it read and one more, or one less.                   *)
LEMMA ExtraEndStep ==
  ASSUME ExtraInductive, NEW t \in Worker,
         UNCHANGED <<own, stored, overlapped>>,
         \/ /\ doing[t] = "retain" /\ UNCHANGED freed
            /\ \/ Extra!End(t, 1, "call") /\ UNCHANGED leaked
               \/ Extra!End(t, 1, "out") /\ leaked' = leaked + 1
         \/ /\ doing[t] = "release" /\ freed' = (freed \/ seen[t] = 1) /\ UNCHANGED leaked
            /\ Extra!End(t, -1, "out")
  PROVE  ExtraInductive'
<1>0. /\ doing \in [Worker -> {"out", "retain", "call", "release"}] /\ seen \in [Worker -> Int]
      /\ rc \in Int /\ own \in Nat /\ leaked \in Nat /\ stored \in BOOLEAN /\ freed \in BOOLEAN
  BY DEF ExtraInductive, ExtraTypes
<1>1. PICK change \in {1, -1}, then \in {"call", "out"} :
        /\ rc' = seen[t] + change /\ seen' = [seen EXCEPT ![t] = 0]
        /\ doing' = [doing EXCEPT ![t] = then]
        /\ change = 1 => doing[t] = "retain" /\ freed' = freed
        /\ change = -1 => /\ doing[t] = "release" /\ then = "out" /\ leaked' = leaked
                          /\ freed' = (freed \/ seen[t] = 1)
        /\ change = 1 /\ then = "call" => leaked' = leaked
        /\ change = 1 /\ then = "out" => leaked' = leaked + 1
  BY DEF Extra!End
<1>2. /\ doing'[t] = then /\ \A u \in Worker \ {t} : doing'[u] = doing[u]
      /\ \A u \in Worker \ {t} : seen'[u] = seen[u]
  BY <1>0, <1>1
<1>3. ExtraTypes'
  <2>1. /\ doing' \in [Worker -> {"out", "retain", "call", "release"}]
        /\ seen' \in [Worker -> Int] /\ rc' \in Int /\ leaked' \in Nat
    BY <1>0, <1>1
  <2>2. freed' = freed \/ freed' = (freed \/ seen[t] = 1)
    BY <1>1
  <2>3. freed' \in BOOLEAN
    BY <1>0, <2>2
  <2> QED BY <2>1, <2>3 DEF ExtraInductive, ExtraTypes
<1>4. ASSUME overlapped = FALSE PROVE ExtraExact'
  <2>1. ExtraExact
    BY <1>4 DEF ExtraInductive
  <2>2. t \in Extra!Updating /\ seen[t] = rc /\ \A u \in Extra!Updating : u = t
    BY <1>1, <2>1 DEF ExtraExact, Extra!Updating
  <2>3. Extra!Updating' = {}
    BY <1>1, <1>2, <2>2 DEF Extra!Updating
  <2>4. PICK n \in Nat : n = Cardinality(ExtraHolding)
    BY ExtraFinite
  <2>5. IF change = -1 THEN n > 0 /\ Cardinality(ExtraHolding') = n - 1
        ELSE Cardinality(ExtraHolding') = IF then = "call" THEN n + 1 ELSE n
    <3>1. CASE change = -1
      <4>1. t \in ExtraHolding /\ ExtraHolding' = ExtraHolding \ {t}
        BY <1>1, <1>2, <3>1 DEF ExtraHolding
      <4>2. Cardinality(ExtraHolding \ {t}) = n - 1
        BY <2>4, <4>1, ExtraFinite, FS_RemoveElement
      <4>3. n > 0
        BY <2>4, <4>1, <4>2, ExtraFinite, FS_RemoveElement, FS_CardinalityType,
              FS_Subset
      <4> QED BY <3>1, <4>1, <4>2, <4>3
    <3>2. CASE change = 1 /\ then = "call"
      <4>1. t \notin ExtraHolding /\ ExtraHolding' = ExtraHolding \cup {t}
        BY <1>1, <1>2, <3>2 DEF ExtraHolding
      <4>2. Cardinality(ExtraHolding \cup {t}) = n + 1
        BY <2>4, <4>1, ExtraFinite, FS_AddElement
      <4> QED BY <3>2, <4>1, <4>2
    <3>3. CASE change = 1 /\ then = "out"
      <4>1. ExtraHolding' = ExtraHolding
        BY <1>1, <1>2, <3>3 DEF ExtraHolding
      <4>2. Cardinality(ExtraHolding') = n
        BY <2>4, <4>1, Zenon
      <4> QED BY <3>3, <4>2
    <3> QED BY <1>1, <3>1, <3>2, <3>3
  <2>6. ExtraCount /\ (freed = TRUE <=> rc = 0)
    BY <2>1 DEF ExtraExact
  <2>7. rc = own + (IF stored THEN 1 ELSE 0) + n + leaked
    BY <2>4, <2>6 DEF ExtraCount
  <2>8. rc' = own + (IF stored THEN 1 ELSE 0) + Cardinality(ExtraHolding') + leaked'
    <3>1. CASE change = -1
      BY <1>0, <1>1, <2>2, <2>5, <2>7, <3>1
    <3>2. CASE change = 1
      BY <1>0, <1>1, <2>2, <2>5, <2>7, <3>2
    <3> QED BY <3>1, <3>2
  <2>9. ExtraCount'
    BY <2>8 DEF ExtraCount
  <2>10. freed' = TRUE <=> rc' = 0
    <3>1. CASE change = -1
      <4>1. rc > 0 /\ rc' = rc - 1
        BY <1>0, <1>1, <2>2, <2>5, <2>7, <3>1
      <4>2. freed = FALSE /\ freed' = (freed \/ rc = 1)
        BY <1>0, <1>1, <2>2, <2>6, <3>1, <4>1
      <4>3. freed' = TRUE <=> rc = 1
        BY <4>2, Zenon
      <4> QED BY <1>0, <4>1, <4>3
    <3>2. CASE change = 1
      <4>1. doing[t] = "retain" /\ stored = TRUE
        BY <1>1, <2>1, <3>2 DEF ExtraExact
      <4> QED BY <1>0, <1>1, <2>2, <2>6, <2>7, <3>2, <4>1
    <3> QED BY <3>1, <3>2
  <2>11. \A u \in Worker : doing'[u] # "retain"
    BY <2>3 DEF Extra!Updating
  <2> QED BY <2>3, <2>9, <2>10, <2>11 DEF ExtraExact
<1> QED BY <1>3, <1>4 DEF ExtraInductive

LEMMA ExtraStep ==
  ASSUME ExtraInductive, [Extra!Next]_(Extra!vars)
  PROVE  ExtraInductive'
<1>1. CASE UNCHANGED Extra!vars
  BY <1>1
    DEF Extra!vars, ExtraInductive, ExtraTypes, ExtraExact, ExtraCount, ExtraHolding,
              Extra!Updating
<1>2. ASSUME NEW t \in Worker, Extra!Enter(t) PROVE ExtraInductive'
  BY <1>2, ExtraBeginStep DEF Extra!Enter, ExtraInductive, ExtraTypes
<1>3. ASSUME NEW t \in Worker, Extra!Retained(t) PROVE ExtraInductive'
  BY <1>3, ExtraEndStep DEF Extra!Retained
<1>4. ASSUME NEW t \in Worker, Extra!Applied(t) PROVE ExtraInductive'
  BY <1>4, ExtraBeginStep DEF Extra!Applied
<1>5. ASSUME NEW t \in Worker, Extra!Released(t) PROVE ExtraInductive'
  BY <1>5, ExtraEndStep DEF Extra!Released
<1> QED BY <1>1, <1>2, <1>3, <1>4, <1>5, ExtraIdleSteps DEF Extra!Next

LEMMA ExtraInvariants == ExtraInductive => Extra!ClosureCounted /\ Extra!HeldForTheCall
<1> SUFFICES ASSUME ExtraInductive, overlapped = FALSE
             PROVE  /\ Extra!Updating = {} =>
                         /\ rc = own + (IF stored THEN 1 ELSE 0)
                                  + Cardinality({t \in Worker : doing[t] = "call"}) + leaked
                         /\ freed <=> rc = 0
                    /\ Extra!LastsForTheCall
                    /\ own > 0 => ~freed
  BY ExtraFinite
    DEF Extra!ClosureCounted, Extra!HeldForTheCall, ExtraInductive, ExtraTypes
<1>1. ExtraExact /\ ExtraTypes
  BY DEF ExtraInductive
<1>2. PICK n \in Nat : n = Cardinality(ExtraHolding) /\ (ExtraHolding # {} => n > 0)
  <2>1. ExtraHolding # {} => Cardinality(ExtraHolding) # 0
    BY ExtraFinite, FS_EmptySet
  <2> QED BY <2>1, ExtraFinite
<1>3. rc = own + (IF stored THEN 1 ELSE 0) + n + leaked /\ (freed = TRUE <=> rc = 0)
  BY <1>1, <1>2 DEF ExtraExact, ExtraCount
<1>4. ASSUME Extra!Updating = {}
      PROVE  rc = own + (IF stored THEN 1 ELSE 0)
                  + Cardinality({t \in Worker : doing[t] = "call"}) + leaked
  <2>1. {t \in Worker : doing[t] = "call"} = ExtraHolding
    BY <1>4 DEF Extra!Updating, ExtraHolding
  <2> QED BY <1>2, <1>3, <2>1, Zenon
<1>5. Extra!LastsForTheCall
  <2>1. CASE stored = TRUE
    BY <1>1, <1>2, <1>3, <2>1 DEF ExtraTypes, Extra!LastsForTheCall
  <2>2. ASSUME NEW t \in Worker, doing[t] # "out", stored = FALSE PROVE freed = FALSE
    <3>1. t \in ExtraHolding
      BY <1>1, <2>2 DEF ExtraTypes, ExtraExact, ExtraHolding
    <3> QED BY <1>1, <1>2, <1>3, <3>1 DEF ExtraTypes
  <2> QED BY <1>1, <2>1, <2>2 DEF ExtraTypes, Extra!LastsForTheCall, Extra!Idle
<1>6. own > 0 => ~freed
  BY <1>1, <1>2, <1>3 DEF ExtraTypes
<1> QED BY <1>1, <1>3, <1>4, <1>5, <1>6 DEF ExtraTypes

-----------------------------------------------------------------------------
(* MCLibrary!NothingStranded, and the types.  What SQLite or libpq has open *)
(* the program can still release.  What DuckDB has open it can too, but for *)
(* a handle that it let go of, without destroying it, after a call lost a   *)
(* reference to it: that one stays.                                          *)
THEOREM NothingIsStranded == Sqlite!Spec /\ Pg!Spec /\ Duck!Spec => []NothingStranded
<1>1. Sqlite!Spec => [](Sqlite!TypeOK /\ Sqlite!NothingStranded)
  BY LiteInvariants, LiteInitHolds, LiteInductiveStep, PTL DEF Sqlite!Spec
<1>2. Duck!Spec => [](Duck!TypeOK /\ Duck!NothingStranded)
  BY DuckNothingStranded, DuckInitHolds, DuckInductiveStep, PTL DEF Duck!Spec
<1>3. (/\ Sqlite!TypeOK /\ Sqlite!NothingStranded
       /\ Pg!NothingStranded
       /\ Duck!TypeOK /\ Duck!NothingStranded) => NothingStranded
  BY DEF NothingStranded
<1> QED BY <1>1, <1>2, <1>3, PgNothingStranded, PTL

(* MCLibrary!ClosureCounted.  A closure registered with SQLite, or stored   *)
(* in DuckDB, has as many references as uses (and those that a call without *)
(* memory leaves behind), and is there for the whole of a call.  With       *)
(* DuckDB this is so on any number of threads as long as no two of them     *)
(* update the count at once: see DuckCallback!LastsForTheCall.              *)
THEOREM ClosuresAreCounted == Sqlite!Spec /\ Extra!Spec => []ClosureCounted
<1>1. Sqlite!Spec => []Sqlite!ClosureCounted
  BY LiteInvariants, LiteInitHolds, LiteInductiveStep, PTL DEF Sqlite!Spec
<1>2. Extra!Spec => [](Extra!ClosureCounted /\ Extra!HeldForTheCall)
  BY ExtraInitHolds, ExtraInvariants, ExtraStep, PTL DEF Extra!Spec
<1>3. Sqlite!ClosureCounted /\ Extra!ClosureCounted /\ Extra!HeldForTheCall => ClosureCounted
  BY DEF ClosureCounted
<1> QED BY <1>1, <1>2, <1>3, PTL

(* ContractsKept: the MVar implements its contract, and no binding hands a  *)
(* library what it has freed, or frees anything twice.                      *)
THEOREM ContractsAreKept ==
  M!HSpec /\ Sqlite!Spec /\ Pg!Spec /\ Duck!Spec => ContractsKept
<1> QED
  BY MVarImplementsContract, SqliteImplementsContract, PgImplementsContract,
     DuckImplementsContract, PTL DEF ContractsKept

=============================================================================
