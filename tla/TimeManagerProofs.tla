------------------------- MODULE TimeManagerProofs -------------------------
(***************************************************************************)
(* Proofs about TimeManager, for any set of handles, timeout and bounds:   *)
(* a handle registered outside a compaction and never canceled stays in    *)
(* the array, and every callback run is paid for by one arming.            *)
(***************************************************************************)
EXTENDS MCReceive, DataLemmas, TLAPS

----------------------------------------------------------------------------
(* The inductive invariant, in the parts the two theorems need.            *)

(* Types, and what the sweeper's place says of the copy it walks: without  *)
(* the last conjunct Head(todo) would mean nothing.                        *)
Shape ==
  /\ handles \in Seq(Handle) /\ todo \in Seq(Handle) /\ kept \in Seq(Handle)
  /\ clock \in 0..MaxClock /\ now \in 0..MaxClock
  /\ phase \in [Handle -> Tm!Phase]
  /\ deadline \in [Handle -> Nat]
  /\ pending \in [Handle -> SUBSET Nat]
  /\ token \in BOOLEAN
  /\ pc \in {"asleep", "awake", "snapshot", "scan", "expired", "callback",
             "filter", "stopped"}
  /\ atRisk \in SUBSET Handle
  /\ armed \in [Handle -> 0..MaxArmed]
  /\ fired \in [Handle -> Nat]
  /\ \A h \in Handle : pending[h] # {} => armed[h] < MaxArmed
  /\ pc \in {"expired", "callback"} => todo # <<>>

(* No array holds a handle twice; what is kept is not to be walked again,  *)
(* and a handle nobody registered is nowhere.                              *)
NoDuplicates ==
  /\ IsInjective(handles) /\ IsInjective(todo) /\ IsInjective(kept)
  /\ pc = "filter" => ToSet(kept) \cap ToSet(todo) = {}
  /\ \A h \in Handle :
       phase[h] = "none" => h \notin ToSet(handles) \cup ToSet(todo)
                                                    \cup ToSet(kept)

(* A handle not at risk is in the array, and during a compaction also in   *)
(* the part that is kept or still to be read.                              *)
Safe(h) ==
  phase[h] # "none" /\ h \notin atRisk =>
    /\ phase[h] # "canceled"
    /\ h \in ToSet(handles)
    /\ pc = "filter" => h \in ToSet(kept) \cup ToSet(todo)

AllSafe == \A h \in Handle : Safe(h)

(* An arming is spent by at most one of: a callback that has run, one that *)
(* is about to run, and a state the sweeper may still act on.              *)
AboutToRun(h) == IF pc = "callback" /\ h = Head(todo) THEN 1 ELSE 0

Chargeable(h) ==
  IF phase[h] = "active" \/ (pc = "expired" /\ h = Head(todo)) THEN 1 ELSE 0

Paid == \A h \in Handle : fired[h] + AboutToRun(h) + Chargeable(h) <= armed[h]

Inductive == Shape /\ NoDuplicates /\ AllSafe /\ Paid

(* Tm takes its library operators with it. *)
LEMMA SameOperators ==
  /\ \A s : Tm!ToSet(s) = ToSet(s)
  /\ \A s : Tm!IsInjective(s) = IsInjective(s)
BY DEF Tm!ToSet, ToSet, Tm!IsInjective, IsInjective

LEMMA InitHolds ==
  ASSUME Tm!Init
  PROVE  Inductive
<1> USE TimeoutsAreSound DEF Tm!TimeManagerAssumption, Tm!Init
<1>1. Shape
  <2>1. /\ handles \in Seq(Handle) /\ todo \in Seq(Handle)
        /\ kept \in Seq(Handle)
    OBVIOUS
  <2>2. /\ clock \in 0..MaxClock /\ now \in 0..MaxClock
        /\ armed \in [Handle -> 0..MaxArmed]
    OBVIOUS
  <2>3. /\ phase \in [Handle -> Tm!Phase] /\ deadline \in [Handle -> Nat]
        /\ pending \in [Handle -> SUBSET Nat] /\ fired \in [Handle -> Nat]
    BY DEF Tm!Phase
  <2> QED BY <2>1, <2>2, <2>3 DEF Shape
<1>2. ToSet(<<>>) = {} /\ IsInjective(<<>>)
  BY DEF ToSet, IsInjective
<1>3. NoDuplicates
  BY <1>2 DEF NoDuplicates
<1>4. AllSafe
  BY DEF AllSafe, Safe
<1>5. Paid
  BY DEF Paid, AboutToRun, Chargeable
<1> QED BY <1>1, <1>3, <1>4, <1>5 DEF Inductive

----------------------------------------------------------------------------
(* One lemma per part: every step of Next preserves it.                    *)

LEMMA ShapeStep ==
  ASSUME Shape, [Tm!Next]_(Tm!vars)
  PROVE  Shape'
<1> USE TimeoutsAreSound DEF Tm!TimeManagerAssumption, Shape, Tm!Phase, Tm!sweeper, Tm!clients, Tm!world
<1>1. CASE Tm!Advance
  BY <1>1 DEF Tm!Advance
<1>2. ASSUME NEW h \in Handle, Tm!ReadDeadline(h) PROVE Shape'
  <2>1. /\ armed[h] < MaxArmed /\ clock + Timeout \in Nat
        /\ pending' = [pending EXCEPT ![h] = {clock + Timeout}]
        /\ UNCHANGED <<clock, handles, phase, deadline, Tm!sweeper, token, armed,
                       fired, atRisk>>
    BY <1>2 DEF Tm!ReadDeadline
  <2>2. pending' \in [Handle -> SUBSET Nat]
    BY <2>1
  <2>3. \A g \in Handle : pending'[g] # {} => armed'[g] < MaxArmed
    BY <2>1
  <2> QED BY <2>1, <2>2, <2>3
<1>3. ASSUME NEW h \in Handle, Tm!Register(h) \/ Tm!Rearm(h) PROVE Shape'
  <2>1. Tm!MakeActive(h)
    BY <1>3 DEF Tm!Register, Tm!Rearm
  <2>2. /\ deadline' \in [Handle -> Nat]
        /\ pending' = [pending EXCEPT ![h] = {}]
        /\ phase' \in [Handle -> Tm!Phase]
    BY <2>1 DEF Tm!MakeActive
  <2>3. armed[h] < MaxArmed /\ armed' = [armed EXCEPT ![h] = armed[h] + 1]
    BY <2>1 DEF Tm!MakeActive
  <2>4. armed' \in [Handle -> 0..MaxArmed]
    BY <2>3
  <2>5. \A g \in Handle : pending'[g] # {} => armed'[g] < MaxArmed
    BY <2>2, <2>3
  <2>6. handles' \in Seq(Handle) /\ atRisk' \in SUBSET Handle
    <3>1. CASE Tm!Register(h)
      <4>1. handles' = Append(handles, h) /\ atRisk' \in {atRisk, atRisk \cup {h}}
        BY <3>1 DEF Tm!Register
      <4> QED BY <4>1
    <3>2. CASE Tm!Rearm(h)
      BY <3>2 DEF Tm!Rearm
    <3> QED BY <1>3, <3>1, <3>2
  <2>7. UNCHANGED <<clock, Tm!sweeper, token, fired>>
    BY <1>3 DEF Tm!Register, Tm!Rearm
  <2> QED BY <2>2, <2>4, <2>5, <2>6, <2>7
<1>4. ASSUME NEW h \in Handle, Tm!Cancel(h) \/ Tm!Pause(h) PROVE Shape'
  BY <1>4 DEF Tm!Cancel, Tm!Pause, Tm!Quieten
<1>5. CASE Tm!Stop
  BY <1>5 DEF Tm!Stop
<1>6. CASE Tm!Wake \/ Tm!ReadClock \/ Tm!Snapshot
  BY <1>6 DEF Tm!Wake, Tm!ReadClock, Tm!Snapshot
<1>7. CASE Tm!Inspect
  <2>1. todo # <<>> /\ Tail(todo) \in Seq(Handle)
    BY <1>7, ToSetHeadTail DEF Tm!Inspect
  <2>2. CASE pc' = "expired" /\ UNCHANGED todo
    BY <1>7, <2>1, <2>2 DEF Tm!Inspect
  <2>3. CASE todo' = Tail(todo) /\ UNCHANGED pc
    BY <1>7, <2>1, <2>3 DEF Tm!Inspect
  <2> QED BY <1>7, <2>2, <2>3 DEF Tm!Inspect
<1>8. CASE Tm!Expire
  <2>1. Head(todo) \in Handle
    BY <1>8, ToSetHeadTail DEF Tm!Expire
  <2> QED BY <1>8, <2>1 DEF Tm!Expire
<1>9. CASE Tm!Callback
  <2>1. Head(todo) \in Handle /\ Tail(todo) \in Seq(Handle)
    BY <1>9, ToSetHeadTail DEF Tm!Callback
  <2>2. todo' \in Seq(Handle) /\ pc' = "scan"
    BY <1>9, <2>1 DEF Tm!Callback
  <2>3. fired' \in [Handle -> Nat]
    BY <1>9, <2>1 DEF Tm!Callback
  <2>4. UNCHANGED <<Tm!world, handles, phase, now, kept, atRisk>>
    BY <1>9 DEF Tm!Callback
  <2>5. /\ pc' \in {"asleep", "awake", "snapshot", "scan", "expired",
                     "callback", "filter", "stopped"}
        /\ ~(pc' \in {"expired", "callback"})
    BY <2>2
  <2>6. UNCHANGED <<clock, handles, phase, deadline, token, pending, armed, now,
                    kept, atRisk>>
    BY <2>4
  <2> QED BY <2>2, <2>3, <2>5, <2>6
<1>10. CASE Tm!StartFilter
  BY <1>10 DEF Tm!StartFilter
<1>11. CASE Tm!Filter
  <2>1. Head(todo) \in Handle /\ Tail(todo) \in Seq(Handle)
    BY <1>11, ToSetHeadTail DEF Tm!Filter
  <2>2. todo' \in Seq(Handle) /\ kept' \in Seq(Handle)
    BY <1>11, <2>1 DEF Tm!Filter
  <2>3. UNCHANGED <<Tm!world, handles, phase, pc, now, fired, atRisk>> /\ pc = "filter"
    BY <1>11 DEF Tm!Filter
  <2> QED BY <2>2, <2>3
<1>12. CASE Tm!Compact
  BY <1>12 DEF Tm!Compact
<1>13. CASE UNCHANGED Tm!vars
  BY <1>13 DEF Tm!vars
<1> QED
  BY <1>1, <1>2, <1>3, <1>4, <1>5, <1>6, <1>7, <1>8, <1>9, <1>10, <1>11,
     <1>12, <1>13 DEF Tm!Next, Tm!Sweep

LEMMA NoDuplicatesStep ==
  ASSUME Shape, NoDuplicates, [Tm!Next]_(Tm!vars)
  PROVE  NoDuplicates'
<1> USE DEF Shape, NoDuplicates, Tm!sweeper, Tm!clients, Tm!world
<1>1. ASSUME UNCHANGED <<handles, todo, kept>>,
             \A h \in Handle : phase'[h] = "none" => phase[h] = "none",
             pc' = "filter" => pc = "filter"
      PROVE  NoDuplicates'
  BY <1>1
<1>2. CASE Tm!Advance \/ Tm!Stop \/ Tm!Wake \/ Tm!ReadClock \/ UNCHANGED Tm!vars
  BY <1>1, <1>2 DEF Tm!Advance, Tm!Stop, Tm!Wake, Tm!ReadClock, Tm!vars
<1>3. ASSUME NEW h \in Handle, Tm!ReadDeadline(h) \/ Tm!Cancel(h) \/ Tm!Pause(h)
      PROVE  NoDuplicates'
  BY <1>1, <1>3 DEF Tm!ReadDeadline, Tm!Cancel, Tm!Pause, Tm!Quieten
<1>4. ASSUME NEW h \in Handle, Tm!Rearm(h) PROVE NoDuplicates'
  BY <1>1, <1>4 DEF Tm!Rearm, Tm!MakeActive
<1>5. ASSUME NEW h \in Handle, Tm!Register(h) PROVE NoDuplicates'
  <2>1. /\ handles' = Append(handles, h) /\ UNCHANGED <<todo, kept, pc>>
        /\ phase[h] = "none" /\ phase' = [phase EXCEPT ![h] = "active"]
    BY <1>5 DEF Tm!Register, Tm!MakeActive
  <2>2. h \notin ToSet(handles)
    BY <2>1
  <2>3. IsInjective(handles')
    BY <2>1, <2>2, InjectiveAppend
  <2>4. ToSet(handles') = ToSet(handles) \cup {h}
    BY <2>1, ToSetAppend
  <2>5. \A g \in Handle : phase'[g] = "none" => g # h /\ phase[g] = "none"
    BY <2>1
  <2> QED BY <2>1, <2>3, <2>4, <2>5
<1>6. CASE Tm!Snapshot
  BY <1>6 DEF Tm!Snapshot
<1>7. ASSUME UNCHANGED <<handles, kept, phase>>, todo # <<>>,
             todo' = Tail(todo), pc' # "filter"
      PROVE  NoDuplicates'
  <2>1. IsInjective(todo')
    BY <1>7, InjectiveTail
  <2>2. ToSet(todo') \subseteq ToSet(todo)
    BY <1>7, ToSetHeadTail
  <2> QED BY <1>7, <2>1, <2>2
<1>8. CASE Tm!Inspect
  <2>1. CASE UNCHANGED todo
    BY <1>1, <1>8, <2>1 DEF Tm!Inspect
  <2>2. CASE todo' = Tail(todo)
    BY <1>7, <1>8, <2>2 DEF Tm!Inspect
  <2> QED BY <1>8, <2>1, <2>2 DEF Tm!Inspect
<1>9. CASE Tm!Expire
  <2>1. Head(todo) \in Handle
    BY <1>9, ToSetHeadTail DEF Tm!Expire
  <2> QED BY <1>1, <1>9, <2>1 DEF Tm!Expire
<1>10. CASE Tm!Callback
  BY <1>7, <1>10 DEF Tm!Callback
<1>11. CASE Tm!StartFilter
  BY <1>11, EmptyToSet DEF Tm!StartFilter
<1>12. CASE Tm!Filter
  <2> DEFINE h == Head(todo)
  <2>1. /\ UNCHANGED <<handles, phase, pc>> /\ pc = "filter" /\ todo # <<>>
        /\ todo' = Tail(todo) /\ kept' \in {kept, Append(kept, h)}
    BY <1>12 DEF Tm!Filter
  <2>2. /\ h \in Handle /\ ToSet(todo) = {h} \cup ToSet(todo')
        /\ IsInjective(todo') /\ h \notin ToSet(todo')
    BY <2>1, ToSetHeadTail, InjectiveTail
  <2>3. h \notin ToSet(kept)
    BY <2>1, <2>2
  <2>4. IsInjective(kept') /\ ToSet(kept') \subseteq ToSet(kept) \cup {h}
    <3>1. IsInjective(Append(kept, h))
      BY <2>2, <2>3, InjectiveAppend
    <3>2. ToSet(Append(kept, h)) = ToSet(kept) \cup {h}
      BY <2>2, ToSetAppend
    <3> QED BY <2>1, <3>1, <3>2
  <2> QED BY <2>1, <2>2, <2>4
<1>13. CASE Tm!Compact
  BY <1>13, EmptyToSet DEF Tm!Compact
<1> QED
  BY <1>2, <1>3, <1>4, <1>5, <1>6, <1>8, <1>9, <1>10, <1>11, <1>12, <1>13
  DEF Tm!Next, Tm!Sweep

LEMMA SafeStep ==
  ASSUME Shape, AllSafe, [Tm!Next]_(Tm!vars)
  PROVE  AllSafe'
<1> SUFFICES ASSUME NEW g \in Handle PROVE Safe(g)'
  BY DEF AllSafe
<1> Safe(g)
  BY DEF AllSafe
<1> USE DEF Shape, Safe, Tm!sweeper, Tm!clients, Tm!world
<1>1. CASE Tm!Advance \/ Tm!Stop \/ Tm!Wake \/ Tm!ReadClock \/ Tm!Snapshot \/ Tm!Inspect
           \/ Tm!Callback \/ UNCHANGED Tm!vars
  BY <1>1
    DEF Tm!Advance, Tm!Stop, Tm!Wake, Tm!ReadClock, Tm!Snapshot, Tm!Inspect,
        Tm!Callback, Tm!vars
<1>2. ASSUME NEW h \in Handle, Tm!ReadDeadline(h) \/ Tm!Cancel(h) \/ Tm!Pause(h)
      PROVE  Safe(g)'
  BY <1>2 DEF Tm!ReadDeadline, Tm!Cancel, Tm!Pause, Tm!Quieten
<1>3. ASSUME NEW h \in Handle, Tm!Rearm(h) PROVE Safe(g)'
  BY <1>3 DEF Tm!Rearm, Tm!MakeActive
<1>4. ASSUME NEW h \in Handle, Tm!Register(h) PROVE Safe(g)'
  <2>1. /\ ToSet(handles') = ToSet(handles) \cup {h}
        /\ UNCHANGED <<todo, kept, pc>>
        /\ phase' = [phase EXCEPT ![h] = "active"]
        /\ pc = "filter" => atRisk' = atRisk \cup {h}
        /\ atRisk \subseteq atRisk'
    <3>1. handles' = Append(handles, h) /\ handles \in Seq(Handle)
      BY <1>4 DEF Tm!Register
    <3>2. ToSet(handles') = ToSet(handles) \cup {h}
      BY <3>1, ToSetAppend
    <3>3. UNCHANGED <<todo, kept, pc>>
      BY <1>4 DEF Tm!Register
    <3>4. phase' = [phase EXCEPT ![h] = "active"]
      BY <1>4 DEF Tm!Register, Tm!MakeActive
    <3>5. atRisk' = IF pc = "filter" THEN atRisk \cup {h} ELSE atRisk
      BY <1>4 DEF Tm!Register
    <3> QED BY <3>2, <3>3, <3>4, <3>5
  <2>2. CASE g = h
    BY <2>1, <2>2
  <2>3. CASE g # h
    BY <2>1, <2>3
  <2> QED BY <2>2, <2>3
<1>5. CASE Tm!Expire
  BY <1>5, ToSetHeadTail DEF Tm!Expire
<1>6. CASE Tm!StartFilter
  BY <1>6 DEF Tm!StartFilter
<1>7. CASE Tm!Filter
  <2> DEFINE h == Head(todo)
  <2>1. /\ UNCHANGED <<handles, phase, pc, atRisk>>
        /\ pc = "filter" /\ todo # <<>> /\ todo' = Tail(todo)
        /\ phase[h] = "canceled" => kept' = kept
        /\ phase[h] # "canceled" => kept' = Append(kept, h)
    BY <1>7 DEF Tm!Filter
  <2>2. h \in Handle /\ ToSet(todo) = {h} \cup ToSet(todo')
    BY <2>1, ToSetHeadTail
  <2>3. ToSet(Append(kept, h)) = ToSet(kept) \cup {h}
    BY <2>2, ToSetAppend
  <2>4. /\ ToSet(kept) \subseteq ToSet(kept')
        /\ phase[h] # "canceled" => h \in ToSet(kept')
    <3>1. CASE phase[h] = "canceled"
      BY <2>1, <3>1
    <3>2. CASE phase[h] # "canceled"
      BY <2>1, <2>3, <3>2
    <3> QED BY <3>1, <3>2
  <2> QED BY <2>1, <2>2, <2>4
<1>8. CASE Tm!Compact
  BY <1>8, EmptyToSet DEF Tm!Compact
<1> QED
  BY <1>1, <1>2, <1>3, <1>4, <1>5, <1>6, <1>7, <1>8 DEF Tm!Next, Tm!Sweep

LEMMA PaidStep ==
  ASSUME Shape, Paid, [Tm!Next]_(Tm!vars)
  PROVE  Paid'
<1> SUFFICES ASSUME NEW g \in Handle
             PROVE  (fired[g] + AboutToRun(g) + Chargeable(g) <= armed[g])'
  BY DEF Paid
<1>0. /\ fired[g] + AboutToRun(g) + Chargeable(g) <= armed[g]
      /\ fired[g] \in Nat /\ armed[g] \in Nat
  BY DEF Paid, Shape
<1> USE <1>0 DEF AboutToRun, Chargeable, Tm!sweeper, Tm!clients, Tm!world
<1>1. CASE Tm!Advance \/ Tm!Stop \/ UNCHANGED Tm!vars
  BY <1>1 DEF Tm!Advance, Tm!Stop, Tm!vars
<1>2. CASE Tm!Wake \/ Tm!ReadClock \/ Tm!Snapshot \/ Tm!StartFilter \/ Tm!Filter \/ Tm!Compact
  BY <1>2 DEF Tm!Wake, Tm!ReadClock, Tm!Snapshot, Tm!StartFilter, Tm!Filter, Tm!Compact
<1>3. ASSUME NEW h \in Handle, Tm!ReadDeadline(h)
      PROVE  (fired[g] + AboutToRun(g) + Chargeable(g) <= armed[g])'
  BY <1>3 DEF Tm!ReadDeadline
<1>4. ASSUME NEW h \in Handle, Tm!Cancel(h) \/ Tm!Pause(h)
      PROVE  (fired[g] + AboutToRun(g) + Chargeable(g) <= armed[g])'
  <2>1. /\ UNCHANGED <<pc, todo, armed, fired>>
        /\ phase'[g] = "active" => phase[g] = "active"
    BY <1>4 DEF Tm!Cancel, Tm!Pause, Tm!Quieten, Shape
  <2> QED BY <2>1
<1>5. ASSUME NEW h \in Handle, Tm!Register(h) \/ Tm!Rearm(h)
      PROVE  (fired[g] + AboutToRun(g) + Chargeable(g) <= armed[g])'
  <2>1. /\ UNCHANGED <<pc, todo, fired>>
        /\ armed' = [armed EXCEPT ![h] = armed[h] + 1]
        /\ phase' = [phase EXCEPT ![h] = "active"]
    BY <1>5 DEF Tm!Register, Tm!Rearm, Tm!MakeActive
  <2>2. CASE g = h
    BY <2>1, <2>2 DEF Shape
  <2>3. CASE g # h
    BY <2>1, <2>3 DEF Shape
  <2> QED BY <2>2, <2>3
<1>6. CASE Tm!Inspect
  <2>1. UNCHANGED <<phase, armed, fired>> /\ pc = "scan"
    BY <1>6 DEF Tm!Inspect
  <2>2. CASE phase[Head(todo)] = "active" /\ pc' = "expired" /\ todo' = todo
    BY <2>1, <2>2
  <2>3. CASE pc' = pc
    BY <2>1, <2>3
  <2> QED BY <1>6, <2>2, <2>3 DEF Tm!Inspect
<1>7. CASE Tm!Expire
  <2>1. /\ UNCHANGED <<armed, fired, todo>> /\ pc = "expired"
        /\ pc' = "callback"
        /\ phase' = [phase EXCEPT ![Head(todo)] = "canceled"]
    BY <1>7 DEF Tm!Expire
  <2>2. CASE g = Head(todo)
    BY <2>1, <2>2 DEF Shape
  <2>3. CASE g # Head(todo)
    BY <2>1, <2>3 DEF Shape
  <2> QED BY <2>2, <2>3
<1>8. CASE Tm!Callback
  <2>1. /\ UNCHANGED <<armed, phase>> /\ pc = "callback" /\ pc' = "scan"
        /\ fired' = [fired EXCEPT ![Head(todo)] = fired[Head(todo)] + 1]
    BY <1>8 DEF Tm!Callback
  <2>2. CASE g = Head(todo)
    BY <2>1, <2>2 DEF Shape
  <2>3. CASE g # Head(todo)
    BY <2>1, <2>3 DEF Shape
  <2> QED BY <2>2, <2>3
<1> QED
  BY <1>1, <1>2, <1>3, <1>4, <1>5, <1>6, <1>7, <1>8 DEF Tm!Next, Tm!Sweep

LEMMA InductiveStep ==
  ASSUME Inductive, [Tm!Next]_(Tm!vars)
  PROVE  Inductive'
BY ShapeStep, NoDuplicatesStep, SafeStep, PaidStep DEF Inductive

LEMMA InductiveHolds == Tm!Spec => []Inductive
<1>1. Tm!Init => Inductive
  BY InitHolds
<1>2. Inductive /\ [Tm!Next]_(Tm!vars) => Inductive'
  BY InductiveStep
<1> QED BY <1>1, <1>2, PTL DEF Tm!Spec

----------------------------------------------------------------------------
(* Every reference holds a value of its type, and the array never holds a  *)
(* handle twice: a sweep visits each handle once.                          *)
THEOREM TypeCorrect == Tm!Spec => []Tm!TypeOK
<1>1. Inductive => Tm!TypeOK
  BY SameOperators DEF Inductive, Shape, NoDuplicates, Tm!TypeOK
<1> QED BY <1>1, InductiveHolds, PTL

(* A handle registered outside a compaction, and neither canceled nor      *)
(* fired, is never lost by `handles.set active.toArray`.                   *)
THEOREM SafeHandlesNeverLost == Tm!Spec => []SafeHandlesStayTracked
<1>1. Inductive => SafeHandlesStayTracked
  BY SameOperators
  DEF Inductive, AllSafe, Safe, SafeHandlesStayTracked, Tm!SafeHandlesStayTracked,
      Tm!Tracked
<1> QED BY <1>1, InductiveHolds, PTL

(* onTimeout runs at most once for each register, tickle or resume.        *)
THEOREM OneCallbackPerArming == Tm!Spec => []FiresOncePerArming
<1>1. Inductive => FiresOncePerArming
  <2> SUFFICES ASSUME Inductive, NEW h \in Handle PROVE fired[h] <= armed[h]
    BY DEF FiresOncePerArming, Tm!FiresOncePerArming
  <2>1. /\ fired[h] + AboutToRun(h) + Chargeable(h) <= armed[h]
        /\ fired[h] \in Nat /\ armed[h] \in Nat
    BY DEF Inductive, Shape, Paid
  <2> QED BY <2>1 DEF AboutToRun, Chargeable
<1> QED BY <1>1, InductiveHolds, PTL
=============================================================================
