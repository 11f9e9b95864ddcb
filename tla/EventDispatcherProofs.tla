------------------------ MODULE EventDispatcherProofs ------------------------
(***************************************************************************)
(* For any number of calls: types, ResolvedOnce and NeverDeaf.             *)
(***************************************************************************)
EXTENDS EventDispatcher, TLAPS

\* Every variable of a step that moves none of the steps' other variables is
\* visible to the provers only with these definitions.
USE DEF calls, dispatcher, closer, kernel, vars, Dirs, Resolve, stopTimer,
        eventLoopAdd, armMask, waiterMatches, Reportable

-----------------------------------------------------------------------------
(* Types.                                                                  *)

LEMMA TypeInit == Init => TypeOK
<1> SUFFICES ASSUME Init PROVE TypeOK
  OBVIOUS
<1>1. wants \in [Waiters -> Dirs] /\ deadline \in [Waiters -> BOOLEAN]
  BY DEF Init
<1>2. call \in [Waiters -> {"idle", "inserted", "adding", "returned", "failed"}]
  <2>1. call = [w \in Waiters |-> "idle"]
    BY DEF Init
  <2> QED BY <2>1
<1>3. mask \in [Waiters -> SUBSET Dirs]
  <2>1. mask = [w \in Waiters |-> {}]
    BY DEF Init
  <2> QED BY <2>1
<1>4. promise \in [Waiters -> {"pending", "ready", "timeout"}]
  <2>1. promise = [w \in Waiters |-> "pending"]
    BY DEF Init
  <2> QED BY <2>1
<1>5. timer \in [Waiters -> {"none", "made", "running", "firing", "over"}]
  <2>1. timer = [w \in Waiters |-> "none"]
    BY DEF Init
  <2> QED BY <2>1
<1>6. /\ waiters = {} /\ batch = {} /\ ready = {} /\ rearm = {}
      /\ pending = {} /\ armed = {} /\ level = {}
  BY DEF Init
<1>7. dpc = "top" /\ running = TRUE /\ closing = "no" /\ hup = FALSE
  BY DEF Init
<1> QED BY <1>1, <1>2, <1>3, <1>4, <1>5, <1>6, <1>7 DEF TypeOK

LEMMA TypeRegister ==
  ASSUME TypeOK, NEW w \in Waiters, register(w)
  PROVE  TypeOK'
<1>1. CASE Insert(w)
  BY <1>1 DEF TypeOK, Insert
<1>2. CASE StartTimer(w)
  BY <1>2 DEF TypeOK, StartTimer
<1>3. CASE Arm(w)
  BY <1>3 DEF TypeOK, Arm
<1> QED BY <1>1, <1>2, <1>3 DEF register

LEMMA TypeTimer ==
  ASSUME TypeOK, NEW w \in Waiters, timerOf(w)
  PROVE  TypeOK'
<1>1. CASE expire(w)
  BY <1>1 DEF TypeOK, expire
<1>2. CASE TimeOut(w)
  BY <1>2 DEF TypeOK, TimeOut
<1> QED BY <1>1, <1>2 DEF timerOf

LEMMA TypeDispatch ==
  ASSUME TypeOK, dispatchShard
  PROVE  TypeOK'
<1>1. CASE Top
  BY <1>1 DEF TypeOK, Top
<1>2. CASE Wake
  BY <1>2 DEF TypeOK, Wake
<1>3. CASE WaitTimesOut
  BY <1>3 DEF TypeOK, WaitTimesOut
<1>4. CASE WaitFails
  BY <1>4 DEF TypeOK, WaitFails
<1>5. CASE Collect
  BY <1>5 DEF TypeOK, Collect
<1>6. CASE Rearm
  BY <1>6 DEF TypeOK, Rearm
<1>7. ASSUME NEW w \in Waiters, ResolveReady(w) PROVE TypeOK'
  BY <1>7 DEF TypeOK, ResolveReady
<1> QED BY <1>1, <1>2, <1>3, <1>4, <1>5, <1>6, <1>7 DEF dispatchShard

LEMMA TypeShutdown ==
  ASSUME TypeOK, StopRunning \/ shutdown
  PROVE  TypeOK'
<1>1. CASE StopRunning
  BY <1>1 DEF TypeOK, StopRunning
<1>2. CASE Drain
  BY <1>2 DEF TypeOK, Drain
<1>3. CASE Close
  BY <1>3 DEF TypeOK, Close
<1>4. ASSUME NEW w \in Waiters, ResolvePending(w) PROVE TypeOK'
  BY <1>4 DEF TypeOK, ResolvePending
<1> QED BY <1>1, <1>2, <1>3, <1>4 DEF shutdown

LEMMA TypeSocket ==
  ASSUME TypeOK, socket
  PROVE  TypeOK'
<1>1. CASE HangUp
  BY <1>1 DEF TypeOK, HangUp
<1>2. ASSUME NEW d \in Dirs, Gain(d) PROVE TypeOK'
  BY <1>2 DEF TypeOK, Gain
<1>3. ASSUME NEW d \in Dirs, Use(d) PROVE TypeOK'
  BY <1>3 DEF TypeOK, Use
<1> QED BY <1>1, <1>2, <1>3 DEF socket

LEMMA TypeStep == TypeOK /\ [Next]_vars => TypeOK'
<1> SUFFICES ASSUME TypeOK, [Next]_vars PROVE TypeOK'
  OBVIOUS
<1>1. CASE UNCHANGED vars
  BY <1>1 DEF TypeOK
<1>2. CASE Next
  BY <1>2, TypeRegister, TypeTimer, TypeDispatch, TypeShutdown, TypeSocket DEF Next
<1> QED BY <1>1, <1>2

(* The variables of the shard, its callers and its registration keep their *)
(* shapes.                                                                 *)
THEOREM TypeCorrect == Spec => []TypeOK
BY TypeInit, TypeStep, PTL DEF Spec

-----------------------------------------------------------------------------
(* ResolvedOnce is inductive once a call that has not begun is known to    *)
(* have an unresolved promise, and the dispatch thread and shutdown to     *)
(* hold waiters in one phase only.                                         *)
IdleUnresolved == \A w \in Waiters : call[w] = "idle" => promise[w] = "pending"

Phases == /\ dpc # "resolve" => ready = {}
          /\ closing # "resolve" => pending = {}
          /\ running <=> closing = "no"

OnceInv == TypeOK /\ ResolvedOnce /\ IdleUnresolved /\ Phases

\* The holders one by one.
HeldOnce(w) ==
  /\ w \in waiters => w \notin ready /\ timer[w] # "firing" /\ w \notin pending
  /\ w \in ready => timer[w] # "firing" /\ w \notin pending
  /\ timer[w] = "firing" => w \notin pending

Held(w) == w \in waiters \/ w \in ready \/ timer[w] = "firing" \/ w \in pending

Unresolved(w) == call[w] # "idle" /\ promise[w] = "pending"

Once == \A w \in Waiters : HeldOnce(w) /\ (Held(w) <=> Unresolved(w))

LEMMA OnceByHolder == ResolvedOnce <=> Once
<1>1. ASSUME NEW w \in Waiters
      PROVE  (\A h \in Holders : ~HeldBy(h, w)) <=> ~Held(w)
  BY DEF Held, HeldBy, Holders
<1>2. ASSUME NEW w \in Waiters
      PROVE  (\E h \in Holders : HeldBy(h, w) /\ \A g \in Holders \ {h} : ~HeldBy(g, w))
               <=> Held(w) /\ HeldOnce(w)
  BY DEF Held, HeldOnce, HeldBy, Holders
<1>3. ASSUME NEW w \in Waiters PROVE ~Held(w) => HeldOnce(w)
  BY DEF Held, HeldOnce
<1> QED BY <1>1, <1>2, <1>3 DEF ResolvedOnce, Once, Unresolved

LEMMA OnceRegister ==
  ASSUME TypeOK, Once, IdleUnresolved, Phases, NEW w \in Waiters, register(w)
  PROVE  (Once /\ IdleUnresolved /\ Phases)'
<1>1. CASE Insert(w)
  BY <1>1 DEF TypeOK, Once, IdleUnresolved, Phases, HeldOnce, Held, Unresolved, Insert
<1>2. CASE StartTimer(w)
  BY <1>2 DEF TypeOK, Once, IdleUnresolved, Phases, HeldOnce, Held, Unresolved, StartTimer
<1>3. CASE Arm(w)
  BY <1>3 DEF TypeOK, Once, IdleUnresolved, Phases, HeldOnce, Held, Unresolved, Arm
<1> QED BY <1>1, <1>2, <1>3 DEF register

LEMMA OnceTimer ==
  ASSUME TypeOK, Once, IdleUnresolved, Phases, NEW w \in Waiters, timerOf(w)
  PROVE  (Once /\ IdleUnresolved /\ Phases)'
<1>1. CASE expire(w)
  BY <1>1 DEF TypeOK, Once, IdleUnresolved, Phases, HeldOnce, Held, Unresolved, expire
<1>2. CASE TimeOut(w)
  BY <1>2 DEF TypeOK, Once, IdleUnresolved, Phases, HeldOnce, Held, Unresolved, TimeOut
<1> QED BY <1>1, <1>2 DEF timerOf

LEMMA OnceDispatch ==
  ASSUME TypeOK, Once, IdleUnresolved, Phases, dispatchShard
  PROVE  (Once /\ IdleUnresolved /\ Phases)'
<1>1. CASE Top
  BY <1>1 DEF TypeOK, Once, IdleUnresolved, Phases, HeldOnce, Held, Unresolved, Top
<1>2. CASE Wake
  BY <1>2 DEF TypeOK, Once, IdleUnresolved, Phases, HeldOnce, Held, Unresolved, Wake
<1>3. CASE WaitTimesOut
  BY <1>3 DEF TypeOK, Once, IdleUnresolved, Phases, HeldOnce, Held, Unresolved, WaitTimesOut
<1>4. CASE WaitFails
  BY <1>4 DEF TypeOK, Once, IdleUnresolved, Phases, HeldOnce, Held, Unresolved, WaitFails
<1>5. CASE Collect
  BY <1>5 DEF TypeOK, Once, IdleUnresolved, Phases, HeldOnce, Held, Unresolved, Collect
<1>6. CASE Rearm
  BY <1>6 DEF TypeOK, Once, IdleUnresolved, Phases, HeldOnce, Held, Unresolved, Rearm
<1>7. ASSUME NEW w \in Waiters, ResolveReady(w) PROVE (Once /\ IdleUnresolved /\ Phases)'
  BY <1>7 DEF TypeOK, Once, IdleUnresolved, Phases, HeldOnce, Held, Unresolved, ResolveReady
<1> QED BY <1>1, <1>2, <1>3, <1>4, <1>5, <1>6, <1>7 DEF dispatchShard

LEMMA OnceShutdown ==
  ASSUME TypeOK, Once, IdleUnresolved, Phases, StopRunning \/ shutdown
  PROVE  (Once /\ IdleUnresolved /\ Phases)'
<1>1. CASE StopRunning
  BY <1>1 DEF TypeOK, Once, IdleUnresolved, Phases, HeldOnce, Held, Unresolved, StopRunning
<1>2. CASE Drain
  BY <1>2 DEF TypeOK, Once, IdleUnresolved, Phases, HeldOnce, Held, Unresolved, Drain
<1>3. CASE Close
  BY <1>3 DEF TypeOK, Once, IdleUnresolved, Phases, HeldOnce, Held, Unresolved, Close
<1>4. ASSUME NEW w \in Waiters, ResolvePending(w) PROVE (Once /\ IdleUnresolved /\ Phases)'
  BY <1>4 DEF TypeOK, Once, IdleUnresolved, Phases, HeldOnce, Held, Unresolved, ResolvePending
<1> QED BY <1>1, <1>2, <1>3, <1>4 DEF shutdown

LEMMA OnceSocket ==
  ASSUME TypeOK, Once, IdleUnresolved, Phases, socket
  PROVE  (Once /\ IdleUnresolved /\ Phases)'
<1>1. CASE HangUp
  BY <1>1 DEF TypeOK, Once, IdleUnresolved, Phases, HeldOnce, Held, Unresolved, HangUp
<1>2. ASSUME NEW d \in Dirs, Gain(d) PROVE (Once /\ IdleUnresolved /\ Phases)'
  BY <1>2 DEF TypeOK, Once, IdleUnresolved, Phases, HeldOnce, Held, Unresolved, Gain
<1>3. ASSUME NEW d \in Dirs, Use(d) PROVE (Once /\ IdleUnresolved /\ Phases)'
  BY <1>3 DEF TypeOK, Once, IdleUnresolved, Phases, HeldOnce, Held, Unresolved, Use
<1> QED BY <1>1, <1>2, <1>3 DEF socket

LEMMA OnceStep == OnceInv /\ [Next]_vars => OnceInv'
<1> SUFFICES ASSUME OnceInv, [Next]_vars PROVE OnceInv'
  OBVIOUS
<1>1. TypeOK /\ Once /\ IdleUnresolved /\ Phases
  BY OnceByHolder DEF OnceInv
<1>2. (Once /\ IdleUnresolved /\ Phases)'
  <2>1. CASE UNCHANGED vars
    BY <1>1, <2>1 DEF Once, IdleUnresolved, Phases, HeldOnce, Held, Unresolved
  <2>2. CASE Next
    BY <1>1, <2>2, OnceRegister, OnceTimer, OnceDispatch, OnceShutdown, OnceSocket DEF Next
  <2> QED BY <2>1, <2>2
<1>3. ResolvedOnce'
  BY <1>2, OnceByHolder, PTL
<1> QED BY <1>1, <1>2, <1>3, TypeStep DEF OnceInv

LEMMA OnceInvariant == Spec => []OnceInv
<1>1. Init => OnceInv
  <2>1. Init => Once /\ IdleUnresolved /\ Phases
    BY DEF Init, Once, IdleUnresolved, Phases, HeldOnce, Held, Unresolved
  <2> QED BY <2>1, TypeInit, OnceByHolder DEF OnceInv
<1> QED BY <1>1, OnceStep, PTL DEF Spec

(* Each waiter is resolved exactly once and removed: whatever order        *)
(* readiness, deadlines, callers and shutdown come in, an unresolved       *)
(* waiter has exactly one holder and a resolved one has none.              *)
THEOREM ResolvedExactlyOnce == Spec => []ResolvedOnce
BY OnceInvariant, PTL DEF OnceInv

-----------------------------------------------------------------------------
(* NeverDeaf is inductive once a caller about to arm is known to carry at  *)
(* least its own direction.                                                *)
ArmsItself == \A w \in Waiters :
                call[w] \in {"inserted", "adding"} => wants[w] \in mask[w]

LEMMA DeafRegister ==
  ASSUME TypeOK, Phases, NeverDeaf, ArmsItself, NEW w \in Waiters, register(w)
  PROVE  (NeverDeaf /\ ArmsItself)'
<1>1. CASE Insert(w)
  BY <1>1 DEF TypeOK, Phases, NeverDeaf, ArmsItself, SomebodyWillArm, Insert
<1>2. CASE StartTimer(w)
  BY <1>2 DEF TypeOK, Phases, NeverDeaf, ArmsItself, SomebodyWillArm, StartTimer
<1>3. CASE Arm(w)
  BY <1>3 DEF TypeOK, Phases, NeverDeaf, ArmsItself, SomebodyWillArm, Arm
<1> QED BY <1>1, <1>2, <1>3 DEF register

LEMMA DeafTimer ==
  ASSUME TypeOK, Phases, NeverDeaf, ArmsItself, NEW w \in Waiters, timerOf(w)
  PROVE  (NeverDeaf /\ ArmsItself)'
<1>1. CASE expire(w)
  BY <1>1 DEF TypeOK, Phases, NeverDeaf, ArmsItself, SomebodyWillArm, expire
<1>2. CASE TimeOut(w)
  BY <1>2 DEF TypeOK, Phases, NeverDeaf, ArmsItself, SomebodyWillArm, TimeOut
<1> QED BY <1>1, <1>2 DEF timerOf

LEMMA DeafDispatch ==
  ASSUME TypeOK, Phases, NeverDeaf, ArmsItself, dispatchShard
  PROVE  (NeverDeaf /\ ArmsItself)'
<1>1. CASE Top
  BY <1>1 DEF TypeOK, Phases, NeverDeaf, ArmsItself, SomebodyWillArm, Top
<1>2. CASE Wake
  BY <1>2 DEF TypeOK, Phases, NeverDeaf, ArmsItself, SomebodyWillArm, Wake
<1>3. CASE WaitTimesOut
  BY <1>3 DEF TypeOK, Phases, NeverDeaf, ArmsItself, SomebodyWillArm, WaitTimesOut
<1>4. CASE WaitFails
  BY <1>4 DEF TypeOK, Phases, NeverDeaf, ArmsItself, SomebodyWillArm, WaitFails
<1>5. CASE Collect
  BY <1>5 DEF TypeOK, Phases, NeverDeaf, ArmsItself, SomebodyWillArm, Collect
<1>6. CASE Rearm
  BY <1>6 DEF TypeOK, Phases, NeverDeaf, ArmsItself, SomebodyWillArm, Rearm
<1>7. ASSUME NEW w \in Waiters, ResolveReady(w) PROVE (NeverDeaf /\ ArmsItself)'
  BY <1>7 DEF TypeOK, Phases, NeverDeaf, ArmsItself, SomebodyWillArm, ResolveReady
<1> QED BY <1>1, <1>2, <1>3, <1>4, <1>5, <1>6, <1>7 DEF dispatchShard

LEMMA DeafShutdown ==
  ASSUME TypeOK, Phases, NeverDeaf, ArmsItself, StopRunning \/ shutdown
  PROVE  (NeverDeaf /\ ArmsItself)'
<1>1. CASE StopRunning
  BY <1>1 DEF TypeOK, Phases, NeverDeaf, ArmsItself, SomebodyWillArm, StopRunning
<1>2. CASE Drain
  BY <1>2 DEF TypeOK, Phases, NeverDeaf, ArmsItself, SomebodyWillArm, Drain
<1>3. CASE Close
  BY <1>3 DEF TypeOK, Phases, NeverDeaf, ArmsItself, SomebodyWillArm, Close
<1>4. ASSUME NEW w \in Waiters, ResolvePending(w) PROVE (NeverDeaf /\ ArmsItself)'
  BY <1>4 DEF TypeOK, Phases, NeverDeaf, ArmsItself, SomebodyWillArm, ResolvePending
<1> QED BY <1>1, <1>2, <1>3, <1>4 DEF shutdown

LEMMA DeafSocket ==
  ASSUME TypeOK, Phases, NeverDeaf, ArmsItself, socket
  PROVE  (NeverDeaf /\ ArmsItself)'
<1>1. CASE HangUp
  BY <1>1 DEF TypeOK, Phases, NeverDeaf, ArmsItself, SomebodyWillArm, HangUp
<1>2. ASSUME NEW d \in Dirs, Gain(d) PROVE (NeverDeaf /\ ArmsItself)'
  BY <1>2 DEF TypeOK, Phases, NeverDeaf, ArmsItself, SomebodyWillArm, Gain
<1>3. ASSUME NEW d \in Dirs, Use(d) PROVE (NeverDeaf /\ ArmsItself)'
  BY <1>3 DEF TypeOK, Phases, NeverDeaf, ArmsItself, SomebodyWillArm, Use
<1> QED BY <1>1, <1>2, <1>3 DEF socket

LEMMA DeafStep == OnceInv /\ NeverDeaf /\ ArmsItself /\ [Next]_vars => (NeverDeaf /\ ArmsItself)'
<1> SUFFICES ASSUME OnceInv, NeverDeaf, ArmsItself, [Next]_vars PROVE (NeverDeaf /\ ArmsItself)'
  OBVIOUS
<1>1. CASE UNCHANGED vars
  BY <1>1 DEF NeverDeaf, ArmsItself, SomebodyWillArm
<1>2. CASE Next
  BY <1>2, DeafRegister, DeafTimer, DeafDispatch, DeafShutdown, DeafSocket DEF OnceInv, Next
<1> QED BY <1>1, <1>2

(* A socket somebody waits on is always armed for something or about to be *)
(* armed, until the loop is closed.                                        *)
THEOREM NeverGoesDeaf == Spec => []NeverDeaf
<1>1. Init => NeverDeaf /\ ArmsItself
  BY DEF Init, NeverDeaf, ArmsItself
<1> QED BY <1>1, DeafStep, OnceInvariant, PTL DEF Spec
=============================================================================
