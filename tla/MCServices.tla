----------------------------- MODULE MCServices -----------------------------
(* What connections are served with: the network code of MCNetwork, and the *)
(* timeout manager, of which liveness is asked here (for its safety, on a   *)
(* larger instance, see MCReceive).  They share no state: a behaviour       *)
(* exercises one or the other, as chosen at the start.                      *)
EXTENDS MCNetwork

CONSTANTS Handle, Timeout, MaxClock, MaxArmed

VARIABLES timing, clock, handles, phase, deadline, timed, token, pc, now, todo,
          kept, atRisk, armed, fired

Tm == INSTANCE TimeManager WITH pending <- timed

ASSUME TimeoutsAreSound == Tm!TimeManagerAssumption

timeVars == <<clock, handles, phase, deadline, timed, token, pc, now, todo, kept,
              atRisk, armed, fired>>

ServicesInit ==
  /\ MCInit /\ Tm!Init
  /\ timing \in {"no", "one handle", "each once"}
  /\ timing # "no" => exercised = "sockets"

(* One handle is armed up to MaxArmed times, or each of them once.         *)
FewArmings ==
  IF timing = "one handle"
    THEN \E g \in Handle : \A h \in Handle \ {g} : armed[h] = 0 /\ timed[h] = {}
    ELSE \A h \in Handle : armed[h] + Cardinality(timed[h]) <= 1

networkStep(A) == timing = "no" /\ A /\ UNCHANGED <<timing, timeVars>>
timeStep(A) == timing # "no" /\ UNCHANGED <<timing, allVars>> /\ A

(* The fairness of MCNetwork!MCSpec and of TimeManager!FairSpec.            *)
ServicesSpec ==
  /\ ServicesInit
  /\ [][networkStep(MCNext) \/ timeStep(Tm!Next /\ FewArmings')]_<<timing, allVars, timeVars>>
  /\ MCFairness
  /\ WF_timeVars(timeStep(Tm!Sweep)) /\ WF_timeVars(timeStep(Tm!Advance))

-----------------------------------------------------------------------------
(* See TimeManager: an active handle in the array is fired, made inactive,  *)
(* or the manager is stopped.                                               *)
TrackedHandleTimesOut == Tm!TrackedHandleTimesOut
=============================================================================
