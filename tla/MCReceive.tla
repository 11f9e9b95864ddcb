------------------------------ MODULE MCReceive ------------------------------
(* The receiving half of an HTTP/2 connection, and the timeout manager: two *)
(* large components of which safety alone is asked.  They share no state: a *)
(* behaviour exercises one or the other, as chosen at the start.            *)
EXTENDS HTTP2Receive

CONSTANTS Handle, Timeout, MaxClock, MaxArmed

VARIABLES timing, clock, handles, phase, deadline, pending, token, pc, now, todo,
          kept, atRisk, armed, fired

Tm == INSTANCE TimeManager

ASSUME TimeoutsAreSound == Tm!TimeManagerAssumption

timeVars == <<clock, handles, phase, deadline, pending, token, pc, now, todo, kept,
              atRisk, armed, fired>>

MCInit == Init /\ Tm!Init /\ timing \in BOOLEAN

MCNext ==
  \/ ~timing /\ Next /\ UNCHANGED <<timing, timeVars>>
  \/ timing /\ Tm!Next /\ UNCHANGED <<timing, vars>>

MCSpec == MCInit /\ [][MCNext]_<<timing, vars, timeVars>>

-----------------------------------------------------------------------------
(* See TimeManager: a callback for each time a handle was armed, at most.   *)
FiresOncePerArming == Tm!FiresOncePerArming

(* See TimeManager: the handles a compaction cannot miss stay in the array. *)
SafeHandlesStayTracked == Tm!SafeHandlesStayTracked
=============================================================================
