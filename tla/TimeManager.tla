---------------------------- MODULE TimeManager ----------------------------
(***************************************************************************)
(* Linen.System.TimeManager: handles with deadlines, and a dedicated task  *)
(* (the sweeper) that fires the callback of every handle it finds past its *)
(* deadline and then rewrites the array without the canceled ones.  The    *)
(* references have no lock: every get, set and modify is a step of its     *)
(* own, and the calls of Handle and Manager fall anywhere between them.    *)
(*                                                                         *)
(* Time is a clock that advances by itself; a sweep starts at any time     *)
(* after the one before it, so what the model shows does not depend on how *)
(* long the sweeper sleeps or runs.                                        *)
(***************************************************************************)
EXTENDS Naturals, FiniteSets, Sequences, SequencesExt

CONSTANTS Handle,    (* handles that may be registered                      *)
          Timeout,   (* Manager.timeoutUs, in ticks of the clock            *)
          MaxClock,  (* bound on the clock                                  *)
          MaxArmed   (* bound on the times a handle is given a deadline     *)

TimeManagerAssumption ==
  /\ IsFiniteSet(Handle)
  /\ Timeout \in Nat /\ MaxClock \in Nat /\ MaxArmed \in Nat

VARIABLES clock,    (* IO.monoNanosNow                                      *)
          handles,  (* Manager.handles, an array                            *)
          phase,    (* the constructor of each handle's state               *)
          deadline, (* the deadline of an active handle                     *)
          pending,  (* handles a call has read the clock for and not yet    *)
                    (* registered or set: what it read, plus the timeout    *)
          token,    (* whether `stop` has cancelled the token               *)
          pc,       (* where the sweeper is                                 *)
          now,      (* the time the sweep read                              *)
          todo,     (* the copy of the array being walked, what is left     *)
          kept,     (* filterM: what has been kept so far                   *)
          atRisk,   (* history: handles registered during a compaction, or  *)
                    (* canceled at some time                                *)
          armed,    (* history: how often each handle was made active       *)
          fired     (* history: how often each callback was run             *)

sweeper  == <<pc, now, todo, kept>>
clients  == <<token, pending, armed>>
world    == <<clock, deadline, clients>>   \* what the sweeper never changes
vars == <<clock, handles, phase, deadline, sweeper, clients, atRisk, fired>>

Phase == {"none", "active", "paused", "canceled"}

TypeOK ==
  /\ clock \in 0..MaxClock
  /\ handles \in Seq(Handle)
  /\ IsInjective(handles)
  /\ phase \in [Handle -> Phase]
  /\ deadline \in [Handle -> Nat]
  /\ pending \in [Handle -> SUBSET Nat]
  /\ token \in BOOLEAN
  /\ pc \in {"asleep", "awake", "snapshot", "scan", "expired", "callback",
             "filter", "stopped"}
  /\ now \in 0..MaxClock
  /\ todo \in Seq(Handle)
  /\ kept \in Seq(Handle)
  /\ atRisk \in SUBSET Handle
  /\ armed \in [Handle -> 0..MaxArmed]
  /\ fired \in [Handle -> Nat]

Init ==
  /\ clock = 0
  /\ handles = <<>>
  /\ phase = [h \in Handle |-> "none"]
  /\ deadline = [h \in Handle |-> 0]
  /\ pending = [h \in Handle |-> {}]
  /\ token = FALSE
  /\ pc = "asleep"
  /\ now = 0
  /\ todo = <<>>
  /\ kept = <<>>
  /\ atRisk = {}
  /\ armed = [h \in Handle |-> 0]
  /\ fired = [h \in Handle |-> 0]

Advance ==
  /\ clock < MaxClock
  /\ clock' = clock + 1
  /\ UNCHANGED <<handles, phase, deadline, sweeper, clients, fired, atRisk>>

----------------------------------------------------------------------------
(* The calls.  register, tickle and resume read the clock first and act    *)
(* afterwards; the bound leaves the deadline time to pass.  One call of    *)
(* this kind is under way on a handle at a time.                           *)

ReadDeadline(h) ==
  /\ pending[h] = {}
  /\ armed[h] < MaxArmed
  /\ clock + Timeout < MaxClock
  /\ pending' = [pending EXCEPT ![h] = {clock + Timeout}]
  /\ UNCHANGED <<clock, handles, phase, deadline, sweeper, token, armed,
                 fired, atRisk>>

(* What register, tickle and resume all do to the handle's reference.      *)
MakeActive(h) ==
  /\ \E d \in pending[h] : deadline' = [deadline EXCEPT ![h] = d]
  /\ pending' = [pending EXCEPT ![h] = {}]
  /\ phase' = [phase EXCEPT ![h] = "active"]
  /\ armed' = [armed EXCEPT ![h] = @ + 1]

(* register: a new reference, pushed with one atomic modify                *)
Register(h) ==
  /\ phase[h] = "none"
  /\ MakeActive(h)
  /\ handles' = Append(handles, h)
  /\ atRisk' = IF pc = "filter" THEN atRisk \cup {h} ELSE atRisk
  /\ UNCHANGED <<clock, sweeper, token, fired>>

(* tickle and resume are the same code.  Neither looks at the state it     *)
(* overwrites, nor at the array.                                           *)
Rearm(h) ==
  /\ phase[h] # "none"
  /\ MakeActive(h)
  /\ UNCHANGED <<clock, handles, sweeper, token, fired, atRisk>>

Quieten(h, p) ==
  /\ phase[h] # "none"
  /\ phase' = [phase EXCEPT ![h] = p]
  /\ atRisk' = IF p = "canceled" THEN atRisk \cup {h} ELSE atRisk
  /\ UNCHANGED <<clock, handles, deadline, sweeper, clients, fired>>

Cancel(h) == Quieten(h, "canceled")

Pause(h) == Quieten(h, "paused")

Stop ==
  /\ ~token
  /\ token' = TRUE
  /\ UNCHANGED <<clock, handles, phase, deadline, sweeper, pending, armed,
                 fired, atRisk>>

----------------------------------------------------------------------------
(* The sweeper                                                             *)

(* The token is read before the sleep and after it; once cancelled, the    *)
(* loop is left either way.                                                *)
Wake ==
  /\ pc = "asleep"
  /\ pc' = IF token THEN "stopped" ELSE "awake"
  /\ UNCHANGED <<world, handles, phase, now, todo, kept, fired, atRisk>>

ReadClock ==
  /\ pc = "awake"
  /\ IF token THEN pc' = "asleep" /\ UNCHANGED now
              ELSE pc' = "snapshot" /\ now' = clock
  /\ UNCHANGED <<world, handles, phase, todo, kept, fired, atRisk>>

Snapshot ==
  /\ pc = "snapshot"
  /\ todo' = handles
  /\ pc' = "scan"
  /\ UNCHANGED <<world, handles, phase, now, kept, fired, atRisk>>

(* Bug: the comparison is the wrong way round.                             *)
InspectBackwards ==
  /\ pc = "scan"
  /\ todo # <<>>
  /\ IF phase[Head(todo)] = "active" /\ now < deadline[Head(todo)]
       THEN pc' = "expired" /\ UNCHANGED todo
       ELSE todo' = Tail(todo) /\ UNCHANGED pc
  /\ UNCHANGED <<world, phase, now, kept, handles, fired, atRisk>>

(* The state of one handle is read: an expired one is acted on, any other  *)
(* is passed over.                                                         *)
Inspect ==
  /\ pc = "scan"
  /\ todo # <<>>
  /\ IF phase[Head(todo)] = "active" /\ now > deadline[Head(todo)]
       THEN pc' = "expired" /\ UNCHANGED todo
       ELSE todo' = Tail(todo) /\ UNCHANGED pc
  /\ UNCHANGED <<world, handles, phase, now, kept, fired, atRisk>>

(* Bug: the handle is not marked before its callback runs.                 *)
ExpireUnmarked ==
  /\ pc = "expired"
  /\ pc' = "callback"
  /\ UNCHANGED <<world, handles, phase, now, todo, kept, fired, atRisk>>

(* The state read is not looked at again: a tickle, pause or cancel in     *)
(* between is overwritten.                                                 *)
Expire ==
  /\ pc = "expired"
  /\ phase' = [phase EXCEPT ![Head(todo)] = "canceled"]
  /\ atRisk' = atRisk \cup {Head(todo)}
  /\ pc' = "callback"
  /\ UNCHANGED <<world, handles, now, todo, kept, fired>>

(* onTimeout, whose exceptions are swallowed                               *)
Callback ==
  /\ pc = "callback"
  /\ fired' = [fired EXCEPT ![Head(todo)] = @ + 1]
  /\ todo' = Tail(todo)
  /\ pc' = "scan"
  /\ UNCHANGED <<world, handles, phase, now, kept, atRisk>>

(* The array is read again for the compaction.                             *)
StartFilter ==
  /\ pc = "scan"
  /\ todo = <<>>
  /\ todo' = handles
  /\ kept' = <<>>
  /\ pc' = "filter"
  /\ UNCHANGED <<world, handles, phase, now, fired, atRisk>>

(* Bug: only active handles are kept, not paused ones.                     *)
FilterActiveOnly ==
  /\ pc = "filter"
  /\ todo # <<>>
  /\ kept' = IF phase[Head(todo)] # "active" THEN kept
             ELSE Append(kept, Head(todo))
  /\ todo' = Tail(todo)
  /\ UNCHANGED <<world, handles, phase, pc, now, fired, atRisk>>

Filter ==
  /\ pc = "filter"
  /\ todo # <<>>
  /\ kept' = IF phase[Head(todo)] = "canceled" THEN kept
             ELSE Append(kept, Head(todo))
  /\ todo' = Tail(todo)
  /\ UNCHANGED <<world, handles, phase, pc, now, fired, atRisk>>

(* The array is overwritten, whatever has been pushed since.               *)
Compact ==
  /\ pc = "filter"
  /\ todo = <<>>
  /\ handles' = kept
  /\ kept' = <<>>
  /\ now' = 0
  /\ pc' = "asleep"
  /\ UNCHANGED <<world, phase, todo, fired, atRisk>>

Sweep ==
  \/ Wake \/ ReadClock \/ Snapshot
  \/ Inspect \/ Expire \/ Callback
  \/ StartFilter \/ Filter \/ Compact

Next ==
  \/ Advance
  \/ \E h \in Handle :
       ReadDeadline(h) \/ Register(h) \/ Rearm(h) \/ Cancel(h) \/ Pause(h)
  \/ Stop
  \/ Sweep

Spec == Init /\ [][Next]_vars

(* The sweeper is a task of its own and time passes; no caller has to call.*)
FairSpec == Spec /\ WF_vars(Sweep) /\ WF_vars(Advance)

----------------------------------------------------------------------------
Tracked == ToSet(handles)

(* Each registration, tickle or resume pays for at most one callback: the  *)
(* sweeper marks the handle before it runs the callback and never keeps an *)
(* old reading for the next sweep.  (A callback per handle is what the     *)
(* comment on onTimeout says; a handle made active again gets another.)    *)
FiresOncePerArming == \A h \in Handle : fired[h] <= armed[h]

(* A handle registered while no compaction was under way, and neither      *)
(* canceled nor fired since, is in the array for ever: the copy that       *)
(* overwrites the array cannot miss it, however calls and sweeps overlap.  *)
(* The promise for every handle is false: see atRisk.                      *)
SafeHandlesStayTracked ==
  \A h \in Handle : phase[h] # "none" /\ h \notin atRisk => h \in Tracked

(* An active handle that is in the array between two sweeps does not stay  *)
(* active for ever: it is fired, or a call takes it out of the active      *)
(* state first, or the manager is stopped.                                 *)
TrackedHandleTimesOut ==
  \A h \in Handle :
    (pc = "asleep" /\ h \in Tracked /\ phase[h] = "active")
      ~> (phase[h] # "active" \/ token)
=============================================================================
