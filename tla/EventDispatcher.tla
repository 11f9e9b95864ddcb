--------------------------- MODULE EventDispatcher ---------------------------
(***************************************************************************)
(* One shard of the event dispatcher and one socket of it, on Linux: the   *)
(* waiter list of the socket, the one-shot epoll registration, the         *)
(* dispatch thread, the callers that register waiters, their timers and a  *)
(* shutdown, one step per section under the shard's lock and per system    *)
(* call outside it.  Sockets of a shard share nothing but the batch, so    *)
(* one is enough.                                                          *)
(*                                                                         *)
(* A member of Waiters is one call of waitReadable, waitWritableFor, ...;  *)
(* the order of a waiter list decides nothing, so the list is a set.       *)
(***************************************************************************)
EXTENDS FiniteSets, Naturals

CONSTANT Waiters       \* the calls made in a behaviour

Dirs == {"readable", "writable"}

VARIABLES
  wants,      \* the direction each call awaits (Waiter.events)
  deadline,   \* whether the call has a timeout
  call,       \* how far register has got for each call
  mask,       \* the mask register computed under the lock
  promise,    \* what each waiter's promise was resolved with
  timer,      \* the state of each waiter's timer
  waiters,    \* Shard.waiters, for the socket
  running,    \* Shard.running
  dpc,        \* where the dispatch thread is
  batch,      \* the events its last epoll_wait returned
  ready,      \* waiters it has yet to resolve
  rearm,      \* the mask it has yet to re-arm the socket with
  closing,    \* where shutdown is
  pending,    \* waiters shutdown has yet to resolve
  armed,      \* kernel: the directions the registration is armed for
  level,      \* kernel: the directions the socket is ready in
  hup         \* kernel: the peer hung up, or the socket is in error

calls      == <<wants, deadline, call, mask, promise, timer>>
dispatcher == <<dpc, batch, ready, rearm>>
closer     == <<running, closing, pending>>
kernel     == <<armed, level, hup>>
vars       == <<calls, waiters, dispatcher, closer, kernel>>

TypeOK ==
  /\ wants \in [Waiters -> Dirs]
  /\ deadline \in [Waiters -> BOOLEAN]
  /\ call \in [Waiters -> {"idle", "inserted", "adding", "returned", "failed"}]
  /\ mask \in [Waiters -> SUBSET Dirs]
  /\ promise \in [Waiters -> {"pending", "ready", "timeout"}]
  /\ timer \in [Waiters -> {"none", "made", "running", "firing", "over"}]
  /\ waiters \in SUBSET Waiters
  /\ dpc \in {"top", "wait", "collect", "resolve", "rearm", "exit"}
  /\ batch \in SUBSET (Dirs \cup {"error"})
  /\ ready \in SUBSET Waiters
  /\ rearm \in SUBSET Dirs
  /\ running \in BOOLEAN
  /\ closing \in {"no", "drain", "resolve", "closed"}
  /\ pending \in SUBSET Waiters
  /\ armed \in SUBSET Dirs
  /\ level \in SUBSET Dirs
  /\ hup \in BOOLEAN

Init ==
  /\ wants \in [Waiters -> Dirs]
  /\ deadline \in [Waiters -> BOOLEAN]
  /\ call = [w \in Waiters |-> "idle"]
  /\ mask = [w \in Waiters |-> {}]
  /\ promise = [w \in Waiters |-> "pending"]
  /\ timer = [w \in Waiters |-> "none"]
  /\ waiters = {}
  /\ dpc = "top" /\ batch = {} /\ ready = {} /\ rearm = {}
  /\ running = TRUE /\ closing = "no" /\ pending = {}
  /\ armed = {} /\ level = {} /\ hup = FALSE

-----------------------------------------------------------------------------
(* Helpers.                                                                *)

armMask(ws) == {wants[w] : w \in ws}

waiterMatches(events, w) == wants[w] \in events \/ "error" \in events

\* Promise.resolve: the first resolution stands.
Resolve(w, value) ==
  promise' = [promise EXCEPT ![w] = IF @ = "pending" THEN value ELSE @]

\* Stopping a timer that next has not started yet does nothing: next starts it.
stopTimer(w) ==
  timer' = [timer EXCEPT ![w] = IF @ = "running" THEN "over" ELSE @]

\* epoll_ctl ADD, or MOD when the socket is registered: the mask replaces
\* the earlier one; it fails on a closed loop.
eventLoopAdd(m) == armed' = IF closing = "closed" THEN armed ELSE m

-----------------------------------------------------------------------------
(* Slips: the mask taken before the insertion, a failed registration that   *)
(* forgets its timer, an expiry that does not look, a re-arm only after a   *)
(* match, a shutdown that returns early.                                   *)
InsertTooLate(w) ==
  /\ call[w] = "idle"
  /\ waiters' = waiters \cup {w}
  /\ mask' = [mask EXCEPT ![w] = armMask(waiters)]
  /\ call' = [call EXCEPT ![w] = "inserted"]
  /\ timer' = [timer EXCEPT ![w] = IF deadline[w] THEN "made" ELSE "none"]
  /\ UNCHANGED <<wants, deadline, promise, dispatcher, closer, kernel>>

ArmCleansUp(w) ==
  /\ call[w] = "adding"
  /\ eventLoopAdd(mask[w])
  /\ call' = [call EXCEPT ![w] = IF closing = "closed" THEN "failed" ELSE "returned"]
  /\ timer' = [timer EXCEPT ![w] = IF closing = "closed" THEN "over" ELSE @]
  /\ UNCHANGED <<wants, deadline, mask, promise, waiters, dispatcher, closer, level, hup>>

ExpireBlindly(w) ==
  /\ timer[w] = "running"
  /\ waiters' = waiters \ {w}
  /\ timer' = [timer EXCEPT ![w] = "firing"]
  /\ UNCHANGED <<wants, deadline, call, mask, promise, dispatcher, closer, kernel>>

CollectRearmsMatched ==
  /\ dpc = "collect"
  /\ LET matched == {w \in waiters : waiterMatches(batch, w)}
     IN  /\ ready' = matched
         /\ waiters' = waiters \ matched
         /\ rearm' = IF matched = {} THEN {} ELSE armMask(waiters')
  /\ batch' = {}
  /\ dpc' = "resolve"
  /\ UNCHANGED <<calls, closer, kernel>>

DrainNothing ==
  /\ closing = "drain"
  /\ pending' = waiters /\ waiters' = {}
  /\ closing' = IF waiters = {} THEN "no" ELSE "resolve"
  /\ UNCHANGED <<calls, dispatcher, running, kernel>>

-----------------------------------------------------------------------------
(* register                                                                *)

Insert(w) ==
  /\ call[w] = "idle"
  /\ waiters' = waiters \cup {w}
  /\ mask' = [mask EXCEPT ![w] = armMask(waiters')]
  /\ call' = [call EXCEPT ![w] = "inserted"]
  /\ timer' = [timer EXCEPT ![w] = IF deadline[w] THEN "made" ELSE "none"]
  /\ UNCHANGED <<wants, deadline, promise, dispatcher, closer, kernel>>

StartTimer(w) ==
  /\ call[w] = "inserted"
  /\ call' = [call EXCEPT ![w] = "adding"]
  /\ timer' = [timer EXCEPT ![w] = IF @ = "made" THEN "running" ELSE @]
  /\ UNCHANGED <<wants, deadline, mask, promise, waiters, dispatcher, closer, kernel>>

Arm(w) ==
  /\ call[w] = "adding"
  /\ eventLoopAdd(mask[w])
  /\ call' = [call EXCEPT ![w] = IF closing = "closed" THEN "failed" ELSE "returned"]
  /\ UNCHANGED <<wants, deadline, mask, promise, timer, waiters, dispatcher, closer,
                 level, hup>>

(* The timer fires: expire removes the waiter, then resolves it, unless    *)
(* somebody else has removed it.                                           *)
expire(w) ==
  /\ timer[w] = "running"
  /\ waiters' = waiters \ {w}
  /\ timer' = [timer EXCEPT ![w] = IF w \in waiters THEN "firing" ELSE "over"]
  /\ UNCHANGED <<wants, deadline, call, mask, promise, dispatcher, closer, kernel>>

TimeOut(w) ==
  /\ timer[w] = "firing"
  /\ Resolve(w, "timeout")
  /\ timer' = [timer EXCEPT ![w] = "over"]
  /\ UNCHANGED <<wants, deadline, call, mask, waiters, dispatcher, closer, kernel>>

-----------------------------------------------------------------------------
(* dispatchShard                                                           *)

\* What epoll_wait has to report: hang-ups are reported to any armed socket.
Reportable == IF armed = {} THEN {}
              ELSE (level \cap armed) \cup (IF hup THEN {"error"} ELSE {})

Top ==
  /\ dpc = "top"
  /\ dpc' = IF running THEN "wait" ELSE "exit"
  /\ UNCHANGED <<calls, waiters, batch, ready, rearm, closer, kernel>>

\* The one-shot registration is spent for every direction.
Wake ==
  /\ dpc = "wait" /\ Reportable # {}
  /\ batch' = Reportable
  /\ armed' = {}
  /\ dpc' = "collect"
  /\ UNCHANGED <<calls, waiters, ready, rearm, closer, level, hup>>

WaitTimesOut ==
  /\ dpc = "wait" /\ Reportable = {}
  /\ dpc' = "top"
  /\ UNCHANGED <<calls, waiters, batch, ready, rearm, closer, kernel>>

\* epoll_wait on the closed descriptor throws and ends the thread.
WaitFails ==
  /\ dpc = "wait" /\ closing = "closed"
  /\ dpc' = "exit"
  /\ UNCHANGED <<calls, waiters, batch, ready, rearm, closer, kernel>>

Collect ==
  /\ dpc = "collect"
  /\ LET matched == {w \in waiters : waiterMatches(batch, w)}
     IN  /\ ready' = matched
         /\ waiters' = waiters \ matched
         /\ rearm' = armMask(waiters')
  /\ batch' = {}
  /\ dpc' = "resolve"
  /\ UNCHANGED <<calls, closer, kernel>>

ResolveReady(w) ==
  /\ dpc = "resolve" /\ w \in ready
  /\ Resolve(w, "ready")
  /\ stopTimer(w)
  /\ ready' = ready \ {w}
  /\ UNCHANGED <<wants, deadline, call, mask, waiters, dpc, batch, rearm, closer, kernel>>

\* A failed re-arm is not an error.
Rearm ==
  /\ dpc = "resolve" /\ ready = {}
  /\ IF rearm # {} THEN eventLoopAdd(rearm) ELSE UNCHANGED armed
  /\ rearm' = {}
  /\ dpc' = "top"
  /\ UNCHANGED <<calls, waiters, batch, ready, closer, level, hup>>

dispatchShard == \/ Top \/ Wake \/ WaitTimesOut \/ WaitFails \/ Collect \/ Rearm
                 \/ \E w \in Waiters : ResolveReady(w)

-----------------------------------------------------------------------------
(* shutdown: only the caller that clears running goes on.                  *)

StopRunning ==
  /\ running /\ running' = FALSE
  /\ closing' = "drain"
  /\ UNCHANGED <<calls, waiters, dispatcher, pending, kernel>>

Drain ==
  /\ closing = "drain"
  /\ pending' = waiters /\ waiters' = {}
  /\ closing' = "resolve"
  /\ UNCHANGED <<calls, dispatcher, running, kernel>>

ResolvePending(w) ==
  /\ w \in pending
  /\ Resolve(w, "ready")
  /\ stopTimer(w)
  /\ pending' = pending \ {w}
  /\ UNCHANGED <<wants, deadline, call, mask, waiters, dispatcher, running, closing, kernel>>

Close ==
  /\ closing = "resolve" /\ pending = {}
  /\ closing' = "closed"
  /\ UNCHANGED <<calls, waiters, dispatcher, running, pending, kernel>>

shutdown == Drain \/ Close \/ \E w \in Waiters : ResolvePending(w)

-----------------------------------------------------------------------------
(* The socket: data and buffer space come and are used up; the peer hangs  *)
(* up.                                                                     *)
Gain(d) ==
  /\ d \notin level
  /\ level' = level \cup {d}
  /\ UNCHANGED <<calls, waiters, dispatcher, closer, armed, hup>>

Use(d) ==
  /\ d \in level
  /\ level' = level \ {d}
  /\ UNCHANGED <<calls, waiters, dispatcher, closer, armed, hup>>

HangUp ==
  /\ ~hup /\ hup' = TRUE
  /\ UNCHANGED <<calls, waiters, dispatcher, closer, armed, level>>

register(w) == Insert(w) \/ StartTimer(w) \/ Arm(w)
timerOf(w)  == expire(w) \/ TimeOut(w)
socket      == HangUp \/ \E d \in Dirs : Gain(d) \/ Use(d)

Next == \/ \E w \in Waiters : register(w) \/ timerOf(w)
        \/ dispatchShard \/ StopRunning \/ shutdown \/ socket

Spec == Init /\ [][Next]_vars

(* A call that has begun runs on, timers fire, the dispatch thread is      *)
(* scheduled and a shutdown that has begun finishes; nothing makes anybody *)
(* call register or shutdown, or the peer do anything.                     *)
Fairness == /\ \A w \in Waiters : /\ WF_vars(StartTimer(w) \/ Arm(w))
                                   /\ WF_vars(timerOf(w))
            /\ WF_vars(dispatchShard) /\ WF_vars(shutdown)

-----------------------------------------------------------------------------
(* Properties.                                                             *)

(* "Each waiter is resolved exactly once and removed": an unresolved       *)
(* waiter is held by exactly one of the list, the dispatch thread, its     *)
(* timer and the shutdown, and a resolved one by none, through every race  *)
(* of readiness, deadline and shutdown.                                    *)
HeldBy(h, w) == \/ h = "list" /\ w \in waiters
                \/ h = "dispatcher" /\ w \in ready
                \/ h = "timer" /\ timer[w] = "firing"
                \/ h = "shutdown" /\ w \in pending

Holders == {"list", "dispatcher", "timer", "shutdown"}

ResolvedOnce ==
  \A w \in Waiters :
    IF call[w] # "idle" /\ promise[w] = "pending"
      THEN \E h \in Holders : HeldBy(h, w) /\ \A g \in Holders \ {h} : ~HeldBy(g, w)
      ELSE \A h \in Holders : ~HeldBy(h, w)

(* A socket somebody waits on never goes deaf: while the loop is open its  *)
(* registration is armed, or somebody is about to arm it (the dispatch     *)
(* thread after its batch, or a caller still inside register).             *)
SomebodyWillArm == \/ dpc = "collect"
                   \/ dpc = "resolve" /\ rearm # {}
                   \/ \E w \in Waiters : call[w] \in {"inserted", "adding"}

NeverDeaf == waiters # {} /\ closing # "closed" => armed # {} \/ SomebodyWillArm

(* "Every registration carries every direction still awaited on its fd":   *)
(* with nobody about to arm the socket, its registration covers what its   *)
(* waiters await.  (Violated: masks computed under the lock are installed  *)
(* after it is released, and a stale one replaces a newer one.)            *)
CarriesEveryDirection ==
  closing # "closed" /\ ~SomebodyWillArm => armMask(waiters) \subseteq armed

(* A deadline is honoured whatever the dispatch thread, a lost wakeup or a *)
(* shutdown do: a wait with a timeout is always resolved.                  *)
DeadlineHonoured ==
  \A w \in Waiters : (call[w] # "idle" /\ deadline[w]) ~> promise[w] # "pending"

(* Where all waits on the socket are in one direction, a waiter is woken   *)
(* if the socket stays ready, unless the dispatcher is shut down.          *)
SameDirectionWakes ==
  \A w \in Waiters :
    (call[w] # "idle" /\ promise[w] = "pending" /\ \A v \in Waiters : wants[v] = wants[w])
      ~> (promise[w] # "pending" \/ ~running \/ wants[w] \notin level)

(* A shutdown ends, however the dispatch thread and late callers interleave *)
(* with it: everybody on the list it drained is woken, and the dispatch    *)
(* thread is gone.                                                         *)
ShutdownEnds == ~running ~> (closing = "closed" /\ pending = {} /\ dpc = "exit")
=============================================================================
