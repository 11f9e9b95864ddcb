-------------------------------- MODULE QSem --------------------------------
(***************************************************************************)
(* Linen.Control.Concurrent.QSem: a quantity semaphore with a FIFO queue   *)
(* of promises, each operation atomic under one Std.Mutex.  Clients use it *)
(* through withSem (wait, action, and a signal that `finally` runs whether *)
(* or not the action throws); Post is a bare signal from anyone else.      *)
(***************************************************************************)
EXTENDS Naturals, Sequences, FiniteSets, SequencesExt

CONSTANTS Client,   (* tasks that use the semaphore                         *)
          Initial,  (* the count given to QSem.new                          *)
          MaxPosts  (* bound on the number of bare signals                  *)

ASSUME QSemAssumption ==
  /\ IsFiniteSet(Client)
  /\ Initial \in Nat
  /\ MaxPosts \in Nat

VARIABLES count,    (* QSemState.count                                      *)
          waiters,  (* QSemState.waiters: promises, here the clients        *)
          holders,  (* clients whose wait has completed, until they signal  *)
          posts     (* bare signals so far                                  *)

vars == <<count, waiters, holders, posts>>

TypeOK ==
  /\ count \in Nat
  /\ waiters \in Seq(Client)
  /\ holders \in SUBSET Client
  /\ posts \in 0..MaxPosts

Init ==
  /\ count = Initial
  /\ waiters = <<>>
  /\ holders = {}
  /\ posts = 0

Queued(c) == c \in ToSet(waiters)

(* Bug: the waiter is queued without looking at the count.                 *)
WaitAlwaysQueues(c) ==
  /\ c \notin holders
  /\ ~Queued(c)
  /\ waiters' = Append(waiters, c)
  /\ UNCHANGED <<count, holders, posts>>

(* `wait`, called by withSem *)
Wait(c) ==
  /\ c \notin holders
  /\ ~Queued(c)
  /\ IF count > 0
       THEN /\ count' = count - 1
            /\ holders' = holders \cup {c}
            /\ UNCHANGED waiters
       ELSE /\ waiters' = Append(waiters, c)
            /\ UNCHANGED <<count, holders>>
  /\ UNCHANGED posts

(* Bugs: the count is incremented beside waking a waiter; the last waiter  *)
(* is woken instead of the first.                                          *)
SignalCountsAndWakes(released) ==
  IF waiters # <<>>
    THEN /\ waiters' = Tail(waiters)
         /\ holders' = (holders \ released) \cup {Head(waiters)}
         /\ count' = count + 1
    ELSE /\ count' = count + 1
         /\ holders' = holders \ released
         /\ UNCHANGED waiters

SignalWakesLast(released) ==
  IF waiters # <<>>
    THEN /\ waiters' = Front(waiters)
         /\ holders' = (holders \ released) \cup {Last(waiters)}
         /\ UNCHANGED count
    ELSE /\ count' = count + 1
         /\ holders' = holders \ released
         /\ UNCHANGED waiters

(* `signal`: the permit goes to the first waiter or back to the count. *)
Signal(released) ==
  IF waiters # <<>>
    THEN /\ waiters' = Tail(waiters)
         /\ holders' = (holders \ released) \cup {Head(waiters)}
         /\ UNCHANGED count
    ELSE /\ count' = count + 1
         /\ holders' = holders \ released
         /\ UNCHANGED waiters

(* The `finally` of withSem, after the action returned or threw. *)
Leave(c) ==
  /\ c \in holders
  /\ Signal({c})
  /\ UNCHANGED posts

Post ==
  /\ posts < MaxPosts
  /\ posts' = posts + 1
  /\ Signal({})

Next == Post \/ \E c \in Client : Wait(c) \/ Leave(c)

Spec == Init /\ [][Next]_vars

(* Every action that withSem brackets ends. *)
FairSpec == Spec /\ \A c \in Client : WF_vars(Leave(c))
-----------------------------------------------------------------------------
(* The documented invariant: if permits are available nobody is waiting.   *)
NoIdlePermit == count > 0 => waiters = <<>>

(* Permits are neither lost nor made: those available and those held are   *)
(* the initial ones plus the bare signals.  Two signals racing one wait,   *)
(* or a wait racing a signal, must not count one permit twice.             *)
PermitsConserved == count + Cardinality(holders) = Initial + posts

(* FIFO fairness: nobody is granted a permit past a client that was        *)
(* already waiting and still is.                                           *)
NoOvertaking ==
  [][\A c \in Client :
       (Queued(c) /\ c \in ToSet(waiters'))
         => \A d \in holders' \ holders :
              \E i, j \in DOMAIN waiters :
                waiters[i] = d /\ waiters[j] = c /\ i < j]_vars

(* Everybody who waits is served, as long as every bracketed action ends   *)
(* and there is at least one permit.                                       *)
EveryWaiterServed == \A c \in Client : Queued(c) ~> c \in holders
=============================================================================
