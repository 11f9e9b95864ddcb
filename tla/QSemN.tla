-------------------------------- MODULE QSemN -------------------------------
(***************************************************************************)
(* Linen.Control.Concurrent.QSemN: a semaphore whose clients acquire and   *)
(* release any amount.  Unlike QSem's, its `wait` looks at the count only: *)
(* it does not look whether somebody is already queued.                    *)
(***************************************************************************)
EXTENDS Integers, Sequences, FiniteSets, SequencesExt, FiniteSetsExt, Functions

CONSTANTS Client,    (* tasks that use the semaphore through withSemN       *)
          Initial,   (* the count given to QSemN.new                        *)
          MaxAmount, (* largest amount a client asks for                    *)
          MaxPosted  (* bound on the units added by bare signals            *)

QSemNAssumption == IsFiniteSet(Client) /\ {Initial, MaxAmount, MaxPosted} \subseteq Nat

VARIABLES count,    (* QSemNState.count                                     *)
          waiters,  (* QSemNState.waiters: (amount, promise) pairs          *)
          held,     (* what each client has acquired and not yet signalled  *)
          posted    (* units added by bare signals                          *)

vars == <<count, waiters, held, posted>>

Request == [client : Client, need : 0..MaxAmount]

TypeOK ==
  /\ count \in Nat
  /\ waiters \in Seq(Request)
  /\ held \in [Client -> 0..MaxAmount]
  /\ posted \in 0..MaxPosted

Init ==
  /\ count = Initial
  /\ waiters = <<>>
  /\ held = [c \in Client |-> 0]
  /\ posted = 0

Queued(c) == \E i \in DOMAIN waiters : waiters[i].client = c

(* `wait` *)
Wait(c, n) ==
  /\ held[c] = 0
  /\ ~Queued(c)
  /\ IF count >= n
       THEN /\ count' = count - n
            /\ held' = [held EXCEPT ![c] = n]
            /\ UNCHANGED waiters
       ELSE /\ waiters' = Append(waiters, [client |-> c, need |-> n])
            /\ UNCHANGED <<count, held>>
  /\ UNCHANGED posted

(* What the first k waiters ask for. *)
Demand(k) == SumFunctionOnSet([i \in DOMAIN waiters |-> waiters[i].need], 1..k)

(* Bug: at most the head is woken. *)
WokenHeadOnly(available) ==
  IF waiters # <<>> /\ Head(waiters).need <= available THEN 1 ELSE 0

(* How many waiters the greedy loop of `wakeWaiters` wakes: it takes from  *)
(* the front while the head can be satisfied, and stops at the first that  *)
(* cannot.                                                                 *)
Woken(available) ==
  Max({k \in 0..Len(waiters) : Demand(k) <= available})

(* `signal`, with the amounts the signaller itself gives up. *)
Signal(n, kept) ==
  LET k == Woken(count + n) IN
  /\ count' = count + n - Demand(k)
  /\ waiters' = SubSeq(waiters, k + 1, Len(waiters))
  /\ held' = [c \in Client |->
                IF \E i \in 1..k : waiters[i].client = c
                  THEN waiters[CHOOSE i \in 1..k : waiters[i].client = c].need
                  ELSE kept[c]]

(* The `finally` of withSemN. *)
Leave(c) ==
  /\ held[c] > 0
  /\ Signal(held[c], [held EXCEPT ![c] = 0])
  /\ UNCHANGED posted

Post(n) ==
  /\ posted + n <= MaxPosted
  /\ posted' = posted + n
  /\ Signal(n, held)

Next ==
  \/ \E n \in 1..MaxAmount : Post(n)
  \/ \E c \in Client : Leave(c) \/ \E n \in 0..MaxAmount : Wait(c, n)

Spec == Init /\ [][Next]_vars
-----------------------------------------------------------------------------
(* Units available plus units held are the initial ones plus those posted: *)
(* the greedy loop neither spends a unit twice nor drops one.              *)
UnitsConserved ==
  /\ TypeOK
  /\ count + SumFunctionOnSet(held, Client) = Initial + posted

(* No lost wakeup: the head of the queue is never one that could be served *)
(* at once.                                                                *)
HeadCannotBeServed == waiters # <<>> => count < Head(waiters).need
=============================================================================
