---------------------------- MODULE MCConcurrency ---------------------------
(* The primitives of Linen.Control.Concurrent and Linen.Control.Monad.STM.  *)
(* They share no state: a behaviour exercises the one chosen at the start,  *)
(* and the others stay as they were made.  MCLibrary adds the drivers.      *)
EXTENDS QSem, MVarState

CONSTANTS MaxAmount, MaxPosted,         \* QSemN
          Endpoint, First, Write, Reading, \* Chan
          Thread, Cell, Queue, StmVal, Empty, Programs

VARIABLES exercised,
          call, got, acked, puts, takes,
          nCount, nWaiters, held, posted,
          subscribers, buffer, chanWaiters, todo, chanGot,
          delivered, asked, written, earlier, joined,
          heap, queue, program, hand, running

M == INSTANCE MVarHistory
N == INSTANCE QSemN WITH count <- nCount, waiters <- nWaiters
C == INSTANCE Chan
  WITH Read <- Reading, waiters <- chanWaiters, got <- chanGot

I(op, cell) == [op |-> op, cell |-> cell]
P(main, alt) == [main |-> main, alt |-> alt]

(* Each operation of the library writes only after its last chance to      *)
(* retry, and so do these transactions; a thread may run any of them.      *)
WriteLast ==
  LET cell == CHOOSE c \in Cell : TRUE
      other == CHOOSE c \in Cell : c # cell
  IN { P(<<I("take", cell)>>, <<>>),
       P(<<I("put", cell)>>, <<>>),
       P(<<I("read", cell), I("dequeue", Queue)>>, <<>>),
       P(<<I("take", cell)>>, <<I("dequeue", Queue)>>),
       P(<<I("write", Queue)>>, <<>>),
       P(<<I("peek", Queue), I("tryTake", cell), I("tryPut", other)>>, <<>>),
       P(<<I("tryDequeue", Queue)>>, <<>>) }

T == INSTANCE STM WITH Val <- StmVal

ASSUME InstanceIsSound == C!ChanAssumption /\ T!STMAssumption /\ N!QSemNAssumption

ASSUME ProgramsWriteLast == \A p \in Programs : T!WritesLast(p)

qvars == <<vars, exercised>>
mVars == <<value, takers, putters, readers, call, got, acked, puts, takes>>
nVars == <<nCount, nWaiters, held, posted>>
cVars == <<subscribers, buffer, chanWaiters, todo, chanGot, delivered, asked,
           written, earlier, joined>>
tVars == <<heap, queue, program, hand, running>>

Primitives == {"MVar", "QSem", "QSemN", "Chan", "STM"}

PrimitivesInit ==
  /\ M!HInit /\ (exercised # "MVar" => value = None)
  /\ Init /\ N!Init /\ C!Init
  /\ IF exercised = "STM"
       THEN T!Init
       ELSE /\ program = [t \in Thread |-> CHOOSE p \in Programs : TRUE]
            /\ heap = [c \in Cell |-> Empty]
            /\ queue = [readEnd |-> SetToSeq(StmVal), writeEnd |-> <<>>]
            /\ hand = [t \in Thread |-> Empty]
            /\ running = {}

PrimitivesNext ==
  \/ /\ exercised = "MVar" /\ M!HNext
     /\ UNCHANGED <<qvars, nVars, cVars, tVars>>
  \/ /\ exercised = "QSem" /\ Next
     /\ UNCHANGED <<mVars, exercised, nVars, cVars, tVars>>
  \/ /\ exercised = "QSemN" /\ N!Next
     /\ UNCHANGED <<qvars, mVars, cVars, tVars>>
  \/ /\ exercised = "Chan" /\ C!Next
     /\ UNCHANGED <<qvars, mVars, nVars, tVars>>
  \/ /\ exercised = "STM" /\ T!Next
     /\ UNCHANGED <<qvars, mVars, nVars, cVars>>

primitiveVars == <<qvars, mVars, nVars, cVars, tVars>>

-----------------------------------------------------------------------------
(* See QSem: everybody who waits is served, and nobody out of turn.         *)
ServedInTurn == NoOvertaking /\ EveryWaiterServed

(* See QSemN: units are neither lost nor made, and whoever is at the head   *)
(* of the queue cannot be served yet.                                       *)
UnitsWellSpent == N!UnitsConserved /\ N!HeadCannotBeServed

(* See Chan: the k-th read of an endpoint gets the k-th value pushed to it. *)
EndpointIsStream == C!EndpointIsStream

(* See Chan: an earlier write comes first on every endpoint.                *)
RealTimeOrder == C!RealTimeOrder

(* See Chan: an endpoint gets each write since it subscribed, and only those. *)
SubscribersMissNothing == C!SubscribersMissNothing

(* See STM: every value is in exactly one place.                            *)
ValuesConserved == T!ValuesConserved

(* See STM: an attempt that retries changes no TVar, and the TQueue is first *)
(* in, first out.                                                            *)
TransactionsAreClean == T!RetryLeavesNoTrace /\ T!QueueIsFifo
=============================================================================
