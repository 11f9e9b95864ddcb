-------------------------------- MODULE Chan --------------------------------
(***************************************************************************)
(* Linen.Control.Concurrent.Chan: an unbounded channel that can be         *)
(* duplicated.  Every endpoint has a buffer and a queue of reader promises *)
(* under a mutex of its own; the list of endpoints is under another.       *)
(* `write` copies the list under that mutex and then pushes to one         *)
(* endpoint after the other, so a write is many steps and two writes and a *)
(* dup interleave.                                                         *)
(*                                                                         *)
(* An element of Write is one call of write and stands for the value       *)
(* written; an element of Read is one call of read or tryRead.             *)
(***************************************************************************)
EXTENDS Naturals, Sequences, FiniteSets, SequencesExt

CONSTANTS Endpoint, (* endpoints that may exist                             *)
          First,    (* the endpoint `new` creates                           *)
          Write,    (* calls of write                                       *)
          Read,     (* calls of read and tryRead                            *)
          None

ChanAssumption == First \in Endpoint /\ None \notin Write

VARIABLES subscribers, (* ChanWriteState.subscribers                        *)
          buffer,      (* ChanReadState.buffer of each endpoint             *)
          waiters,     (* ChanReadState.waiters of each endpoint            *)
          todo,        (* the endpoints a running write has yet to push to  *)
          got,         (* what each read has been answered with             *)
          delivered,   (* history: values pushed to each endpoint           *)
          asked,       (* history: reads of each endpoint, in call order    *)
          written,     (* history: writes that have begun, in order         *)
          earlier,     (* history: writes complete when each write began    *)
          joined       (* history: writes begun when each endpoint was made *)

state == <<subscribers, buffer, waiters>>
vars  == <<subscribers, buffer, waiters, todo, got,
           delivered, asked, written, earlier, joined>>

TypeOK ==
  /\ subscribers \in Seq(Endpoint)
  /\ buffer \in [Endpoint -> Seq(Write)]
  /\ waiters \in [Endpoint -> Seq(Read)]
  /\ todo \in [Write -> Seq(Endpoint)]
  /\ got \in [Read -> Write \cup {None}]
  /\ delivered \in [Endpoint -> Seq(Write)]
  /\ asked \in [Endpoint -> Seq(Read)]
  /\ written \in Seq(Write)
  /\ earlier \in [Write -> SUBSET Write]
  /\ joined \in [Endpoint -> Nat]

(* `new` *)
Init ==
  /\ subscribers = <<First>>
  /\ buffer = [e \in Endpoint |-> <<>>]
  /\ waiters = [e \in Endpoint |-> <<>>]
  /\ todo = [w \in Write |-> <<>>]
  /\ got = [r \in Read |-> None]
  /\ delivered = [e \in Endpoint |-> <<>>]
  /\ asked = [e \in Endpoint |-> <<>>]
  /\ written = <<>>
  /\ earlier = [w \in Write |-> {}]
  /\ joined = [e \in Endpoint |-> 0]

Begun == ToSet(written)
Complete == {w \in Begun : todo[w] = <<>>}
Asked == UNION {ToSet(asked[e]) : e \in Endpoint}

(* Bug: write returns before it pushes. *)
WriteBeginReturns(w) ==
  /\ w \notin Begun
  /\ todo' = [todo EXCEPT ![w] = subscribers]
  /\ written' = Append(written, w)
  /\ earlier' = [earlier EXCEPT ![w] = Begun]
  /\ UNCHANGED <<state, got, delivered, asked, joined>>

(* `write` copies the subscriber list under the write mutex ... *)
WriteBegin(w) ==
  /\ w \notin Begun
  /\ todo' = [todo EXCEPT ![w] = subscribers]
  /\ written' = Append(written, w)
  /\ earlier' = [earlier EXCEPT ![w] = Complete]
  /\ UNCHANGED <<state, got, delivered, asked, joined>>

(* Bug: the value goes to the front of the buffer. *)
PushJumpsQueue(e, w) ==
  IF waiters[e] # <<>>
    THEN /\ waiters' = [waiters EXCEPT ![e] = Tail(@)]
         /\ got' = [got EXCEPT ![Head(waiters[e])] = w]
         /\ UNCHANGED buffer
    ELSE /\ buffer' = [buffer EXCEPT ![e] = <<w>> \o @]
         /\ UNCHANGED <<waiters, got>>

(* `pushToSubscriber` *)
PushToSubscriber(e, w) ==
  IF waiters[e] # <<>>
    THEN /\ waiters' = [waiters EXCEPT ![e] = Tail(@)]
         /\ got' = [got EXCEPT ![Head(waiters[e])] = w]
         /\ UNCHANGED buffer
    ELSE /\ buffer' = [buffer EXCEPT ![e] = Append(@, w)]
         /\ UNCHANGED <<waiters, got>>

(* Bug: a value handed to a waiting reader is taken for delivered: the     *)
(* loop returns.                                                           *)
WritePushUntilRead(w) ==
  /\ todo[w] # <<>>
  /\ PushToSubscriber(Head(todo[w]), w)
  /\ delivered' = [delivered EXCEPT ![Head(todo[w])] = Append(@, w)]
  /\ todo' = [todo EXCEPT ![w] = IF waiters[Head(@)] # <<>> THEN <<>> ELSE Tail(@)]
  /\ UNCHANGED <<subscribers, asked, written, earlier, joined>>

(* ... and pushes to the next subscriber it copied. *)
WritePush(w) ==
  /\ todo[w] # <<>>
  /\ PushToSubscriber(Head(todo[w]), w)
  /\ delivered' = [delivered EXCEPT ![Head(todo[w])] = Append(@, w)]
  /\ todo' = [todo EXCEPT ![w] = Tail(@)]
  /\ UNCHANGED <<subscribers, asked, written, earlier, joined>>

Dequeue(r, e) ==
  /\ buffer[e] # <<>>
  /\ got' = [got EXCEPT ![r] = Head(buffer[e])]
  /\ buffer' = [buffer EXCEPT ![e] = Tail(@)]
  /\ UNCHANGED waiters

(* `read` *)
ReadNext(r, e) ==
  /\ r \notin Asked
  /\ e \in ToSet(subscribers)
  /\ asked' = [asked EXCEPT ![e] = Append(@, r)]
  /\ \/ Dequeue(r, e)
     \/ /\ buffer[e] = <<>>
        /\ waiters' = [waiters EXCEPT ![e] = Append(@, r)]
        /\ UNCHANGED <<buffer, got>>
  /\ UNCHANGED <<subscribers, todo, delivered, written, earlier, joined>>

(* `tryRead` that finds a value; one that does not changes nothing. *)
TryRead(r, e) ==
  /\ r \notin Asked
  /\ e \in ToSet(subscribers)
  /\ Dequeue(r, e)
  /\ asked' = [asked EXCEPT ![e] = Append(@, r)]
  /\ UNCHANGED <<subscribers, todo, delivered, written, earlier, joined>>

(* `dup` *)
Dup(e) ==
  /\ e \notin ToSet(subscribers)
  /\ subscribers' = Append(subscribers, e)
  /\ joined' = [joined EXCEPT ![e] = Len(written)]
  /\ UNCHANGED <<buffer, waiters, todo, got, delivered, asked, written, earlier>>

Next ==
  \/ \E w \in Write : WriteBegin(w) \/ WritePush(w)
  \/ \E e \in Endpoint : Dup(e) \/ \E r \in Read : ReadNext(r, e) \/ TryRead(r, e)

Spec == Init /\ [][Next]_vars

-----------------------------------------------------------------------------
(* Each endpoint is a stream: its k-th read is answered with the k-th      *)
(* value pushed to it, whether the read or the value came first, and what  *)
(* is queued is exactly what is left over.                                 *)
EndpointIsStream ==
  /\ TypeOK
  /\ \A e \in Endpoint :
       LET D == Len(delivered[e])  A == Len(asked[e]) IN
       /\ \A k \in 1..A :
            got[asked[e][k]] = IF k <= D THEN delivered[e][k] ELSE None
       /\ buffer[e] = SubSeq(delivered[e], A + 1, D)
       /\ waiters[e] = SubSeq(asked[e], D + 1, A)

(* A write that returned before another was called comes first on every    *)
(* endpoint that sees both.  (Two overlapping writes may reach two         *)
(* endpoints in opposite orders.)                                          *)
RealTimeOrder ==
  \A e \in Endpoint : \A i, j \in DOMAIN delivered[e] :
    delivered[e][i] \in earlier[delivered[e][j]] => i < j

(* An endpoint is given each write called since it subscribed: all of them *)
(* that have returned, each once, and nothing older.  The endpoint of      *)
(* `new` has been there from the start.                                    *)
SubscribersMissNothing ==
  \A e \in ToSet(subscribers) :
    LET since == {written[i] : i \in (joined[e] + 1)..Len(written)} IN
    /\ e = First => joined[e] = 0
    /\ IsInjective(delivered[e])
    /\ ToSet(delivered[e]) \subseteq since
    /\ since \cap Complete \subseteq ToSet(delivered[e])
=============================================================================
