-------------------------------- MODULE MVar --------------------------------
(***************************************************************************)
(* Linen.Control.Concurrent.MVar: a box that is empty or holds one value,  *)
(* with FIFO queues of promises for the callers that must wait.  Every     *)
(* operation runs under one Std.Mutex (`atomically`), so each is one       *)
(* action; swap and withMVar are a take followed, in a continuation task,  *)
(* by a put, so they are two.                                              *)
(*                                                                         *)
(* An element of Op is the identity of one call: it is called at most once *)
(* and owns the promises made for it.                                      *)
(***************************************************************************)
EXTENDS MVarState, Naturals, SequencesExt

VARIABLES call,     (* what each Op was called for                          *)
          got,      (* the value each taker or reader promise holds         *)
          acked     (* the calls whose put has returned or been resolved    *)

box  == <<value, takers, putters, readers>>
vars == <<value, takers, putters, readers, call, got, acked>>

Calls == {"idle", "take", "put", "read", "swap", "restore", "failed"}
Offer == [op : Op, val : Val]

TypeOK ==
  /\ value \in Val \cup {None}
  /\ takers \in Seq(Op)
  /\ putters \in Seq(Offer)
  /\ readers \in Seq(Op)
  /\ call \in [Op -> Calls]
  /\ got \in [Op -> Val \cup {None}]
  /\ acked \in SUBSET Op

(* `new` and `newEmpty` *)
Init ==
  /\ value \in Val \cup {None}
  /\ takers = <<>>
  /\ putters = <<>>
  /\ readers = <<>>
  /\ call = [o \in Op |-> "idle"]
  /\ got = [o \in Op |-> None]
  /\ acked = {}
-----------------------------------------------------------------------------
(* Bug the properties must catch: no putter is promoted.                   *)
ConsumeValuePromotesNobody ==
  value' = None /\ UNCHANGED <<takers, putters, readers, acked>>

(* The value leaves a full box; the first queued putter refills it. *)
ConsumeValue ==
  /\ IF putters # <<>>
       THEN /\ value' = Head(putters).val
            /\ putters' = Tail(putters)
            /\ acked' = acked \cup {Head(putters).op}
       ELSE /\ value' = None
            /\ UNCHANGED <<putters, acked>>
  /\ UNCHANGED <<takers, readers>>

(* Bug: the taker that came last is served.                                *)
DeliverValueLastTaker(v) ==
  /\ IF takers # <<>>
       THEN /\ takers' = Front(takers)
            /\ got' = [got EXCEPT ![Last(takers)] = v]
            /\ UNCHANGED <<value, readers>>
       ELSE /\ value' = v
            /\ readers' = <<>>
            /\ got' = [o \in Op |-> IF o \in ToSet(readers) THEN v ELSE got[o]]
            /\ UNCHANGED takers
  /\ UNCHANGED putters

(* A value arrives at an empty box: the first queued taker gets it, else   *)
(* it is stored and every queued reader gets it.                           *)
DeliverValue(v) ==
  /\ IF takers # <<>>
       THEN /\ takers' = Tail(takers)
            /\ got' = [got EXCEPT ![Head(takers)] = v]
            /\ UNCHANGED <<value, readers>>
       ELSE /\ value' = v
            /\ readers' = <<>>
            /\ got' = [o \in Op |-> IF o \in ToSet(readers) THEN v ELSE got[o]]
            /\ UNCHANGED takers
  /\ UNCHANGED putters

Begin(op, kind) ==
  /\ call[op] = "idle"
  /\ call' = [call EXCEPT ![op] = kind]

(* The body of `take`, called by take itself and first by swap/withMVar. *)
TakeBody(op) ==
  \/ /\ value # None
     /\ got' = [got EXCEPT ![op] = value]
     /\ ConsumeValue
  \/ /\ value = None
     /\ takers' = Append(takers, op)
     /\ UNCHANGED <<value, putters, readers, got, acked>>

(* The body of `put`, called by put itself and last by swap/withMVar. *)
PutBody(op, v) ==
  \/ /\ value = None
     /\ DeliverValue(v)
     /\ acked' = acked \cup {op}
  \/ /\ value # None
     /\ putters' = Append(putters, [op |-> op, val |-> v])
     /\ UNCHANGED <<value, takers, readers, got, acked>>

Take(op) == Begin(op, "take") /\ TakeBody(op)

Put(op, v) == Begin(op, "put") /\ PutBody(op, v)

Read(op) ==
  /\ Begin(op, "read")
  /\ \/ /\ value # None
        /\ got' = [got EXCEPT ![op] = value]
        /\ UNCHANGED box
     \/ /\ value = None
        /\ readers' = Append(readers, op)
        /\ UNCHANGED <<value, takers, putters, got>>
  /\ UNCHANGED acked

(* swap, withMVar, modify, modify_: the take ... *)
Swap(op) == Begin(op, "swap") /\ TakeBody(op)

(* ... and, in the continuation bound to its task, the put of a new value. *)
Restore(op, v) ==
  /\ call[op] = "swap"
  /\ got[op] # None
  /\ call' = [call EXCEPT ![op] = "restore"]
  /\ PutBody(op, v)

TryTake(op) ==
  \/ /\ value # None
     /\ Begin(op, "take")
     /\ got' = [got EXCEPT ![op] = value]
     /\ ConsumeValue
  \/ /\ value = None
     /\ Begin(op, "failed")
     /\ UNCHANGED <<box, got, acked>>

TryPut(op, v) ==
  \/ /\ value = None
     /\ Begin(op, "put")
     /\ DeliverValue(v)
     /\ acked' = acked \cup {op}
  \/ /\ value # None
     /\ Begin(op, "failed")
     /\ UNCHANGED <<box, got, acked>>

(* tryRead (and isEmpty, which returns less) *)
TryRead(op) ==
  /\ \/ /\ value # None
        /\ Begin(op, "read")
        /\ got' = [got EXCEPT ![op] = value]
     \/ /\ value = None
        /\ Begin(op, "failed")
        /\ UNCHANGED got
  /\ UNCHANGED <<box, acked>>

Next ==
  \E op \in Op :
    \/ Take(op)
    \/ Read(op)
    \/ Swap(op)
    \/ TryTake(op)
    \/ TryRead(op)
    \/ \E v \in Val : Put(op, v) \/ TryPut(op, v) \/ Restore(op, v)

Spec == Init /\ [][Next]_vars
=============================================================================
