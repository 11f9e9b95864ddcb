---------------------------- MODULE MVarContract ----------------------------
(***************************************************************************)
(* What an MVar promises its callers, said without queues.  Puts and takes *)
(* are numbered in the order they are called.  The k-th take receives the  *)
(* value of the k-th put; a put is acknowledged once every value before it *)
(* has been taken, because the box holds one.  A read receives the value   *)
(* in the box, waiting for one to be stored if the box is empty.           *)
(***************************************************************************)
EXTENDS Naturals, Sequences

CONSTANTS Op, Val, None

VARIABLES puts,     (* the offers made, in call order                       *)
          takes,    (* the takers, in call order                            *)
          reading,  (* readers not yet answered                             *)
          got,      (* answers of takes and reads                           *)
          acked     (* puts acknowledged                                    *)

vars == <<puts, takes, reading, got, acked>>

(* The value in the box: the first offer no take has claimed. *)
Visible(p, t) == IF Len(p) > Len(t) THEN p[Len(t) + 1].val ELSE None

Init ==
  /\ \/ puts = <<>>
     \/ \E v \in Val : puts = <<[op |-> None, val |-> v]>>
  /\ takes = <<>>
  /\ reading = {}
  /\ got = [o \in Op |-> None]
  /\ acked = {}

Called(op) ==
  \/ op \in reading \/ op \in acked \/ got[op] # None
  \/ \E k \in DOMAIN puts : puts[k].op = op
  \/ \E k \in DOMAIN takes : takes[k] = op

(* Everything the order of puts and takes determines. *)
Settle(readers) ==
  /\ got' = [o \in Op |->
               IF \E k \in DOMAIN takes' : takes'[k] = o /\ k <= Len(puts')
                 THEN LET k == CHOOSE i \in DOMAIN takes' : takes'[i] = o
                      IN  puts'[k].val
               ELSE IF o \in readers THEN Visible(puts', takes') ELSE got[o]]
  /\ acked' = {puts'[k].op : k \in {i \in DOMAIN puts' : i <= Len(takes') + 1}}
                 \ {None}

Take(op) ==
  /\ ~Called(op)
  /\ takes' = Append(takes, op)
  /\ Settle({})
  /\ UNCHANGED <<puts, reading>>

(* A put by a fresh call, or the second half of a swap that has its value. *)
Put(op, v) ==
  /\ \/ ~Called(op)
     \/ /\ \E k \in DOMAIN takes : takes[k] = op /\ k <= Len(puts)
        /\ \A k \in DOMAIN puts : puts[k].op # op
  /\ puts' = Append(puts, [op |-> op, val |-> v])
  /\ Settle(reading)
  /\ reading' = IF Visible(puts', takes) = None THEN reading ELSE {}
  /\ UNCHANGED takes

Read(op) ==
  /\ ~Called(op)
  /\ IF Visible(puts, takes) = None
       THEN reading' = reading \cup {op} /\ UNCHANGED got
       ELSE got' = [got EXCEPT ![op] = Visible(puts, takes)] /\ UNCHANGED reading
  /\ UNCHANGED <<puts, takes, acked>>

Next ==
  \E op \in Op : Take(op) \/ Read(op) \/ \E v \in Val : Put(op, v)

Spec == Init /\ [][Next]_vars
=============================================================================
