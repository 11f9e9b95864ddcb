---------------------------- MODULE MVarHistory -----------------------------
(***************************************************************************)
(* MVar with two history variables, the puts and the takes in the order    *)
(* they were called, and the statement that it implements MVarContract.    *)
(* The histories are never read by an action.                              *)
(***************************************************************************)
EXTENDS MVar

VARIABLES puts, takes

hvars == <<value, takers, putters, readers, call, got, acked, puts, takes>>

HInit ==
  /\ Init
  /\ puts = IF value = None THEN <<>> ELSE <<[op |-> None, val |-> value]>>
  /\ takes = <<>>

LogTake(op) == takes' = Append(takes, op) /\ UNCHANGED puts
LogPut(op, v) == puts' = Append(puts, [op |-> op, val |-> v]) /\ UNCHANGED takes
LogNothing == UNCHANGED <<puts, takes>>

(* A tryTake or tryPut that fails leaves no trace. *)
HTake(op) == (Take(op) \/ Swap(op)) /\ LogTake(op)
HTryTake(op) ==
  TryTake(op) /\ IF value # None THEN LogTake(op) ELSE LogNothing
HPut(op, v) == (Put(op, v) \/ Restore(op, v)) /\ LogPut(op, v)
HTryPut(op, v) ==
  TryPut(op, v) /\ IF value = None THEN LogPut(op, v) ELSE LogNothing
HRead(op) == (Read(op) \/ TryRead(op)) /\ LogNothing

HNext ==
  \E op \in Op :
    \/ HTake(op)
    \/ HTryTake(op)
    \/ HRead(op)
    \/ \E v \in Val : HPut(op, v) \/ HTryPut(op, v)

HSpec == HInit /\ [][HNext]_hvars
-----------------------------------------------------------------------------
Contract == INSTANCE MVarContract WITH reading <- ToSet(readers)

(* The MVar of the source keeps the contract: the k-th take gets the k-th  *)
(* put's value whatever mix of take, put, read, swap and try operations    *)
(* ran in between, and nobody is acknowledged early or late.               *)
KeepsContract == Contract!Spec
=============================================================================
