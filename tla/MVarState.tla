------------------------------ MODULE MVarState -----------------------------
(* The structure MVarState of MVar.lean, with the calls made on an MVar and *)
(* the values it can hold.                                                  *)
EXTENDS Sequences

CONSTANTS Op,     (* calls that may be made                                 *)
          Val,    (* values the box can hold                                *)
          None    (* Option.none: no value                                  *)

ASSUME NoneAssumption == None \notin Val

(* None is also no call: in a history it stands for the value an MVar is     *)
(* created with.                                                            *)
ASSUME NoCallAssumption == None \notin Op

VARIABLES value,    (* the value in the box                                 *)
          takers,   (* queued promises, here the calls they serve           *)
          putters,  (* queued (value, promise) pairs                        *)
          readers   (* as takers, of calls that only look                   *)

(* The structural invariant documented on MVarState: a full box has no     *)
(* taker and no reader waiting on it, an empty one no putter.              *)
Structural ==
  /\ value # None => takers = <<>> /\ readers = <<>>
  /\ value = None => putters = <<>>
=============================================================================
