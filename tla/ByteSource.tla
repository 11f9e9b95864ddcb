----------------------------- MODULE ByteSource -----------------------------
(* WebApp.Server.Request.ByteSource: what the request parser reads from,    *)
(* whatever buffers it.  The input is everything the peer will have sent;   *)
(* a read takes its result off the front of it, all of it and nothing else, *)
(* until a read fails, after which the connection is closed. *)
EXTENDS Naturals, Sequences

CONSTANTS Input,   \* the inputs considered
          CR, LF

VARIABLES input,   \* what no read has returned yet
          result,  \* what the last read returned
          broken   \* a read has failed

vars == <<input, result, broken>>

Init == input \in Input /\ result = <<>> /\ broken = FALSE

ends == {i \in 1..Len(input) - 1 : input[i] = CR /\ input[i + 1] = LF}

Take(n, skipped) ==
  /\ result' = SubSeq(input, 1, n)
  /\ input' = SubSeq(input, n + skipped + 1, Len(input))
  /\ UNCHANGED broken

(* A CRLF-terminated line without its CRLF; the rest of the input when it   *)
(* ends without one. *)
ReadLine ==
  /\ ~broken
  /\ IF ends = {} THEN Take(Len(input), 0)
     ELSE \E i \in ends : (\A j \in ends : i <= j) /\ Take(i - 1, 2)

(* One byte or more of what is there; none only at the end of input. *)
Read ==
  /\ ~broken
  /\ \E n \in 0..Len(input) : (n = 0 => input = <<>>) /\ Take(n, 0)

Fail == ~broken /\ broken' = TRUE /\ input' = <<>> /\ UNCHANGED result

Next == ReadLine \/ Read \/ Fail

Spec == Init /\ [][Next]_vars
=============================================================================
