---------------------------- MODULE MCTlsSession ----------------------------
(* What is written and received over a session, for small instances.        *)
EXTENDS TlsSession

TwoBytesEach ==
  [w \in Writer |-> IF w = "w1" THEN <<"a1", "a2">> ELSE <<"b1", "b2">>]

(* Records, and each way for the peer to end. *)
EveryEnd ==
  {<<<<"x", "y">>, close_notify>>, <<<<"x">>, eof>>, <<<<"x">>, reset>>,
   <<close_notify>>}
=============================================================================
