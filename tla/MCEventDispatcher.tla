-------------------------- MODULE MCEventDispatcher --------------------------
(* Two calls, one of each pair of kinds up to exchanging the calls and the *)
(* directions: the first awaits readability, and has a deadline if only    *)
(* one of the calls has.                                                   *)
EXTENDS EventDispatcher

CONSTANTS first, second

ASSUME TwoCalls == Waiters = {first, second}

MCInit == /\ Init
          /\ wants[first] = "readable"
          /\ deadline[second] => deadline[first]

MCSpec == MCInit /\ [][Next]_vars /\ Fairness
=============================================================================
