------------------------------- MODULE MCSTM --------------------------------
(* A transaction that moves a value from one TMVar to another: putTMVar may *)
(* retry after takeTMVar has written.                                       *)
EXTENDS STM

CONSTANTS slotA, slotB

I(op, cell) == [op |-> op, cell |-> cell]
P(main, alt) == [main |-> main, alt |-> alt]

Move ==
  { P(<<I("take", slotA), I("put", slotB)>>, <<>>),
    P(<<I("take", slotB)>>, <<>>) }
=============================================================================
