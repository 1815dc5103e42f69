-------------------------- MODULE MCMessageExchange --------------------------
(* TLC instance of MessageExchange: more requests than ids, so that ids     *)
(* are used again while older requests still wait.                          *)
EXTENDS MessageExchange
MCRequests == 1 .. Limit
=============================================================================
