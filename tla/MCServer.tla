------------------------------- MODULE MCServer -------------------------------
(* Instance of Server for TLC: two connections, two devices under one name.   *)
EXTENDS Server

CONSTANTS c1, c2, fsp, k1, k2

MCConns == {c1, c2}
MCDialled == {c2}
MCDevices == (c1 :> {[uuid |-> fsp, key |-> k1]})
             @@ (c2 :> {[uuid |-> fsp, key |-> k] : k \in {k1, k2}})
MCLists == {{1}, {9}}
===============================================================================
