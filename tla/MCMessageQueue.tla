--------------------------- MODULE MCMessageQueue ---------------------------
(* TLC instance of MessageQueue: four ids, three slots.                    *)
EXTENDS MessageQueue
=============================================================================
