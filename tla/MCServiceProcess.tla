-------------------------- MODULE MCServiceProcess --------------------------
(* Two requests at a time over a pool of one connection: a finished        *)
(* request that waits for the event loop can hold the whole pool, and the  *)
(* other request, the loop and the consumer compete for it.                *)
EXTENDS ServiceProcess

=============================================================================
