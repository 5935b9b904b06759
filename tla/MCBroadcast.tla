----------------------------- MODULE MCBroadcast -----------------------------
(***************************************************************************)
(* An instance of Broadcast for TLC: two connections, so that one comes or *)
(* goes while the other is sent to.                                        *)
(***************************************************************************)
EXTENDS Broadcast

=============================================================================
