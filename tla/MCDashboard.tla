----------------------------- MODULE MCDashboard -----------------------------
(***************************************************************************)
(* An instance of Dashboard for TLC: a panel that rejects when its request *)
(* fails and has a filter, and the log panel, which does not reject and    *)
(* has pages.                                                              *)
(***************************************************************************)
EXTENDS Dashboard

=============================================================================
