------------------------------ MODULE Refresher ------------------------------
(***************************************************************************)
(* What a refresh coordinator promises (createRefreshCoordinator): rounds  *)
(* of loading follow one another, each one loads everything, and none      *)
(* starts while another is under way.  Who asks for a refresh during a     *)
(* round is owed one that starts when that round ends; many who ask share  *)
(* it, and it is called off only by leaving the automatic mode.            *)
(***************************************************************************)

CONSTANT Loads  \* what a round loads

VARIABLES
  loading,   \* what the round under way still waits for, {} without one
  owed,      \* a refresh was asked for since the round started
  automatic  \* whether refreshes asked for during a round are remembered

vars == <<loading, owed, automatic>>

Init ==
  /\ loading \in {{}, Loads}
  /\ owed = FALSE
  /\ automatic \in BOOLEAN

\* A round starts at once, or after the one under way.
Ask ==
  \/ loading = {} /\ loading' = Loads /\ UNCHANGED owed
  \/ loading # {} /\ automatic' /\ owed' = TRUE /\ UNCHANGED loading

Request == Ask /\ UNCHANGED automatic

\* One load comes back, and others are to come.
Progress ==
  /\ \E l \in loading : loading' = loading \ {l}
  /\ loading' # {}
  /\ UNCHANGED <<owed, automatic>>

\* The last load comes back, or one fails; the round owed starts.
End ==
  /\ loading # {}
  /\ loading' = IF owed THEN Loads ELSE {}
  /\ owed' = FALSE
  /\ UNCHANGED automatic

\* Leaving the automatic mode calls the round owed off.
Leave ==
  /\ automatic /\ automatic' = FALSE
  /\ owed' = FALSE
  /\ UNCHANGED loading

Enter ==
  /\ ~automatic /\ automatic' = TRUE
  /\ Ask \/ UNCHANGED <<loading, owed>>

Next == Request \/ Progress \/ End \/ Leave \/ Enter

Safety == Init /\ [][Next]_vars

\* Every round ends.
Spec == Safety /\ WF_vars(End)

=============================================================================
