------------------------- MODULE MCSingleFlightCache ------------------------
(***************************************************************************)
(* Instances of SingleFlightCache for TLC: both keys hold data of kind     *)
(* "state".  The overview asks for the OS results and then for the process *)
(* results in one session, so its second build can run on a snapshot older *)
(* than the call; the OS list asks for the OS results only.                *)
(***************************************************************************)
EXTENDS SingleFlightCache

CONSTANTS os, process

MCKinds == {"state"}
MCKindOf == [k \in Keys |-> "state"]
Overview == {<<os, process>>}
OsOnly == {<<os>>}

=============================================================================
