-------------------------- MODULE MCCacheFreshness --------------------------
(***************************************************************************)
(* Instances of CacheFreshness for TLC: both keys hold data of kind        *)
(* "state".  The overview asks for the OS results and then for the process *)
(* results in one session, so its second build can run on a snapshot older *)
(* than the call; the OS list asks for the OS results only.                *)
(***************************************************************************)
EXTENDS CacheFreshness, TLC

CONSTANTS os, process

MCKinds == {"state"}
MCKindOf == [k \in Keys |-> "state"]
Overview == {<<os, process>>}
OsOnly == {<<os>>}

\* The request threads are interchangeable.
ThreadSymmetry == Permutations(Threads)

=============================================================================
