----------------------------- MODULE MCRecSignals -----------------------------
(***************************************************************************)
(* A small instance of RecSignals: two workers, and a refresher whose clock *)
(* is one moment behind the backend's.                                      *)
(***************************************************************************)
EXTENDS RecSignals

Behind == [r \in Refreshers |-> -1]
=============================================================================
