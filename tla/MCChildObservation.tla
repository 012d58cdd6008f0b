------------------------- MODULE MCChildObservation -------------------------
(***************************************************************************)
(* Small instances of ChildObservation.                                    *)
(***************************************************************************)
EXTENDS ChildObservation

AllOperations == {"AwaitReady", "SuperviseChild", "SuperviseReady"}
AwaitOnly == {"AwaitReady"}
=============================================================================
