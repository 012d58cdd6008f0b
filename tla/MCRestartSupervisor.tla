------------------------ MODULE MCRestartSupervisor ------------------------
(***************************************************************************)
(* Small instances of RestartSupervisor.                                   *)
(***************************************************************************)
EXTENDS RestartSupervisor

MCClock == 0 .. 5
MCGenerations == {1, 2, 3}
MCTransactions == {1, 2}
MCFailureKinds == {"CreationFailed", "WaitFailed"}
MCExits == {"ExitZero", "ExitNonzero"}
=============================================================================
