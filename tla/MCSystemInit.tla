---------------------------- MODULE MCSystemInit ----------------------------
(***************************************************************************)
(* A small instance of SystemInit.                                         *)
(***************************************************************************)
EXTENDS SystemInit

MCExits == {"ExitZero", "UnhandledException"}
MCFailures ==
    {"DuplicateReady", "WaitFailed", "ExitQueryFailed", "ReadinessFailedAfterExit"}
MCCrash == {"UnhandledException"}
MCSilence == {"WaitFailed"}
MCElapses == {0, 2}
=============================================================================
