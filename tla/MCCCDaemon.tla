----------------------------- MODULE MCCCDaemon ------------------------------
(* CCDaemon for TLC.                                                       *)
EXTENDS CCDaemon

=============================================================================
