------------------------------ MODULE MCIntelRuns ------------------------------
(* The instance of IntelRuns for TLC: its constants are in IntelRuns.cfg.    *)
EXTENDS IntelRuns
=============================================================================
