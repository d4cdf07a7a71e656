---------------------------- MODULE MCDashboard ----------------------------
(* The instance is small enough for the constants of its configuration.    *)
EXTENDS Dashboard
=============================================================================
