---------------------------- MODULE MCDashboards ----------------------------
(* An instance of Dashboards for TLC. *)
EXTENDS Dashboards

CONSTANTS o1, o2
=============================================================================
