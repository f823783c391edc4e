--------------------------- MODULE MCLiveTracking ---------------------------
(* Instances of LiveTracking for TLC. *)
EXTENDS LiveTracking

CONSTANTS o1, o2, c1, c2
=============================================================================
