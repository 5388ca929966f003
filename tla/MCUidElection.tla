--------------------------- MODULE MCUidElection ---------------------------
(***************************************************************************)
(* Instances of UidElection for TLC.                                       *)
(***************************************************************************)
EXTENDS UidElection

CONSTANTS MaxStatus, MaxTampers, MaxFaults, MaxCrashes, MaxEvents

MCBudget == [status |-> MaxStatus, tamper |-> MaxTampers,
             fault |-> MaxFaults, crash |-> MaxCrashes, any |-> MaxEvents]
=============================================================================
