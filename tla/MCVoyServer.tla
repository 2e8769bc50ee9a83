------------------------------ MODULE MCVoyServer ------------------------------
(***************************************************************************)
(* Instances of VoyServer for TLC. The connections are interchangeable, but*)
(* symmetry is not used: the same run checks liveness.                     *)
(***************************************************************************)
EXTENDS VoyServer
===============================================================================
