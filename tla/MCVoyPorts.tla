------------------------------ MODULE MCVoyPorts ------------------------------
(***************************************************************************)
(* Configurations of up to three servers with up to two ports, among them  *)
(* the boundary 1024 and one that needs 17 bits.                           *)
(***************************************************************************)
EXTENDS VoyPorts

MCValues == {1024, 8080, 65616}

MCConfigs == BoundedSeq(BoundedSeq(MCValues, 2), 3)
===============================================================================
