----------------------------- MODULE MCNodePool -----------------------------
(***************************************************************************)
(* NodePool for TLC: automatic upgrades, a version, and a machine type,    *)
(* which no update can change.                                             *)
(***************************************************************************)
EXTENDS NodePool

CONSTANTS a, b, zero, nil

MCValues == {zero, a, b}
MCPoolFields == {"Management", "Version", "MachineType"}
MCSpecs == PoolSpecs
MCStates == PoolStates \cup {""}
=============================================================================
