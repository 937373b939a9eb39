----------------------------- MODULE MCCloudSQL -----------------------------
(***************************************************************************)
(* CloudSQL for TLC: a disk of two sizes that may resize itself.           *)
(***************************************************************************)
EXTENDS CloudSQL

CONSTANTS nil

MCSQLFields == {"DataDiskSizeGb", "StorageAutoResize", "UserLabels"}
MCSpecs == SQLSpecs
MCStates == DBStates \cup {""}
=============================================================================
