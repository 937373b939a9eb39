---------------------------- MODULE MCGKECluster ----------------------------
(* Instances of GKECluster for TLC. *)
EXTENDS GKECluster

MCSpecs == [Fields -> Values \cup {Nil}]
MCStates == GkeStates \cup {""}
=============================================================================
