-------------------------- MODULE MCProviderConfig --------------------------
(***************************************************************************)
(* ProviderConfig for TLC: a CR that uses the config and one that still    *)
(* uses the deprecated Provider.                                           *)
(***************************************************************************)
EXTENDS ProviderConfig

CONSTANTS x, y

MCCRs == {x, y}
MCLegacy == {y}
=============================================================================
