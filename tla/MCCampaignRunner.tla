-------------------------- MODULE MCCampaignRunner --------------------------
(* The instance of CampaignRunner for TLC. *)
EXTENDS CampaignRunner, TLC

CampaignSymmetry == Permutations(Campaigns)

\* Everything a boundary can do.
MCOutcomes == Outcomes
=============================================================================
