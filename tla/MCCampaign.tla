----------------------------- MODULE MCCampaign -----------------------------
(***************************************************************************)
(* Campaigns of a component, with the values that a .cfg cannot write.     *)
(***************************************************************************)
EXTENDS Campaign

\* A rollback list of two versions: the first one new, the second the installed one.
MCRollbackVersions == <<"v3", "v1">>

\* Every message that a campaign can send.
MCCommands == {CampaignMessage(p, d) : p \in Pkgs, d \in {e \in DmcType : e.phase # "idle" /\ e.campaign # 0}}
=============================================================================
