-------------------------- MODULE MCDeployCampaign --------------------------
EXTENDS DeployCampaign, TLC
=============================================================================
