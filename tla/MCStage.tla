------------------------------- MODULE MCStage -------------------------------
EXTENDS OwnedStage
=============================================================================
