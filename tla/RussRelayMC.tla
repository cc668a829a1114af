---------------------------- MODULE RussRelayMC ----------------------------
EXTENDS RussRelay, TLC
=============================================================================
