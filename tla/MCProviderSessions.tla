------------------------- MODULE MCProviderSessions -------------------------
(***************************************************************************)
(* ProviderSessions for TLC: the constants are given by the configurations.*)
(***************************************************************************)
EXTENDS ProviderSessions, TLC
=============================================================================
