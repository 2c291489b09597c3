------------------------------ MODULE MCServer ------------------------------
(* A small instance of Server for TLC: two LND nodes, one of them behind      *)
(* tokens that are not usable, the mock mode, and no configuration.           *)
EXTENDS Server, TLC

MCConfigs  == {"lnd", "other", "mock", "unset"}
MCMock     == {"mock"}
MCComplete == {"lnd", "other", "mock"}
MCGuarded  == {"lnd", "mock"}
=============================================================================
