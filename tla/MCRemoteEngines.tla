--------------------------- MODULE MCRemoteEngines ---------------------------
(***************************************************************************)
(* An instance of RemoteEngines for TLC: two connections to nodes of one   *)
(* remote application, which deliver the same stream.                      *)
(***************************************************************************)
EXTENDS RemoteEngines

CONSTANTS c1, c2, s1
==============================================================================
