------------------------------ MODULE MCCluster ------------------------------
(***************************************************************************)
(* An instance of Cluster for TLC.  The nodes are numbers, ordered as      *)
(* their IDs.  Every node has the same score for the workload tied, and    *)
(* the higher ID has the higher score for the workload ranked.             *)
(***************************************************************************)
EXTENDS Cluster

CONSTANTS tied, ranked

Scores == [w \in Workload |-> [n \in Node |-> IF w = tied THEN 7 ELSE n]]

ByID == [n \in Node |-> n]
==============================================================================
