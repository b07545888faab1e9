---------------------------- MODULE MCCommandPumps ----------------------------
(***************************************************************************)
(* The instance of CommandPumps for TLC: two commands for one aggregate    *)
(* instance and two for an integration that asks for minimal concurrency;  *)
(* the first of each kind may fail once, and the first of the aggregate's  *)
(* may record two events.                                                  *)
(***************************************************************************)
EXTENDS CommandPumps, TLC

CONSTANTS c1, c2, c3, c4, i1

TwoOfEach == (c1 :> i1) @@ (c2 :> i1) @@ (c3 :> NoInstance) @@ (c4 :> NoInstance)

FirstsMayFail == [c \in Command |-> IF c \in {c1, c3} THEN 1 ELSE 0]

FirstRecordsTwo == [c \in Command |-> IF c = c1 THEN 2 ELSE 1]
==============================================================================
