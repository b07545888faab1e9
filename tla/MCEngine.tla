------------------------------- MODULE MCEngine ------------------------------
(***************************************************************************)
(* Two engines of one application, the second of which may be created with *)
(* another application by mistake.  The first listens, and is waited for.  *)
(***************************************************************************)
EXTENDS Engine

CONSTANTS e1, e2, app, other

MCEngineOf == [c \in Caller |-> e1]

MCApplications == [e \in Engine |-> IF e = e1 THEN {app} ELSE {app, other}]
==============================================================================
