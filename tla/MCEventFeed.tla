----------------------------- MODULE MCEventFeed -----------------------------
(***************************************************************************)
(* Instances of EventFeed.                                                 *)
(***************************************************************************)
EXTENDS EventFeed, TLC

\* Offset 0 is of a type nobody watches, offset 2 of one the projection does
\* not consume.
SomeWatched == {1, 2, 3}
SomeWanted == {1, 3}

AllWanted == AllTypes

Nodes == Permutations(Node)
==============================================================================
