--------------------------- MODULE MCExecuteCommand ---------------------------
(***************************************************************************)
(* Instances of ExecuteCommand: callers that share a key, with one that    *)
(* has none.                                                               *)
(***************************************************************************)
EXTENDS ExecuteCommand

CONSTANTS c1, c2, c3, k1, s1

SharedKey == [c \in Caller |-> IF c = c3 THEN NoKey ELSE k1]

\* The observers are satisfied by the second event of a stream.
SecondEvent == {<<s1, 1>>}
===============================================================================
