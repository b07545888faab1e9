--------------------------- MODULE CommandHandling ---------------------------
(***************************************************************************)
(* What the engine promises to whoever executes commands: each command is  *)
(* handled at most once, in a single indivisible step that takes it off    *)
(* the queue and records its events, and an aggregate decides what to      *)
(* record with the whole history of its instance in view.                  *)
(***************************************************************************)
EXTENDS Naturals

CONSTANTS Command, NoInstance, InstanceOf, MaxEvents

VARIABLES
  pending,   \* commands that have not been handled
  recorded   \* events, each with the history its handler decided on

History(i) == {<<e.cmd, e.ord>> : e \in {f \in recorded : f.inst = i}}

Context(c) == IF InstanceOf[c] = NoInstance THEN {} ELSE History(InstanceOf[c])

HandleOnce(c) ==
  /\ c \in pending
  /\ pending' = pending \ {c}
  /\ \E k \in 0 .. MaxEvents[c] :
       recorded' = recorded \union
         {[cmd |-> c, ord |-> j, inst |-> InstanceOf[c], seen |-> Context(c)] : j \in 0 .. k - 1}

Init ==
  /\ pending = Command
  /\ recorded = {}

Next == \E c \in Command : HandleOnce(c)

Spec == Init /\ [][Next]_<<pending, recorded>>
==============================================================================
