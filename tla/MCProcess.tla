------------------------------ MODULE MCProcess ------------------------------
(***************************************************************************)
(* Instances of Process for TLC.                                           *)
(***************************************************************************)
EXTENDS Process, TLC

CONSTANTS w1, w2, s1, i1, i2, d1

FirstMayFail == [d \in Deadline |-> IF d = d1 THEN 1 ELSE 0]

\* Two consumers of one stream and a deadline worker.
Overlapping == (w1 :> s1) @@ (w2 :> s1)
OneStream == s1 :> 3
OneStreamEvents == {<<s1, 0>>, <<s1, 2>>}
SameInstance == (<<s1, 0>> :> i1) @@ (<<s1, 2>> :> i1)

\* One consumer and two deadline workers; each instance has an early and a late
\* deadline, scheduled by events of their own.
Alone == w1 :> s1
FourOffsets == s1 :> 4
FourEvents == {<<s1, o>> : o \in 0 .. 3}
Alternating == (<<s1, 0>> :> i1) @@ (<<s1, 1>> :> i2) @@ (<<s1, 2>> :> i2) @@ (<<s1, 3>> :> i1)
NoneFails == [d \in Deadline |-> 0]
Symmetric == Permutations(Deadline) \union Permutations(Pump)

\* Handlers that do no more than a deadlock needs: those of events schedule
\* deadlines, those of deadlines end the instance.
Quiet ==
  \A t \in Tx :
    /\ ~out[t].commands /\ ~out[t].mutated
    /\ out[t].ended => t \in Pump
    /\ out[t].deadline # NoCause => t \in Consumer
==============================================================================
