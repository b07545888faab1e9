--------------------------- MODULE MCRemoteSource ----------------------------
(***************************************************************************)
(* An instance of RemoteSource for TLC.  With parts of at most eight       *)
(* bytes, the first two events fit one by sharing their header, the third  *)
(* is not requested, the fourth is larger than any part may be, and the    *)
(* last begins a part of its own.                                          *)
(*                                                                         *)
(* An engine that breaks the protocol sends any segment of up to two of    *)
(* the Forged events, which need not belong to it.                         *)
(***************************************************************************)
EXTENDS RemoteSource, TLC

CONSTANTS s1, s2, wanted, unwanted, h1, h2

Types == <<wanted, wanted, unwanted, wanted, wanted>>
Headers == <<h1, h1, h2, h1, h1>>
Bodies == <<1, 1, 1, 6, 1>>

TypeOfEvent == [o \in Offset |-> Types[o + 1]]
HeaderOfEvent == [o \in Offset |-> Headers[o + 1]]
BodySizes == [o \in Offset |-> Bodies[o + 1]]
FirstOffset == (s1 :> 0 @@ s2 :> 1)
HeaderSizes == [h \in {h1, h2} |-> 3]

Forged ==
  {[stream |-> s1, offset |-> 0, type |-> wanted], [stream |-> s1, offset |-> 1, type |-> wanted],
   [stream |-> s1, offset |-> 1, type |-> unwanted], [stream |-> s2, offset |-> 1, type |-> wanted]}

Lies == [stream : {s1}, begin : 0 .. 1, end : 0 .. 2,
         envelopes : UNION {[1 .. n -> Forged] : n \in 0 .. 2}]
==============================================================================
