------------------------------ MODULE Supervisor -----------------------------
(***************************************************************************)
(* The delays of supervisor.Run (internal/supervisor), which calls a       *)
(* function again after it has failed.  A supervisor is a record: the      *)
(* current backoff, the time left until the function is called again, and  *)
(* how long it has been running.  Times are in units of no particular      *)
(* size.  A function that has run for ResetThreshold is as good as one     *)
(* that never failed, so its supervisor becomes a new one there and then.  *)
(***************************************************************************)
EXTENDS Integers

CONSTANTS
  BaseDelay,
  TransientMaxDelay,
  PersistentMaxDelay,
  ResetThreshold

ASSUME SupervisorAssumption ==
  /\ {BaseDelay, TransientMaxDelay, PersistentMaxDelay, ResetThreshold} \subseteq Nat \ {0}
  /\ BaseDelay <= TransientMaxDelay /\ TransientMaxDelay <= PersistentMaxDelay

NewSupervisor == [backoff |-> 0, delay |-> 0, ran |-> 0]

Limit(class) == IF class = "persistent" THEN PersistentMaxDelay ELSE TransientMaxDelay

(***************************************************************************)
(* The first backoff is BaseDelay; the next is twice the one before, up to *)
(* the limit for the kind of failure.                                      *)
(***************************************************************************)
\* Seeded fault: a transient failure after persistent ones keeps their backoff.
BackoffNeverShrinks(sup, class) ==
  IF sup.backoff = 0 THEN BaseDelay
  ELSE IF 2 * sup.backoff <= Limit(class) THEN 2 * sup.backoff
  ELSE IF sup.backoff > Limit(class) THEN sup.backoff ELSE Limit(class)

Backoff(sup, class) ==
  IF sup.backoff = 0 THEN BaseDelay
  ELSE IF 2 * sup.backoff <= Limit(class) THEN 2 * sup.backoff ELSE Limit(class)

\* Jitter: between half and all of d.
Jitter(d) == d \div 2 .. d

Failed(sup, class) ==
  LET b == Backoff(sup, class) IN
  {[backoff |-> b, delay |-> d, ran |-> 0] : d \in Jitter(b)}

(***************************************************************************)
(* Time passes while the supervisor waits, or while the function runs; how *)
(* long it has run matters only once it has failed before.                 *)
(***************************************************************************)
SupervisorAges(sup, waits) ==
  IF waits THEN [sup EXCEPT !.delay = IF @ > 0 THEN @ - 1 ELSE 0]
  ELSE IF sup.backoff = 0 \/ sup.ran + 1 >= ResetThreshold THEN NewSupervisor
  ELSE [sup EXCEPT !.ran = @ + 1]
==============================================================================
