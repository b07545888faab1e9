------------------------------ MODULE Compactor ------------------------------
(***************************************************************************)
(* The compactors of one projection, one per engine (compactor.go), and    *)
(* the row of projection.handlers they coordinate through.                 *)
(*                                                                         *)
(* Where a compactor has got to (compactor[e].pc):                         *)
(*   off      not started, or returned                                     *)
(*   try      about to look for the row                                    *)
(*   compact  the row is locked and the handler's Compact is called        *)
(*   commit   last_compacted_at is updated, in a transaction not committed *)
(*   sleep    waiting for the next interval                                *)
(*   retry    supervisor.Run is waiting                                    *)
(* session says whether the transaction's connection is alive.             *)
(***************************************************************************)
EXTENDS Supervisor

CONSTANTS
  Engine,
  Interval,   \* the minimum time between successful compactions
  Unlocked,   \* no transaction has locked the row
  MaxFaults   \* bound on failures, crashes and lost connections

ASSUME CompactorAssumption ==
  Interval \in Nat \ {0} /\ Unlocked \notin Engine /\ MaxFaults \in Nat

VARIABLES
  handlers,    \* the row: whether it exists, its age since last_compacted_at, its lock
  compactor,
  faults

compactorVars == <<handlers, compactor>>

Fault == faults < MaxFaults /\ faults' = faults + 1

\* Ages are told apart up to the interval.
Older(age) == IF age < Interval THEN age + 1 ELSE age

NoCompactor == [pc |-> "off", timer |-> 0, stamp |-> 0, session |-> FALSE, sup |-> NewSupervisor]

Compacts(e, fields) == compactor' = [compactor EXCEPT ![e] = fields]

Release(e) == IF handlers.lock = e THEN [handlers EXCEPT !.lock = Unlocked] ELSE handlers

CompactorInit ==
  /\ handlers = [exists |-> FALSE, age |-> 0, lock |-> Unlocked]
  /\ compactor = [e \in Engine |-> NoCompactor]

-------------------------------------------------------------------------------

(***************************************************************************)
(* projection.InitializeHandler: the row is inserted unless it exists, and *)
(* starts as though just compacted.                                        *)
(***************************************************************************)
InitializedHandlers == [handlers EXCEPT !.exists = TRUE, !.age = IF handlers.exists THEN @ ELSE 0]

(***************************************************************************)
(* tryCompact: lock the row if a compaction is due and nobody else has it, *)
(* and otherwise wait for the next interval.                               *)
(***************************************************************************)
\* Seeded fault: the row is looked at and not locked.
TryCompactUnlocked(e) ==
  /\ compactor[e].pc = "try"
  /\ IF handlers.age >= Interval
     THEN Compacts(e, [compactor[e] EXCEPT !.pc = "compact", !.session = TRUE])
     ELSE Compacts(e, [compactor[e] EXCEPT !.pc = "sleep", !.timer = Interval])
  /\ UNCHANGED <<handlers, faults>>

TryCompact(e) ==
  /\ compactor[e].pc = "try"
  /\ IF handlers.age >= Interval /\ handlers.lock = Unlocked
     THEN /\ handlers' = [handlers EXCEPT !.lock = e]
          /\ Compacts(e, [compactor[e] EXCEPT !.pc = "compact", !.session = TRUE])
     ELSE /\ Compacts(e, [compactor[e] EXCEPT !.pc = "sleep", !.timer = Interval])
          /\ UNCHANGED handlers
  /\ UNCHANGED faults

(***************************************************************************)
(* The handler has compacted the projection and the row is updated, if the *)
(* connection was not lost meanwhile; then the update is committed.        *)
(***************************************************************************)
CompactReturns(e) ==
  /\ compactor[e].pc = "compact"
  /\ compactor[e].session
  /\ Compacts(e, [compactor[e] EXCEPT !.pc = "commit", !.stamp = 0])
  /\ UNCHANGED <<handlers, faults>>

CommitCompaction(e) ==
  /\ compactor[e].pc = "commit"
  /\ compactor[e].session
  /\ handlers' = [Release(e) EXCEPT !.age = compactor[e].stamp]
  /\ Compacts(e, [compactor[e] EXCEPT !.pc = "sleep", !.timer = Interval, !.stamp = 0,
                                      !.session = FALSE])
  /\ UNCHANGED faults

\* The database ends the session, and with it the transaction and its lock.
SessionLost(e) ==
  /\ compactor[e].session
  /\ Fault
  /\ handlers' = Release(e)
  /\ Compacts(e, [compactor[e] EXCEPT !.session = FALSE])

(***************************************************************************)
(* An attempt fails: Compact with a persistent failure, anything else with *)
(* a transient one.  The transaction is rolled back and supervisor.Run     *)
(* waits, not for the next interval.                                       *)
(***************************************************************************)
Retries(e, class) ==
  /\ handlers' = Release(e)
  /\ \E sup \in Failed(compactor[e].sup, class) :
       Compacts(e, [NoCompactor EXCEPT !.pc = "retry", !.sup = sup])

CompactionFails(e) ==
  \/ compactor[e].pc = "compact" /\ Retries(e, "persistent") /\ UNCHANGED faults
  \/ compactor[e].pc \in {"try", "compact", "commit"} /\ Fault /\ Retries(e, "transient")

SessionLossNoticed(e) ==
  /\ compactor[e].pc \in {"compact", "commit"}
  /\ ~compactor[e].session
  /\ Retries(e, "transient")
  /\ UNCHANGED faults

\* The transaction commits, but the connection is lost before the answer arrives.
CommitAnswerLost(e) ==
  /\ compactor[e].pc = "commit"
  /\ compactor[e].session
  /\ Fault
  /\ handlers' = [Release(e) EXCEPT !.age = compactor[e].stamp]
  /\ \E sup \in Failed(compactor[e].sup, "transient") :
       Compacts(e, [NoCompactor EXCEPT !.pc = "retry", !.sup = sup])

\* The timer of the wait, or the delay of the supervisor, has passed.
\* Seeded fault: a failed attempt is not retried.
CompactAgainAfterInterval(e) ==
  /\ compactor[e].pc = "sleep" /\ compactor[e].timer = 0
  /\ Compacts(e, [compactor[e] EXCEPT !.pc = "try"])
  /\ UNCHANGED <<handlers, faults>>

CompactAgain(e) ==
  /\ \/ compactor[e].pc = "sleep" /\ compactor[e].timer = 0
     \/ compactor[e].pc = "retry" /\ compactor[e].sup.delay = 0
  /\ Compacts(e, [compactor[e] EXCEPT !.pc = "try"])
  /\ UNCHANGED <<handlers, faults>>

\* Canceled, the transaction is rolled back and Run returns.
CompactorReturns(e) ==
  /\ compactor[e].pc # "off"
  /\ handlers' = Release(e)
  /\ Compacts(e, NoCompactor)
  /\ UNCHANGED faults

CompactorAges(c) ==
  [c EXCEPT !.timer = IF @ > 0 THEN @ - 1 ELSE 0,
            !.stamp = IF c.pc = "commit" THEN Older(@) ELSE 0,
            !.sup = IF c.pc = "off" THEN @ ELSE SupervisorAges(@, c.pc = "retry")]

HandlersAge == [handlers EXCEPT !.age = IF handlers.exists THEN Older(@) ELSE 0]
==============================================================================
