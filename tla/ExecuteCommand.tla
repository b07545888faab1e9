---------------------------- MODULE ExecuteCommand ----------------------------
(***************************************************************************)
(* Engine.ExecuteCommand: a caller adds a command to the queue, possibly   *)
(* under an idempotency key, and may then wait for events that result from *)
(* the command (event observers).  Callers run concurrently on any node.   *)
(* A caller whose call failed may call again with the same key, without    *)
(* knowing whether the failed transaction was committed.                   *)
(*                                                                         *)
(* A message is identified by the caller and its attempt, as every call    *)
(* packs the command in an envelope with a new message ID.  Events are     *)
(* correlated with the message and numbered by their offset in a stream.   *)
(*                                                                         *)
(* The labels of a caller (pc):                                            *)
(*   calling      commandqueue.add() is to be called                       *)
(*   added        it has inserted the command, the commit is next          *)
(*   duplicate    it has found the key taken, the commit is next           *)
(*   failed       the call returned an error                               *)
(*   waiting      in waitForEvents                                         *)
(*   satisfied, unsatisfied   the call returned after waiting              *)
(***************************************************************************)
EXTENDS Naturals, FiniteSets

CONSTANTS
  Caller,
  Key, NoKey,    \* idempotency keys; the empty key
  KeyOf,         \* the key a caller uses
  Stream,        \* the streams that events are appended to
  MaxEvents,     \* bound on the events of one message in one stream
  Satisfying,    \* the <<stream, offset>> at which the observers are satisfied
  Limit,         \* how many events one poll reads
  MaxAttempts,   \* bound on the calls of one caller
  NoMessage, NoCaller

Message == Caller \X (1 .. MaxAttempts)

ASSUME CallAssumption ==
  /\ NoKey \notin Key
  /\ KeyOf \in [Caller -> Key \union {NoKey}]
  /\ MaxEvents \in Nat
  /\ Satisfying \subseteq Stream \X Nat
  /\ Limit \in Nat \ {0}
  /\ MaxAttempts \in Nat \ {0}
  /\ NoMessage \notin Message
  /\ NoCaller \notin Caller

VARIABLES
  keys,      \* commandqueue.idempotency_keys: the message that has a key
  keyLock,   \* whose uncommitted transaction has inserted a key
  commands,  \* the messages ever committed to commandqueue.commands
  recorded,  \* how many events of a message each stream has
  pc, attempt,
  answer     \* actual_message_id, as scanned by the call

vars == <<keys, keyLock, commands, recorded, pc, attempt, answer>>

Own(c) == <<c, attempt[c]>>

Keyed(c) == KeyOf[c] # NoKey

Goto(c, l) == pc' = [pc EXCEPT ![c] = l]

(***************************************************************************)
(* commandqueue.add().  INSERT ... ON CONFLICT DO NOTHING waits for a      *)
(* transaction that has inserted the same key to end.                      *)
(***************************************************************************)
\* Seeded fault: the keys that are not committed yet are not waited for.
AddUnserialised(c) ==
  /\ pc[c] = "calling"
  /\ Keyed(c) => keys[KeyOf[c]] = NoMessage
  /\ keyLock' = IF Keyed(c) THEN [keyLock EXCEPT ![KeyOf[c]] = c] ELSE keyLock
  /\ answer' = [answer EXCEPT ![c] = Own(c)]
  /\ Goto(c, "added")
  /\ UNCHANGED <<keys, commands, recorded, attempt>>

Add(c) ==
  /\ pc[c] = "calling"
  /\ Keyed(c) => keyLock[KeyOf[c]] = NoCaller /\ keys[KeyOf[c]] = NoMessage
  /\ keyLock' = IF Keyed(c) THEN [keyLock EXCEPT ![KeyOf[c]] = c] ELSE keyLock
  /\ answer' = [answer EXCEPT ![c] = Own(c)]
  /\ Goto(c, "added")
  /\ UNCHANGED <<keys, commands, recorded, attempt>>

AddDuplicate(c) ==
  /\ pc[c] = "calling"
  /\ Keyed(c)
  /\ keyLock[KeyOf[c]] = NoCaller /\ keys[KeyOf[c]] # NoMessage
  /\ answer' = [answer EXCEPT ![c] = keys[KeyOf[c]]]
  /\ Goto(c, "duplicate")
  /\ UNCHANGED <<keys, keyLock, commands, recorded, attempt>>

(***************************************************************************)
(* The transaction ends.  Commit applies it; the caller may yet see an     *)
(* error, when the answer to COMMIT is lost, as after a rollback.          *)
(***************************************************************************)
FreeKeys(c) == [k \in Key |-> IF keyLock[k] = c THEN NoCaller ELSE keyLock[k]]

Commit(c) ==
  /\ pc[c] \in {"added", "duplicate"}
  /\ IF pc[c] = "added"
     THEN /\ commands' = commands \union {answer[c]}
          /\ keys' = IF Keyed(c) THEN [keys EXCEPT ![KeyOf[c]] = answer[c]] ELSE keys
          /\ keyLock' = FreeKeys(c)
     ELSE UNCHANGED <<commands, keys, keyLock>>
  /\ Goto(c, "waiting") \/ Goto(c, "failed")
  /\ UNCHANGED <<recorded, attempt, answer>>

Rollback(c) ==
  /\ pc[c] \in {"added", "duplicate"}
  /\ keyLock' = FreeKeys(c)
  /\ Goto(c, "failed")
  /\ UNCHANGED <<keys, commands, recorded, attempt, answer>>

(***************************************************************************)
(* The caller tries again, with a new message.                             *)
(***************************************************************************)
Retry(c) ==
  /\ pc[c] \in {"failed", "unsatisfied"}
  /\ attempt[c] < MaxAttempts
  /\ attempt' = [attempt EXCEPT ![c] = @ + 1]
  /\ answer' = [answer EXCEPT ![c] = NoMessage]
  /\ Goto(c, "calling")
  /\ UNCHANGED <<keys, keyLock, commands, recorded>>

(***************************************************************************)
(* The handlers record events correlated with a queued command.            *)
(***************************************************************************)
Record(m, s) ==
  /\ m \in commands
  /\ recorded[m][s] < MaxEvents
  /\ recorded' = [recorded EXCEPT ![m][s] = @ + 1]
  /\ UNCHANGED <<keys, keyLock, commands, pc, attempt, answer>>

(***************************************************************************)
(* pollForEvents.  waitForEvents declares nextOffsets as a zero value and  *)
(* passes it by value.  A copy of a zero value shares no storage with it,  *)
(* so the offsets that a poll stores in its copy are never seen by the     *)
(* next one: each begins at offset zero of every stream.                   *)
(* The rows come in order of their offsets; which streams' rows come first *)
(* at the same offset is not specified.  A poll that satisfies no observer *)
(* changes nothing.                                                        *)
(***************************************************************************)
NextOffset(s) == 0

Matching(m) == {e \in Stream \X (0 .. MaxEvents - 1) :
                  NextOffset(e[1]) <= e[2] /\ e[2] < recorded[m][e[1]]}

Pages(m) ==
  {p \in SUBSET Matching(m) :
     /\ Cardinality(p) <= Limit
     /\ p # Matching(m) => Cardinality(p) = Limit
     /\ \A e \in p, f \in Matching(m) \ p : e[2] <= f[2]}

\* Seeded fault: every event of the page has to satisfy the observers.
PollAll(c) ==
  /\ pc[c] = "waiting"
  /\ \E p \in Pages(answer[c]) : p # {} /\ p \subseteq Satisfying
  /\ Goto(c, "satisfied")
  /\ UNCHANGED <<keys, keyLock, commands, recorded, attempt, answer>>

Poll(c) ==
  /\ pc[c] = "waiting"
  /\ \E p \in Pages(answer[c]) : p \intersect Satisfying # {}
  /\ Goto(c, "satisfied")
  /\ UNCHANGED <<keys, keyLock, commands, recorded, attempt, answer>>

(***************************************************************************)
(* The context's deadline passes while the caller waits.                   *)
(***************************************************************************)
Timeout(c) ==
  /\ pc[c] = "waiting"
  /\ Goto(c, "unsatisfied")
  /\ UNCHANGED <<keys, keyLock, commands, recorded, attempt, answer>>

Init ==
  /\ keys = [k \in Key |-> NoMessage]
  /\ keyLock = [k \in Key |-> NoCaller]
  /\ commands = {}
  /\ recorded = [m \in Message |-> [s \in Stream |-> 0]]
  /\ pc = [c \in Caller |-> "calling"]
  /\ attempt = [c \in Caller |-> 1]
  /\ answer = [c \in Caller |-> NoMessage]

AddStep(c) == Add(c) \/ AddDuplicate(c) \/ Commit(c)

Next ==
  \/ \E c \in Caller : AddStep(c) \/ Poll(c) \/ Rollback(c) \/ Retry(c) \/ Timeout(c)
  \/ \E m \in Message, s \in Stream : Record(m, s)

Spec == Init /\ [][Next]_vars

(***************************************************************************)
(* A caller that waits polls every 25 milliseconds until its deadline.  It *)
(* is sure to find a satisfying event only if every page has one: which    *)
(* page it gets may be the same each time.                                 *)
(***************************************************************************)
PollSurely(c) ==
  /\ Poll(c)
  /\ \A p \in Pages(answer[c]) : p \intersect Satisfying # {}

FairSpec ==
  /\ Spec
  /\ \A c \in Caller : WF_vars(AddStep(c)) /\ WF_vars(PollSurely(c))

-------------------------------------------------------------------------------

(***************************************************************************)
(* At most one command is ever queued under an idempotency key, however    *)
(* many callers use it at once and however often they call again after an  *)
(* error that hid a commit; and a call that has got past                   *)
(* commandqueue.add() observes a command that is queued, with a key the    *)
(* one queued under that key.                                              *)
(***************************************************************************)
OneCommandPerKey ==
  /\ \A m, n \in commands :
       KeyOf[m[1]] = KeyOf[n[1]] /\ KeyOf[m[1]] # NoKey => m = n
  /\ \A c \in Caller : pc[c] \in {"waiting", "satisfied", "unsatisfied"} =>
       /\ answer[c] \in commands
       /\ Keyed(c) => KeyOf[answer[c][1]] = KeyOf[c] /\ keys[KeyOf[c]] = answer[c]

(***************************************************************************)
(* A caller that waits is told of an event that satisfies its observers    *)
(* once it is recorded, unless its deadline passes first: pollForEvents    *)
(* "observes any events that have occurred since the last observed offset  *)
(* on each stream".                                                        *)
(***************************************************************************)
HasSatisfyingEvent(m) == \E e \in Satisfying : e[2] < recorded[m][e[1]]

ObserverSatisfied ==
  \A c \in Caller :
    pc[c] = "waiting" /\ HasSatisfyingEvent(answer[c])
      ~> pc[c] \in {"satisfied", "unsatisfied"}
===============================================================================
