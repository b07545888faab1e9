---------------------------- MODULE EngineProofs -----------------------------
(***************************************************************************)
(* Proofs about Engine, with its compactors and supervisors, for any       *)
(* engines, applications, callers, delays and bounds.                      *)
(***************************************************************************)
EXTENDS Engine, TLAPS

SupervisorType == [backoff : Nat, delay : Nat, ran : Nat]

HandlersType == [exists : BOOLEAN, age : 0 .. Interval, lock : Engine \union {Unlocked}]

CompactorType == [pc : {"off", "try", "compact", "commit", "sleep", "retry"},
                  timer : Nat, stamp : 0 .. Interval, session : BOOLEAN, sup : SupervisorType]

ServerType == [pc : {"off", "bind", "serve", "retry"}, addr : BOOLEAN, sup : SupervisorType]

AppKeys == {Unbound} \union UNION {Applications[e] : e \in Engine}

EngineType == [pc : {"new", "bind", "start", "listen", "wait", "returned", "crashed"},
               app : AppKeys,
               canceled : BOOLEAN, listenAddr : BOOLEAN, ready : BOOLEAN, stopped : BOOLEAN]

CallerType == [pc : {"select", "recheck", "done"}, late : BOOLEAN]

TypeOK ==
  /\ handlers \in HandlersType
  /\ compactor \in [Engine -> CompactorType]
  /\ faults \in Nat
  /\ engine \in [Engine -> EngineType]
  /\ server \in [Engine -> ServerType]
  /\ caller \in [Caller -> CallerType]

(***************************************************************************)
(* Components run only between StartComponents and the return of Run.      *)
(***************************************************************************)
Started(e) == engine[e].pc \in {"listen", "wait"}

EngineOK(e) ==
  /\ engine[e].pc = "bind" => engine[e].app # Unbound
  /\ engine[e].pc = "start" \/ Started(e) => engine[e].app # Unbound /\ identity = engine[e].app
  /\ ~Started(e) => compactor[e].pc = "off" /\ server[e].pc = "off"
  /\ engine[e].stopped <=> engine[e].pc = "returned"
  /\ engine[e].ready => /\ engine[e].pc \in {"wait", "returned"}
                        /\ e \in Listening => engine[e].listenAddr

(***************************************************************************)
(* A compactor with a live transaction has the row, which is then of an    *)
(* age that nobody else can change, and whoever has the row is one.        *)
(***************************************************************************)
CompactorOK(e) ==
  /\ compactor[e].session => /\ compactor[e].pc \in {"compact", "commit"}
                             /\ handlers.lock = e
                             /\ handlers.exists /\ handlers.age = Interval
  /\ handlers.lock = e => compactor[e].session

(***************************************************************************)
(* A caller between its select and its second look was woken by a latch    *)
(* that is still set.                                                      *)
(***************************************************************************)
CallerOK(c) ==
  caller[c].pc = "recheck" =>
    /\ engine[EngineOf[c]].ready \/ engine[EngineOf[c]].stopped
    /\ caller[c].late => engine[EngineOf[c]].stopped

IInv ==
  /\ TypeOK
  /\ ~handlers.exists => handlers.age = 0
  /\ \A e \in Engine : EngineOK(e) /\ CompactorOK(e)
  /\ \A c \in Caller : CallerOK(c)
-------------------------------------------------------------------------------
(***************************************************************************)
(* The arithmetic of supervisor.Run: a delay is at most the limit for the  *)
(* kind of failure it follows, whatever the backoff was before.            *)
(***************************************************************************)
LEMMA FailedDelay ==
  ASSUME NEW sup \in SupervisorType, NEW class, NEW new \in Failed(sup, class)
  PROVE  new \in SupervisorType /\ new.delay <= Limit(class)
<1>1. Limit(class) \in Nat /\ BaseDelay <= Limit(class) /\ BaseDelay \in Nat
  BY SupervisorAssumption DEF Limit
<1>2. Backoff(sup, class) \in Nat /\ Backoff(sup, class) <= Limit(class)
  BY <1>1 DEF Backoff, SupervisorType
<1>3. PICK d \in Jitter(Backoff(sup, class)) :
        new = [backoff |-> Backoff(sup, class), delay |-> d, ran |-> 0]
  BY DEF Failed
<1>4. d \in Nat /\ d <= Backoff(sup, class)
  BY <1>2 DEF Jitter
<1>. QED
  BY <1>1, <1>2, <1>3, <1>4 DEF SupervisorType

\* An age of the row is between 0 and the interval.
LEMMA IntervalFacts == Interval \in Nat /\ 0 \in 0 .. Interval /\ Interval # 0
  BY CompactorAssumption

\* The passing of time keeps a supervisor's type.
LEMMA SupervisorAgesType ==
  ASSUME NEW sup \in SupervisorType, NEW waits \in BOOLEAN
  PROVE  SupervisorAges(sup, waits) \in SupervisorType
<1>1. /\ [sup EXCEPT !.delay = IF @ > 0 THEN @ - 1 ELSE 0] \in SupervisorType
      /\ [sup EXCEPT !.ran = @ + 1] \in SupervisorType
  BY DEF SupervisorType
<1>2. NewSupervisor \in SupervisorType
  BY DEF SupervisorType, NewSupervisor
<1>3. SupervisorAges(sup, waits) \in
        {[sup EXCEPT !.delay = IF @ > 0 THEN @ - 1 ELSE 0], NewSupervisor, [sup EXCEPT !.ran = @ + 1]}
  BY Zenon DEF SupervisorAges
<1>. QED
  BY <1>1, <1>2, <1>3, Zenon

\* The keys that the database can be bound to.
LEMMA AppKeysFacts == Unbound \in AppKeys /\ \A e \in Engine : Applications[e] \subseteq AppKeys
<1>1. ASSUME NEW e \in Engine, NEW k \in Applications[e] PROVE k \in AppKeys
  <2>1. Applications[e] \in {Applications[d] : d \in Engine}
    OBVIOUS
  <2>. QED
    BY <2>1, Zenon DEF AppKeys
<1>2. Unbound \in AppKeys
  BY DEF AppKeys
<1>. QED
  BY <1>1, <1>2

\* The initial values have their types.
LEMMA NewTypes ==
  /\ NewSupervisor \in SupervisorType
  /\ NoCompactor \in CompactorType
  /\ NewServer \in ServerType
  /\ NewEngine \in EngineType
  /\ NewCaller \in CallerType
<1>1. NewSupervisor \in SupervisorType
  BY DEF NewSupervisor, SupervisorType
<1>2. NoCompactor \in CompactorType
  BY <1>1, CompactorAssumption DEF NoCompactor, CompactorType
<1>3. NewServer \in ServerType
  BY <1>1 DEF NewServer, ServerType
<1>4. NewEngine \in EngineType
  BY AppKeysFacts DEF NewEngine, EngineType
<1>5. NewCaller \in CallerType
  BY DEF NewCaller, CallerType
<1>. QED
  BY <1>1, <1>2, <1>3, <1>4, <1>5

(***************************************************************************)
(* What a step assigns to an engine's compactor, run or server has the     *)
(* right type.                                                             *)
(***************************************************************************)
LEMMA AssignTypes ==
  ASSUME TypeOK, NEW e \in Engine
  PROVE  /\ \A f \in CompactorType : Compacts(e, f) => compactor' \in [Engine -> CompactorType]
         /\ \A f \in EngineType : Moves(e, f) => engine' \in [Engine -> EngineType]
         /\ \A f \in ServerType : Serves(e, f) => server' \in [Engine -> ServerType]
  BY Zenon DEF TypeOK, Compacts, Moves, Serves

\* What a step assigns to one engine leaves the others alone.
LEMMA AssignValues ==
  ASSUME TypeOK, NEW e \in Engine, NEW f
  PROVE  /\ Compacts(e, f) => compactor'[e] = f /\ \A d \in Engine \ {e} : compactor'[d] = compactor[d]
         /\ Moves(e, f) => engine'[e] = f /\ \A d \in Engine \ {e} : engine'[d] = engine[d]
         /\ Serves(e, f) => server'[e] = f /\ \A d \in Engine \ {e} : server'[d] = server[d]
  BY DEF TypeOK, Compacts, Moves, Serves

(***************************************************************************)
(* The end of a transaction frees the row if it had it, and changes        *)
(* nothing else in it.                                                     *)
(***************************************************************************)
LEMMA ReleaseFacts ==
  ASSUME TypeOK, NEW e \in Engine
  PROVE  /\ Release(e) \in HandlersType
         /\ Release(e).lock # e
         /\ Release(e).exists = handlers.exists
         /\ Release(e).age = handlers.age
         /\ \A d \in Engine \ {e} : Release(e).lock = d <=> handlers.lock = d
<1>1. CASE handlers.lock = e
  <2>1. Release(e) = [handlers EXCEPT !.lock = Unlocked]
    BY <1>1 DEF Release
  <2>. QED
    BY <1>1, <2>1, CompactorAssumption DEF TypeOK, HandlersType
<1>2. CASE handlers.lock # e
  BY <1>2 DEF TypeOK, Release
<1>. QED
  BY <1>1, <1>2

(***************************************************************************)
(* initialize() creates the row if it does not exist, and changes nothing  *)
(* otherwise.                                                              *)
(***************************************************************************)
LEMMA InitializedFacts ==
  ASSUME TypeOK
  PROVE  /\ InitializedHandlers \in HandlersType
         /\ InitializedHandlers.exists
         /\ InitializedHandlers.lock = handlers.lock
         /\ handlers.exists => InitializedHandlers.age = handlers.age
<1>1. CASE handlers.exists
  <2>1. InitializedHandlers = [handlers EXCEPT !.exists = TRUE]
    BY <1>1, Zenon DEF InitializedHandlers, TypeOK, HandlersType
  <2>. QED
    BY <1>1, <2>1, Zenon DEF TypeOK, HandlersType
<1>2. CASE ~handlers.exists
  <2>1. InitializedHandlers = [handlers EXCEPT !.exists = TRUE, !.age = 0]
    BY <1>2 DEF InitializedHandlers
  <2>. QED
    <3>1. 0 \in 0 .. Interval
      BY CompactorAssumption
    <3>. QED
      BY <1>2, <2>1, <3>1, Zenon DEF TypeOK, HandlersType
<1>. QED
  BY <1>1, <1>2

\* Engine.Run sets its stopped latch when it returns, and no other.
LEMMA ReturnedType ==
  ASSUME TypeOK, NEW e \in Engine
  PROVE  /\ Returned(e) \in EngineType
         /\ Returned(e).pc = "returned"
         /\ Returned(e).stopped
         /\ Returned(e).ready = engine[e].ready
         /\ Returned(e).listenAddr = engine[e].listenAddr
<1>1. engine[e] \in EngineType
  BY DEF TypeOK
<1>2. Returned(e) \in EngineType
  BY <1>1, AppKeysFacts, Zenon DEF Returned, EngineType
<1>3. Returned(e).pc = "returned" /\ Returned(e).stopped
  BY <1>1, Zenon DEF Returned, EngineType
<1>4. Returned(e).ready = engine[e].ready /\ Returned(e).listenAddr = engine[e].listenAddr
  BY <1>1, Zenon DEF Returned, EngineType
<1>. QED
  BY <1>2, <1>3, <1>4
-------------------------------------------------------------------------------
(***************************************************************************)
(* What a step leaves to an engine that does not take it: its own state,   *)
(* the binding of the database, and the row while it has it.               *)
(***************************************************************************)
RowKept(d) ==
  /\ handlers'.lock = d <=> handlers.lock = d
  /\ handlers.lock = d => handlers'.exists = handlers.exists /\ handlers'.age = handlers.age

(***************************************************************************)
(* An engine that a step leaves alone, with the row as it relies on it, is *)
(* as the invariant says.                                                  *)
(***************************************************************************)
LEMMA OthersOK ==
  ASSUME IInv, NEW d \in Engine,
         engine'[d] = engine[d], compactor'[d] = compactor[d], server'[d] = server[d],
         identity # Unbound => identity' = identity, RowKept(d)
  PROVE  EngineOK(d)' /\ CompactorOK(d)'
<1>1. EngineOK(d)'
  BY DEF IInv, EngineOK, Started
<1>2. CompactorOK(d)'
  BY DEF IInv, CompactorOK, RowKept
<1>. QED
  BY <1>1, <1>2

(***************************************************************************)
(* Callers are not affected as long as latches that are set stay set.      *)
(***************************************************************************)
LEMMA CallersOK ==
  ASSUME IInv, UNCHANGED caller, NEW e \in Engine,
         \A d \in Engine \ {e} : engine'[d] = engine[d],
         engine[e].ready => engine'[e].ready, engine[e].stopped => engine'[e].stopped
  PROVE  \A c \in Caller : CallerOK(c)'
  BY EngineAssumption DEF IInv, CallerOK

(***************************************************************************)
(* What is left to show of a step of engine e, once its effect on the row, *)
(* the binding and e itself is known.                                      *)
(***************************************************************************)
OnlyEngine(e) ==
  \A d \in Engine \ {e} : /\ engine'[d] = engine[d]
                         /\ compactor'[d] = compactor[d]
                         /\ server'[d] = server[d]

RowOK == ~handlers.exists => handlers.age = 0

(***************************************************************************)
(* A step of one engine keeps the invariant if it does so for that engine  *)
(* and keeps the row for the others.                                       *)
(***************************************************************************)
LEMMA StepOfEngine ==
  ASSUME IInv, NEW e \in Engine, TypeOK', RowOK', OnlyEngine(e),
         \A d \in Engine \ {e} : RowKept(d),
         identity # Unbound => identity' = identity,
         EngineOK(e)', CompactorOK(e)', \A c \in Caller : CallerOK(c)'
  PROVE  IInv'
<1>1. ASSUME NEW d \in Engine \ {e} PROVE EngineOK(d)' /\ CompactorOK(d)'
  BY OthersOK DEF OnlyEngine
<1>. QED
  BY <1>1, Zenon DEF IInv, RowOK

(***************************************************************************)
(* A step of Run that changes the engine's own state, and perhaps the      *)
(* binding and the row.                                                    *)
(***************************************************************************)
LEMMA EngineMoves ==
  ASSUME IInv, NEW e \in Engine, NEW f \in EngineType, Moves(e, f),
         UNCHANGED <<compactor, server, caller>>, faults' \in Nat,
         handlers' \in HandlersType, RowOK', \A d \in Engine : RowKept(d),
         identity # Unbound => identity' = identity,
         engine[e].ready => f.ready, engine[e].stopped => f.stopped,
         engine'[e] = f => EngineOK(e)'
  PROVE  IInv'
<1>a. TypeOK /\ CompactorOK(e)
  BY DEF IInv
<1>1. /\ engine' \in [Engine -> EngineType]
      /\ engine'[e] = f
      /\ \A d \in Engine \ {e} : engine'[d] = engine[d]
  BY <1>a, AssignTypes, AssignValues
<1>2. TypeOK'
  BY <1>a, <1>1 DEF TypeOK
<1>3. CompactorOK(e)'
  BY <1>a DEF CompactorOK, RowKept
<1>4. OnlyEngine(e)
  BY <1>1 DEF OnlyEngine
<1>5. \A c \in Caller : CallerOK(c)'
  BY <1>1, CallersOK
<1>. QED
  BY <1>1, <1>2, <1>3, <1>4, <1>5, StepOfEngine, Zenon

(***************************************************************************)
(* A step of a compactor, which runs only while its engine does.           *)
(***************************************************************************)
LEMMA CompactorMoves ==
  ASSUME IInv, NEW e \in Engine, NEW f \in CompactorType, Compacts(e, f),
         compactor[e].pc # "off",
         UNCHANGED <<identity, engine, server, caller>>, faults' \in Nat,
         handlers' \in HandlersType, RowOK', \A d \in Engine \ {e} : RowKept(d),
         compactor'[e] = f => CompactorOK(e)'
  PROVE  IInv'
<1>a. TypeOK /\ EngineOK(e)
  BY DEF IInv
<1>1. /\ compactor' \in [Engine -> CompactorType]
      /\ compactor'[e] = f
      /\ \A d \in Engine \ {e} : compactor'[d] = compactor[d]
  BY <1>a, AssignTypes, AssignValues
<1>2. TypeOK'
  BY <1>a, <1>1 DEF TypeOK
<1>3. EngineOK(e)'
  BY <1>a DEF EngineOK, Started
<1>4. OnlyEngine(e)
  BY <1>1 DEF OnlyEngine
<1>5. \A c \in Caller : CallerOK(c)'
  BY CallersOK
<1>. QED
  BY <1>1, <1>2, <1>3, <1>4, <1>5, StepOfEngine, Zenon

(***************************************************************************)
(* A step of a server that leaves its engine alone.                        *)
(***************************************************************************)
LEMMA ServerMoves ==
  ASSUME IInv, NEW e \in Engine, NEW f \in ServerType, Serves(e, f),
         server[e].pc # "off",
         UNCHANGED <<handlers, compactor, identity, engine, caller>>, faults' \in Nat
  PROVE  IInv'
<1>a. TypeOK /\ EngineOK(e) /\ CompactorOK(e) /\ RowOK
  BY DEF IInv, RowOK
<1>1. /\ server' \in [Engine -> ServerType]
      /\ \A d \in Engine \ {e} : server'[d] = server[d]
  BY <1>a, AssignTypes, AssignValues
<1>2. TypeOK' /\ RowOK'
  BY <1>a, <1>1 DEF TypeOK, RowOK
<1>3. EngineOK(e)' /\ CompactorOK(e)'
  BY <1>a DEF EngineOK, Started, CompactorOK
<1>4. OnlyEngine(e) /\ \A d \in Engine : RowKept(d)
  BY <1>1 DEF OnlyEngine, RowKept
<1>5. \A c \in Caller : CallerOK(c)'
  BY CallersOK
<1>. QED
  BY <1>2, <1>3, <1>4, <1>5, StepOfEngine
-------------------------------------------------------------------------------
(***************************************************************************)
(* The steps of Run.                                                       *)
(***************************************************************************)
LEMMA RowUnchanged ==
  ASSUME IInv, UNCHANGED handlers
  PROVE  handlers' \in HandlersType /\ RowOK' /\ \A d \in Engine : RowKept(d)
  BY DEF IInv, TypeOK, RowOK, RowKept

\* The initialisation of the row takes nothing from any engine.
LEMMA RowInitialized ==
  ASSUME IInv, handlers' = InitializedHandlers
  PROVE  handlers' \in HandlersType /\ RowOK' /\ \A d \in Engine : RowKept(d)
  BY InitializedFacts, Zenon DEF IInv, RowOK, RowKept, CompactorOK

\* Faults are counted in Nat.
LEMMA FaultType ==
  ASSUME TypeOK, Fault \/ UNCHANGED faults
  PROVE  faults' \in Nat
  BY DEF TypeOK, Fault

\* Engine.Run is called.
LEMMA RunIInv ==
  ASSUME IInv, NEW e \in Engine, Run(e)
  PROVE  IInv'
<1>a. TypeOK /\ EngineOK(e) /\ engine[e] \in EngineType
  BY DEF IInv, TypeOK
<1>1. PICK app \in Applications[e] : Moves(e, [engine[e] EXCEPT !.pc = "bind", !.app = app])
  BY Zenon DEF Run
<1> DEFINE f == [engine[e] EXCEPT !.pc = "bind", !.app = app]
<1>2. app \in AppKeys /\ app # Unbound
  BY AppKeysFacts, EngineAssumption
<1>3. f \in EngineType
  BY <1>a, <1>2, Zenon DEF EngineType
<1>4. f.pc = "bind" /\ f.app = app /\ f.stopped = engine[e].stopped /\ f.ready = engine[e].ready
  BY <1>a DEF EngineType
<1> HIDE DEF f
<1>5. engine'[e] = f => EngineOK(e)'
  BY <1>a, <1>2, <1>4 DEF Run, EngineOK, Started
<1>6. Moves(e, f)
  BY <1>1 DEF f
<1>. QED
  BY <1>a, <1>3, <1>4, <1>5, <1>6, EngineMoves, RowUnchanged, FaultType, Zenon DEF Run

\* application.Bind.
LEMMA BindIInv ==
  ASSUME IInv, NEW e \in Engine, Bind(e)
  PROVE  IInv'
<1>a. TypeOK /\ EngineOK(e) /\ engine[e] \in EngineType
  BY DEF IInv, TypeOK
<1> DEFINE g == [engine[e] EXCEPT !.pc = "start"]
           f == IF Bound(e) = engine[e].app THEN g ELSE Returned(e)
<1>1. g \in EngineType
  BY <1>a, Zenon DEF EngineType
<1>2. /\ g.pc = "start" /\ g.app = engine[e].app /\ g.stopped = engine[e].stopped
      /\ g.ready = engine[e].ready
  BY <1>a DEF EngineType
<1> HIDE DEF g
<1>3. f \in EngineType /\ f.ready = engine[e].ready /\ (engine[e].stopped => f.stopped)
  BY <1>a, <1>1, <1>2, ReturnedType
<1>4. identity' = Bound(e) /\ (identity # Unbound => identity' = identity)
  BY DEF Bind, Bound
<1>5. engine'[e] = f => EngineOK(e)'
  BY <1>a, <1>2, <1>4, ReturnedType DEF Bind, EngineOK, Started
<1>6. Moves(e, f)
  BY DEF Bind, g
<1> HIDE DEF f
<1>. QED
  BY <1>a, <1>3, <1>4, <1>5, <1>6, EngineMoves, RowUnchanged, FaultType, Zenon DEF Bind

\* Run fails before it has started its components.
LEMMA StartFailsIInv ==
  ASSUME IInv, NEW e \in Engine, StartFails(e)
  PROVE  IInv'
<1>a. TypeOK /\ EngineOK(e)
  BY DEF IInv
<1>1. Moves(e, Returned(e)) /\ UNCHANGED <<compactor, server, caller>> /\ engine[e].pc \in {"bind", "start"}
  BY DEF StartFails
<1>2. identity # Unbound => identity' = identity
  BY DEF StartFails, Bound
<1>3. handlers' \in HandlersType /\ RowOK' /\ \A d \in Engine : RowKept(d)
  BY RowUnchanged, RowInitialized DEF StartFails
<1>4. faults' \in Nat
  BY <1>a, FaultType DEF StartFails
<1>5. engine'[e] = Returned(e) => EngineOK(e)'
  BY <1>a, <1>1, ReturnedType DEF EngineOK, Started
<1>. QED
  BY <1>a, <1>1, <1>2, <1>3, <1>4, <1>5, ReturnedType, EngineMoves, Zenon

\* Run learns the address of its server and is ready.
LEMMA AwaitListenAddrIInv ==
  ASSUME IInv, NEW e \in Engine, AwaitListenAddr(e)
  PROVE  IInv'
<1>a. TypeOK /\ EngineOK(e) /\ engine[e] \in EngineType
  BY DEF IInv, TypeOK
<1>1. ASSUME NEW f \in {[engine[e] EXCEPT !.pc = "wait", !.listenAddr = TRUE, !.ready = TRUE],
                      [engine[e] EXCEPT !.pc = "wait"]}, Moves(e, f)
      PROVE  IInv'
  <2>1. f \in EngineType
    BY <1>a, <1>1, Zenon DEF EngineType
  <2>2. /\ f.pc = "wait" /\ f.app = engine[e].app /\ f.stopped = engine[e].stopped
        /\ engine[e].ready => f.ready
        /\ f.ready => f.listenAddr
    BY <1>a, <1>1, Zenon DEF EngineType, EngineOK, AwaitListenAddr
  <2>3. engine'[e] = f => EngineOK(e)'
    BY <1>a, <2>2 DEF AwaitListenAddr, EngineOK, Started
  <2>. QED
    BY <1>a, <1>1, <2>1, <2>2, <2>3, EngineMoves, RowUnchanged, FaultType, Zenon DEF AwaitListenAddr
<1>. QED
  BY <1>1 DEF AwaitListenAddr

\* The context of Run is canceled.
LEMMA CancelIInv ==
  ASSUME IInv, NEW e \in Engine, Cancel(e)
  PROVE  IInv'
<1>a. TypeOK /\ EngineOK(e) /\ engine[e] \in EngineType
  BY DEF IInv, TypeOK
<1> DEFINE f == [engine[e] EXCEPT !.canceled = TRUE]
<1>1. f \in EngineType
  BY <1>a, Zenon DEF EngineType
<1>2. /\ f.pc = engine[e].pc /\ f.app = engine[e].app /\ f.stopped = engine[e].stopped
      /\ f.ready = engine[e].ready /\ f.listenAddr = engine[e].listenAddr
  BY <1>a, Zenon DEF EngineType
<1> HIDE DEF f
<1>3. engine'[e] = f => EngineOK(e)'
  BY <1>a, <1>2, Zenon DEF Cancel, EngineOK, Started
<1>4. Moves(e, f)
  BY DEF Cancel, f
<1>. QED
  BY <1>a, <1>1, <1>2, <1>3, <1>4, EngineMoves, RowUnchanged, FaultType, Zenon DEF Cancel

\* Run returns once its group has.
LEMMA RunReturnsIInv ==
  ASSUME IInv, NEW e \in Engine, RunReturns(e)
  PROVE  IInv'
<1>a. TypeOK /\ EngineOK(e)
  BY DEF IInv
<1>1. engine'[e] = Returned(e) => EngineOK(e)'
  BY <1>a, ReturnedType DEF RunReturns, EngineOK, Started
<1>. QED
  BY <1>a, <1>1, ReturnedType, EngineMoves, RowUnchanged, FaultType, Zenon DEF RunReturns

\* An engine is started again by a new process.
LEMMA RestartIInv ==
  ASSUME IInv, NEW e \in Engine, Restart(e)
  PROVE  IInv'
<1>a. TypeOK /\ EngineOK(e)
  BY DEF IInv
<1>1. ~engine[e].ready /\ ~engine[e].stopped
  BY <1>a DEF Restart, EngineOK
<1>2. engine'[e] = NewEngine => EngineOK(e)'
  BY <1>a DEF Restart, EngineOK, Started, NewEngine
<1>. QED
  BY <1>a, <1>1, <1>2, NewTypes, EngineMoves, RowUnchanged, FaultType, Zenon DEF Restart

\* Run starts the compactor and the server.
LEMMA StartComponentsIInv ==
  ASSUME IInv, NEW e \in Engine, StartComponents(e)
  PROVE  IInv'
<1>a. TypeOK /\ EngineOK(e) /\ CompactorOK(e) /\ engine[e] \in EngineType
  BY DEF IInv, TypeOK
<1> DEFINE c == [NoCompactor EXCEPT !.pc = "try"]
           v == IF e \in Listening THEN [NewServer EXCEPT !.pc = "bind"] ELSE server[e]
           f == IF e \in Listening THEN [engine[e] EXCEPT !.pc = "listen"]
                ELSE [engine[e] EXCEPT !.pc = "wait", !.ready = TRUE]
<1>1. c \in CompactorType /\ ~c.session
  BY NewTypes, Zenon DEF CompactorType, NoCompactor
<1>2. compactor' \in [Engine -> CompactorType] /\ compactor'[e] = c
      /\ \A d \in Engine \ {e} : compactor'[d] = compactor[d]
  BY <1>a, <1>1, AssignTypes, AssignValues, Zenon DEF StartComponents
<1>3. [NewServer EXCEPT !.pc = "bind"] \in ServerType
  BY NewTypes, Zenon DEF ServerType
<1>4. server' \in [Engine -> ServerType] /\ \A d \in Engine \ {e} : server'[d] = server[d]
  BY <1>a, <1>3, AssignTypes, AssignValues, Zenon DEF StartComponents, TypeOK
<1>5. f \in EngineType
  BY <1>a, Zenon DEF EngineType
<1>6. engine' \in [Engine -> EngineType] /\ engine'[e] = f
      /\ \A d \in Engine \ {e} : engine'[d] = engine[d]
  BY <1>a, <1>5, AssignTypes, AssignValues, Zenon DEF StartComponents
<1>7. /\ f.pc \in {"listen", "wait"} /\ f.app = engine[e].app /\ f.stopped = engine[e].stopped
      /\ engine[e].ready => f.ready
      /\ f.ready => f.pc = "wait" /\ e \notin Listening
  <2>1. ~engine[e].ready
    BY <1>a DEF StartComponents, EngineOK
  <2>. QED
    BY <1>a, <2>1 DEF EngineType
<1> HIDE DEF f, c
<1>8. handlers' \in HandlersType /\ RowOK' /\ \A d \in Engine : RowKept(d)
  BY RowInitialized DEF StartComponents
<1>9. TypeOK'
  BY <1>a, <1>2, <1>4, <1>6, <1>8, Zenon DEF TypeOK, StartComponents
<1>10. EngineOK(e)'
  BY <1>a, <1>6, <1>7 DEF StartComponents, EngineOK, Started
<1>11. CompactorOK(e)'
  <2>1. ~compactor[e].session /\ handlers.lock # e
    BY <1>a DEF StartComponents, EngineOK, CompactorOK, Started
  <2>. QED
    BY <1>1, <1>2, <1>8, <2>1 DEF CompactorOK, RowKept
<1>12. OnlyEngine(e)
  BY <1>2, <1>4, <1>6 DEF OnlyEngine
<1>13. \A b \in Caller : CallerOK(b)'
  BY <1>6, <1>7, CallersOK DEF StartComponents
<1>. QED
  BY <1>8, <1>9, <1>10, <1>11, <1>12, <1>13, StepOfEngine, Zenon DEF StartComponents

\* Giving up the lock of one engine takes nothing from the others.
LEMMA RowReleased ==
  ASSUME IInv, NEW e \in Engine, handlers' = Release(e)
  PROVE  /\ handlers' \in HandlersType /\ RowOK'
         /\ \A d \in Engine \ {e} : RowKept(d)
         /\ handlers'.lock # e
  BY ReleaseFacts DEF IInv, RowOK, RowKept

\* The process of an engine ends.
LEMMA CrashIInv ==
  ASSUME IInv, NEW e \in Engine, Crash(e)
  PROVE  IInv'
<1>a. TypeOK /\ EngineOK(e)
  BY DEF IInv
<1>b. engine[e].pc # "crashed"
  BY DEF Crash, Alive
<1>1. compactor' \in [Engine -> CompactorType] /\ compactor'[e] = NoCompactor
      /\ \A d \in Engine \ {e} : compactor'[d] = compactor[d]
  BY <1>a, NewTypes, AssignTypes, AssignValues, Zenon DEF Crash
<1>2. server' \in [Engine -> ServerType] /\ server'[e] = NewServer
      /\ \A d \in Engine \ {e} : server'[d] = server[d]
  BY <1>a, NewTypes, AssignTypes, AssignValues, Zenon DEF Crash
<1> DEFINE f == [NewEngine EXCEPT !.pc = "crashed"]
<1>3. f \in EngineType
  BY NewTypes, Zenon DEF EngineType
<1>4. f.pc = "crashed" /\ ~f.stopped /\ ~f.ready
  BY DEF NewEngine
<1> HIDE DEF f
<1>5. engine' \in [Engine -> EngineType] /\ engine'[e] = f
      /\ \A d \in Engine \ {e} : engine'[d] = engine[d]
  <2>1. Moves(e, f)
    BY DEF Crash, f
  <2>. QED
    BY <1>a, <1>3, <2>1, AssignTypes, AssignValues, Zenon
<1>6. caller' \in [Caller -> CallerType]
  BY <1>a, NewTypes DEF Crash, TypeOK
<1>7. TypeOK'
  BY <1>a, <1>1, <1>2, <1>5, <1>6, RowReleased, FaultType, Zenon DEF TypeOK, Crash
<1>8. EngineOK(e)'
  BY <1>1, <1>2, <1>4, <1>5 DEF EngineOK, Started, NoCompactor, NewServer
<1>9. CompactorOK(e)'
  BY <1>1, RowReleased DEF Crash, CompactorOK, NoCompactor
<1>10. OnlyEngine(e)
  BY <1>1, <1>2, <1>5 DEF OnlyEngine
<1>11. ASSUME NEW c \in Caller PROVE CallerOK(c)'
  <2>1. CASE EngineOf[c] = e
    BY <2>1 DEF Crash, CallerOK, NewCaller
  <2>2. CASE EngineOf[c] # e
    <3>1. engine'[EngineOf[c]] = engine[EngineOf[c]] /\ caller'[c] = caller[c]
      BY <1>5, <2>2, EngineAssumption DEF Crash
    <3>. QED
      BY <3>1 DEF IInv, CallerOK
  <2>. QED
    BY <2>1, <2>2
<1>. QED
  BY <1>7, <1>8, <1>9, <1>10, <1>11, RowReleased, StepOfEngine, Zenon DEF Crash
-------------------------------------------------------------------------------
(***************************************************************************)
(* The steps of a compactor.                                               *)
(***************************************************************************)
Quiet == UNCHANGED <<identity, engine, server, caller>>

\* tryCompact locks the row if the interval is over and nobody else has it.
LEMMA TryCompactIInv ==
  ASSUME IInv, NEW e \in Engine, TryCompact(e), Quiet
  PROVE  IInv'
<1>a. TypeOK /\ CompactorOK(e) /\ RowOK /\ compactor[e] \in CompactorType
  BY DEF IInv, TypeOK, RowOK
<1>b. ~compactor[e].session /\ faults' \in Nat /\ compactor[e].pc # "off"
  BY <1>a DEF TryCompact, CompactorOK, TypeOK
<1>1. CASE handlers.age >= Interval /\ handlers.lock = Unlocked
  <2> DEFINE f == [compactor[e] EXCEPT !.pc = "compact", !.session = TRUE]
  <2>1. f \in CompactorType
    BY <1>a, Zenon DEF CompactorType
  <2>2. f.pc = "compact" /\ f.session
    BY <1>a DEF CompactorType
  <2> HIDE DEF f
  <2>3. Compacts(e, f)
    BY <1>1 DEF TryCompact, f
  <2>4. handlers.age = Interval /\ handlers.exists
    BY <1>a, <1>1, CompactorAssumption DEF RowOK, TypeOK, HandlersType
  <2>5. /\ handlers' \in HandlersType
        /\ handlers'.lock = e /\ handlers'.age = handlers.age /\ handlers'.exists = handlers.exists
    BY <1>a, <1>1 DEF TryCompact, TypeOK, HandlersType
  <2>6. RowOK' /\ \A d \in Engine \ {e} : RowKept(d)
    BY <1>a, <1>1, <2>5, CompactorAssumption DEF RowOK, RowKept
  <2>7. compactor'[e] = f => CompactorOK(e)'
    BY <2>2, <2>4, <2>5 DEF CompactorOK
  <2>. QED
    BY <1>b, <2>1, <2>3, <2>5, <2>6, <2>7, CompactorMoves, Zenon DEF Quiet
<1>2. CASE ~(handlers.age >= Interval /\ handlers.lock = Unlocked)
  <2> DEFINE f == [compactor[e] EXCEPT !.pc = "sleep", !.timer = Interval]
  <2>1. f \in CompactorType
    BY <1>a, CompactorAssumption, Zenon DEF CompactorType
  <2>2. ~f.session
    BY <1>a, <1>b DEF CompactorType
  <2> HIDE DEF f
  <2>3. Compacts(e, f) /\ UNCHANGED handlers
    BY <1>2 DEF TryCompact, f
  <2>4. compactor'[e] = f => CompactorOK(e)'
    BY <1>a, <1>b, <2>2, <2>3 DEF CompactorOK
  <2>. QED
    BY <1>b, <2>1, <2>3, <2>4, RowUnchanged, CompactorMoves, Zenon DEF Quiet
<1>. QED
  BY <1>1, <1>2

\* The compactor is due again.
LEMMA CompactAgainIInv ==
  ASSUME IInv, NEW e \in Engine, CompactAgain(e), Quiet
  PROVE  IInv'
<1>a. TypeOK /\ CompactorOK(e) /\ compactor[e] \in CompactorType
  BY DEF IInv, TypeOK
<1>b. ~compactor[e].session /\ faults' \in Nat /\ compactor[e].pc # "off" /\ UNCHANGED handlers
  BY <1>a DEF CompactAgain, CompactorOK, TypeOK
<1> DEFINE f == [compactor[e] EXCEPT !.pc = "try"]
<1>1. f \in CompactorType
  BY <1>a, Zenon DEF CompactorType
<1>2. ~f.session
  BY <1>a, <1>b DEF CompactorType
<1> HIDE DEF f
<1>3. compactor'[e] = f => CompactorOK(e)'
  BY <1>a, <1>b, <1>2 DEF CompactorOK
<1>4. Compacts(e, f)
  BY DEF CompactAgain, f
<1>. QED
  BY <1>b, <1>1, <1>3, <1>4, RowUnchanged, CompactorMoves, Zenon DEF Quiet

\* The handler's Compact returns.
LEMMA CompactReturnsIInv ==
  ASSUME IInv, NEW e \in Engine, CompactReturns(e), Quiet
  PROVE  IInv'
<1>a. TypeOK /\ CompactorOK(e) /\ compactor[e] \in CompactorType
  BY DEF IInv, TypeOK
<1>b. faults' \in Nat /\ compactor[e].pc # "off" /\ UNCHANGED handlers
  BY <1>a DEF CompactReturns, TypeOK
<1> DEFINE f == [compactor[e] EXCEPT !.pc = "commit", !.stamp = 0]
<1>1. f \in CompactorType
  BY <1>a, IntervalFacts, Zenon DEF CompactorType
<1>2. f.session = compactor[e].session /\ f.pc = "commit"
  BY <1>a DEF CompactorType
<1> HIDE DEF f
<1>3. compactor'[e] = f => CompactorOK(e)'
  BY <1>a, <1>b, <1>2 DEF CompactorOK
<1>4. Compacts(e, f)
  BY DEF CompactReturns, f
<1>. QED
  BY <1>b, <1>1, <1>3, <1>4, RowUnchanged, CompactorMoves, Zenon DEF Quiet

(***************************************************************************)
(* A commit writes the row that its transaction has locked.                *)
(***************************************************************************)
LEMMA RowStamped ==
  ASSUME IInv, NEW e \in Engine, compactor[e].session,
         handlers' = [Release(e) EXCEPT !.age = compactor[e].stamp]
  PROVE  /\ handlers' \in HandlersType /\ RowOK'
         /\ \A d \in Engine \ {e} : RowKept(d)
         /\ handlers'.lock # e
<1>a. TypeOK /\ CompactorOK(e) /\ compactor[e] \in CompactorType
  BY DEF IInv, TypeOK
<1>1. Release(e) \in HandlersType /\ Release(e).lock # e /\ Release(e).exists
  BY <1>a, ReleaseFacts DEF CompactorOK
<1>2. handlers' \in HandlersType
  BY <1>a, <1>1, Zenon DEF HandlersType, CompactorType
<1>3. handlers'.lock = Release(e).lock /\ handlers'.exists = Release(e).exists
  BY <1>1, Zenon DEF HandlersType
<1>4. handlers.lock = e
  BY <1>a DEF CompactorOK
<1>. QED
  BY <1>a, <1>1, <1>2, <1>3, <1>4, ReleaseFacts DEF RowOK, RowKept

\* The transaction of a compaction commits.
LEMMA CommitCompactionIInv ==
  ASSUME IInv, NEW e \in Engine, CommitCompaction(e), Quiet
  PROVE  IInv'
<1>a. TypeOK /\ compactor[e] \in CompactorType
  BY DEF IInv, TypeOK
<1>b. faults' \in Nat /\ compactor[e].pc # "off"
  BY <1>a DEF CommitCompaction, TypeOK
<1>c. handlers' \in HandlersType /\ RowOK' /\ (\A d \in Engine \ {e} : RowKept(d)) /\ handlers'.lock # e
  BY RowStamped DEF CommitCompaction
<1> DEFINE f == [compactor[e] EXCEPT !.pc = "sleep", !.timer = Interval, !.stamp = 0, !.session = FALSE]
<1>1. f \in CompactorType
  BY <1>a, IntervalFacts, Zenon DEF CompactorType
<1>2. ~f.session
  BY <1>a DEF CompactorType
<1> HIDE DEF f
<1>3. compactor'[e] = f => CompactorOK(e)'
  BY <1>c, <1>2 DEF CompactorOK
<1>4. Compacts(e, f)
  BY DEF CommitCompaction, f
<1>. QED
  BY <1>b, <1>c, <1>1, <1>3, <1>4, CompactorMoves, Zenon DEF Quiet

\* The session with the database is lost, and its lock with it.
LEMMA SessionLostIInv ==
  ASSUME IInv, NEW e \in Engine, SessionLost(e), Quiet
  PROVE  IInv'
<1>a. TypeOK /\ CompactorOK(e) /\ compactor[e] \in CompactorType
  BY DEF IInv, TypeOK
<1>b. faults' \in Nat /\ compactor[e].pc # "off"
  BY <1>a, FaultType DEF SessionLost, CompactorOK
<1> DEFINE f == [compactor[e] EXCEPT !.session = FALSE]
<1>1. f \in CompactorType
  BY <1>a, Zenon DEF CompactorType
<1>2. ~f.session
  BY <1>a DEF CompactorType
<1> HIDE DEF f
<1>3. compactor'[e] = f => CompactorOK(e)'
  BY <1>2, RowReleased DEF CompactorOK, SessionLost
<1>4. Compacts(e, f)
  BY DEF SessionLost, f
<1>. QED
  BY <1>b, <1>1, <1>3, <1>4, RowReleased, CompactorMoves, Zenon DEF Quiet, SessionLost

(***************************************************************************)
(* An attempt ends without the row, and the supervisor waits.              *)
(***************************************************************************)
LEMMA RetryIInv ==
  ASSUME IInv, NEW e \in Engine, Quiet, compactor[e].pc # "off", faults' \in Nat,
         NEW class, NEW sup \in Failed(compactor[e].sup, class),
         Compacts(e, [NoCompactor EXCEPT !.pc = "retry", !.sup = sup]),
         handlers' \in HandlersType, RowOK', \A d \in Engine \ {e} : RowKept(d), handlers'.lock # e
  PROVE  IInv'
<1>1. sup \in SupervisorType
  BY FailedDelay, Zenon DEF IInv, TypeOK, CompactorType
<1> DEFINE f == [NoCompactor EXCEPT !.pc = "retry", !.sup = sup]
<1>2. f \in CompactorType
  BY <1>1, NewTypes, Zenon DEF CompactorType
<1>3. ~f.session
  BY DEF NoCompactor
<1> HIDE DEF f
<1>4. compactor'[e] = f => CompactorOK(e)'
  BY <1>3 DEF CompactorOK
<1>5. Compacts(e, f)
  BY DEF f
<1>. QED
  BY <1>2, <1>4, <1>5, CompactorMoves, Zenon DEF Quiet

\* An attempt to compact fails and the supervisor waits.
LEMMA RetriesIInv ==
  ASSUME IInv, NEW e \in Engine, Quiet, compactor[e].pc # "off", faults' \in Nat,
         NEW class, Retries(e, class)
  PROVE  IInv'
<1>1. PICK sup \in Failed(compactor[e].sup, class) :
        Compacts(e, [NoCompactor EXCEPT !.pc = "retry", !.sup = sup])
  BY Zenon DEF Retries
<1>. QED
  BY <1>1, RowReleased, RetryIInv, Zenon DEF Retries

\* A commit takes place, but its engine sees an error.
LEMMA CommitAnswerLostIInv ==
  ASSUME IInv, NEW e \in Engine, CommitAnswerLost(e), Quiet
  PROVE  IInv'
<1>1. PICK sup \in Failed(compactor[e].sup, "transient") :
        Compacts(e, [NoCompactor EXCEPT !.pc = "retry", !.sup = sup])
  BY Zenon DEF CommitAnswerLost
<1>2. compactor[e].pc # "off" /\ faults' \in Nat
  BY FaultType DEF CommitAnswerLost, IInv
<1>. QED
  BY <1>1, <1>2, RowStamped, RetryIInv, Zenon DEF CommitAnswerLost

\* A canceled compactor returns.
LEMMA CompactorReturnsIInv ==
  ASSUME IInv, NEW e \in Engine, CompactorReturns(e), Quiet
  PROVE  IInv'
<1>1. faults' \in Nat
  BY DEF CompactorReturns, IInv, TypeOK
<1>2. compactor'[e] = NoCompactor => CompactorOK(e)'
  BY RowReleased DEF CompactorReturns, CompactorOK, NoCompactor
<1>. QED
  BY <1>1, <1>2, NewTypes, RowReleased, CompactorMoves, Zenon DEF CompactorReturns, Quiet

\* Every step and fault of a compactor keeps the invariant.
LEMMA CompactorIInv ==
  ASSUME IInv, NEW e \in Engine, CompactorStep(e) \/ CompactorFault(e)
  PROVE  IInv'
<1>q. Quiet
  BY DEF CompactorStep, CompactorFault, Quiet
<1>t. TypeOK
  BY DEF IInv
<1>1. ASSUME CompactionFails(e) PROVE IInv'
  <2>1. compactor[e].pc # "off" /\ faults' \in Nat
    BY <1>1, <1>t, FaultType DEF CompactionFails, TypeOK
  <2>. QED
    BY <1>1, <1>q, <2>1, RetriesIInv, Zenon DEF CompactionFails
<1>2. ASSUME SessionLossNoticed(e) PROVE IInv'
  <2>1. compactor[e].pc # "off" /\ faults' \in Nat
    BY <1>2, <1>t DEF SessionLossNoticed, TypeOK
  <2>. QED
    BY <1>2, <1>q, <2>1, RetriesIInv, Zenon DEF SessionLossNoticed
<1>. QED
  BY <1>q, <1>1, <1>2, TryCompactIInv, CompactAgainIInv, CompactReturnsIInv, CommitCompactionIInv,
     SessionLostIInv, CommitAnswerLostIInv, CompactorReturnsIInv, Zenon DEF CompactorStep, CompactorFault
-------------------------------------------------------------------------------
(***************************************************************************)
(* The steps of a server, of callers, and of time.                         *)
(***************************************************************************)
LEMMA ServerRetriesIInv ==
  ASSUME IInv, NEW e \in Engine, ServerRetries(e), server[e].pc # "off", faults' \in Nat,
         UNCHANGED <<handlers, compactor, identity, engine, caller>>
  PROVE  IInv'
<1>1. PICK sup \in Failed(server[e].sup, "transient") :
        Serves(e, [server[e] EXCEPT !.pc = "retry", !.sup = sup])
  BY Zenon DEF ServerRetries
<1>2. server[e] \in ServerType
  BY DEF IInv, TypeOK
<1>3. sup \in SupervisorType
  BY <1>2, FailedDelay, Zenon DEF ServerType
<1>4. [server[e] EXCEPT !.pc = "retry", !.sup = sup] \in ServerType
  BY <1>2, <1>3, Zenon DEF ServerType
<1>. QED
  BY <1>1, <1>4, ServerMoves, Zenon

(***************************************************************************)
(* Every step and fault of a server but its first failure keeps the        *)
(* invariant.                                                              *)
(***************************************************************************)
LEMMA ServerIInv ==
  ASSUME IInv, NEW e \in Engine, ServerStep(e) \/ ServeFails(e)
  PROVE  IInv'
<1>a. TypeOK /\ server[e] \in ServerType
  BY DEF IInv, TypeOK
<1>1. ASSUME NEW f \in {[server[e] EXCEPT !.pc = "serve", !.addr = TRUE],
                      [server[e] EXCEPT !.pc = "bind"], [server[e] EXCEPT !.pc = "off"]}
      PROVE  f \in ServerType
  BY <1>a, <1>1, Zenon DEF ServerType
<1>2. ASSUME ServeFails(e) PROVE IInv'
  <2>1. server[e].pc # "off" /\ faults' \in Nat
    BY <1>2, <1>a, FaultType DEF ServeFails
  <2>. QED
    BY <1>2, <2>1, ServerRetriesIInv DEF ServeFails
<1>3. ASSUME Listen(e) PROVE IInv'
  <2>1. server[e].pc # "off" /\ faults' \in Nat
    BY <1>3, <1>a DEF Listen, TypeOK
  <2>. QED
    BY <1>1, <1>3, <2>1, ServerMoves, Zenon DEF Listen
<1>4. ASSUME ListenAgain(e) PROVE IInv'
  <2>1. server[e].pc # "off" /\ faults' \in Nat
    BY <1>4, <1>a DEF ListenAgain, TypeOK
  <2>. QED
    BY <1>1, <1>4, <2>1, ServerMoves, Zenon DEF ListenAgain
<1>5. ASSUME ServerReturns(e) PROVE IInv'
  <2>1. server[e].pc # "off" /\ faults' \in Nat
    BY <1>5, <1>a DEF ServerReturns, TypeOK
  <2>. QED
    BY <1>1, <1>5, <2>1, ServerMoves, Zenon DEF ServerReturns
<1>. QED
  BY <1>2, <1>3, <1>4, <1>5 DEF ServerStep

\* The first attempt to listen fails, which cancels the group.
LEMMA ListenFailsIInv ==
  ASSUME IInv, NEW e \in Engine, ListenFails(e)
  PROVE  IInv'
<1>a. TypeOK /\ EngineOK(e) /\ CompactorOK(e) /\ RowOK /\ faults' \in Nat
  BY FaultType DEF IInv, RowOK, ListenFails
<1>b. server[e] \in ServerType /\ engine[e] \in EngineType
  BY <1>a DEF TypeOK
<1>1. CASE server[e].addr
  <2>1. server[e].pc # "off"
    BY DEF ListenFails
  <2>. QED
    BY <1>a, <1>1, <2>1, ServerRetriesIInv DEF ListenFails
<1>2. CASE ~server[e].addr
  <2> DEFINE f == [engine[e] EXCEPT !.canceled = TRUE]
             v == [server[e] EXCEPT !.pc = "off"]
  <2>1. f \in EngineType /\ v \in ServerType
    BY <1>b, Zenon DEF EngineType, ServerType
  <2>2. /\ f.pc = engine[e].pc /\ f.app = engine[e].app /\ f.stopped = engine[e].stopped
        /\ f.ready = engine[e].ready /\ f.listenAddr = engine[e].listenAddr
    BY <1>b, Zenon DEF EngineType
  <2>3. Moves(e, f) /\ Serves(e, v) /\ UNCHANGED <<handlers, compactor, identity, caller>>
    BY <1>2 DEF ListenFails
  <2>4. v.pc = "off"
    BY <1>b DEF ServerType
  <2> HIDE DEF f, v
  <2>5. engine' \in [Engine -> EngineType] /\ server' \in [Engine -> ServerType]
    BY <1>a, <2>1, <2>3, AssignTypes, Zenon
  <2>6. engine'[e] = f /\ server'[e] = v /\ OnlyEngine(e)
    BY <1>a, <2>3, AssignValues DEF OnlyEngine
  <2>7. TypeOK'
    BY <1>a, <2>3, <2>5, SMTT(30) DEF TypeOK
  <2>8. EngineOK(e)'
    BY <1>a, <2>2, <2>3, <2>4, <2>6 DEF EngineOK, Started
  <2>9. CompactorOK(e)' /\ RowOK' /\ \A d \in Engine : RowKept(d)
    BY <1>a, <2>3 DEF CompactorOK, RowOK, RowKept
  <2>10. \A c \in Caller : CallerOK(c)'
    BY <2>2, <2>3, <2>6, CallersOK DEF OnlyEngine
  <2>. QED
    BY <2>3, <2>6, <2>7, <2>8, <2>9, <2>10, StepOfEngine
<1>. QED
  BY <1>1, <1>2

\* Every step of a caller of waitUntilReady keeps the invariant.
LEMMA CallerIInv ==
  ASSUME IInv, NEW c \in Caller, Select(c) \/ GiveUp(c) \/ Recheck(c)
  PROVE  IInv'
<1>a. TypeOK /\ EngineOf[c] \in Engine
  BY EngineAssumption DEF IInv
<1>1. UNCHANGED <<handlers, compactor, faults, identity, engine, server>>
  BY DEF Select, GiveUp, Recheck
<1>2. ASSUME Select(c) PROVE caller' \in [Caller -> CallerType] /\ CallerOK(c)'
  <2>1. [pc |-> "recheck", late |-> engine[EngineOf[c]].stopped] \in CallerType
    BY <1>a DEF TypeOK, CallerType, EngineType
  <2>. QED
    BY <1>a, <1>2, <2>1 DEF Select, TypeOK, CallerOK
<1>3. ASSUME Recheck(c) PROVE caller' \in [Caller -> CallerType] /\ CallerOK(c)'
  <2>1. Answered(~engine[EngineOf[c]].stopped) \in CallerType
    BY Zenon DEF Answered, CallerType, NewCaller
  <2>2. Answered(~engine[EngineOf[c]].stopped).pc # "recheck"
    BY DEF Answered, NewCaller
  <2>. QED
    BY <1>a, <1>3, <2>1, <2>2 DEF Recheck, TypeOK, CallerOK
<1>4. ASSUME NEW b \in Caller, b # c PROVE CallerOK(b)'
  <2>1. caller'[b] = caller[b]
    BY <1>a, <1>4 DEF Select, GiveUp, Recheck, TypeOK
  <2>. QED
    BY <1>1, <2>1 DEF IInv, CallerOK
<1>5. ASSUME GiveUp(c) PROVE caller' \in [Caller -> CallerType] /\ CallerOK(c)'
  <2>1. [NewCaller EXCEPT !.pc = "done"] \in CallerType
    BY Zenon DEF CallerType, NewCaller
  <2>2. [NewCaller EXCEPT !.pc = "done"].pc = "done"
    BY DEF NewCaller
  <2>. QED
    BY <1>a, <1>5, <2>1, <2>2 DEF GiveUp, TypeOK, CallerOK
<1>6. TypeOK'
  BY <1>a, <1>1, <1>2, <1>3, <1>5 DEF TypeOK
<1>7. \A e \in Engine : EngineOK(e)' /\ CompactorOK(e)'
  BY <1>1 DEF IInv, EngineOK, Started, CompactorOK
<1>8. RowOK'
  BY <1>1 DEF IInv, RowOK
<1>. QED
  BY <1>2, <1>3, <1>4, <1>5, <1>6, <1>7, <1>8 DEF IInv, RowOK

\* The passing of time keeps the types.
LEMMA AgesType ==
  ASSUME NEW c \in CompactorType
  PROVE  /\ CompactorAges(c) \in CompactorType
         /\ CompactorAges(c).pc = c.pc
         /\ CompactorAges(c).session = c.session
<1>1. c.timer \in Nat /\ c.stamp \in 0 .. Interval /\ c.sup \in SupervisorType
  BY DEF CompactorType
<1> DEFINE timer == IF c.timer > 0 THEN c.timer - 1 ELSE 0
           stamp == IF c.pc = "commit" THEN Older(c.stamp) ELSE 0
           sup == IF c.pc = "off" THEN c.sup ELSE SupervisorAges(c.sup, c.pc = "retry")
<1>2. timer \in Nat
  BY <1>1
<1>3. stamp \in 0 .. Interval
  BY <1>1, CompactorAssumption DEF Older
<1>4. sup \in SupervisorType
  BY <1>1, SupervisorAgesType, Zenon
<1>5. CompactorAges(c) = [c EXCEPT !.timer = timer, !.stamp = stamp, !.sup = sup]
  BY DEF CompactorAges
<1> HIDE DEF timer, stamp, sup
<1>. QED
  BY <1>2, <1>3, <1>4, <1>5, Zenon DEF CompactorType

\* The row's age grows up to the interval; nothing else of it changes.
LEMMA HandlersAgeFacts ==
  ASSUME IInv
  PROVE  /\ HandlersAge \in HandlersType
         /\ HandlersAge.lock = handlers.lock /\ HandlersAge.exists = handlers.exists
         /\ ~handlers.exists => HandlersAge.age = 0
         /\ handlers.exists /\ handlers.age = Interval => HandlersAge.age = Interval
<1>a. handlers \in HandlersType
  BY DEF IInv, TypeOK
<1> DEFINE age == IF handlers.exists THEN Older(handlers.age) ELSE 0
<1>1. /\ age \in 0 .. Interval
      /\ ~handlers.exists => age = 0
      /\ handlers.exists /\ handlers.age = Interval => age = Interval
  BY <1>a, CompactorAssumption DEF HandlersType, Older
<1>2. HandlersAge = [handlers EXCEPT !.age = age]
  BY DEF HandlersAge
<1> HIDE DEF age
<1>3. HandlersAge \in HandlersType
  BY <1>a, <1>1, <1>2, Zenon DEF HandlersType
<1>4. HandlersAge.age = age /\ HandlersAge.lock = handlers.lock /\ HandlersAge.exists = handlers.exists
  BY <1>a, <1>2, Zenon DEF HandlersType
<1>. QED
  BY <1>1, <1>3, <1>4

\* The passing of time keeps the invariant.
LEMMA PassTimeIInv ==
  ASSUME IInv, PassTime
  PROVE  IInv'
<1>a. TypeOK
  BY DEF IInv
<1>1. /\ compactor' \in [Engine -> CompactorType]
      /\ \A e \in Engine : compactor'[e].pc = compactor[e].pc /\ compactor'[e].session = compactor[e].session
  <2>1. ASSUME NEW e \in Engine
        PROVE  /\ compactor'[e] \in CompactorType
               /\ compactor'[e].pc = compactor[e].pc /\ compactor'[e].session = compactor[e].session
    BY <1>a, AgesType DEF PassTime, TypeOK
  <2>. QED
    BY <2>1 DEF PassTime
<1>2. /\ server' \in [Engine -> ServerType]
      /\ \A e \in Engine : server'[e].pc = server[e].pc
  <2>1. ASSUME NEW e \in Engine
        PROVE  server'[e] \in ServerType /\ server'[e].pc = server[e].pc
    <3> DEFINE sup == SupervisorAges(server[e].sup, server[e].pc = "retry")
    <3>1. server[e] \in ServerType /\ server[e].sup \in SupervisorType
      BY <1>a DEF TypeOK, ServerType
    <3>2. sup \in SupervisorType
      BY <3>1, SupervisorAgesType, Zenon
    <3>3. server'[e] = IF server[e].pc = "off" THEN server[e] ELSE [server[e] EXCEPT !.sup = sup]
      BY DEF PassTime
    <3> HIDE DEF sup
    <3>. QED
      BY <3>1, <3>2, <3>3, Zenon DEF ServerType
  <2>. QED
    BY <2>1 DEF PassTime
<1>3. TypeOK'
  BY <1>a, <1>1, <1>2, HandlersAgeFacts DEF PassTime, TypeOK
<1>4. RowOK'
  BY HandlersAgeFacts DEF PassTime, RowOK
<1>5. ASSUME NEW e \in Engine PROVE EngineOK(e)' /\ CompactorOK(e)'
  <2>1. EngineOK(e)'
    BY <1>1, <1>2 DEF IInv, PassTime, EngineOK, Started
  <2>2. CompactorOK(e)'
    BY <1>1, HandlersAgeFacts DEF IInv, PassTime, CompactorOK
  <2>. QED
    BY <2>1, <2>2
<1>6. \A c \in Caller : CallerOK(c)'
  BY DEF IInv, PassTime, CallerOK
<1>. QED
  BY <1>3, <1>4, <1>5, <1>6 DEF IInv, RowOK
-------------------------------------------------------------------------------
\* The invariant holds initially.
LEMMA InitIInv == Init => IInv
<1> SUFFICES ASSUME Init PROVE IInv
  OBVIOUS
<1>1. handlers \in HandlersType
  BY IntervalFacts DEF Init, CompactorInit, HandlersType
<1>2. TypeOK
  BY <1>1, NewTypes DEF Init, CompactorInit, TypeOK
<1>3. \A e \in Engine : EngineOK(e)
  BY DEF Init, CompactorInit, EngineOK, Started, NewEngine, NewServer, NoCompactor
<1>4. \A e \in Engine : CompactorOK(e)
  BY CompactorAssumption DEF Init, CompactorInit, CompactorOK, NoCompactor
<1>5. \A c \in Caller : CallerOK(c)
  BY DEF Init, CallerOK, NewCaller
<1>. QED
  BY <1>2, <1>3, <1>4, <1>5 DEF IInv, Init, CompactorInit

\* Every step keeps the invariant.
LEMMA NextIInv == IInv /\ [Next]_vars => IInv'
<1> SUFFICES ASSUME IInv, [Next]_vars PROVE IInv'
  OBVIOUS
<1>1. CASE UNCHANGED vars
  <2>1. TypeOK' /\ RowOK'
    BY <1>1, Zenon DEF IInv, vars, TypeOK, RowOK
  <2>2. \A e \in Engine : EngineOK(e)' /\ CompactorOK(e)'
    BY <1>1, SMTT(30) DEF IInv, vars, EngineOK, Started, CompactorOK
  <2>3. \A c \in Caller : CallerOK(c)'
    BY <1>1 DEF IInv, vars, CallerOK
  <2>. QED
    BY <2>1, <2>2, <2>3 DEF IInv, RowOK
<1>2. ASSUME NEW e \in Engine, EngineStep(e) PROVE IInv'
  BY <1>2, BindIInv, StartComponentsIInv, AwaitListenAddrIInv, RunReturnsIInv, StartFailsIInv,
     Zenon DEF EngineStep
<1>. QED
  BY <1>1, <1>2, RunIInv, StartFailsIInv, CancelIInv, CrashIInv, RestartIInv, CompactorIInv,
     ServerIInv, ListenFailsIInv, CallerIInv, PassTimeIInv, Zenon DEF Next

(***************************************************************************)
(* The inductive invariant holds in every reachable state.                 *)
(***************************************************************************)
THEOREM InductiveInvariant == Spec => []IInv
  BY InitIInv, NextIInv, PTL DEF Spec
-------------------------------------------------------------------------------
(***************************************************************************)
(* Engines that are past application.Bind have the key that the database   *)
(* is bound to, however many are started at once with whatever keys.       *)
(***************************************************************************)
THEOREM DatabaseServesOneApplication == Spec => []OneApplication
<1>1. IInv => OneApplication
  BY DEF IInv, EngineOK, OneApplication, Started
<1>. QED
  BY <1>1, InductiveInvariant, PTL

(***************************************************************************)
(* The database is bound once: no later engine, whether it is refused,     *)
(* fails or crashes on the way, changes the key (application.Bind).        *)
(***************************************************************************)
THEOREM BoundForGood == Spec => [][identity # Unbound => identity' = identity]_vars
<1>1. [Next]_vars => [identity # Unbound => identity' = identity]_vars
  <2> SUFFICES ASSUME Next, identity # Unbound PROVE identity' = identity
    OBVIOUS
  <2>1. ASSUME NEW e \in Engine, Bind(e) \/ StartFails(e) PROVE identity' = identity
    BY <2>1 DEF Bind, StartFails, Bound
  <2>2. CASE UNCHANGED identity
    BY <2>2
  <2>3. ASSUME NEW e \in Engine, CompactorStep(e) \/ CompactorFault(e) PROVE UNCHANGED identity
    BY <2>3 DEF CompactorStep, CompactorFault
  <2>4. ASSUME NEW e \in Engine, StartComponents(e) \/ AwaitListenAddr(e) \/ RunReturns(e)
        PROVE  UNCHANGED identity
    BY <2>4 DEF StartComponents, AwaitListenAddr, RunReturns
  <2>5. ASSUME NEW e \in Engine, Run(e) \/ Cancel(e) \/ Crash(e) \/ Restart(e)
        PROVE  UNCHANGED identity
    BY <2>5, Zenon DEF Run, Cancel, Crash, Restart
  <2>6. ASSUME NEW e \in Engine, ServerStep(e) \/ ListenFails(e) \/ ServeFails(e)
        PROVE  UNCHANGED identity
    BY <2>6, Zenon DEF ServerStep, Listen, ListenAgain, ServerReturns, ListenFails, ServeFails
  <2>7. (\E c \in Caller : Select(c) \/ GiveUp(c) \/ Recheck(c)) \/ PassTime => UNCHANGED identity
    BY DEF Select, GiveUp, Recheck, PassTime
  <2>. QED
    BY <2>1, <2>3, <2>4, <2>5, <2>6, <2>7, Zenon DEF Next, EngineStep
<1>. QED
  BY <1>1, PTL DEF Spec

(***************************************************************************)
(* A compaction is recorded only when the last one recorded is an interval *)
(* or more in the past, across any number of engines, crashes, lost        *)
(* sessions and lost answers (Compactor.tryCompact).                       *)
(***************************************************************************)
THEOREM CompactedOncePerInterval == Spec => OncePerInterval
<1>1. IInv /\ [Next]_vars => [\A e \in Engine : Committed(e) => handlers.age = Interval]_vars
  BY Zenon DEF IInv, CompactorOK, Committed, CommitCompaction, CommitAnswerLost
<1>. QED
  BY <1>1, InductiveInvariant, PTL DEF Spec, OncePerInterval

(***************************************************************************)
(* An engine that compacts within a live transaction has the row locked,   *)
(* so there is at most one, and the interval is over (FOR UPDATE SKIP      *)
(* LOCKED in tryCompact).                                                  *)
(***************************************************************************)
THEOREM OneLiveCompaction ==
  Spec => [](\A e \in Engine : compactor[e].session =>
               /\ handlers.lock = e /\ handlers.age = Interval
               /\ \A d \in Engine : compactor[d].session => d = e)
<1>1. IInv => \A e \in Engine : compactor[e].session =>
                /\ handlers.lock = e /\ handlers.age = Interval
                /\ \A d \in Engine : compactor[d].session => d = e
  BY DEF IInv, CompactorOK
<1>. QED
  BY <1>1, InductiveInvariant, PTL

(***************************************************************************)
(* Once Run has returned or the process ended nothing of the engine is     *)
(* left: no component runs, and the row is not locked by it.  The safety   *)
(* part of CanceledStops (Engine.Run).                                     *)
(***************************************************************************)
THEOREM NothingLeftBehind ==
  Spec => [](\A e \in Engine : ~Alive(e) =>
               compactor[e].pc = "off" /\ server[e].pc = "off" /\ handlers.lock # e)
<1>1. IInv => \A e \in Engine : ~Alive(e) =>
                compactor[e].pc = "off" /\ server[e].pc = "off" /\ handlers.lock # e
  BY DEF IInv, EngineOK, CompactorOK, Alive, Started
<1>. QED
  BY <1>1, InductiveInvariant, PTL

(***************************************************************************)
(* A caller that is told the engine is ready was woken before the engine   *)
(* stopped, and finds the address if the engine listens, although select   *)
(* chooses at random when both latches are set.  The safety part of        *)
(* CallersAnswered (waitUntilReady).                                       *)
(***************************************************************************)
ToldTruthfully ==
  \A c \in Caller : caller[c].pc = "recheck" /\ caller'[c].pc = "done" =>
    /\ ~caller[c].late
    /\ EngineOf[c] \in Listening => engine[EngineOf[c]].listenAddr

\* Only the second select of waitUntilReady tells a caller that it is ready.
LEMMA OnlyRecheckAnswers ==
  ASSUME IInv, Next, NEW c \in Caller, caller[c].pc = "recheck", caller'[c].pc = "done"
  PROVE  Recheck(c)
<1>1. CASE UNCHANGED caller
  BY <1>1
<1>2. ASSUME NEW e \in Engine, Crash(e) PROVE FALSE
  BY <1>2 DEF Crash, NewCaller
<1>3. ASSUME NEW b \in Caller, Select(b) \/ GiveUp(b) \/ Recheck(b) PROVE Recheck(c)
  BY <1>3 DEF IInv, TypeOK, Select, GiveUp, Recheck
<1>4. ASSUME NEW e \in Engine, CompactorStep(e) \/ CompactorFault(e) \/ EngineStep(e) \/ StartFails(e)
      PROVE  UNCHANGED caller
  BY <1>4 DEF CompactorStep, CompactorFault, EngineStep, Bind, StartComponents, AwaitListenAddr,
     RunReturns, StartFails
<1>5. ASSUME NEW e \in Engine, Run(e) \/ Cancel(e) \/ Restart(e) \/ ServerStep(e) \/ ListenFails(e)
             \/ ServeFails(e)
      PROVE  UNCHANGED caller
  BY <1>5, Zenon DEF Run, Cancel, Restart, ServerStep, Listen, ListenAgain, ServerReturns,
     ListenFails, ServeFails
<1>6. PassTime => UNCHANGED caller
  BY DEF PassTime
<1>. QED
  BY <1>1, <1>2, <1>3, <1>4, <1>5, <1>6, Zenon DEF Next

(***************************************************************************)
(* waitUntilReady answers truthfully, whichever latch select has chosen:   *)
(* every step satisfies ToldTruthfully.                                    *)
(***************************************************************************)
THEOREM CallersToldTruthfully == Spec => [][ToldTruthfully]_vars
<1>1. IInv /\ [Next]_vars => [ToldTruthfully]_vars
  <2> SUFFICES ASSUME IInv, Next, NEW c \in Caller, caller[c].pc = "recheck", caller'[c].pc = "done"
               PROVE  /\ ~caller[c].late
                      /\ EngineOf[c] \in Listening => engine[EngineOf[c]].listenAddr
    BY DEF ToldTruthfully
  <2>1. Recheck(c) /\ CallerOK(c) /\ EngineOf[c] \in Engine /\ EngineOK(EngineOf[c])
    BY OnlyRecheckAnswers, EngineAssumption DEF IInv
  <2>2. ~engine[EngineOf[c]].stopped
    BY <2>1 DEF Recheck, Answered, NewCaller, IInv, TypeOK
  <2>. QED
    BY <2>1, <2>2 DEF CallerOK, EngineOK
<1>. QED
  BY <1>1, InductiveInvariant, PTL DEF Spec

-------------------------------------------------------------------------------
(***************************************************************************)
(* A compactor that was not calling Compact begins to wait only after a    *)
(* transient failure, which says how long.                                 *)
(***************************************************************************)
LEMMA CompactorWaits ==
  ASSUME IInv, NEW e \in Engine, CompactorStep(e) \/ CompactorFault(e),
         compactor[e].pc \in {"try", "commit"}, compactor'[e].pc = "retry"
  PROVE  compactor'[e].sup.delay <= Limit("transient")
<1>a. TypeOK /\ compactor[e] \in CompactorType /\ compactor[e].sup \in SupervisorType
  BY DEF IInv, TypeOK, CompactorType
<1>1. ASSUME NEW sup \in Failed(compactor[e].sup, "transient"),
             Compacts(e, [NoCompactor EXCEPT !.pc = "retry", !.sup = sup])
      PROVE  compactor'[e].sup.delay <= Limit("transient")
  <2>1. compactor'[e] = [NoCompactor EXCEPT !.pc = "retry", !.sup = sup]
    BY <1>a, <1>1, AssignValues
  <2>2. compactor'[e].sup = sup
    BY <2>1 DEF NoCompactor
  <2>. QED
    BY <1>a, <1>1, <2>2, FailedDelay, Zenon
<1>2. ASSUME NEW f, Compacts(e, f), f.pc # "retry" PROVE FALSE
  <2>1. compactor'[e] = f
    BY <1>a, <1>2, AssignValues
  <2>. QED
    BY <1>2, <2>1
<1>3. /\ [compactor[e] EXCEPT !.pc = "compact", !.session = TRUE].pc # "retry"
      /\ [compactor[e] EXCEPT !.pc = "sleep", !.timer = Interval].pc # "retry"
      /\ [compactor[e] EXCEPT !.pc = "try"].pc # "retry"
      /\ [compactor[e] EXCEPT !.pc = "commit", !.stamp = 0].pc # "retry"
      /\ NoCompactor.pc # "retry"
  BY <1>a, Zenon DEF CompactorType, NoCompactor
<1>4. /\ [compactor[e] EXCEPT !.session = FALSE].pc # "retry"
      /\ [compactor[e] EXCEPT !.pc = "sleep", !.timer = Interval, !.stamp = 0,
                              !.session = FALSE].pc # "retry"
  BY <1>a, Zenon DEF CompactorType
<1>5. /\ ~(TryCompact(e) \/ CompactAgain(e) \/ CompactReturns(e) \/ CompactorReturns(e))
      /\ ~(CommitCompaction(e) \/ SessionLost(e))
  BY <1>2, <1>3, <1>4, Zenon DEF TryCompact, CompactAgain, CompactReturns, CompactorReturns,
     CommitCompaction, SessionLost
<1>6. CompactionFails(e) \/ SessionLossNoticed(e) => Retries(e, "transient")
  BY DEF CompactionFails, SessionLossNoticed
<1>. QED
  BY <1>1, <1>5, <1>6, Zenon DEF CompactorStep, CompactorFault, Retries, CommitAnswerLost

\* A server that retries waits no longer than a transient failure allows.
LEMMA ServerWaits ==
  ASSUME IInv, NEW e \in Engine, ServerRetries(e)
  PROVE  server'[e].sup.delay <= Limit("transient")
<1>a. TypeOK /\ server[e] \in ServerType /\ server[e].sup \in SupervisorType
  BY DEF IInv, TypeOK, ServerType
<1>1. PICK sup \in Failed(server[e].sup, "transient") :
        Serves(e, [server[e] EXCEPT !.pc = "retry", !.sup = sup])
  BY Zenon DEF ServerRetries
<1>2. server'[e] = [server[e] EXCEPT !.pc = "retry", !.sup = sup]
  BY <1>a, <1>1, AssignValues
<1>3. server'[e].sup = sup
  BY <1>a, <1>2 DEF ServerType
<1>. QED
  BY <1>a, <1>3, FailedDelay, Zenon

(***************************************************************************)
(* The wait after a transient failure is within its limit, for any delays, *)
(* even after persistent failures that waited longer (supervisor.Run).     *)
(***************************************************************************)
THEOREM WaitsSuitFailures == Spec => WaitSuitsFailure
<1> DEFINE CompactorSuits(e) ==
             compactor[e].pc \in {"try", "commit"} /\ compactor'[e].pc = "retry" =>
               compactor'[e].sup.delay <= Limit("transient")
           ServerSuits(e) ==
             server[e].pc # "retry" /\ server'[e].pc = "retry" =>
               server'[e].sup.delay <= Limit("transient")
<1>1. ASSUME IInv, Next, NEW e \in Engine PROVE CompactorSuits(e)
  <2>a. TypeOK
    BY <1>1 DEF IInv
  <2>1. CASE compactor'[e].pc = compactor[e].pc
    BY <2>1
  <2>2. ASSUME NEW d \in Engine, CompactorStep(d) \/ CompactorFault(d) PROVE CompactorSuits(e)
    <3>1. CASE d = e
      BY <1>1, <2>2, <3>1, CompactorWaits, Zenon
    <3>2. CASE d # e
      <4>1. \E f : Compacts(d, f)
        BY <2>2, Zenon DEF CompactorStep, CompactorFault, TryCompact, CompactAgain, CompactReturns,
           CommitCompaction, SessionLossNoticed, CompactorReturns, SessionLost, CompactionFails,
           CommitAnswerLost, Retries
      <4>2. compactor'[e] = compactor[e]
        BY <2>a, <3>2, <4>1, AssignValues
      <4>. QED
        BY <4>2
    <3>. QED
      BY <3>1, <3>2
  <2>3. ASSUME NEW d \in Engine, StartComponents(d) \/ Crash(d) PROVE CompactorSuits(e)
    <3>1. PICK f \in {[NoCompactor EXCEPT !.pc = "try"], NoCompactor} : Compacts(d, f)
      BY <2>3, Zenon DEF StartComponents, Crash
    <3>2. f.pc # "retry"
      BY DEF NoCompactor
    <3>3. CASE d = e
      BY <2>a, <3>1, <3>2, <3>3, AssignValues
    <3>4. CASE d # e
      BY <2>1, <2>a, <3>1, <3>4, AssignValues
    <3>. QED
      BY <3>3, <3>4
  <2>4. ASSUME PassTime PROVE CompactorSuits(e)
    BY <1>1, <2>1, <2>4, AgesType DEF PassTime, IInv, TypeOK
  <2>5. ASSUME NEW d \in Engine, Bind(d) \/ AwaitListenAddr(d) \/ RunReturns(d) \/ StartFails(d)
               \/ Run(d) \/ Cancel(d) \/ Restart(d)
        PROVE  UNCHANGED compactor
    BY <2>5, Zenon DEF Bind, AwaitListenAddr, RunReturns, StartFails, Run, Cancel, Restart
  <2>6. ASSUME NEW d \in Engine, ServerStep(d) \/ ListenFails(d) \/ ServeFails(d)
        PROVE  UNCHANGED compactor
    BY <2>6, Zenon DEF ServerStep, Listen, ListenAgain, ServerReturns, ListenFails, ServeFails
  <2>7. (\E c \in Caller : Select(c) \/ GiveUp(c) \/ Recheck(c)) => UNCHANGED compactor
    BY DEF Select, GiveUp, Recheck
  <2>8. UNCHANGED compactor => CompactorSuits(e)
    OBVIOUS
  <2> HIDE DEF CompactorSuits
  <2>. QED
    BY <1>1, <2>2, <2>3, <2>4, <2>5, <2>6, <2>7, <2>8, Zenon DEF Next, EngineStep
<1>2. ASSUME IInv, Next, NEW e \in Engine PROVE ServerSuits(e)
  <2>a. TypeOK
    BY <1>2 DEF IInv
  <2>1. ASSUME NEW d \in Engine, ServerRetries(d) PROVE ServerSuits(e)
    <3>1. CASE d = e
      BY <1>2, <2>1, <3>1, ServerWaits
    <3>2. CASE d # e
      BY <2>a, <2>1, <3>2, AssignValues DEF ServerRetries
    <3>. QED
      BY <3>1, <3>2
  <2>2. ASSUME NEW d \in Engine, NEW f, Serves(d, f), f.pc # "retry" PROVE ServerSuits(e)
    BY <2>a, <2>2, AssignValues
  <2>3. ASSUME NEW d \in Engine
        PROVE  /\ [NewServer EXCEPT !.pc = "bind"].pc # "retry" /\ NewServer.pc # "retry"
               /\ [server[d] EXCEPT !.pc = "bind"].pc # "retry"
               /\ [server[d] EXCEPT !.pc = "serve", !.addr = TRUE].pc # "retry"
               /\ [server[d] EXCEPT !.pc = "off"].pc # "retry"
    BY <2>a, Zenon DEF NewServer, TypeOK, ServerType
  <2>4. ASSUME PassTime PROVE ServerSuits(e)
    <3>1. server'[e].pc = server[e].pc
      BY <2>a, <2>4 DEF PassTime, TypeOK, ServerType
    <3>. QED
      BY <3>1
  <2>5. UNCHANGED server => ServerSuits(e)
    OBVIOUS
  <2> HIDE DEF ServerSuits
  <2>6. ASSUME NEW d \in Engine, StartComponents(d) \/ Crash(d) PROVE ServerSuits(e)
    BY <2>2, <2>3, <2>5, <2>6, Zenon DEF StartComponents, Crash
  <2>7. ASSUME NEW d \in Engine, Bind(d) \/ AwaitListenAddr(d) \/ RunReturns(d) \/ StartFails(d)
               \/ Run(d) \/ Cancel(d) \/ Restart(d)
        PROVE  UNCHANGED server
    BY <2>7, Zenon DEF Bind, AwaitListenAddr, RunReturns, StartFails, Run, Cancel, Restart
  <2>8. ASSUME NEW d \in Engine, ServerStep(d) \/ ListenFails(d) \/ ServeFails(d)
        PROVE  ServerSuits(e)
    BY <2>1, <2>2, <2>3, <2>8, Zenon
       DEF ServerStep, Listen, ListenAgain, ServerReturns, ListenFails, ServeFails
  <2>9. ASSUME NEW d \in Engine, CompactorStep(d) \/ CompactorFault(d) PROVE UNCHANGED server
    BY <2>9, Zenon DEF CompactorStep, CompactorFault
  <2>10. (\E c \in Caller : Select(c) \/ GiveUp(c) \/ Recheck(c)) => UNCHANGED server
    BY DEF Select, GiveUp, Recheck
  <2>. QED
    BY <1>2, <2>4, <2>5, <2>6, <2>7, <2>8, <2>9, <2>10, Zenon DEF Next, EngineStep
<1>3. IInv /\ [Next]_vars =>
        [\A e \in Engine :
           /\ compactor[e].pc \in {"try", "commit"} /\ compactor'[e].pc = "retry" =>
                compactor'[e].sup.delay <= Limit("transient")
           /\ server[e].pc # "retry" /\ server'[e].pc = "retry" =>
                server'[e].sup.delay <= Limit("transient")]_vars
  BY <1>1, <1>2
<1>. QED
  BY <1>3, InductiveInvariant, PTL DEF Spec, WaitSuitsFailure
==============================================================================
