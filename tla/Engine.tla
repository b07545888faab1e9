-------------------------------- MODULE Engine -------------------------------
(***************************************************************************)
(* The life of the engines that share a database (engine.go): Run binds    *)
(* the database to the application, initializes the handlers, starts the   *)
(* components in an errgroup and waits for all of them; ListenAddr and     *)
(* ExecuteCommand wait until the engine is ready.  The components with a   *)
(* life of their own here are the projection's compactor and the gRPC      *)
(* server (grpcserver); the others only run until they are canceled, and   *)
(* are left to the other modules.                                          *)
(*                                                                         *)
(* Where Run has got to (engine[e].pc):                                    *)
(*   new      not called                                                   *)
(*   bind     about to bind the database to the application                *)
(*   start    about to initialize the handlers and start the components    *)
(*   listen   waiting for the server's address                             *)
(*   wait     waiting for the group                                        *)
(*   returned Run has returned                                             *)
(*   crashed  the process has ended                                        *)
(* Where a server has got to (server[e].pc): off, bind, serve, retry.      *)
(* Where a caller has got to (caller[c].pc):                               *)
(*   select   waiting for ready, stopped or its own ctx                    *)
(*   recheck  woken, about to look at stopped                              *)
(*   done     told that the engine is ready, or has given up               *)
(***************************************************************************)
EXTENDS Compactor

CONSTANTS
  Applications, \* the keys of the applications each engine may be created with
  Listening,    \* the engines that have a listen address
  Unbound,      \* the database is bound to no application
  Caller,       \* goroutines that wait for an engine
  EngineOf      \* the engine each of them waits for, in whose process it is

ASSUME EngineAssumption ==
  /\ Listening \subseteq Engine /\ EngineOf \in [Caller -> Engine]
  /\ \A e \in Engine : Unbound \notin Applications[e]

VARIABLES
  identity,   \* application.identity: the key the database is bound to
  engine,     \* engine[e]: pc, app (its application's key), canceled (the
              \* group's context), and what Run sets: listenAddr, ready, stopped
  server,     \* server[e]: pc, addr (an address was bound once), sup
  caller      \* caller[c]: pc, late (the select took place after the engine stopped)

vars == <<handlers, compactor, faults, identity, engine, server, caller>>

NewEngine == [pc |-> "new", app |-> Unbound, canceled |-> FALSE,
              listenAddr |-> FALSE, ready |-> FALSE, stopped |-> FALSE]
NewServer == [pc |-> "off", addr |-> FALSE, sup |-> NewSupervisor]
NewCaller == [pc |-> "select", late |-> FALSE]

Moves(e, fields) == engine' = [engine EXCEPT ![e] = fields]
Serves(e, fields) == server' = [server EXCEPT ![e] = fields]

\* Run returns, which sets stopped.
Returned(e) == [engine[e] EXCEPT !.pc = "returned", !.app = Unbound, !.stopped = TRUE]

Alive(e) == engine[e].pc \notin {"new", "returned", "crashed"}

-------------------------------------------------------------------------------

Run(e) ==
  /\ engine[e].pc = "new"
  /\ \E app \in Applications[e] : Moves(e, [engine[e] EXCEPT !.pc = "bind", !.app = app])
  /\ UNCHANGED <<handlers, compactor, faults, identity, server, caller>>

(***************************************************************************)
(* application.Bind: the first engine to insert the row decides the key;   *)
(* the others only read it.                                                *)
(***************************************************************************)
\* Seeded fault: the conflicting row takes the key as well as the name.
BoundToLatest(e) == engine[e].app

Bound(e) == IF identity = Unbound THEN engine[e].app ELSE identity

Bind(e) ==
  /\ engine[e].pc = "bind"
  /\ identity' = Bound(e)
  /\ Moves(e, IF Bound(e) = engine[e].app THEN [engine[e] EXCEPT !.pc = "start"] ELSE Returned(e))
  /\ UNCHANGED <<handlers, compactor, faults, server, caller>>

(***************************************************************************)
(* The configuration is invalid, or a statement fails, times out or is     *)
(* canceled; it may have taken effect nevertheless.                        *)
(***************************************************************************)
StartFails(e) ==
  /\ IF engine[e].canceled THEN UNCHANGED faults ELSE Fault
  /\ \/ engine[e].pc = "bind" /\ identity' \in {identity, Bound(e)} /\ UNCHANGED handlers
     \/ engine[e].pc = "start" /\ handlers' \in {handlers, InitializedHandlers} /\ UNCHANGED identity
  /\ Moves(e, Returned(e))
  /\ UNCHANGED <<compactor, server, caller>>

(***************************************************************************)
(* The handler is initialized and the components are started; without a    *)
(* server the engine is ready, and with one it waits for the server's      *)
(* address, or for its own cancelation.                                    *)
(***************************************************************************)
StartComponents(e) ==
  /\ engine[e].pc = "start"
  /\ handlers' = InitializedHandlers
  /\ Compacts(e, [NoCompactor EXCEPT !.pc = "try"])
  /\ IF e \in Listening
     THEN /\ Moves(e, [engine[e] EXCEPT !.pc = "listen"])
          /\ Serves(e, [NewServer EXCEPT !.pc = "bind"])
     ELSE /\ Moves(e, [engine[e] EXCEPT !.pc = "wait", !.ready = TRUE])
          /\ UNCHANGED server
  /\ UNCHANGED <<faults, identity, caller>>

\* Seeded fault: the wait for the address does not end with ctx.
AwaitListenAddrUncanceled(e) ==
  /\ engine[e].pc = "listen"
  /\ server[e].addr
  /\ Moves(e, [engine[e] EXCEPT !.pc = "wait", !.listenAddr = TRUE, !.ready = TRUE])
  /\ UNCHANGED <<handlers, compactor, faults, identity, server, caller>>

AwaitListenAddr(e) ==
  /\ engine[e].pc = "listen"
  /\ \/ server[e].addr /\ Moves(e, [engine[e] EXCEPT !.pc = "wait", !.listenAddr = TRUE,
                                                     !.ready = TRUE])
     \/ engine[e].canceled /\ Moves(e, [engine[e] EXCEPT !.pc = "wait"])
  /\ UNCHANGED <<handlers, compactor, faults, identity, server, caller>>

\* Run's ctx is canceled by its caller.
Cancel(e) ==
  /\ Alive(e)
  /\ ~engine[e].canceled
  /\ Moves(e, [engine[e] EXCEPT !.canceled = TRUE])
  /\ UNCHANGED <<handlers, compactor, faults, identity, server, caller>>

\* The group's Wait returns once every component has.
RunReturns(e) ==
  /\ engine[e].pc = "wait"
  /\ compactor[e].pc = "off"
  /\ server[e].pc = "off"
  /\ Moves(e, Returned(e))
  /\ UNCHANGED <<handlers, compactor, faults, identity, server, caller>>

\* The process ends, with its transactions and with whoever waits in it.
Crash(e) ==
  /\ Alive(e)
  /\ Fault
  /\ Moves(e, [NewEngine EXCEPT !.pc = "crashed"])
  /\ handlers' = Release(e)
  /\ Compacts(e, NoCompactor)
  /\ Serves(e, NewServer)
  /\ caller' = [c \in Caller |-> IF EngineOf[c] = e THEN NewCaller ELSE caller[c]]
  /\ UNCHANGED identity

\* A crashed process is started again, with a new engine.
Restart(e) ==
  /\ engine[e].pc = "crashed"
  /\ Moves(e, NewEngine)
  /\ UNCHANGED <<handlers, compactor, faults, identity, server, caller>>

-------------------------------------------------------------------------------

(***************************************************************************)
(* The compactor in its engine: once canceled it begins nothing new, and   *)
(* sooner or later returns.                                                *)
(***************************************************************************)
CompactorStep(e) ==
  /\ \/ ~engine[e].canceled /\ (TryCompact(e) \/ CompactAgain(e))
     \/ CompactReturns(e)
     \/ CommitCompaction(e)
     \/ SessionLossNoticed(e)
     \/ engine[e].canceled /\ CompactorReturns(e)
  /\ UNCHANGED <<identity, engine, server, caller>>

CompactorFault(e) ==
  /\ SessionLost(e) \/ CompactionFails(e) \/ CommitAnswerLost(e)
  /\ UNCHANGED <<identity, engine, server, caller>>

-------------------------------------------------------------------------------

(***************************************************************************)
(* The server listens.  The first failure to do so is fatal, and cancels   *)
(* the group; later ones, on the address bound before, are retried.        *)
(***************************************************************************)
Listen(e) ==
  /\ server[e].pc = "bind"
  /\ Serves(e, [server[e] EXCEPT !.pc = "serve", !.addr = TRUE])
  /\ UNCHANGED <<handlers, compactor, faults, identity, engine, caller>>

ServerRetries(e) ==
  \E sup \in Failed(server[e].sup, "transient") :
    Serves(e, [server[e] EXCEPT !.pc = "retry", !.sup = sup])

\* Seeded fault: the failure ends the server and not the group.
ListenFailsQuietly(e) ==
  /\ server[e].pc = "bind"
  /\ Fault
  /\ IF server[e].addr
     THEN ServerRetries(e)
     ELSE Serves(e, [server[e] EXCEPT !.pc = "off"])
  /\ UNCHANGED <<handlers, compactor, identity, engine, caller>>

ListenFails(e) ==
  /\ server[e].pc = "bind"
  /\ Fault
  /\ IF server[e].addr
     THEN ServerRetries(e) /\ UNCHANGED engine
     ELSE /\ Serves(e, [server[e] EXCEPT !.pc = "off"])
          /\ Moves(e, [engine[e] EXCEPT !.canceled = TRUE])
  /\ UNCHANGED <<handlers, compactor, identity, caller>>

ServeFails(e) ==
  /\ server[e].pc = "serve"
  /\ Fault
  /\ ServerRetries(e)
  /\ UNCHANGED <<handlers, compactor, identity, engine, caller>>

ListenAgain(e) ==
  /\ server[e].pc = "retry" /\ server[e].sup.delay = 0
  /\ ~engine[e].canceled
  /\ Serves(e, [server[e] EXCEPT !.pc = "bind"])
  /\ UNCHANGED <<handlers, compactor, faults, identity, engine, caller>>

ServerReturns(e) ==
  /\ server[e].pc \in {"serve", "retry"}
  /\ engine[e].canceled
  /\ Serves(e, [server[e] EXCEPT !.pc = "off"])
  /\ UNCHANGED <<handlers, compactor, faults, identity, engine, caller>>

-------------------------------------------------------------------------------

(***************************************************************************)
(* waitUntilReady, as ListenAddr and ExecuteCommand call it: the select    *)
(* takes whichever latch is set, and then stopped is looked at again.  A   *)
(* caller waits from the start; one that calls later only differs from it  *)
(* in what it finds.                                                       *)
(***************************************************************************)
Select(c) ==
  /\ caller[c].pc = "select"
  /\ engine[EngineOf[c]].ready \/ engine[EngineOf[c]].stopped
  /\ caller' = [caller EXCEPT ![c] = [pc |-> "recheck", late |-> engine[EngineOf[c]].stopped]]
  /\ UNCHANGED <<handlers, compactor, faults, identity, engine, server>>

\* The caller's own ctx is canceled while it waits.
GiveUp(c) ==
  /\ caller[c].pc = "select"
  /\ caller' = [caller EXCEPT ![c] = [NewCaller EXCEPT !.pc = "done"]]
  /\ UNCHANGED <<handlers, compactor, faults, identity, engine, server>>

\* A caller that was refused may call again.
Answered(ready) == [NewCaller EXCEPT !.pc = IF ready THEN "done" ELSE "select"]

Recheck(c) ==
  /\ caller[c].pc = "recheck"
  /\ caller' = [caller EXCEPT ![c] = Answered(~engine[EngineOf[c]].stopped)]
  /\ UNCHANGED <<handlers, compactor, faults, identity, engine, server>>

-------------------------------------------------------------------------------

PassTime ==
  /\ handlers' = HandlersAge
  /\ compactor' = [e \in Engine |-> CompactorAges(compactor[e])]
  /\ server' = [e \in Engine |->
                  IF server[e].pc = "off" THEN server[e]
                  ELSE [server[e] EXCEPT !.sup = SupervisorAges(@, server[e].pc = "retry")]]
  /\ UNCHANGED <<faults, identity, engine, caller>>

Init ==
  /\ CompactorInit
  /\ faults = 0
  /\ identity = Unbound
  /\ engine = [e \in Engine |-> NewEngine]
  /\ server = [e \in Engine |-> NewServer]
  /\ caller = [c \in Caller |-> NewCaller]

\* What the engine's own goroutines do.
EngineStep(e) ==
  \/ Bind(e)
  \/ StartComponents(e)
  \/ AwaitListenAddr(e)
  \/ RunReturns(e)
  \/ engine[e].canceled /\ StartFails(e)

ServerStep(e) ==
  \/ Listen(e)
  \/ ListenAgain(e)
  \/ ServerReturns(e)

Next ==
  \/ \E e \in Engine :
       \/ Run(e)
       \/ EngineStep(e)
       \/ StartFails(e)
       \/ Cancel(e)
       \/ Crash(e)
       \/ Restart(e)
       \/ CompactorStep(e)
       \/ CompactorFault(e)
       \/ ServerStep(e)
       \/ ListenFails(e)
       \/ ServeFails(e)
  \/ \E c \in Caller : Select(c) \/ GiveUp(c) \/ Recheck(c)
  \/ PassTime

Spec == Init /\ [][Next]_vars

(***************************************************************************)
(* Goroutines that can go on do, and time passes.  A handler's Compact may *)
(* fail any number of times, but not for ever.  Nothing obliges anybody to *)
(* call Run, to cancel or to give up waiting.                              *)
(***************************************************************************)
Fairness ==
  /\ \A e \in Engine :
       /\ WF_vars(EngineStep(e) \/ ServerStep(e))
       /\ WF_vars(CompactorStep(e))
       /\ SF_vars(CompactReturns(e) /\ UNCHANGED <<identity, engine, server, caller>>)
  /\ \A c \in Caller : WF_vars(Select(c) \/ Recheck(c))
  /\ WF_vars(PassTime)

FairSpec == Spec /\ Fairness

-------------------------------------------------------------------------------

(***************************************************************************)
(* A database serves one application: engines that have got past Bind have *)
(* the same key, whatever order they bound in, crashed and came back       *)
(* (application.Bind).                                                     *)
(***************************************************************************)
OneApplication ==
  \A e \in Engine :
    engine[e].pc \in {"start", "listen", "wait"} => identity = engine[e].app

\* A compaction is recorded, whether or not its engine learns of it.
Committed(e) == CommitCompaction(e) \/ CommitAnswerLost(e)

(***************************************************************************)
(* "The projection is compacted at most once per interval": a compaction   *)
(* that is recorded comes an interval or more after the one before, across *)
(* engines, crashes, retries, and sessions lost while Compact was running  *)
(* (Compactor.tryCompact).                                                 *)
(***************************************************************************)
OncePerInterval ==
  [][\A e \in Engine : Committed(e) => handlers.age = Interval]_vars

(***************************************************************************)
(* The wait after a transient failure stays within its limit, even when it *)
(* follows a run of persistent failures that waited longer: a query that   *)
(* fails once is not retried as late as a handler that keeps failing       *)
(* (supervisor.Run).                                                       *)
(***************************************************************************)
WaitSuitsFailure ==
  [][\A e \in Engine :
       /\ compactor[e].pc \in {"try", "commit"} /\ compactor'[e].pc = "retry" =>
            compactor'[e].sup.delay <= Limit("transient")
       /\ server[e].pc # "retry" /\ server'[e].pc = "retry" =>
            server'[e].sup.delay <= Limit("transient")]_vars

(***************************************************************************)
(* Whoever waits for an engine that was started is answered, even when the *)
(* engine cannot start, cannot listen or is stopped before it is ready,    *)
(* unless it gives up or the process ends first; and truthfully: a caller  *)
(* told that the engine is ready finds the address, and is never told so   *)
(* when the engine had stopped by the time it called or was woken,         *)
(* although both latches are set then (waitUntilReady, Engine.Run).        *)
(***************************************************************************)
CallersAnswered ==
  /\ [][\A c \in Caller : caller[c].pc = "recheck" /\ caller'[c].pc = "done" =>
          /\ ~caller[c].late
          /\ EngineOf[c] \in Listening => engine[EngineOf[c]].listenAddr]_vars
  /\ \A c \in Caller :
       (caller[c].pc = "select" /\ Alive(EngineOf[c]))
         ~> (caller[c].pc # "select" \/ engine[EngineOf[c]].pc = "crashed")

(***************************************************************************)
(* A canceled engine stops, whether by its caller or because its server    *)
(* could not listen, and once Run has returned or the process ended        *)
(* nothing of it is left: no component runs, and the row of                *)
(* projection.handlers is not locked by it (Engine.Run).                   *)
(***************************************************************************)
CanceledStops ==
  /\ [](\A e \in Engine : ~Alive(e) =>
          compactor[e].pc = "off" /\ server[e].pc = "off" /\ handlers.lock # e)
  /\ \A e \in Engine : engine[e].canceled ~> ~Alive(e)

(***************************************************************************)
(* While an engine keeps running the projection is compacted again and     *)
(* again, whichever engine does it and whatever failed before              *)
(* (Compactor.run).                                                        *)
(***************************************************************************)
CompactionRecurs ==
  \A e \in Engine :
    <>[](compactor[e].pc # "off" /\ ~engine[e].canceled) => []<><<\E f \in Engine : Committed(f)>>_vars
==============================================================================
