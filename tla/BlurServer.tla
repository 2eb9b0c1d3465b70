----------------------------- MODULE BlurServer -----------------------------
(***************************************************************************)
(* The process of lab-1/cmd/api/main.go in its TCP mode, composed of the   *)
(* TCP server and the shutdown manager.  main creates the server (whose    *)
(* listener is open from then on), registers its Shutdown with the         *)
(* manager, starts the goroutine that calls Start, and blocks in           *)
(* RunWithTimeout until a signal has come and Shutdown has returned; then  *)
(* main returns and the process ends, whatever still runs in it.           *)
(*                                                                         *)
(* The two components share the context of the shutdown: expired.          *)
(***************************************************************************)
EXTENDS Naturals, FiniteSets

CONSTANT Conns      \* the connections clients may open

VARIABLES
    listener, closed, loop, acceptErrors, state, conns, shutdown,
                    \* the server: see TcpServer
    services, process, run, quit, due, snapshot, i, calling, outcome,
                    \* the manager: see ShutdownManager
    expired,        \* whether the context given to Shutdown is done
    main,           \* where main is: "created", "registered", "spawned", "exited"
    cut             \* history: connections in service when the process ended

serverVars == <<listener, closed, loop, acceptErrors, state, conns, shutdown>>
managerVars == <<services, process, run, quit, due, snapshot, i, calling, outcome>>
vars == <<serverVars, managerVars, expired, main, cut>>

Server == INSTANCE TcpServer WITH MaxAcceptErrors <- 0

Manager == INSTANCE ShutdownManager WITH
    Kinds <- {"obedient"}, MaxServices <- 1

Alive == process = "alive" /\ main # "exited"

TypeOK ==
    /\ Server!TypeOK
    /\ Manager!TypeOK
    /\ main \in {"created", "registered", "spawned", "exited"}
    /\ cut \in SUBSET Conns

\* The state after tcpserver.New.
Init ==
    /\ Server!Init
    /\ Manager!Init
    /\ main = "created"
    /\ cut = {}

------------------------------------------------------------------------------
(* main *)

RegisterTcp ==
    /\ main = "created"
    /\ Manager!Register("obedient")
    /\ main' = "registered"
    /\ UNCHANGED <<serverVars, cut>>

GoStart ==
    /\ Alive
    /\ main = "registered"
    /\ main' = "spawned"
    /\ UNCHANGED <<serverVars, managerVars, expired, cut>>

\* RunWithTimeout, up to the call of Shutdown.
AwaitSignal ==
    /\ Alive
    /\ main = "spawned"
    /\ Manager!Notify \/ Manager!Receive \/ Manager!Snapshot
    /\ UNCHANGED <<serverVars, main, cut>>

CallShutdown ==
    /\ Alive
    /\ Manager!Call
    /\ Server!MarkClosed
    /\ UNCHANGED <<main, cut>>

ShutdownReturned ==
    /\ Alive
    /\ \/ shutdown = "ok" /\ Manager!FnReturns("stopped")
       \/ shutdown = "deadline" /\ Manager!FnReturns("timedOut")
    /\ UNCHANGED <<serverVars, main, cut>>

RunReturns ==
    /\ Alive
    /\ Manager!Return
    /\ UNCHANGED <<serverVars, main, cut>>

\* main returns: every other goroutine ends with it.
Exit ==
    /\ Alive
    /\ run = "returned"
    /\ main' = "exited"
    /\ cut' = Server!Live
    /\ UNCHANGED <<serverVars, managerVars, expired>>

------------------------------------------------------------------------------
(* Signals, the clock, and the goroutines of the server *)

Signal ==
    /\ Alive
    /\ \/ Manager!Signal /\ UNCHANGED cut
       \/ Manager!SignalKills /\ cut' = Server!Live
    /\ UNCHANGED <<serverVars, main>>

Expire ==
    /\ Alive
    /\ Manager!Expire
    /\ UNCHANGED <<serverVars, main, cut>>

ServerStep ==
    /\ Alive
    /\ \/ \E c \in Conns : Server!Dial(c) \/ Server!HandlerReturns(c) \/ Server!Deregister(c)
       \/ main = "spawned" /\ Server!Start
       \/ Server!LoopStep
       \/ Server!ShutdownStep
    /\ UNCHANGED <<managerVars, main, cut>>

MainStep ==
    \/ RegisterTcp
    \/ GoStart
    \/ AwaitSignal
    \/ CallShutdown
    \/ ShutdownReturned
    \/ RunReturns
    \/ Exit

Next == MainStep \/ Signal \/ Expire \/ ServerStep

Spec == Init /\ [][Next]_vars

(***************************************************************************)
(* Fairness: main and Shutdown are scheduled and the deadline passes.  The *)
(* accept loop, the handlers and the clients need not make progress.       *)
(***************************************************************************)
ShutdownProgress ==
    /\ Alive
    /\ Server!ShutdownStep
    /\ UNCHANGED <<managerVars, main, cut>>

GiveUp ==
    /\ Alive
    /\ Server!ContextDone
    /\ UNCHANGED <<managerVars, main, cut>>

FairSpec ==
    /\ Spec
    /\ WF_vars(MainStep)
    /\ WF_vars(Expire)
    /\ WF_vars(ShutdownProgress)
    /\ SF_vars(GiveUp)

------------------------------------------------------------------------------
(* Properties *)

(***************************************************************************)
(* When the process ends after a Shutdown that returned nil, at most one   *)
(* connection is cut while it is served: the one the accept loop held.     *)
(***************************************************************************)
OrderlyExitCutsAtMostOne ==
    main = "exited" /\ outcome[1] = "stopped" => Cardinality(cut) <= 1

(***************************************************************************)
(* A signal that arrives once RunWithTimeout listens ends the process,     *)
(* even when the accept loop was never scheduled and every client stalls.  *)
(***************************************************************************)
SignalEndsProcess == quit ~> main = "exited"

(***************************************************************************)
(* Server.Shutdown is what the manager calls an obedient function, and the *)
(* process does what the manager's specification says with it, fairness    *)
(* included: it returns DeadlineExceeded only after, and always after, the *)
(* deadline, unless it has returned nil.                                   *)
(***************************************************************************)
ManagerSpec == Manager!TimedSpec
==============================================================================
