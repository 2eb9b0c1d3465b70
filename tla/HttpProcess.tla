---------------------------- MODULE HttpProcess ----------------------------
(***************************************************************************)
(* The process of lab-1/cmd/api/main.go in its HTTP mode, and of the main  *)
(* that new-lab.py generates for a lab with a database, composed of the    *)
(* shutdown manager, the pool of connections with its transactions, and    *)
(* net/http's server.  With a database main first connects (retry.Do), and *)
(* registers the closing of the pool before the Shutdown of the server, so *)
(* that the pool is closed last.                                           *)
(*                                                                         *)
(* net/http is external and does what it documents: Shutdown refuses new   *)
(* connections and waits until every request is answered or its context is *)
(* done, and makes ListenAndServe return ErrServerClosed.  Handlers run    *)
(* behind the Recovery middleware and call WithTx at most once each.       *)
(***************************************************************************)
EXTENDS Naturals, FiniteSets, Sequences

CONSTANTS
    Requests,       \* requests that may be in service at the same time
    MaxConns        \* the connections of the pool

ASSUME RequestsAssumption == IsFiniteSet(Requests)
ASSUME MaxConnsAssumption == MaxConns \in Nat \ {0}

VARIABLES
    database,       \* whether this main has a database
    main,           \* where main is; "failed" is os.Exit(1), by any goroutine
    serve,          \* the goroutine in ListenAndServe
    inShutdown,     \* Server.inShutdown
    served,         \* the requests in service
    pool, caller, holders, tx, err,
                    \* the pool and the calls of WithTx: see PgTx
    services, process, run, quit, due, snapshot, i, calling, outcome, expired,
                    \* the manager: see ShutdownManager
    cut             \* history: the requests in service when the process ended

httpVars == <<serve, inShutdown, served>>
pgVars == <<pool, caller, holders, tx, err>>
managerVars == <<services, process, run, quit, due, snapshot, i, calling, outcome, expired>>
vars == <<database, main, httpVars, pgVars, managerVars, cut>>

Pg == INSTANCE PgTx WITH Callers <- Requests

Manager == INSTANCE ShutdownManager WITH
    Kinds <- {"obedient", "stubborn"}, MaxServices <- 2

Alive == process = "alive" /\ main \notin {"exited", "failed"}

TypeOK ==
    /\ Pg!TypeOK
    /\ Manager!TypeOK
    /\ database \in BOOLEAN
    /\ main \in {"connecting", "registering", "registered", "spawned", "exited", "failed"}
    /\ serve \in {"unstarted", "binding", "listening", "returned"}
    /\ inShutdown \in BOOLEAN
    /\ served \subseteq Requests
    /\ cut \subseteq Requests

Init ==
    /\ Pg!Init
    /\ Manager!Init
    /\ database \in BOOLEAN
    /\ main = IF database THEN "connecting" ELSE "registering"
    /\ serve = "unstarted"
    /\ inShutdown = FALSE
    /\ served = {}
    /\ cut = {}

------------------------------------------------------------------------------
(* main *)

\* retry.Do has a ping that succeeds, at the latest the fifth.
Connect ==
    /\ Alive
    /\ main = "connecting"
    /\ main' = "registering"
    /\ UNCHANGED <<database, httpVars, pgVars, managerVars, cut>>

\* pg.New or retry.Do returns an error: os.Exit(1).
ConnectFails ==
    /\ Alive
    /\ main = "connecting"
    /\ main' = "failed"
    /\ UNCHANGED <<database, httpVars, pgVars, managerVars, cut>>

\* Mutant of Services: the server is registered first.
ServicesSwapped == IF database THEN <<"http", "pg">> ELSE <<"http">>

\* What main registers, in this order.
Services == IF database THEN <<"pg", "http">> ELSE <<"http">>

\* The function that closes the pool takes no notice of its context.
Kind(name) == IF name = "pg" THEN "stubborn" ELSE "obedient"

Register ==
    /\ Alive
    /\ main = "registering"
    /\ Manager!Register(Kind(Services[Len(services) + 1]))
    /\ main' = IF services' = [s \in DOMAIN Services |-> Kind(Services[s])]
               THEN "registered" ELSE main
    /\ UNCHANGED <<database, httpVars, pgVars, cut>>

GoServe ==
    /\ Alive
    /\ main = "registered"
    /\ main' = "spawned"
    /\ UNCHANGED <<database, httpVars, pgVars, managerVars, cut>>

\* RunWithTimeout, up to the first function.
AwaitSignal ==
    /\ Alive
    /\ main = "spawned"
    /\ Manager!Notify \/ Manager!Receive \/ Manager!Snapshot
    /\ UNCHANGED <<database, main, httpVars, pgVars, cut>>

Calling(name) == Alive /\ i \in DOMAIN snapshot /\ Services[i] = name

CallShutdown ==
    /\ Calling("http")
    /\ Manager!Call
    /\ inShutdown' = TRUE
    /\ UNCHANGED <<database, main, serve, served, pgVars, cut>>

ShutdownReturned ==
    /\ Calling("http")
    /\ \/ served = {} /\ Manager!FnReturns("stopped")
       \/ Manager!FnReturns("timedOut")
    /\ UNCHANGED <<database, main, httpVars, pgVars, cut>>

CallClose ==
    /\ Calling("pg")
    /\ Manager!Call
    /\ Pg!Close
    /\ UNCHANGED <<database, main, httpVars, cut>>

CloseReturned ==
    /\ Calling("pg")
    /\ Pg!Closed
    /\ Manager!FnReturns("stopped")
    /\ UNCHANGED <<database, main, httpVars, cut>>

RunReturns ==
    /\ Alive
    /\ Manager!Return
    /\ UNCHANGED <<database, main, httpVars, pgVars, cut>>

\* main returns: every other goroutine ends with it.
Exit ==
    /\ Alive
    /\ run = "returned"
    /\ main' = "exited"
    /\ cut' = served
    /\ UNCHANGED <<database, httpVars, pgVars, managerVars>>

------------------------------------------------------------------------------
(* The goroutine in ListenAndServe *)

\* Whether the server shuts down is looked at before and after net.Listen.
ListenAndServe ==
    /\ Alive
    /\ main = "spawned"
    /\ serve \in {"unstarted", "binding"}
    /\ serve' = IF inShutdown THEN "returned"
                ELSE IF serve = "unstarted" THEN "binding" ELSE "listening"
    /\ UNCHANGED <<database, main, inShutdown, served, pgVars, managerVars, cut>>

\* Mutant of ServeReturns: ErrServerClosed is taken for a failure.
ServeReturnsFails ==
    /\ Alive
    /\ serve = "listening"
    /\ inShutdown
    /\ serve' = "returned"
    /\ main' = "failed"
    /\ cut' = served
    /\ UNCHANGED <<database, inShutdown, served, pgVars, managerVars>>

\* ErrServerClosed, which the goroutine takes for no error.
ServeReturns ==
    /\ Alive
    /\ serve = "listening"
    /\ inShutdown
    /\ serve' = "returned"
    /\ UNCHANGED <<database, main, inShutdown, served, pgVars, managerVars, cut>>

\* net.Listen fails, even while the server shuts down, or Accept does before.
ServeFails ==
    /\ Alive
    /\ serve = "binding" \/ (serve = "listening" /\ ~inShutdown)
    /\ serve' = "returned"
    /\ main' = "failed"
    /\ cut' = served
    /\ UNCHANGED <<database, inShutdown, served, pgVars, managerVars>>

------------------------------------------------------------------------------
(* Requests *)

\* After its answer another request takes its place, unless its transaction was
\* left behind.
Arrive(c) ==
    /\ Alive
    /\ serve = "listening"
    /\ ~inShutdown
    /\ c \notin served
    /\ caller[c] = "idle"
    /\ served' = served \cup {c}
    /\ UNCHANGED <<database, main, serve, inShutdown, pgVars, managerVars, cut>>

\* The handler calls WithTx, and the call goes on.
Transact(c) ==
    /\ Alive
    /\ database
    /\ c \in served
    /\ Pg!CallStep(c)
    /\ UNCHANGED <<database, main, httpVars, managerVars, cut>>

\* The handler is not in WithTx, or Recovery answers for its panic.
Answer(c) ==
    /\ Alive
    /\ c \in served
    /\ \/ Pg!Forget(c)
       \/ caller[c] \in {"idle", "panicked"} /\ UNCHANGED pgVars
    /\ served' = served \ {c}
    /\ UNCHANGED <<database, main, serve, inShutdown, managerVars, cut>>

------------------------------------------------------------------------------
(* Signals and the clock *)

\* One signal to RunWithTimeout: ShutdownManager has more of them.
Signal ==
    /\ Alive
    /\ run \in {"unarmed", "listening"}
    /\ \/ Manager!Signal /\ UNCHANGED cut
       \/ Manager!SignalKills /\ cut' = served
    /\ UNCHANGED <<database, main, httpVars, pgVars>>

Expire ==
    /\ Alive
    /\ Manager!Expire
    /\ UNCHANGED <<database, main, httpVars, pgVars, cut>>

------------------------------------------------------------------------------

MainStep ==
    \/ Connect
    \/ ConnectFails
    \/ Register
    \/ GoServe
    \/ AwaitSignal
    \/ CallShutdown
    \/ ShutdownReturned
    \/ CallClose
    \/ CloseReturned
    \/ RunReturns
    \/ Exit

ServeStep == ListenAndServe \/ ServeReturns \/ ServeFails

Next ==
    \/ MainStep
    \/ ServeStep
    \/ \E c \in Requests : Arrive(c) \/ Transact(c) \/ Answer(c)
    \/ Signal
    \/ Expire

Spec == Init /\ [][Next]_vars

(***************************************************************************)
(* Fairness: main is scheduled, and the deadline passes.  Nothing makes a  *)
(* handler answer.                                                         *)
(***************************************************************************)
FairSpec == Spec /\ WF_vars(MainStep) /\ WF_vars(Expire)

TransactProgress(c) ==
    /\ Alive
    /\ database
    /\ c \in served
    /\ Pg!CallProgress(c)
    /\ UNCHANGED <<database, main, httpVars, managerVars, cut>>

GetsConnection(c) ==
    /\ Alive
    /\ database
    /\ c \in served
    /\ Pg!Begin(c)
    /\ UNCHANGED <<database, main, httpVars, managerVars, cut>>

\* The handlers, their functions and the database answer, and the pool serves
\* whoever waits for a connection.
HandlersEnd ==
    \A c \in Requests : WF_vars(TransactProgress(c) \/ Answer(c)) /\ SF_vars(GetsConnection(c))

------------------------------------------------------------------------------
(* Properties *)

(***************************************************************************)
(* What WithTx returns tells its caller the fate of the transaction, which *)
(* is over, also while the pool is being closed.                           *)
(***************************************************************************)
ErrorTellsTheFate == Pg!ErrorTellsTheFate

\* The function of that service has returned this.
Stopped(name, result) ==
    \E s \in DOMAIN outcome : Services[s] = name /\ outcome[s] = result

(***************************************************************************)
(* No handler finds its pool closed, unless the server's Shutdown ran out  *)
(* of time: the pool is not closed while requests are served.              *)
(***************************************************************************)
PoolOutlivesRequests ==
    served # {} /\ pool # "open" => Stopped("http", "timedOut")

(***************************************************************************)
(* When main returns, no transaction is open, and requests are cut only if *)
(* the server's Shutdown ran out of time.  That holds although the         *)
(* goroutine in ListenAndServe gets to know of the Shutdown on its own, at *)
(* any time, or is only then scheduled for the first time.                 *)
(***************************************************************************)
ExitIsOrderly ==
    /\ main = "exited" => \A c \in Requests : tx[c] # "open"
    /\ cut # {} /\ inShutdown => Stopped("http", "timedOut")

(***************************************************************************)
(* A signal that RunWithTimeout waits for ends the process.  When handlers *)
(* do not, only the closing of the pool can outlast the deadline, and then *)
(* a transaction holds a connection; if they end, only a function that     *)
(* panicked in a transaction can keep the process.                         *)
(***************************************************************************)
SignalEndsProcess ==
    /\ quit ~> ~Alive \/ (calling /\ pool = "closing" /\ holders # {})
    /\ HandlersEnd => (quit ~> ~Alive \/ Pg!Panicked # {})

(***************************************************************************)
(* As long as the process lives every request is answered, even with more  *)
(* of them than connections, and while it shuts down.  A function that     *)
(* panics costs the pool a connection for good; requests survive that as   *)
(* long as a connection is left.                                           *)
(***************************************************************************)
RequestsAreAnswered ==
    HandlersEnd /\ [](Cardinality(Pg!Panicked) < MaxConns) =>
        \A c \in Requests : c \in served ~> c \notin served \/ ~Alive
==============================================================================
