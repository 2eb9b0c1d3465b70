--------------------------- MODULE HttpProcessProofs ---------------------------
(***************************************************************************)
(* For any requests and any size of the pool: what PgTx promises by itself *)
(* and within this process, that the pool outlives the requests, and what  *)
(* an orderly exit leaves behind.                                          *)
(***************************************************************************)
EXTENDS HttpProcess, TLAPS

ManagerP == INSTANCE ShutdownManagerProofs WITH
    Kinds <- {"obedient", "stubborn"}, MaxServices <- 2

\* The place of the server among the services; the pool has place 1.
Http == IF database THEN 2 ELSE 1

\* The variables of the manager and of main, as far as the order of the end
\* depends on them.
Shapes ==
    /\ database \in BOOLEAN
    /\ serve \in {"unstarted", "binding", "listening", "returned"}
    /\ pool \in {"open", "closing", "closed"}
    /\ services \in Seq({"obedient", "stubborn"})
    /\ snapshot \in Seq({"obedient", "stubborn"})
    /\ i \in Nat
    /\ calling \in BOOLEAN
    /\ inShutdown \in BOOLEAN
    /\ DOMAIN outcome = 1 .. Len(snapshot)
    /\ run \in {"unarmed", "listening", "signalled", "stopping", "returned"}

\* RunWithTimeout begins when main has registered its services.
RegisteredFirst ==
    /\ Len(services) <= Http
    /\ \A s \in 1 .. Len(services) : services[s] = Kind(Services[s])
    /\ main \in {"connecting", "registering"} => Len(services) < Http
    /\ main \in {"registered", "spawned", "exited"} \/ run # "unarmed" => Len(services) = Http
    /\ main \in {"connecting", "registering", "registered"} => run = "unarmed"
    /\ main = "exited" => run = "returned"

\* Before the snapshot nothing is stopped.
NotBegun ==
    run \in {"unarmed", "listening", "signalled"} =>
        snapshot = <<>> /\ i = 0 /\ ~calling /\ ~inShutdown /\ pool = "open"

\* After it the server is stopped first, ...
ServerFirst ==
    run \in {"stopping", "returned"} =>
        /\ Len(snapshot) = Http
        /\ i <= Http
        /\ calling => run = "stopping" /\ i > 0
        /\ run = "returned" => i = 0
        /\ inShutdown <=> i < Http \/ calling
        /\ i < Http => outcome[Http] \in {"stopped", "timedOut"}
        /\ i < Http /\ outcome[Http] = "stopped" => served = {}

\* ... and then the pool, if there is one.
PoolLast ==
    /\ pool # "open" => database /\ (i = 0 \/ (i = 1 /\ calling))
    /\ database /\ run \in {"stopping", "returned"} /\ i = 0 => pool = "closed"

\* No request is served before the server listens.
ServedIsListened == serve \in {"unstarted", "binding"} => served = {}

\* Without a database nobody calls WithTx.
NoDatabaseNoCalls == ~database => tx = [c \in Requests |-> "none"]

\* The process has ended when requests have been cut, which are those in service.
CutAtTheEnd ==
    cut # {} =>
        /\ ~Alive
        /\ inShutdown => run \in {"stopping", "returned"} /\ i < Http /\ outcome[Http] = "timedOut"

IInv ==
    /\ Shapes
    /\ RegisteredFirst
    /\ NotBegun
    /\ ServerFirst
    /\ PoolLast
    /\ ServedIsListened
    /\ NoDatabaseNoCalls
    /\ CutAtTheEnd

------------------------------------------------------------------------------

LEMMA InitIInv == Init => IInv
  <1> SUFFICES ASSUME Init
               PROVE  IInv
    OBVIOUS
  <1> USE DEF Init, Pg!Init, Manager!Init
  <1>1. Shapes
    <2>1. DOMAIN outcome = {} /\ 1 .. Len(snapshot) = {}
      OBVIOUS
    <2>2. services \in Seq({"obedient", "stubborn"}) /\ snapshot \in Seq({"obedient", "stubborn"})
      OBVIOUS
    <2>3. QED
      BY <2>1, <2>2 DEF Shapes
  <1>2. RegisteredFirst
    <2>1. Http >= 1 /\ Len(services) = 0 /\ 1 .. Len(services) = {}
      BY DEF Http
    <2>2. run = "unarmed" /\ main \in {"connecting", "registering"}
      OBVIOUS
    <2>3. QED
      BY <2>1, <2>2, Http \in Nat DEF RegisteredFirst, Http
  <1>3. NotBegun /\ ServerFirst /\ PoolLast
    BY DEF NotBegun, ServerFirst, PoolLast
  <1>4. ServedIsListened /\ NoDatabaseNoCalls /\ CutAtTheEnd
    BY DEF ServedIsListened, NoDatabaseNoCalls, CutAtTheEnd
  <1>5. QED
    BY <1>1, <1>2, <1>3, <1>4 DEF IInv

\* The manager's steps before it stops anything.
LEMMA AwaitStep == IInv /\ AwaitSignal => IInv'
  <1> SUFFICES ASSUME IInv, AwaitSignal
               PROVE  IInv'
    OBVIOUS
  <1> USE DEF IInv, Shapes, RegisteredFirst, NotBegun, ServerFirst, PoolLast, ServedIsListened,
              NoDatabaseNoCalls, CutAtTheEnd, Http, AwaitSignal, Services, Kind, Alive, httpVars, pgVars
  <1>1. CASE Manager!Notify
    BY <1>1 DEF Manager!Notify
  <1>2. CASE Manager!Receive
    BY <1>2 DEF Manager!Receive
  <1>3. CASE Manager!Snapshot
    BY <1>3 DEF Manager!Snapshot
  <1>4. QED
    BY <1>1, <1>2, <1>3

\* main registers its services.
LEMMA RegisterStep == IInv /\ Register => IInv'
  <1> SUFFICES ASSUME IInv, Register
               PROVE  IInv'
    OBVIOUS
  <1> USE DEF IInv, Shapes, RegisteredFirst, NotBegun, ServerFirst, PoolLast, ServedIsListened,
              NoDatabaseNoCalls, CutAtTheEnd, Http, Register, Manager!Register, Alive, httpVars, pgVars
  <1>1. /\ Len(services') = Len(services) + 1
        /\ services' \in Seq({"obedient", "stubborn"})
        /\ \A s \in 1 .. Len(services') : services'[s] = Kind(Services[s])
    BY DEF Kind
  <1>2. DOMAIN Services = 1 .. Http
    <2>1. CASE database
      BY <2>1 DEF Services
    <2>2. CASE ~database
      BY <2>2 DEF Services
    <2>3. QED
      BY <2>1, <2>2
  <1>3. Len(services') = Http <=> services' = [s \in DOMAIN Services |-> Kind(Services[s])]
    BY <1>1, <1>2
  <1>4. \A s : (Kind(Services[s]))' = Kind(Services[s])
    BY DEF Services, Kind
  <1>5. Shapes' /\ NotBegun' /\ ServerFirst' /\ PoolLast'
    BY <1>1
  <1>6. RegisteredFirst'
    BY <1>1, <1>3, <1>4
  <1>7. ServedIsListened' /\ NoDatabaseNoCalls' /\ CutAtTheEnd'
    OBVIOUS
  <1>8. QED
    BY <1>5, <1>6, <1>7

\* The server's Shutdown begins and returns.
LEMMA ShutdownStep == IInv /\ (CallShutdown \/ ShutdownReturned) => IInv'
  <1> SUFFICES ASSUME IInv, CallShutdown \/ ShutdownReturned
               PROVE  IInv'
    OBVIOUS
  <1> USE DEF IInv, Shapes, RegisteredFirst, NotBegun, ServerFirst, PoolLast, ServedIsListened,
              NoDatabaseNoCalls, CutAtTheEnd, Http, Calling, Services, Kind, Alive, httpVars, pgVars
  <1>1. CASE CallShutdown
    BY <1>1 DEF CallShutdown, Manager!Call
  <1>2. CASE ShutdownReturned
    <2>1. i = Http /\ calling /\ run = "stopping" /\ i' = Http - 1 /\ calling' = FALSE
      BY <1>2 DEF ShutdownReturned, Manager!FnReturns
    <2>2. PICK result \in {"stopped", "timedOut"} :
            (result = "stopped" => served = {}) /\ Manager!FnReturns(result)
      BY <1>2 DEF ShutdownReturned
    <2>3. outcome' = [outcome EXCEPT ![Http] = result] /\ Http \in DOMAIN outcome
      <3>1. DOMAIN outcome = 1 .. Http /\ Http \in 1 .. Http
        BY <2>1
      <3>2. outcome' = [outcome EXCEPT ![i] = result]
        BY <2>2 DEF Manager!FnReturns
      <3>3. QED
        BY <2>1, <3>1, <3>2
    <2>4. DOMAIN outcome' = DOMAIN outcome /\ outcome'[Http] = result
      BY <2>3
    <2>5. UNCHANGED <<database, main, serve, inShutdown, served, pool, tx, cut, services, process, run,
                      snapshot>>
      BY <1>2, <2>2 DEF ShutdownReturned, Manager!FnReturns
    <2>6. Shapes'
      <3>1. DOMAIN outcome' = 1 .. Len(snapshot')
        BY <2>4, <2>5
      <3>2. i' \in Nat
        BY <2>1
      <3>3. calling' \in BOOLEAN
        BY <2>1
      <3>4. QED
        BY <3>1, <3>2, <3>3, <2>5
    <2>7. NotBegun' /\ NoDatabaseNoCalls' /\ ServedIsListened'
      BY <2>1, <2>5
    <2>8. RegisteredFirst'
      BY <2>5
    <2>9. ServerFirst'
      BY <2>1, <2>2, <2>4, <2>5
    <2>10. PoolLast' /\ CutAtTheEnd'
      BY <1>2, <2>1, <2>4, <2>5 DEF ShutdownReturned
    <2>11. QED
      BY <2>6, <2>7, <2>8, <2>9, <2>10
  <1>3. QED
    BY <1>1, <1>2

\* The pool's Close begins and returns.
LEMMA CloseStep == IInv /\ (CallClose \/ CloseReturned) => IInv'
  <1> SUFFICES ASSUME IInv, CallClose \/ CloseReturned
               PROVE  IInv'
    OBVIOUS
  <1> USE DEF IInv, Shapes, RegisteredFirst, NotBegun, ServerFirst, PoolLast, ServedIsListened,
              NoDatabaseNoCalls, CutAtTheEnd, Http, Calling, Services, Kind, Alive, httpVars, pgVars
  <1>1. CASE CallClose
    BY <1>1 DEF CallClose, Manager!Call, Pg!Close
  <1>2. CASE CloseReturned
    <2>1. database /\ i = 1 /\ calling /\ run = "stopping" /\ i' = 0 /\ calling' = FALSE
      BY <1>2 DEF CloseReturned, Manager!FnReturns
    <2>2. outcome' = [outcome EXCEPT ![1] = "stopped"] /\ pool' = "closed"
      BY <1>2, <2>1 DEF CloseReturned, Manager!FnReturns, Pg!Closed
    <2>3. DOMAIN outcome' = DOMAIN outcome /\ outcome'[2] = outcome[2]
      BY <2>1, <2>2
    <2>4. UNCHANGED <<database, main, serve, inShutdown, served, tx, cut, services, process, run, snapshot>>
      BY <1>2 DEF CloseReturned, Manager!FnReturns, Pg!Closed
    <2>5. Shapes'
      <3>1. DOMAIN outcome' = 1 .. Len(snapshot')
        BY <2>3, <2>4
      <3>2. QED
        BY <2>1, <2>2, <2>4, <3>1
    <2>6. NotBegun' /\ NoDatabaseNoCalls' /\ ServedIsListened'
      BY <2>1, <2>4
    <2>7. RegisteredFirst'
      BY <2>4
    <2>8. ServerFirst'
      BY <2>1, <2>3, <2>4
    <2>9. PoolLast' /\ CutAtTheEnd'
      BY <1>2, <2>1, <2>2, <2>3, <2>4 DEF CloseReturned
    <2>10. QED
      BY <2>5, <2>6, <2>7, <2>8, <2>9
  <1>3. QED
    BY <1>1, <1>2

(***************************************************************************)
(* The inductive step.  No request arrives once the server shuts down, and *)
(* its function returns nil only when none is left; the pool is closed by  *)
(* the function that the loop calls after it.                              *)
(***************************************************************************)
LEMMA InvariantStep == IInv /\ [Next]_vars => IInv'
  <1> SUFFICES ASSUME IInv, [Next]_vars
               PROVE  IInv'
    OBVIOUS
  <1> USE DEF IInv, Shapes, RegisteredFirst, NotBegun, ServerFirst, PoolLast, ServedIsListened,
              NoDatabaseNoCalls, CutAtTheEnd, Http, Kind, Services, Alive, httpVars, pgVars, managerVars
  <1>1. CASE Connect \/ ConnectFails \/ GoServe
    BY <1>1 DEF Connect, ConnectFails, GoServe
  <1>2. CASE RunReturns
    BY <1>2 DEF RunReturns, Manager!Return
  <1>3. CASE Exit
    BY <1>3 DEF Exit
  <1>4. CASE ListenAndServe \/ ServeReturns
    BY <1>4 DEF ListenAndServe, ServeReturns
  <1>5. CASE ServeFails
    BY <1>5 DEF ServeFails
  <1>6. ASSUME NEW c \in Requests, Arrive(c)
        PROVE  IInv'
    BY <1>6 DEF Arrive
  <1>7. ASSUME NEW c \in Requests, Transact(c)
        PROVE  IInv'
    <2>1. pool' = pool
      BY <1>7 DEF Transact, Pg!CallStep, Pg!CallProgress, Pg!Call, Pg!Begin, Pg!BeginFails, Pg!FnSucceeds,
                  Pg!FnFails, Pg!FnPanics, Pg!Commit, Pg!CommitFails, Pg!Rollback
    <2>2. QED
      BY <1>7, <2>1 DEF Transact
  <1>8. ASSUME NEW c \in Requests, Answer(c)
        PROVE  IInv'
    <2>1. pool' = pool
      BY <1>8 DEF Answer, Pg!Forget
    <2>2. UNCHANGED <<database, main, serve, inShutdown, cut, services, process, run, snapshot, i, calling,
                      outcome>>
      BY <1>8 DEF Answer
    <2>3. served' = served \ {c}
      BY <1>8 DEF Answer
    <2>4. tx' = [tx EXCEPT ![c] = "none"] \/ tx' = tx
      BY <1>8 DEF Answer, Pg!Forget, Pg!SetTx
    <2>5. NoDatabaseNoCalls'
      BY <2>2, <2>4
    <2>6. QED
      BY <2>1, <2>2, <2>3, <2>5
  <1>9. CASE Signal
    BY <1>9 DEF Signal, Manager!Signal, Manager!SignalKills
  <1>10. CASE Expire
    BY <1>10 DEF Expire, Manager!Expire
  <1>11. CASE UNCHANGED vars
    BY <1>11 DEF vars
  <1>12. QED
    BY <1>1, <1>2, <1>3, <1>4, <1>5, <1>6, <1>7, <1>8, <1>9, <1>10, <1>11,
       AwaitStep, RegisterStep, ShutdownStep, CloseStep DEF Next, MainStep, ServeStep

LEMMA AlwaysIInv == Spec => []IInv
  BY InitIInv, InvariantStep, PTL DEF Spec

------------------------------------------------------------------------------
(* PgTx: any number of callers, here the requests, over a pool of any size *)

\* A connection is held exactly as long as its transaction is open.
HoldersAreOpen == \A c \in Requests : c \in holders <=> tx[c] = "open"

\* What is known of a transaction at each place of the call.
FateAtPlace ==
    \A c \in Requests :
        /\ caller[c] \in {"idle", "begin"} => tx[c] = "none" /\ err[c] = "nil"
        /\ caller[c] \in {"fn", "commit", "panicked"} => tx[c] = "open" /\ err[c] = "nil"
        /\ caller[c] = "rollback" =>
              \/ err[c] = "fnError" /\ tx[c] = "open"
              \/ err[c] = "commitError" /\ tx[c] \in {"committed", "aborted"}

\* No transaction is open on a pool that is closed: Close waits for all of
\* them, and Begin takes no connection from a pool that is closing.
ClosedPoolIsIdle == pool = "closed" => \A c \in Requests : tx[c] # "open"

PoolInv ==
    /\ Pg!TypeOK
    /\ HoldersAreOpen
    /\ FateAtPlace
    /\ Pg!ErrorTellsTheFate
    /\ ClosedPoolIsIdle

LEMMA PoolInit == Pg!Init => PoolInv
  BY DEF Pg!Init, PoolInv, Pg!TypeOK, HoldersAreOpen, FateAtPlace, Pg!ErrorTellsTheFate, ClosedPoolIsIdle,
         Pg!CallStates, Pg!Errors

\* Every step preserves the types.
LEMMA PoolTypeStep == Pg!TypeOK /\ [Pg!Next]_(Pg!vars) => Pg!TypeOK'
  <1> SUFFICES ASSUME Pg!TypeOK, [Pg!Next]_(Pg!vars)
               PROVE  Pg!TypeOK'
    OBVIOUS
  <1> USE DEF Pg!TypeOK, Pg!CallStates, Pg!Errors
  <1>1. CASE Pg!Close \/ Pg!Closed
    BY <1>1 DEF Pg!Close, Pg!Closed
  <1>2. ASSUME NEW c \in Requests, Pg!Call(c) \/ Pg!Begin(c) \/ Pg!BeginFails(c)
        PROVE  Pg!TypeOK'
    BY <1>2 DEF Pg!Call, Pg!Begin, Pg!BeginFails, Pg!Goto, Pg!SetTx, Pg!SetErr
  <1>3. ASSUME NEW c \in Requests, Pg!FnSucceeds(c) \/ Pg!FnFails(c) \/ Pg!FnPanics(c)
        PROVE  Pg!TypeOK'
    BY <1>3 DEF Pg!FnSucceeds, Pg!FnFails, Pg!FnPanics, Pg!Goto, Pg!SetErr
  <1>4. ASSUME NEW c \in Requests, Pg!Commit(c) \/ Pg!CommitFails(c)
        PROVE  Pg!TypeOK'
    BY <1>4 DEF Pg!Commit, Pg!CommitFails, Pg!Goto, Pg!SetTx, Pg!SetErr
  <1>5. ASSUME NEW c \in Requests, Pg!Rollback(c) \/ Pg!Forget(c)
        PROVE  Pg!TypeOK'
    BY <1>5 DEF Pg!Rollback, Pg!Forget, Pg!Goto, Pg!SetTx, Pg!SetErr
  <1>6. CASE UNCHANGED Pg!vars
    BY <1>6 DEF Pg!vars
  <1>7. QED
    BY <1>1, <1>2, <1>3, <1>4, <1>5, <1>6 DEF Pg!Next, Pg!CallStep, Pg!CallProgress

(***************************************************************************)
(* The inductive step.  A call touches only its own entries; both ways out *)
(* of Commit end the transaction, and the one way to a result that does    *)
(* not pass through Commit or Begin's error is Rollback.                   *)
(***************************************************************************)
LEMMA PoolInvariantStep == PoolInv /\ [Pg!Next]_(Pg!vars) => PoolInv'
  <1> SUFFICES ASSUME PoolInv, [Pg!Next]_(Pg!vars)
               PROVE  PoolInv'
    OBVIOUS
  <1>1. Pg!TypeOK'
    BY PoolTypeStep DEF PoolInv
  <1> USE DEF PoolInv, Pg!TypeOK, Pg!CallStates, Pg!Errors, HoldersAreOpen, FateAtPlace, Pg!ErrorTellsTheFate,
              ClosedPoolIsIdle
  <1>2. CASE Pg!Close
    BY <1>1, <1>2 DEF Pg!Close
  <1>3. CASE Pg!Closed
    BY <1>1, <1>3 DEF Pg!Closed
  <1>4. ASSUME NEW c \in Requests, Pg!Call(c)
        PROVE  PoolInv'
    BY <1>1, <1>4 DEF Pg!Call, Pg!Goto
  <1>5. ASSUME NEW c \in Requests, Pg!Begin(c)
        PROVE  PoolInv'
    BY <1>1, <1>5 DEF Pg!Begin, Pg!Goto, Pg!SetTx
  <1>6. ASSUME NEW c \in Requests, Pg!BeginFails(c)
        PROVE  PoolInv'
    BY <1>1, <1>6 DEF Pg!BeginFails, Pg!Goto, Pg!SetErr
  <1>7. ASSUME NEW c \in Requests, Pg!FnSucceeds(c) \/ Pg!FnPanics(c)
        PROVE  PoolInv'
    BY <1>1, <1>7 DEF Pg!FnSucceeds, Pg!FnPanics, Pg!Goto
  <1>8. ASSUME NEW c \in Requests, Pg!FnFails(c)
        PROVE  PoolInv'
    BY <1>1, <1>8 DEF Pg!FnFails, Pg!Goto, Pg!SetErr
  <1>9. ASSUME NEW c \in Requests, Pg!Commit(c)
        PROVE  PoolInv'
    BY <1>1, <1>9 DEF Pg!Commit, Pg!Goto, Pg!SetTx
  <1>10. ASSUME NEW c \in Requests, Pg!CommitFails(c)
         PROVE  PoolInv'
    BY <1>1, <1>10 DEF Pg!CommitFails, Pg!Goto, Pg!SetTx, Pg!SetErr
  <1>11. ASSUME NEW c \in Requests, Pg!Rollback(c)
         PROVE  PoolInv'
    BY <1>1, <1>11 DEF Pg!Rollback, Pg!Goto, Pg!SetTx
  <1>12. ASSUME NEW c \in Requests, Pg!Forget(c)
         PROVE  PoolInv'
    BY <1>1, <1>12 DEF Pg!Forget, Pg!Goto, Pg!SetTx, Pg!SetErr
  <1>13. CASE UNCHANGED Pg!vars
    BY <1>13 DEF Pg!vars
  <1>14. QED
    BY <1>2, <1>3, <1>4, <1>5, <1>6, <1>7, <1>8, <1>9, <1>10, <1>11, <1>12, <1>13
       DEF Pg!Next, Pg!CallStep, Pg!CallProgress

LEMMA PoolInvariance == Pg!Spec => []PoolInv
  BY PoolInit, PoolInvariantStep, PTL DEF Pg!Spec

------------------------------------------------------------------------------

\* The variables keep their types, for any callers and any size of the pool.
THEOREM PoolTypeCorrect == Pg!Spec => []Pg!TypeOK
  <1>1. PoolInv => Pg!TypeOK
    BY DEF PoolInv
  <1>2. QED
    BY <1>1, PoolInvariance, PTL

\* Whatever the function and the database do, and whether or not the pool is
\* being closed, what WithTx returns tells the fate of the transaction, which
\* is over and has given its connection back.
THEOREM WithTxTellsTheFate == Pg!Spec => []Pg!ErrorTellsTheFate
  <1>1. PoolInv => Pg!ErrorTellsTheFate
    BY DEF PoolInv
  <1>2. QED
    BY <1>1, PoolInvariance, PTL

\* When the pool's Close has returned, no transaction is open, not even one of a
\* function that panicked.
THEOREM NothingOpenAfterClose == Pg!Spec => []ClosedPoolIsIdle
  <1>1. PoolInv => ClosedPoolIsIdle
    BY DEF PoolInv
  <1>2. QED
    BY <1>1, PoolInvariance, PTL

------------------------------------------------------------------------------

(***************************************************************************)
(* The process drives its pool by the steps of PgTx alone: it implements   *)
(* PgTx, and what is proved there holds here.                              *)
(***************************************************************************)
LEMMA PoolStep == [Next]_vars => [Pg!Next]_(Pg!vars)
  <1> SUFFICES ASSUME [Next]_vars
               PROVE  [Pg!Next]_(Pg!vars)
    OBVIOUS
  <1>1. CASE CallClose
    BY <1>1 DEF CallClose, Pg!Next
  <1>2. CASE CloseReturned
    BY <1>2 DEF CloseReturned, Pg!Next
  <1>3. ASSUME NEW c \in Requests, Transact(c)
        PROVE  Pg!Next
    BY <1>3 DEF Transact, Pg!Next
  <1>4. ASSUME NEW c \in Requests, Answer(c)
        PROVE  [Pg!Next]_(Pg!vars)
    BY <1>4 DEF Answer, Pg!Next, pgVars, Pg!vars
  <1>5. CASE UNCHANGED pgVars
    BY <1>5 DEF pgVars, Pg!vars
  <1>6. CASE UNCHANGED vars
    BY <1>6 DEF vars, pgVars, Pg!vars
  <1>7. QED
    BY <1>1, <1>2, <1>3, <1>4, <1>5, <1>6
       DEF Next, MainStep, ServeStep, Connect, ConnectFails, Register, GoServe, AwaitSignal, CallShutdown,
           ShutdownReturned, RunReturns, Exit, ListenAndServe, ServeReturns, ServeFails, Arrive, Signal,
           Expire

\* The process implements PgTx, its requests being the callers.
THEOREM ImplementsPool == Spec => Pg!Spec
  <1>1. Init => Pg!Init
    BY DEF Init
  <1>2. QED
    BY <1>1, PoolStep, PTL DEF Spec, Pg!Spec

LEMMA AlwaysPool == Spec => []PoolInv
  BY ImplementsPool, PoolInvariance, PTL

(***************************************************************************)
(* Every step of the process is a step of the manager or leaves it alone.  *)
(***************************************************************************)
LEMMA ManagerStep == [Next]_vars => [Manager!Next]_(Manager!vars)
  <1> SUFFICES ASSUME [Next]_vars
               PROVE  [Manager!Next]_(Manager!vars)
    OBVIOUS
  <1>1. CASE Register
    <2>1. Kind(Services[Len(services) + 1]) \in {"obedient", "stubborn"}
      BY DEF Kind
    <2>2. QED
      BY <1>1, <2>1 DEF Register, Manager!Next
  <1>2. CASE AwaitSignal
    BY <1>2 DEF AwaitSignal, Manager!Next, Manager!RunStep
  <1>3. CASE CallShutdown \/ CallClose
    BY <1>3 DEF CallShutdown, CallClose, Manager!Next, Manager!RunStep
  <1>4. CASE ShutdownReturned \/ CloseReturned
    <2>1. Manager!FnReturns("stopped") \/ Manager!FnReturns("timedOut")
      BY <1>4 DEF ShutdownReturned, CloseReturned
    <2>2. "stopped" \in Manager!Outcomes /\ "timedOut" \in Manager!Outcomes
      BY DEF Manager!Outcomes
    <2>3. QED
      BY <2>1, <2>2 DEF Manager!Next, Manager!RunStep
  <1>5. CASE RunReturns
    BY <1>5 DEF RunReturns, Manager!Next, Manager!RunStep
  <1>6. CASE Signal
    BY <1>6 DEF Signal, Manager!Next
  <1>7. CASE Expire
    BY <1>7 DEF Expire, Manager!Next
  <1>8. CASE UNCHANGED managerVars
    BY <1>8 DEF managerVars, Manager!vars
  <1>9. CASE UNCHANGED vars
    BY <1>9 DEF vars, managerVars, Manager!vars
  <1>10. QED
    BY <1>1, <1>2, <1>3, <1>4, <1>5, <1>6, <1>7, <1>8, <1>9
       DEF Next, MainStep, ServeStep, Connect, ConnectFails, GoServe, Exit, ListenAndServe, ServeReturns,
           ServeFails, Arrive, Transact, Answer

\* The process implements the manager, with its two services of their two kinds.
THEOREM ImplementsManager == Spec => Manager!Spec
  <1>1. Init => Manager!Init
    BY DEF Init
  <1>2. QED
    BY <1>1, ManagerStep, PTL DEF Spec, Manager!Spec

\* Manager and ManagerP are instances of the same module.
LEMMA SameManager == Manager!Spec <=> ManagerP!Spec
  <1>1. Manager!Next <=> ManagerP!Next
    BY DEF Manager!Next, Manager!Register, Manager!SignalKills, Manager!Signal, Manager!Expire,
           Manager!RunStep, Manager!Outcomes, Manager!Notify, Manager!Receive, Manager!Snapshot,
           Manager!Call, Manager!CallNil, Manager!FnReturns, Manager!Return,
           ManagerP!Next, ManagerP!Register, ManagerP!SignalKills, ManagerP!Signal, ManagerP!Expire,
           ManagerP!RunStep, ManagerP!Outcomes, ManagerP!Notify, ManagerP!Receive, ManagerP!Snapshot,
           ManagerP!Call, ManagerP!CallNil, ManagerP!FnReturns, ManagerP!Return
  <1>2. QED
    BY <1>1, PTL
       DEF Manager!Spec, ManagerP!Spec, Manager!Init, ManagerP!Init, Manager!vars, ManagerP!vars

\* What is proved of the manager holds in this process.
LEMMA AlwaysManager == Spec => []ManagerP!IInv
  <1>1. ManagerP!Spec => []ManagerP!IInv
    BY ManagerP!Invariance
  <1>2. QED
    BY <1>1, ImplementsManager, SameManager, PTL

------------------------------------------------------------------------------

\* For any requests and any size of the pool: what WithTx returns in this process
\* tells the fate of its transaction, also while the pool is being closed.
THEOREM ResultTellsTheFate == Spec => []ErrorTellsTheFate
  <1>1. PoolInv => ErrorTellsTheFate
    BY DEF PoolInv, ErrorTellsTheFate
  <1>2. QED
    BY <1>1, AlwaysPool, PTL

\* For any number of requests: the pool is not closed while requests are served,
\* unless the server's Shutdown ran out of time.
THEOREM PoolOutlives == Spec => []PoolOutlivesRequests
  <1>1. IInv => PoolOutlivesRequests
    <2> SUFFICES ASSUME IInv, served # {}, pool # "open"
                 PROVE  Stopped("http", "timedOut")
      BY DEF PoolOutlivesRequests
    <2> USE DEF IInv, Shapes, NotBegun, ServerFirst, PoolLast
    <2>1. run \in {"stopping", "returned"} /\ database /\ i <= 1
      OBVIOUS
    <2>2. Http = 2 /\ Services[2] = "http"
      BY <2>1 DEF Http, Services
    <2>3. outcome[2] = "timedOut"
      BY <2>1, <2>2
    <2>4. 2 \in DOMAIN outcome
      <3>1. DOMAIN outcome = 1 .. Http
        BY <2>1
      <3>2. Http \in 1 .. Http
        BY <2>2
      <3>3. QED
        BY <2>2, <3>1, <3>2
    <2>5. QED
      BY <2>2, <2>3, <2>4 DEF Stopped
  <1>2. QED
    BY <1>1, AlwaysIInv, PTL

\* For any number of requests: main returns with no transaction open, and cuts
\* requests only if the server's Shutdown ran out of time.
THEOREM OrderlyExit == Spec => []ExitIsOrderly
  <1>1. IInv /\ PoolInv => ExitIsOrderly
    <2> SUFFICES ASSUME IInv, PoolInv
                 PROVE  ExitIsOrderly
      OBVIOUS
    <2> USE DEF IInv, Shapes
    <2>1. ASSUME main = "exited", NEW c \in Requests
          PROVE  tx[c] # "open"
      <3>1. run = "returned" /\ i = 0
        BY <2>1 DEF RegisteredFirst, ServerFirst
      <3>2. CASE database
        BY <3>1, <3>2 DEF PoolLast, PoolInv, ClosedPoolIsIdle
      <3>3. CASE ~database
        BY <3>3 DEF NoDatabaseNoCalls
      <3>4. QED
        BY <3>2, <3>3
    <2>2. ASSUME cut # {}, inShutdown
          PROVE  Stopped("http", "timedOut")
      <3>1. run \in {"stopping", "returned"} /\ outcome[Http] = "timedOut"
        BY <2>2 DEF CutAtTheEnd
      <3>2. Http \in 1 .. Http
        BY DEF Http
      <3>3. Http \in DOMAIN outcome
        BY <3>1, <3>2 DEF ServerFirst
      <3>4. Services[Http] = "http"
        BY DEF Services, Http
      <3>5. QED
        BY <3>1, <3>3, <3>4 DEF Stopped
    <2>3. QED
      BY <2>1, <2>2 DEF ExitIsOrderly
  <1>2. QED
    BY <1>1, AlwaysIInv, AlwaysPool, PTL

\* The variables keep their types, for any requests and any size of the pool.
THEOREM TypeCorrect == Spec => []TypeOK
  <1> DEFINE Sets == served \subseteq Requests /\ cut \subseteq Requests
  <1>1. Init => Sets
    BY DEF Init
  <1>2. Sets /\ [Next]_vars => Sets'
    BY DEF Next, MainStep, ServeStep, Connect, ConnectFails, Register, GoServe, AwaitSignal, CallShutdown,
           ShutdownReturned, CallClose, CloseReturned, RunReturns, Exit, ListenAndServe, ServeReturns,
           ServeFails, Arrive, Transact, Answer, Signal, Expire, vars, httpVars
  <1>3. ManagerP!IInv => Manager!TypeOK
    BY DEF ManagerP!IInv, ManagerP!TypeOK, Manager!TypeOK, ManagerP!Outcomes, Manager!Outcomes
  <1> DEFINE Main == main \in {"connecting", "registering", "registered", "spawned", "exited", "failed"}
  <1>4. Init => Main
    BY DEF Init
  <1>5. Main /\ [Next]_vars => Main'
    BY DEF Next, MainStep, ServeStep, Connect, ConnectFails, Register, GoServe, AwaitSignal, CallShutdown,
           ShutdownReturned, CallClose, CloseReturned, RunReturns, Exit, ListenAndServe, ServeReturns,
           ServeFails, Arrive, Transact, Answer, Signal, Expire, vars
  <1>6. IInv /\ PoolInv /\ ManagerP!IInv /\ Sets /\ Main => TypeOK
    BY <1>3 DEF IInv, Shapes, PoolInv, TypeOK
  <1>7. QED
    BY <1>1, <1>2, <1>4, <1>5, <1>6, AlwaysIInv, AlwaysPool, AlwaysManager, PTL DEF Spec
==============================================================================
