--------------------------- MODULE ShutdownManager ---------------------------
(***************************************************************************)
(* The shutdown manager of lib/shutdown/manager.go.  Services register a   *)
(* stop function; Run or RunWithTimeout waits for a signal, takes a        *)
(* snapshot of the services and calls their functions one after the other, *)
(* the last registered first, all under one context.                       *)
(*                                                                         *)
(* Register may be called by any goroutine at any time.  A service is      *)
(* known by its place in m.services; of its function only the kind is      *)
(* kept:                                                                   *)
(*   "obedient"  returns when its work is done or the context is done      *)
(*               (Server.Shutdown of lib/tcp and of net/http),             *)
(*   "stubborn"  ignores the context and returns when its work is done     *)
(*               (the wrapper of pool.Close in the generated main),        *)
(*   "nil"       a nil function, which Register accepts.                   *)
(***************************************************************************)
EXTENDS Naturals, Sequences

CONSTANTS
    Kinds,          \* the kinds of stop functions that are registered
    MaxServices     \* bound: how many services register

ASSUME KindsAssumption == Kinds \subseteq {"obedient", "stubborn", "nil"}
ASSUME MaxServicesAssumption == MaxServices \in Nat

VARIABLES
    services,       \* m.services, the kinds in order of registration
    process,        \* "alive", "killed" by the signal or "panicked"
    run,            \* the goroutine that calls Run
    quit,           \* whether a signal is in the channel, whose capacity is 1
    due,            \* history: how many services there were at the signal
    snapshot,       \* the services that run stops
    i,              \* the place of the service that is stopped next
    calling,        \* whether that service's function is running
    outcome,        \* what the functions in the snapshot returned
    expired         \* whether the timeout of run's context has passed

vars == <<services, process, run, quit, due, snapshot, i, calling, outcome, expired>>

\* What a stop function returns: nil, context.DeadlineExceeded, another error.
Outcomes == {"stopped", "timedOut", "failed"}

TypeOK ==
    /\ services \in Seq(Kinds)
    /\ process \in {"alive", "killed", "panicked"}
    /\ run \in {"unarmed", "listening", "signalled", "stopping", "returned"}
    /\ quit \in BOOLEAN
    /\ due \in Nat
    /\ snapshot \in Seq(Kinds)
    /\ i \in Nat
    /\ calling \in BOOLEAN
    /\ outcome \in [1 .. Len(snapshot) -> Outcomes \cup {"pending"}]
    /\ expired \in BOOLEAN

Init ==
    /\ services = <<>>
    /\ process = "alive"
    /\ run = "unarmed"
    /\ quit = FALSE
    /\ due = 0
    /\ snapshot = <<>>
    /\ i = 0
    /\ calling = FALSE
    /\ outcome = [s \in {} |-> "pending"]
    /\ expired = FALSE

------------------------------------------------------------------------------
(* Other goroutines and the operating system *)

Register(kind) ==
    /\ process = "alive"
    /\ Len(services) < MaxServices
    /\ services' = Append(services, kind)
    /\ UNCHANGED <<process, run, quit, due, snapshot, i, calling, outcome, expired>>

\* A signal before signal.Notify has its default effect.
SignalKills ==
    /\ process = "alive"
    /\ run = "unarmed"
    /\ process' = "killed"
    /\ UNCHANGED <<services, run, quit, due, snapshot, i, calling, outcome, expired>>

\* After it, the signal is put in the channel, or dropped when that is full.
Signal ==
    /\ process = "alive"
    /\ run # "unarmed"
    /\ quit' = TRUE
    /\ UNCHANGED <<services, process, run, due, snapshot, i, calling, outcome, expired>>

\* context.WithTimeout is called only after the signal.  In Run, and with a
\* timeout that is not positive, this never happens.
Expire ==
    /\ run = "stopping"
    /\ expired' = TRUE
    /\ UNCHANGED <<services, process, run, quit, due, snapshot, i, calling, outcome>>

------------------------------------------------------------------------------
(* The goroutine in Run *)

\* signalCh: signal.Notify.
Notify ==
    /\ process = "alive"
    /\ run = "unarmed"
    /\ run' = "listening"
    /\ UNCHANGED <<services, process, quit, due, snapshot, i, calling, outcome, expired>>

Receive ==
    /\ process = "alive"
    /\ run = "listening"
    /\ quit
    /\ quit' = FALSE
    /\ run' = "signalled"
    /\ due' = Len(services)
    /\ UNCHANGED <<services, process, snapshot, i, calling, outcome, expired>>

Snapshot ==
    /\ process = "alive"
    /\ run = "signalled"
    /\ snapshot' = services
    /\ i' = Len(services)
    /\ outcome' = [s \in 1 .. Len(services) |-> "pending"]
    /\ run' = "stopping"
    /\ UNCHANGED <<services, process, quit, due, calling, expired>>

Call ==
    /\ process = "alive"
    /\ run = "stopping"
    /\ ~calling
    /\ i > 0
    /\ snapshot[i] # "nil"
    /\ calling' = TRUE
    /\ UNCHANGED <<services, process, run, quit, due, snapshot, i, outcome, expired>>

\* Calling a nil function panics, and nothing recovers.
CallNil ==
    /\ process = "alive"
    /\ run = "stopping"
    /\ ~calling
    /\ i > 0
    /\ snapshot[i] = "nil"
    /\ process' = "panicked"
    /\ UNCHANGED <<services, run, quit, due, snapshot, i, calling, outcome, expired>>

\* Mutant of FnReturns: an error ends the loop.
FnErrorEndsLoop(result) ==
    /\ process = "alive"
    /\ run = "stopping"
    /\ calling
    /\ result = "timedOut" => expired /\ snapshot[i] = "obedient"
    /\ outcome' = [outcome EXCEPT ![i] = result]
    /\ i' = IF result = "stopped" THEN i - 1 ELSE 0
    /\ calling' = FALSE
    /\ UNCHANGED <<services, process, run, quit, due, snapshot, expired>>

\* Mutant of FnReturns: a service that failed is stopped again.
FnErrorRetries(result) ==
    /\ process = "alive"
    /\ run = "stopping"
    /\ calling
    /\ result = "timedOut" => expired /\ snapshot[i] = "obedient"
    /\ outcome' = [outcome EXCEPT ![i] = result]
    /\ i' = IF result = "stopped" THEN i - 1 ELSE i
    /\ calling' = FALSE
    /\ UNCHANGED <<services, process, run, quit, due, snapshot, expired>>

\* The function returns; an error is logged and the loop goes on.
FnReturns(result) ==
    /\ process = "alive"
    /\ run = "stopping"
    /\ calling
    /\ result = "timedOut" => expired /\ snapshot[i] = "obedient"
    /\ outcome' = [outcome EXCEPT ![i] = result]
    /\ i' = i - 1
    /\ calling' = FALSE
    /\ UNCHANGED <<services, process, run, quit, due, snapshot, expired>>

Return ==
    /\ process = "alive"
    /\ run = "stopping"
    /\ ~calling
    /\ i = 0
    /\ run' = "returned"
    /\ UNCHANGED <<services, process, quit, due, snapshot, i, calling, outcome, expired>>

------------------------------------------------------------------------------

RunStep ==
    \/ Notify
    \/ Receive
    \/ Snapshot
    \/ Call
    \/ CallNil
    \/ \E result \in Outcomes : FnReturns(result)
    \/ Return

Next ==
    \/ \E kind \in Kinds : Register(kind)
    \/ SignalKills
    \/ Signal
    \/ Expire
    \/ RunStep

Spec == Init /\ [][Next]_vars

(***************************************************************************)
(* Fairness.  The goroutine in Run is scheduled, and an obedient function  *)
(* returns once its context is done.  No function is obliged to finish its *)
(* work, and there may be no deadline.                                     *)
(***************************************************************************)
FairSpec ==
    /\ Spec
    /\ WF_vars(Notify \/ Receive \/ Snapshot \/ Call \/ CallNil \/ Return)
    /\ WF_vars(FnReturns("timedOut"))

\* The deadline of RunWithTimeout passes.
DeadlinePasses == WF_vars(Expire)

TimedSpec == FairSpec /\ DeadlinePasses

\* Every function finishes its work.
WorkFinishes == WF_vars(FnReturns("stopped") \/ FnReturns("failed"))

------------------------------------------------------------------------------
(* Properties *)

Stopped(s) == s \in DOMAIN outcome /\ outcome[s] # "pending"

(***************************************************************************)
(* A service is stopped only after every service that registered later has *)
(* returned from its function, whatever that returned: a service can rely  *)
(* on the ones that registered before it until it has stopped.  When run   *)
(* returns, every service that had registered by the time of the signal    *)
(* has been stopped: a function that fails, or uses up the deadline they   *)
(* all share, costs no other service its call.                             *)
(***************************************************************************)
StopsInReverse ==
    /\ \A s, t \in DOMAIN outcome :
          (Stopped(s) \/ (calling /\ i = s)) /\ s < t => Stopped(t)
    /\ run = "returned" => \A s \in 1 .. due : Stopped(s)

(***************************************************************************)
(* No service is stopped twice: what its function returned stands.         *)
(***************************************************************************)
StoppedOnce ==
    [][\A s \in DOMAIN outcome :
          Stopped(s) => s \in DOMAIN outcome' /\ outcome'[s] = outcome[s]]_vars

(***************************************************************************)
(* A signal that the channel holds makes run return.  When the functions   *)
(* finish their work that needs no timeout; with one it is so even if no   *)
(* work ever finishes.  Only a nil function, which panics, and without     *)
(* work finishing a function that ignores its context, stand in the way.   *)
(***************************************************************************)
SignalEndsRun ==
    /\ WorkFinishes =>
         (quit /\ run = "listening" ~> run = "returned" \/ process = "panicked")
    /\ DeadlinePasses =>
         (quit /\ run = "listening" ~>
            run = "returned" \/ process = "panicked" \/ (calling /\ snapshot[i] = "stubborn"))
==============================================================================
