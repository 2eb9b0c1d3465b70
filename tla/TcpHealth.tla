------------------------------ MODULE TcpHealth ------------------------------
(***************************************************************************)
(* The health object of lib/tcp/health/health.go beside the server that    *)
(* owns it: probes call Liveness or Readiness while Shutdown marks the     *)
(* object closed and then closes the listener.                             *)
(*                                                                         *)
(* Liveness holds the read lock while it dials the server's own listener;  *)
(* Readiness copies what it needs and dials without the lock.  The         *)
(* connection a probe dials is to the server a connection like any other,  *)
(* so a probe is one of the server's Conns.  The listener's backlog is     *)
(* taken to be longer than the queue: a dial fails only when the listener  *)
(* is closed.                                                              *)
(***************************************************************************)
EXTENDS Naturals

CONSTANTS
    Clients,            \* the connections of ordinary clients
    LivenessProbes,     \* goroutines that call Liveness once
    ReadinessProbes,    \* goroutines that call Readiness once
    Checks              \* the names under which checks may be registered

VARIABLES
    listener, closed, loop, acceptErrors, state, conns, shutdown, expired,
                    \* the server: see TcpServer
    probe,          \* where each probe is
    readers,        \* the probes that hold the read lock of h.mu
    writer,         \* whether Shutdown waits in h.mu.Lock
    late,           \* history: the probes that began after SetClosed(true)
    copied,         \* the value of h.closed a Readiness probe has copied
    pending,        \* the checks it has copied and not run yet
    checks,         \* h.checks
    result          \* what each probe returned

serverVars == <<listener, closed, loop, acceptErrors, state, conns, shutdown, expired>>
probeVars == <<probe, readers, late, copied, pending, checks, result>>
vars == <<serverVars, probeVars, writer>>

Probes == LivenessProbes \cup ReadinessProbes

Server == INSTANCE TcpServer WITH
    Conns <- Clients \cup Probes,
    MaxAcceptErrors <- 0

ProbeStates == {"idle", "locked", "dialled", "copied", "checking", "done"}

Results == {"none", "nil", "ErrClosed", "ErrUnreachable", "checkFailed"}

TypeOK ==
    /\ Server!TypeOK
    /\ probe \in [Probes -> ProbeStates]
    /\ readers \in SUBSET Probes
    /\ writer \in BOOLEAN
    /\ late \in SUBSET Probes
    /\ copied \in [ReadinessProbes -> BOOLEAN]
    /\ pending \in [ReadinessProbes -> SUBSET Checks]
    /\ checks \in SUBSET Checks
    /\ result \in [Probes -> Results]

\* What tcp.New returns: SetListener was called before the object is visible.
Init ==
    /\ Server!Init
    /\ probe = [p \in Probes |-> "idle"]
    /\ readers = {}
    /\ writer = FALSE
    /\ late = {}
    /\ copied = [p \in ReadinessProbes |-> FALSE]
    /\ pending = [p \in ReadinessProbes |-> {}]
    /\ checks = {}
    /\ result = [p \in Probes |-> "none"]

Goto(p, from, to) ==
    /\ probe[p] = from
    /\ probe' = [probe EXCEPT ![p] = to]

Yield(p, from, value) ==
    /\ Goto(p, from, "done")
    /\ result' = [result EXCEPT ![p] = value]

------------------------------------------------------------------------------
(* The lock.  sync.RWMutex lets no new reader in while a writer waits. *)

RLock(p) ==
    /\ Goto(p, "idle", "locked")
    /\ ~writer
    /\ readers' = readers \cup {p}
    /\ late' = IF closed THEN late \cup {p} ELSE late
    /\ UNCHANGED <<serverVars, writer, copied, pending, checks, result>>

RUnlock(p) == readers' = readers \ {p}

\* Check waits for the write lock, registers and releases it.
Check(name) ==
    /\ readers = {}
    /\ checks' = checks \cup {name}
    /\ UNCHANGED <<serverVars, writer, probe, readers, late, copied, pending, result>>

\* Shutdown's first call, SetClosed(true): it asks for the write lock, ...
RequestSetClosed ==
    /\ shutdown = "idle"
    /\ ~writer
    /\ writer' = TRUE
    /\ UNCHANGED <<serverVars, probeVars>>

\* Mutant of SetClosed: the flag is set without the lock.
SetClosedUnlocked ==
    /\ writer
    /\ Server!MarkClosed
    /\ writer' = FALSE
    /\ UNCHANGED probeVars

\* ... and has it, sets h.closed and releases it.
SetClosed ==
    /\ writer
    /\ readers = {}
    /\ Server!MarkClosed
    /\ writer' = FALSE
    /\ UNCHANGED probeVars

------------------------------------------------------------------------------
(* Liveness: the deferred RUnlock comes after the dial. *)

LivenessClosed(p) ==
    /\ closed
    /\ Yield(p, "locked", "ErrClosed")
    /\ RUnlock(p)
    /\ UNCHANGED <<serverVars, writer, late, copied, pending, checks>>

\* Mutant of LivenessDial: the flag is not looked at.
LivenessDialAnyway(p) ==
    /\ Goto(p, "locked", "dialled")
    /\ Server!Dial(p)
    /\ UNCHANGED <<writer, readers, late, copied, pending, checks, result>>

LivenessDial(p) ==
    /\ ~closed
    /\ Goto(p, "locked", "dialled")
    /\ Server!Dial(p)
    /\ UNCHANGED <<writer, readers, late, copied, pending, checks, result>>

\* Mutant of LivenessReturn: the read lock is kept.
LivenessKeepsLock(p) ==
    /\ Yield(p, "dialled", IF state[p] = "refused" THEN "ErrUnreachable" ELSE "nil")
    /\ UNCHANGED <<serverVars, writer, readers, late, copied, pending, checks>>

LivenessReturn(p) ==
    /\ Yield(p, "dialled", IF state[p] = "refused" THEN "ErrUnreachable" ELSE "nil")
    /\ RUnlock(p)
    /\ UNCHANGED <<serverVars, writer, late, copied, pending, checks>>

------------------------------------------------------------------------------
(* Readiness *)

ReadinessCopy(p) ==
    /\ Goto(p, "locked", "copied")
    /\ copied' = [copied EXCEPT ![p] = closed]
    /\ pending' = [pending EXCEPT ![p] = checks]
    /\ RUnlock(p)
    /\ UNCHANGED <<serverVars, writer, late, checks, result>>

ReadinessClosed(p) ==
    /\ copied[p]
    /\ Yield(p, "copied", "ErrClosed")
    /\ UNCHANGED <<serverVars, writer, readers, late, copied, pending, checks>>

ReadinessUnreachable(p) ==
    /\ ~copied[p]
    /\ listener = "closed"
    /\ Yield(p, "copied", "ErrUnreachable")
    /\ Server!Dial(p)
    /\ UNCHANGED <<writer, readers, late, copied, pending, checks>>

ReadinessDial(p) ==
    /\ ~copied[p]
    /\ listener = "open"
    /\ Goto(p, "copied", "checking")
    /\ Server!Dial(p)
    /\ UNCHANGED <<writer, readers, late, copied, pending, checks, result>>

\* The order of the checks is that of a map, and so any.
CheckPasses(p, name) ==
    /\ probe[p] = "checking"
    /\ name \in pending[p]
    /\ pending' = [pending EXCEPT ![p] = @ \ {name}]
    /\ UNCHANGED <<serverVars, writer, probe, readers, late, copied, checks, result>>

\* The check returns an error, which may be that of the context they share.
CheckFails(p) ==
    /\ pending[p] # {}
    /\ Yield(p, "checking", "checkFailed")
    /\ UNCHANGED <<serverVars, writer, readers, late, copied, pending, checks>>

ReadinessReturn(p) ==
    /\ pending[p] = {}
    /\ Yield(p, "checking", "nil")
    /\ UNCHANGED <<serverVars, writer, readers, late, copied, pending, checks>>

------------------------------------------------------------------------------

LivenessStep(p) == LivenessClosed(p) \/ LivenessDial(p) \/ LivenessReturn(p)

ReadinessStep(p) ==
    \/ ReadinessCopy(p)
    \/ ReadinessClosed(p)
    \/ ReadinessUnreachable(p)
    \/ ReadinessDial(p)
    \/ \E name \in Checks : CheckPasses(p, name)
    \/ CheckFails(p)
    \/ ReadinessReturn(p)

\* The server without MarkClosed, which needs the lock, and the probes' dials.
ServerStep ==
    /\ \/ \E c \in Clients : Server!Dial(c)
       \/ \E c \in Clients \cup Probes : Server!HandlerReturns(c) \/ Server!Deregister(c)
       \/ Server!Start
       \/ Server!LoopStep
       \/ Server!ShutdownStep
       \/ Server!Expire
    /\ UNCHANGED <<probeVars, writer>>

Next ==
    \/ ServerStep
    \/ RequestSetClosed
    \/ SetClosed
    \/ \E name \in Checks : Check(name)
    \/ \E p \in Probes : RLock(p)
    \/ \E p \in LivenessProbes : LivenessStep(p)
    \/ \E p \in ReadinessProbes : ReadinessStep(p)

Spec == Init /\ [][Next]_vars

(***************************************************************************)
(* Fairness: the lock is granted, dials and returns are done; a check may  *)
(* hang until its context expires, and is then a failure.                  *)
(***************************************************************************)
FairSpec ==
    /\ Spec
    /\ WF_vars(SetClosed)
    /\ WF_vars(Server!ShutdownStep /\ UNCHANGED <<probeVars, writer>>)
    /\ SF_vars(Server!ContextDone /\ UNCHANGED <<probeVars, writer>>)
    /\ WF_vars(Server!Expire /\ UNCHANGED <<probeVars, writer>>)
    /\ \A p \in Probes : WF_vars(RLock(p))
    /\ \A p \in LivenessProbes : WF_vars(LivenessStep(p))
    /\ \A p \in ReadinessProbes : WF_vars(ReadinessStep(p))

------------------------------------------------------------------------------
(* Properties *)

(***************************************************************************)
(* A probe that begins after SetClosed(true) never succeeds, however the   *)
(* steps of the server and the probe interleave.                           *)
(***************************************************************************)
NoSuccessAfterClosed ==
    \A p \in late : result[p] \in {"none", "ErrClosed"}

(***************************************************************************)
(* A probe finds the server unreachable only while it shuts down, and      *)
(* Liveness never does: until the object says ErrClosed the listener is    *)
(* open, because SetClosed waits for the probes that hold the lock and the *)
(* listener is closed after it.  Readiness works with a copy of h.closed,  *)
(* which is stale in that case.                                            *)
(***************************************************************************)
UnreachableMeansClosed ==
    \A p \in Probes :
        result[p] = "ErrUnreachable" => closed /\ p \in ReadinessProbes \ late

(***************************************************************************)
(* A probe does not keep Shutdown from the lock, nor Shutdown a probe from *)
(* its answer, although Liveness dials the server while it holds the lock. *)
(***************************************************************************)
NobodyStaysBlocked ==
    /\ writer ~> shutdown \in {"ok", "deadline"}
    /\ \A p \in Probes : probe[p] = "locked" ~> probe[p] = "done"
==============================================================================
