--------------------------- MODULE TcpHealthProofs ---------------------------
(***************************************************************************)
(* For any clients, probes and checks: no probe that begins after          *)
(* SetClosed(true) succeeds, and Liveness never finds the server           *)
(* unreachable, because Shutdown cannot have the lock while a probe dials. *)
(***************************************************************************)
EXTENDS TcpHealth, TLAPS

ServerP == INSTANCE TcpServerProofs WITH
    Conns <- Clients \cup Probes,
    MaxAcceptErrors <- 0

\* h.closed is set by the first thing Shutdown does.
ClosedIsMarked == closed <=> shutdown # "idle"

\* A probe holds the read lock as long as it is in the code that the lock guards.
ReadersHoldTheLock ==
    \A p \in Probes : p \in readers <=> probe[p] \in {"locked", "dialled"}

\* A probe has a result when it is done.
DoneHasResult == \A p \in Probes : result[p] # "none" <=> probe[p] = "done"

\* While Liveness dials the object is not closed, and so the listener neither.
DialledWhileOpen ==
    \A p \in Probes : probe[p] = "dialled" => ~closed /\ state[p] \notin {"new", "refused"}

\* A probe that began late cannot miss that the object is closed.
LateProbesKnow ==
    \A p \in late :
        /\ closed
        /\ probe[p] \in {"locked", "copied", "done"}
        /\ probe[p] = "copied" => p \in ReadinessProbes /\ copied[p]

ProbeTypes ==
    /\ probe \in [Probes -> ProbeStates]
    /\ readers \in SUBSET Probes
    /\ writer \in BOOLEAN
    /\ late \in SUBSET Probes
    /\ copied \in [ReadinessProbes -> BOOLEAN]
    /\ pending \in [ReadinessProbes -> SUBSET Checks]
    /\ checks \in SUBSET Checks
    /\ result \in [Probes -> Results]

IInv ==
    /\ ProbeTypes
    /\ ClosedIsMarked
    /\ ReadersHoldTheLock
    /\ DoneHasResult
    /\ DialledWhileOpen
    /\ LateProbesKnow
    /\ NoSuccessAfterClosed
    /\ UnreachableMeansClosed

------------------------------------------------------------------------------
(* The server *)

\* TcpServer and the module of its proofs have the same steps.
LEMMA SameServer == Server!Spec <=> ServerP!Spec
  <1>1. Server!Next <=> ServerP!Next
    BY DEF Server!Next, Server!Dial, Server!HandlerReturns, Server!Deregister, Server!Start,
           Server!LoopStep, Server!AcceptError, Server!AcceptClosed, Server!Accept, Server!Register,
           Server!Spawn, Server!MarkClosed, Server!ShutdownStep, Server!CloseListener,
           Server!PollEmpty, Server!PollBusy, Server!Tick, Server!ContextDone, Server!Expire,
           Server!Move, Server!Held, Server!In,
           ServerP!Next, ServerP!Dial, ServerP!HandlerReturns, ServerP!Deregister, ServerP!Start,
           ServerP!LoopStep, ServerP!AcceptError, ServerP!AcceptClosed, ServerP!Accept,
           ServerP!Register, ServerP!Spawn, ServerP!MarkClosed, ServerP!ShutdownStep,
           ServerP!CloseListener, ServerP!PollEmpty, ServerP!PollBusy, ServerP!Tick,
           ServerP!ContextDone, ServerP!Expire, ServerP!Move, ServerP!Held, ServerP!In
  <1>2. QED
    BY <1>1, PTL DEF Server!Spec, ServerP!Spec, Server!Init, ServerP!Init, Server!vars, ServerP!vars

(***************************************************************************)
(* The probes do to the server only what TcpServer says can happen to it:  *)
(* they dial, and the lock only delays MarkClosed.                         *)
(***************************************************************************)
LEMMA ServerStepOrStutter == [Next]_vars => [Server!Next]_(Server!vars)
  <1> SUFFICES ASSUME [Next]_vars
               PROVE  [Server!Next]_(Server!vars)
    OBVIOUS
  <1> USE DEF serverVars, Server!vars
  <1>1. CASE ServerStep
    BY <1>1 DEF ServerStep, Server!Next
  <1>2. CASE SetClosed
    BY <1>2 DEF SetClosed, Server!Next
  <1>3. CASE RequestSetClosed
    BY <1>3 DEF RequestSetClosed
  <1>4. ASSUME NEW name \in Checks, Check(name)
        PROVE  UNCHANGED Server!vars
    BY <1>4 DEF Check
  <1>5. ASSUME NEW p \in Probes, RLock(p)
        PROVE  UNCHANGED Server!vars
    BY <1>5 DEF RLock
  <1>6. ASSUME NEW p \in LivenessProbes, LivenessStep(p)
        PROVE  [Server!Next]_(Server!vars)
    <2>1. p \in Clients \cup Probes
      BY DEF Probes
    <2>2. CASE LivenessDial(p)
      BY <2>1, <2>2 DEF LivenessDial, Server!Next
    <2>3. QED
      BY <1>6, <2>2 DEF LivenessStep, LivenessClosed, LivenessReturn
  <1>7. ASSUME NEW p \in ReadinessProbes, ReadinessStep(p)
        PROVE  [Server!Next]_(Server!vars)
    <2>1. p \in Clients \cup Probes
      BY DEF Probes
    <2>2. CASE ReadinessUnreachable(p) \/ ReadinessDial(p)
      BY <2>1, <2>2 DEF ReadinessUnreachable, ReadinessDial, Server!Next
    <2>3. QED
      BY <1>7, <2>2 DEF ReadinessStep, ReadinessCopy, ReadinessClosed, CheckPasses, CheckFails,
                        ReadinessReturn
  <1>8. CASE UNCHANGED vars
    BY <1>8 DEF vars
  <1>9. QED
    BY <1>1, <1>2, <1>3, <1>4, <1>5, <1>6, <1>7, <1>8 DEF Next

(* The server with its probes is a TcpServer that has the probes among its   *)
(* clients: the safety theorems of TcpServerProofs hold of it.               *)
THEOREM ImplementsServer == Spec => Server!Spec
  <1>1. Init => Server!Init
    BY DEF Init
  <1>2. QED
    BY <1>1, ServerStepOrStutter, PTL DEF Spec, Server!Spec

LEMMA ServerInvariance == Spec => []ServerP!IInv
  <1>1. ServerP!Spec => []ServerP!IInv
    BY ServerP!Invariance
  <1>2. Spec => ServerP!Spec
    BY ImplementsServer, SameServer, PTL
  <1>3. QED
    BY <1>1, <1>2, PTL

------------------------------------------------------------------------------
(* The probes *)

LEMMA InitIInv == Init => IInv
  BY DEF Init, Server!Init, IInv, ProbeTypes, ProbeStates, Results, ClosedIsMarked, ReadersHoldTheLock,
         DoneHasResult, DialledWhileOpen, LateProbesKnow, NoSuccessAfterClosed, UnreachableMeansClosed,
         Probes

\* What the server does by itself: it neither marks itself closed nor, while the
\* object is open, refuses a connection that was dialled.
LEMMA ServerKeeps ==
    ASSUME IInv, ServerP!IInv, ServerStep
    PROVE  /\ UNCHANGED <<probeVars, writer, closed>>
           /\ ClosedIsMarked'
           /\ \A p \in Probes :
                 ~closed /\ state[p] \notin {"new", "refused"} => state'[p] \notin {"new", "refused"}
  <1> USE DEF IInv, ClosedIsMarked, ServerP!IInv, ServerP!TypeOK, Server!Move
  <1>1. UNCHANGED <<probeVars, writer>>
    BY DEF ServerStep
  <1>2. ASSUME NEW c \in Clients \cup Probes,
               Server!Dial(c) \/ Server!HandlerReturns(c) \/ Server!Deregister(c)
        PROVE  /\ UNCHANGED <<closed, shutdown>>
               /\ \A p \in Probes : state[p] \notin {"new", "refused"} => state'[p] \notin {"new", "refused"}
    BY <1>2 DEF Server!Dial, Server!HandlerReturns, Server!Deregister
  <1>3. CASE Server!Start \/ Server!LoopStep
    <2>1. ASSUME NEW c \in Clients \cup Probes,
                 Server!Accept(c) \/ Server!Register(c) \/ Server!Spawn(c)
          PROVE  /\ UNCHANGED <<closed, shutdown>>
                 /\ \A p \in Probes :
                       state[p] \notin {"new", "refused"} => state'[p] \notin {"new", "refused"}
      BY <2>1 DEF Server!Accept, Server!Register, Server!Spawn
    <2>2. CASE Server!Start \/ Server!AcceptError \/ Server!AcceptClosed
      BY <1>1, <2>2 DEF Server!Start, Server!AcceptError, Server!AcceptClosed
    <2>3. QED
      BY <1>1, <1>3, <2>1, <2>2 DEF Server!LoopStep
  <1>4. CASE Server!ShutdownStep
    <2>1. shutdown # "idle" /\ shutdown' # "idle" /\ UNCHANGED closed
      BY <1>4 DEF Server!ShutdownStep, Server!CloseListener, Server!PollEmpty, Server!PollBusy, Server!Tick,
                  Server!ContextDone
    <2>2. QED
      BY <1>1, <2>1
  <1>5. CASE Server!Expire
    BY <1>1, <1>5 DEF Server!Expire
  <1>6. QED
    BY <1>1, <1>2, <1>3, <1>4, <1>5 DEF ServerStep

(***************************************************************************)
(* The inductive step.  SetClosed needs the lock without readers, so that  *)
(* no probe is between its dial and its return; a probe that gets the lock *)
(* later sees h.closed or copies it.                                       *)
(***************************************************************************)
LEMMA InvariantStep == IInv /\ ServerP!IInv /\ [Next]_vars => IInv'
  <1> SUFFICES ASSUME IInv, ServerP!IInv, [Next]_vars
               PROVE  IInv'
    OBVIOUS
  <1>0. (listener = "closed" => closed) /\ DOMAIN state = Clients \cup Probes
    BY DEF IInv, ClosedIsMarked, ServerP!IInv, ServerP!TypeOK, ServerP!ClosedBeforePolling
  <1> USE DEF IInv, ProbeTypes, ProbeStates, Results, ClosedIsMarked, ReadersHoldTheLock, DoneHasResult,
              DialledWhileOpen, LateProbesKnow, NoSuccessAfterClosed, UnreachableMeansClosed,
              serverVars, probeVars
  <1>1. CASE ServerStep
    BY <1>1, ServerKeeps
  <1>2. CASE RequestSetClosed
    BY <1>2 DEF RequestSetClosed
  <1>3. CASE SetClosed
    BY <1>3 DEF SetClosed, Server!MarkClosed
  <1>4. ASSUME NEW name \in Checks, Check(name)
        PROVE  IInv'
    BY <1>4 DEF Check
  <1>5. ASSUME NEW p \in Probes, RLock(p)
        PROVE  IInv'
    BY <1>5 DEF RLock, Goto
  <1>6. ASSUME NEW p \in LivenessProbes, LivenessStep(p)
        PROVE  IInv'
    <2>1. p \in Probes
      BY DEF Probes
    <2>2. CASE LivenessClosed(p)
      BY <2>1, <2>2 DEF LivenessClosed, Yield, Goto, RUnlock
    <2>3. CASE LivenessDial(p)
      <3>1. ~closed /\ probe[p] = "locked" /\ probe' = [probe EXCEPT ![p] = "dialled"]
        BY <2>3 DEF LivenessDial, Goto
      <3>2. (state[p] = "new" /\ state' = [state EXCEPT ![p] = "queued"]) \/ listener # "open"
        BY <2>3 DEF LivenessDial, Server!Dial, Server!Move
      <3>3. listener = "open"
        BY <1>0, <3>1 DEF ServerP!IInv, ServerP!TypeOK
      <3>4. state'[p] = "queued" /\ \A q \in Probes : state[q] \notin {"new", "refused"} => state'[q] = state[q]
        BY <1>0, <2>1, <3>2, <3>3 DEF Probes
      <3>5. UNCHANGED <<closed, shutdown, writer, readers, late, copied, pending, checks, result>>
        BY <2>3 DEF LivenessDial, Server!Dial
      <3>6. QED
        BY <2>1, <3>1, <3>4, <3>5
    <2>4. CASE LivenessReturn(p)
      BY <2>1, <2>4 DEF LivenessReturn, Yield, Goto, RUnlock
    <2>5. QED
      BY <1>6, <2>2, <2>3, <2>4 DEF LivenessStep
  <1>7. ASSUME NEW p \in ReadinessProbes, ReadinessStep(p)
        PROVE  IInv'
    <2>1. p \in Probes
      BY DEF Probes
    <2>2. CASE ReadinessCopy(p)
      <3>1. probe[p] = "locked" /\ probe' = [probe EXCEPT ![p] = "copied"] /\ readers' = readers \ {p}
        BY <2>2 DEF ReadinessCopy, Goto, RUnlock
      <3>2. copied' = [copied EXCEPT ![p] = closed] /\ pending' = [pending EXCEPT ![p] = checks]
        BY <2>2 DEF ReadinessCopy
      <3>3. UNCHANGED <<closed, shutdown, state, writer, late, checks, result>>
        BY <2>2 DEF ReadinessCopy
      <3>4. ProbeTypes'
        <4>1. closed \in BOOLEAN
          BY DEF ServerP!IInv, ServerP!TypeOK
        <4>2. copied' \in [ReadinessProbes -> BOOLEAN]
          BY <3>2, <4>1
        <4>3. pending' \in [ReadinessProbes -> SUBSET Checks]
          BY <3>2
        <4>4. QED
          BY <2>1, <3>1, <3>3, <4>2, <4>3
      <3>5. LateProbesKnow'
        BY <2>1, <3>1, <3>2, <3>3
      <3>6. QED
        BY <2>1, <3>1, <3>3, <3>4, <3>5
    <2>3. CASE ReadinessClosed(p)
      BY <2>1, <2>3 DEF ReadinessClosed, Yield, Goto
    <2>4. CASE ReadinessUnreachable(p)
      <3>1. probe[p] = "copied" /\ ~copied[p] /\ closed
        BY <1>0, <2>4 DEF ReadinessUnreachable, Yield, Goto
      <3>2. probe' = [probe EXCEPT ![p] = "done"] /\ result' = [result EXCEPT ![p] = "ErrUnreachable"]
        BY <2>4 DEF ReadinessUnreachable, Yield, Goto
      <3>3. UNCHANGED <<closed, shutdown, writer, readers, late, copied, pending, checks>>
        BY <2>4 DEF ReadinessUnreachable, Server!Dial
      <3>4. p \notin late
        BY <3>1
      <3>5. DialledWhileOpen'
        BY <2>1, <3>1, <3>2
      <3>6. QED
        BY <2>1, <3>1, <3>2, <3>3, <3>4, <3>5
    <2>5. CASE ReadinessDial(p)
      BY <2>1, <2>5 DEF ReadinessDial, Goto, Server!Dial, Server!Move
    <2>6. ASSUME NEW name \in Checks, CheckPasses(p, name)
          PROVE  IInv'
      BY <2>1, <2>6 DEF CheckPasses
    <2>7. CASE CheckFails(p)
      BY <2>1, <2>7 DEF CheckFails, Yield, Goto
    <2>8. CASE ReadinessReturn(p)
      BY <2>1, <2>8 DEF ReadinessReturn, Yield, Goto
    <2>9. QED
      BY <1>7, <2>2, <2>3, <2>4, <2>5, <2>6, <2>7, <2>8 DEF ReadinessStep
  <1>8. CASE UNCHANGED vars
    BY <1>8 DEF vars
  <1>9. QED
    BY <1>1, <1>2, <1>3, <1>4, <1>5, <1>6, <1>7, <1>8 DEF Next

LEMMA AlwaysIInv == Spec => []IInv
  BY InitIInv, InvariantStep, ServerInvariance, PTL DEF Spec

------------------------------------------------------------------------------

\* The types hold for any clients, probes and checks.
THEOREM TypeCorrect == Spec => []TypeOK
  <1>1. ServerP!IInv => Server!TypeOK
    BY DEF ServerP!IInv, ServerP!TypeOK, Server!TypeOK, ServerP!ConnStates, Server!ConnStates,
           ServerP!ShutdownStates, Server!ShutdownStates
  <1>2. IInv /\ ServerP!IInv => TypeOK
    BY <1>1 DEF IInv, ProbeTypes, TypeOK
  <1>3. QED
    BY <1>2, AlwaysIInv, ServerInvariance, PTL

(***************************************************************************)
(* For any number of probes, whichever steps of Shutdown come between      *)
(* theirs: one that begins after SetClosed(true) does not succeed.         *)
(***************************************************************************)
THEOREM LateProbesFail == Spec => []NoSuccessAfterClosed
  <1>1. IInv => NoSuccessAfterClosed
    BY DEF IInv
  <1>2. QED
    BY <1>1, AlwaysIInv, PTL

(***************************************************************************)
(* For any number of probes: Liveness never finds the server unreachable,  *)
(* and Readiness does only if it began before SetClosed(true).             *)
(***************************************************************************)
THEOREM LivenessFindsTheListener == Spec => []UnreachableMeansClosed
  <1>1. IInv => UnreachableMeansClosed
    BY DEF IInv
  <1>2. QED
    BY <1>1, AlwaysIInv, PTL
==============================================================================
