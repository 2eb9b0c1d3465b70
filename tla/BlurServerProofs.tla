--------------------------- MODULE BlurServerProofs ---------------------------
(***************************************************************************)
(* For any connections: the process of lab-1 in its TCP mode implements    *)
(* the specification of the shutdown manager, and drives its server by the *)
(* steps of TcpServer alone, so that what is proved of either holds in it; *)
(* and when it ends after a Shutdown that returned nil, at most one        *)
(* connection is cut.                                                      *)
(***************************************************************************)
EXTENDS BlurServer, Sequences, FiniteSetTheorems, TLAPS

ServerP == INSTANCE TcpServerProofs WITH MaxAcceptErrors <- 0

ManagerP == INSTANCE ShutdownManagerProofs WITH
    Kinds <- {"obedient"}, MaxServices <- 1

\* RunWithTimeout begins when main has registered the server, and main ends
\* when it has returned.
RegisteredFirst ==
    /\ main \in {"created", "registered", "spawned", "exited"}
    /\ main # "created" => Len(services) = 1
    /\ run # "unarmed" => main \in {"spawned", "exited"}
    /\ main = "exited" => run = "returned"

\* What the loop stops is the server.
ServerIsStopped == run \in {"stopping", "returned"} => Len(snapshot) = 1

\* The manager's record of the server's Shutdown is what that has returned.
OutcomeIsShutdowns ==
    run \in {"stopping", "returned"} /\ outcome[1] = "stopped" => shutdown = "ok"

\* Shutdown gives up only when its context is done, as an obedient function does.
DeadlineHasPassed == shutdown = "deadline" => expired

\* What the end of the process cuts after a clean Shutdown is one connection.
CutIsTheStraggler ==
    main = "exited" /\ outcome[1] = "stopped" => \A c, d \in cut : c = d

IInv ==
    /\ RegisteredFirst
    /\ ServerIsStopped
    /\ OutcomeIsShutdowns
    /\ DeadlineHasPassed
    /\ CutIsTheStraggler

------------------------------------------------------------------------------
(* The two components *)

\* Each component's module and the module of its proofs have the same steps.
LEMMA SameServer == Server!Spec <=> ServerP!Spec
  <1>1. Server!Next <=> ServerP!Next
    BY DEF Server!Next, Server!Dial, Server!HandlerReturns, Server!Deregister, Server!Start,
           Server!LoopStep, Server!AcceptError, Server!AcceptClosed, Server!Accept, Server!Register,
           Server!Spawn, Server!MarkClosed, Server!ShutdownStep, Server!CloseListener,
           Server!PollEmpty, Server!PollBusy, Server!Tick, Server!ContextDone, Server!Expire,
           Server!Move, Server!Held, Server!In,
           ServerP!Next, ServerP!Dial, ServerP!HandlerReturns, ServerP!Deregister, ServerP!Start,
           ServerP!LoopStep, ServerP!AcceptError, ServerP!AcceptClosed, ServerP!Accept,
           ServerP!Register, ServerP!Spawn, ServerP!MarkClosed, ServerP!ShutdownStep,
           ServerP!CloseListener, ServerP!PollEmpty, ServerP!PollBusy, ServerP!Tick,
           ServerP!ContextDone, ServerP!Expire, ServerP!Move, ServerP!Held, ServerP!In
  <1>2. QED
    BY <1>1, PTL DEF Server!Spec, ServerP!Spec, Server!Init, ServerP!Init, Server!vars, ServerP!vars

LEMMA SameManager == Manager!Spec <=> ManagerP!Spec
  <1>1. Manager!Next <=> ManagerP!Next
    BY DEF Manager!Next, Manager!Register, Manager!SignalKills, Manager!Signal, Manager!Expire,
           Manager!RunStep, Manager!Outcomes, Manager!Notify, Manager!Receive, Manager!Snapshot,
           Manager!Call, Manager!CallNil, Manager!FnReturns, Manager!Return,
           ManagerP!Next, ManagerP!Register, ManagerP!SignalKills, ManagerP!Signal, ManagerP!Expire,
           ManagerP!RunStep, ManagerP!Outcomes, ManagerP!Notify, ManagerP!Receive, ManagerP!Snapshot,
           ManagerP!Call, ManagerP!CallNil, ManagerP!FnReturns, ManagerP!Return
  <1>2. QED
    BY <1>1, PTL
       DEF Manager!Spec, ManagerP!Spec, Manager!Init, ManagerP!Init, Manager!vars, ManagerP!vars

(***************************************************************************)
(* Every step of the process is a step of the manager or leaves it alone.  *)
(***************************************************************************)
LEMMA ManagerStep == [Next]_vars => [Manager!Next]_(Manager!vars)
  <1> SUFFICES ASSUME [Next]_vars
               PROVE  [Manager!Next]_(Manager!vars)
    OBVIOUS
  <1>1. CASE RegisterTcp
    BY <1>1 DEF RegisterTcp, Manager!Next
  <1>2. CASE AwaitSignal
    BY <1>2 DEF AwaitSignal, Manager!Next, Manager!RunStep
  <1>3. CASE CallShutdown
    BY <1>3 DEF CallShutdown, Manager!Next, Manager!RunStep
  <1>4. CASE ShutdownReturned
    BY <1>4 DEF ShutdownReturned, Manager!Next, Manager!RunStep, Manager!Outcomes
  <1>5. CASE RunReturns
    BY <1>5 DEF RunReturns, Manager!Next, Manager!RunStep
  <1>6. CASE Signal
    BY <1>6 DEF Signal, Manager!Next
  <1>7. CASE Expire
    BY <1>7 DEF Expire, Manager!Next
  <1>8. CASE GoStart \/ Exit
    BY <1>8 DEF GoStart, Exit, managerVars, Manager!vars
  <1>9. CASE ServerStep
    <2>1. UNCHANGED expired
      BY <1>9 DEF ServerStep, Server!Dial, Server!HandlerReturns, Server!Deregister, Server!Start,
                  Server!LoopStep, Server!AcceptError, Server!AcceptClosed, Server!Accept,
                  Server!Register, Server!Spawn, Server!ShutdownStep, Server!CloseListener,
                  Server!PollEmpty, Server!PollBusy, Server!Tick, Server!ContextDone
    <2>2. QED
      BY <1>9, <2>1 DEF ServerStep, managerVars, Manager!vars
  <1>10. CASE UNCHANGED vars
    BY <1>10 DEF vars, managerVars, Manager!vars
  <1>11. QED
    BY <1>1, <1>2, <1>3, <1>4, <1>5, <1>6, <1>7, <1>8, <1>9, <1>10 DEF Next, MainStep

\* Every step of the process is a step of the server or leaves it alone.
LEMMA ServerStepOrStutter == [Next]_vars => [Server!Next]_(Server!vars)
  <1> SUFFICES ASSUME [Next]_vars
               PROVE  [Server!Next]_(Server!vars)
    OBVIOUS
  <1> USE DEF serverVars, Server!vars
  <1>1. CASE CallShutdown
    BY <1>1 DEF CallShutdown, Server!Next
  <1>2. CASE ServerStep
    BY <1>2 DEF ServerStep, Server!Next
  <1>3. CASE Expire
    <2>1. CASE expired' = expired
      BY <1>3, <2>1 DEF Expire
    <2>2. CASE expired' # expired
      BY <1>3, <2>2 DEF Expire, Manager!Expire, Server!Next, Server!Expire
    <2>3. QED
      BY <2>1, <2>2
  <1>4. CASE Signal
    BY <1>4 DEF Signal, Manager!Signal, Manager!SignalKills
  <1>5. CASE RegisterTcp \/ GoStart \/ Exit
    BY <1>5 DEF RegisterTcp, Manager!Register, GoStart, Exit
  <1>6. CASE AwaitSignal
    BY <1>6 DEF AwaitSignal, Manager!Notify, Manager!Receive, Manager!Snapshot
  <1>7. CASE ShutdownReturned \/ RunReturns
    BY <1>7 DEF ShutdownReturned, RunReturns, Manager!FnReturns, Manager!Return
  <1>8. CASE UNCHANGED vars
    BY <1>8 DEF vars
  <1>9. QED
    BY <1>1, <1>2, <1>3, <1>4, <1>5, <1>6, <1>7, <1>8 DEF Next, MainStep

(***************************************************************************)
(* The process does what the specification of the manager allows, with the *)
(* server's Shutdown as the one obedient function.                         *)
(***************************************************************************)
THEOREM ImplementsManager == Spec => Manager!Spec
  <1>1. Init => Manager!Init
    BY DEF Init
  <1>2. QED
    BY <1>1, ManagerStep, PTL DEF Spec, Manager!Spec

(***************************************************************************)
(* The process does to its server only what TcpServer says can happen to   *)
(* it: main calls Shutdown once, and the clock is the manager's.           *)
(***************************************************************************)
THEOREM ImplementsServer == Spec => Server!Spec
  <1>1. Init => Server!Init
    BY DEF Init
  <1>2. QED
    BY <1>1, ServerStepOrStutter, PTL DEF Spec, Server!Spec

\* What was proved of the components holds in the process.
LEMMA ManagerInvariance == Spec => []ManagerP!IInv
  <1>1. ManagerP!Spec => []ManagerP!IInv
    BY ManagerP!Invariance
  <1>2. Spec => ManagerP!Spec
    BY ImplementsManager, SameManager, PTL
  <1>3. QED
    BY <1>1, <1>2, PTL

LEMMA ServerInvariance == Spec => []ServerP!IInv
  <1>1. ServerP!Spec => []ServerP!IInv
    BY ServerP!Invariance
  <1>2. Spec => ServerP!Spec
    BY ImplementsServer, SameServer, PTL
  <1>3. QED
    BY <1>1, <1>2, PTL

------------------------------------------------------------------------------
(* What the composition adds *)

LEMMA InitIInv == Init => IInv
  BY DEF Init, Server!Init, Manager!Init, IInv, RegisteredFirst, ServerIsStopped, OutcomeIsShutdowns,
         DeadlineHasPassed, CutIsTheStraggler

(***************************************************************************)
(* The inductive step.  The manager's loop has one place, 1; it notes      *)
(* "stopped" there only when the server's Shutdown has returned nil, which *)
(* stands, and main ends after that.                                       *)
(***************************************************************************)
LEMMA InvariantStep ==
    IInv /\ ManagerP!IInv /\ ServerP!IInv /\ [Next]_vars => IInv'
  <1> SUFFICES ASSUME IInv, ManagerP!IInv, ServerP!IInv, [Next]_vars
               PROVE  IInv'
    OBVIOUS
  <1> USE DEF IInv, RegisteredFirst, ServerIsStopped, OutcomeIsShutdowns, DeadlineHasPassed,
              CutIsTheStraggler, ManagerP!IInv, ManagerP!TypeOK, ManagerP!NotBegun,
              ManagerP!IndexSplits, ManagerP!IndexInLoop, serverVars, managerVars
  <1>1. CASE RegisterTcp
    BY <1>1 DEF RegisterTcp, Manager!Register
  <1>2. CASE GoStart
    BY <1>2 DEF GoStart
  <1>3. CASE AwaitSignal
    <2>1. CASE Manager!Notify \/ Manager!Receive
      BY <1>3, <2>1 DEF AwaitSignal, Manager!Notify, Manager!Receive
    <2>2. CASE Manager!Snapshot
      <3>1. Len(services) = 1 /\ snapshot' = services /\ run' = "stopping" /\ services' = services
        BY <1>3, <2>2 DEF AwaitSignal, Manager!Snapshot
      <3>2. outcome'[1] = "pending"
        BY <2>2, <3>1 DEF Manager!Snapshot
      <3>3. UNCHANGED <<main, shutdown, expired, cut>>
        BY <1>3, <2>2 DEF AwaitSignal, Manager!Snapshot
      <3>4. QED
        BY <1>3, <3>1, <3>2, <3>3 DEF AwaitSignal
    <2>3. QED
      BY <1>3, <2>1, <2>2 DEF AwaitSignal
  <1>4. CASE CallShutdown
    BY <1>4 DEF CallShutdown, Alive, Manager!Call, Server!MarkClosed
  <1>5. CASE ShutdownReturned
    <2>1. PICK result \in {"stopped", "timedOut"} :
            (result = "stopped" => shutdown = "ok") /\ Manager!FnReturns(result)
      BY <1>5 DEF ShutdownReturned
    <2>2. i = 1 /\ Len(snapshot) = 1 /\ run = "stopping"
      BY <2>1 DEF Manager!FnReturns
    <2>3. outcome'[1] = result
      BY <2>1, <2>2 DEF Manager!FnReturns
    <2>4. UNCHANGED <<services, run, snapshot, expired, main, shutdown, cut>>
      BY <1>5, <2>1 DEF ShutdownReturned, Manager!FnReturns
    <2>5. main # "exited"
      BY <1>5 DEF ShutdownReturned, Alive
    <2>6. QED
      BY <2>1, <2>2, <2>3, <2>4, <2>5
  <1>6. CASE RunReturns
    BY <1>6 DEF RunReturns, Alive, Manager!Return
  <1>7. CASE Exit
    <2>1. outcome[1] = "stopped" => \A c, d \in Server!Live : c = d
      <3>1. ServerP!AtMostOneLeftBehind
        BY DEF ServerP!IInv
      <3>2. QED
        BY <1>7, <3>1 DEF Exit, Server!Live, Server!In, ServerP!AtMostOneLeftBehind, ServerP!Live,
                          ServerP!In
    <2>2. QED
      BY <1>7, <2>1 DEF Exit
  <1>8. CASE Signal
    BY <1>8 DEF Signal, Alive, Manager!Signal, Manager!SignalKills
  <1>9. CASE Expire
    BY <1>9 DEF Expire, Manager!Expire
  <1>10. CASE ServerStep
    <2>1. (shutdown = "ok" => shutdown' = "ok") /\ (shutdown' = "deadline" => shutdown = "deadline" \/ expired)
      BY <1>10 DEF ServerStep, Server!Dial, Server!HandlerReturns, Server!Deregister, Server!Start,
                   Server!LoopStep, Server!AcceptError, Server!AcceptClosed, Server!Accept,
                   Server!Register, Server!Spawn, Server!ShutdownStep, Server!CloseListener,
                   Server!PollEmpty, Server!PollBusy, Server!Tick, Server!ContextDone
    <2>2. UNCHANGED expired
      BY <1>10 DEF ServerStep, Server!Dial, Server!HandlerReturns, Server!Deregister, Server!Start,
                   Server!LoopStep, Server!AcceptError, Server!AcceptClosed, Server!Accept,
                   Server!Register, Server!Spawn, Server!ShutdownStep, Server!CloseListener,
                   Server!PollEmpty, Server!PollBusy, Server!Tick, Server!ContextDone
    <2>3. QED
      BY <1>10, <2>1, <2>2 DEF ServerStep
  <1>11. CASE UNCHANGED vars
    BY <1>11 DEF vars
  <1>12. QED
    BY <1>1, <1>2, <1>3, <1>4, <1>5, <1>6, <1>7, <1>8, <1>9, <1>10, <1>11 DEF Next, MainStep

LEMMA AlwaysIInv == Spec => []IInv
  BY InitIInv, InvariantStep, ManagerInvariance, ServerInvariance, PTL DEF Spec

\* Of a set whose elements are all equal the cardinality is 0 or 1.
LEMMA AtMostOne ==
    ASSUME NEW S, \A c, d \in S : c = d
    PROVE  Cardinality(S) <= 1
  <1>1. CASE S = {}
    BY <1>1, FS_EmptySet
  <1>2. CASE S # {}
    <2>1. PICK c : c \in S
      BY <1>2
    <2>2. S = {c}
      BY <2>1
    <2>3. Cardinality(S) = 1
      BY <2>2, FS_Singleton, Zenon
    <2>4. QED
      BY <2>3
  <1>3. QED
    BY <1>1, <1>2

(***************************************************************************)
(* For any number of connections: when main returns after a Shutdown that  *)
(* returned nil, the end of the process cuts at most one of them.          *)
(***************************************************************************)
THEOREM ExitCutsAtMostOne == Spec => []OrderlyExitCutsAtMostOne
  <1>1. IInv => OrderlyExitCutsAtMostOne
    BY AtMostOne DEF IInv, CutIsTheStraggler, OrderlyExitCutsAtMostOne
  <1>2. QED
    BY <1>1, AlwaysIInv, PTL

(***************************************************************************)
(* The types of both components and of main hold in the process.           *)
(***************************************************************************)
THEOREM TypeCorrect == Spec => []TypeOK
  <1>1. Init => cut \in SUBSET Conns
    BY DEF Init
  <1>2. cut \in SUBSET Conns /\ [Next]_vars => (cut \in SUBSET Conns)'
    BY DEF Next, MainStep, RegisterTcp, GoStart, AwaitSignal, CallShutdown, ShutdownReturned, RunReturns,
           Exit, Signal, Expire, ServerStep, vars, Server!Live, Server!In
  <1>3. ServerP!IInv => Server!TypeOK
    BY DEF ServerP!IInv, ServerP!TypeOK, Server!TypeOK, ServerP!ConnStates, Server!ConnStates,
           ServerP!ShutdownStates, Server!ShutdownStates
  <1>4. ManagerP!IInv => Manager!TypeOK
    BY DEF ManagerP!IInv, ManagerP!TypeOK, Manager!TypeOK, ManagerP!Outcomes, Manager!Outcomes
  <1>5. IInv /\ ServerP!IInv /\ ManagerP!IInv /\ cut \in SUBSET Conns => TypeOK
    BY <1>3, <1>4 DEF IInv, RegisteredFirst, TypeOK
  <1>6. QED
    BY <1>1, <1>2, <1>5, AlwaysIInv, ManagerInvariance, ServerInvariance, PTL DEF Spec
==============================================================================
