--------------------------- MODULE TcpServerProofs ---------------------------
(***************************************************************************)
(* For every set of connections: the type invariant of TcpServer, that a   *)
(* Shutdown that returned nil has left at most one connection behind, that *)
(* no connection is taken after Shutdown returned, and that the server     *)
(* implements ConnectionDrain.                                             *)
(***************************************************************************)
EXTENDS TcpServer, TLAPS

\* The map holds exactly the connections between their insertion and deletion.
MapIsExact == conns = In({"registered", "handling", "hungUp"})

\* The accept loop is busy with one connection at a time.
OneHeld == \A c, d \in Held : c = d

\* Shutdown polls only after it has closed the listener, ...
ClosedBeforePolling ==
    shutdown \in {"polling", "waiting", "ok", "deadline"} <=> listener = "closed"

\* ... which leaves the queue empty for good.
ClosedQueueIsEmpty == listener = "closed" => In({"queued"}) = {}

IInv ==
    /\ TypeOK
    /\ MapIsExact
    /\ OneHeld
    /\ ClosedBeforePolling
    /\ ClosedQueueIsEmpty
    /\ AtMostOneLeftBehind

------------------------------------------------------------------------------

\* Every step preserves the types.
LEMMA TypeStep == TypeOK /\ [Next]_vars => TypeOK'
  <1> SUFFICES ASSUME TypeOK, [Next]_vars
               PROVE  TypeOK'
    OBVIOUS
  <1> USE MaxAcceptErrorsAssumption DEF TypeOK, ConnStates, ShutdownStates
  <1>1. ASSUME NEW c \in Conns, Dial(c) \/ HandlerReturns(c) \/ Deregister(c)
        PROVE  TypeOK'
    BY <1>1 DEF Dial, HandlerReturns, Deregister, Move
  <1>2. CASE Start
    BY <1>2 DEF Start
  <1>3. CASE LoopStep
    <2>1. CASE AcceptError
      BY <2>1 DEF AcceptError
    <2>2. CASE AcceptClosed
      BY <2>2 DEF AcceptClosed
    <2>3. ASSUME NEW c \in Conns, Accept(c) \/ Register(c) \/ Spawn(c)
          PROVE  TypeOK'
      BY <2>3 DEF Accept, Register, Spawn, Move
    <2>4. QED
      BY <1>3, <2>1, <2>2, <2>3 DEF LoopStep
  <1>4. CASE MarkClosed
    BY <1>4 DEF MarkClosed
  <1>5. CASE ShutdownStep
    BY <1>5 DEF ShutdownStep, CloseListener, PollEmpty, PollBusy, Tick, ContextDone
  <1>6. CASE Expire
    BY <1>6 DEF Expire
  <1>7. CASE UNCHANGED vars
    BY <1>7 DEF vars
  <1>8. QED
    BY <1>1, <1>2, <1>3, <1>4, <1>5, <1>6, <1>7 DEF Next

(***************************************************************************)
(* The inductive step.  A connection enters Live only through Accept,      *)
(* which needs an open listener; when Shutdown finds the map empty, what   *)
(* is live is held by the accept loop, so there is at most one.            *)
(***************************************************************************)
LEMMA InvariantStep == IInv /\ [Next]_vars => IInv'
  <1> SUFFICES ASSUME IInv, [Next]_vars
               PROVE  IInv'
    OBVIOUS
  <1>1. TypeOK'
    BY TypeStep DEF IInv
  <1> USE DEF IInv, TypeOK, ConnStates, ShutdownStates, MapIsExact, OneHeld, Held, Live,
              ClosedBeforePolling, ClosedQueueIsEmpty, AtMostOneLeftBehind, In
  <1>2. ASSUME NEW c \in Conns, Dial(c)
        PROVE  IInv'
    BY <1>1, <1>2 DEF Dial, Move
  <1>3. ASSUME NEW c \in Conns, HandlerReturns(c)
        PROVE  IInv'
    BY <1>1, <1>3 DEF HandlerReturns, Move
  <1>4. ASSUME NEW c \in Conns, Deregister(c)
        PROVE  IInv'
    BY <1>1, <1>4 DEF Deregister, Move
  <1>5. CASE LoopStep
    <2>1. CASE AcceptError
      BY <1>1, <2>1 DEF AcceptError
    <2>2. CASE AcceptClosed
      BY <1>1, <2>2 DEF AcceptClosed
    <2>3. ASSUME NEW c \in Conns, Accept(c)
          PROVE  IInv'
      <3>1. shutdown \notin {"polling", "waiting", "ok", "deadline"}
        BY <2>3 DEF Accept
      <3>2. \A d \in Conns : d # c => state'[d] = state[d]
        BY <2>3 DEF Accept, Move
      <3>3. QED
        BY <1>1, <2>3, <3>1, <3>2 DEF Accept, Move
    <2>4. ASSUME NEW c \in Conns, Register(c)
          PROVE  IInv'
      BY <1>1, <2>4 DEF Register, Move
    <2>5. ASSUME NEW c \in Conns, Spawn(c)
          PROVE  IInv'
      BY <1>1, <2>5 DEF Spawn, Move
    <2>6. QED
      BY <1>5, <2>1, <2>2, <2>3, <2>4, <2>5 DEF LoopStep
  <1>6. CASE ShutdownStep
    <2>1. CASE CloseListener
      BY <1>1, <2>1 DEF CloseListener
    <2>2. CASE PollEmpty
      <3>1. \A d \in Live : d \in Held
        BY <2>2 DEF PollEmpty
      <3>2. QED
        BY <1>1, <2>2, <3>1 DEF PollEmpty
    <2>3. CASE PollBusy \/ Tick \/ ContextDone
      BY <1>1, <2>3 DEF PollBusy, Tick, ContextDone
    <2>4. QED
      BY <1>6, <2>1, <2>2, <2>3 DEF ShutdownStep
  <1>7. CASE Start \/ MarkClosed \/ Expire
    BY <1>1, <1>7 DEF Start, MarkClosed, Expire
  <1>8. CASE UNCHANGED vars
    BY <1>1, <1>8 DEF vars
  <1>9. QED
    BY <1>2, <1>3, <1>4, <1>5, <1>6, <1>7, <1>8 DEF Next

\* The invariant holds of every behaviour of the server.
THEOREM Invariance == Spec => []IInv
  <1>1. Init => IInv
    <2> SUFFICES ASSUME Init
                 PROVE  IInv
      OBVIOUS
    <2>1. \A c \in Conns : state[c] = "new"
      BY DEF Init
    <2>2. TypeOK
      <3>1. acceptErrors \in 0 .. MaxAcceptErrors
        BY MaxAcceptErrorsAssumption DEF Init
      <3>2. state \in [Conns -> ConnStates]
        BY DEF Init, ConnStates
      <3>3. QED
        BY <3>1, <3>2 DEF Init, TypeOK, ShutdownStates
    <2>3. MapIsExact /\ OneHeld
      BY <2>1 DEF Init, MapIsExact, OneHeld, Held, In
    <2>4. ClosedBeforePolling /\ ClosedQueueIsEmpty /\ AtMostOneLeftBehind
      BY DEF Init, ClosedBeforePolling, ClosedQueueIsEmpty, AtMostOneLeftBehind
    <2>5. QED
      BY <2>2, <2>3, <2>4 DEF IInv
  <1>2. QED
    BY <1>1, InvariantStep, PTL DEF Spec

(***************************************************************************)
(* Type correctness of the server, for every set of connections.           *)
(***************************************************************************)
THEOREM TypeCorrect == Spec => []TypeOK
  BY Invariance, PTL DEF IInv

(***************************************************************************)
(* When Shutdown returns nil (server.go:121) it has waited for every       *)
(* connection that was in the map: at most the one connection the accept   *)
(* loop held outside the map is still being served.                        *)
(***************************************************************************)
THEOREM LeavesAtMostOneBehind == Spec => []AtMostOneLeftBehind
  BY Invariance, PTL DEF IInv

(***************************************************************************)
(* Once Shutdown has returned, nil or not, no connection joins the queue   *)
(* or is accepted: the listener is closed and its queue was reset.         *)
(***************************************************************************)
LEMMA ReturnedStep ==
    IInv /\ [Next]_vars =>
        [(shutdown \in {"ok", "deadline"}) =>
            (In({"queued", "accepted"})' \subseteq In({"queued", "accepted"}))]_vars
  <1> SUFFICES ASSUME IInv, Next, shutdown \in {"ok", "deadline"}
               PROVE  In({"queued", "accepted"})' \subseteq In({"queued", "accepted"})
    BY DEF In
  <1>1. listener = "closed"
    BY DEF IInv, ClosedBeforePolling
  <1> USE DEF IInv, TypeOK, In, Move
  <1>2. ASSUME NEW c \in Conns,
               Dial(c) \/ HandlerReturns(c) \/ Deregister(c) \/ Accept(c) \/ Register(c) \/ Spawn(c)
        PROVE  In({"queued", "accepted"})' \subseteq In({"queued", "accepted"})
    BY <1>1, <1>2 DEF Dial, HandlerReturns, Deregister, Accept, Register, Spawn
  <1>3. CASE Start \/ AcceptError \/ AcceptClosed \/ MarkClosed \/ Expire
    BY <1>3 DEF Start, AcceptError, AcceptClosed, MarkClosed, Expire
  <1>4. CASE ShutdownStep
    BY <1>4 DEF ShutdownStep, CloseListener, PollEmpty, PollBusy, Tick, ContextDone
  <1>5. QED
    BY <1>2, <1>3, <1>4 DEF Next, LoopStep

(* Once Shutdown has given up on the deadline or returned nil, no connection *)
(* is taken from the network: the listener was closed before that.           *)
THEOREM NothingAcceptedAfterReturn == Spec => NoAcceptAfterReturn
  BY Invariance, ReturnedStep, PTL DEF Spec, NoAcceptAfterReturn

------------------------------------------------------------------------------
(* The refinement of ConnectionDrain *)

\* A step that leaves the loop's connection, the map and the phase alone.
LEMMA DrainStutter ==
    ASSUME In({"accepted"})' = In({"accepted"}), conns' = conns, shutdown' = shutdown
    PROVE  UNCHANGED Drain!vars
  BY DEF Drain!vars, DrainPhase

(***************************************************************************)
(* Every step of the server is a step of ConnectionDrain or a stutter.     *)
(* Accept is Take, Register is Admit, Deregister is Leave, CloseListener   *)
(* begins the drain, which PollEmpty and ContextDone end.                  *)
(***************************************************************************)
LEMMA DrainStep == IInv /\ [Next]_vars => [Drain!Next]_(Drain!vars)
  <1> SUFFICES ASSUME IInv, [Next]_vars
               PROVE  [Drain!Next]_(Drain!vars)
    OBVIOUS
  <1> USE DEF IInv, TypeOK, ShutdownStates, In
  <1>1. ASSUME NEW c \in Conns, Dial(c) \/ HandlerReturns(c) \/ Spawn(c)
        PROVE  UNCHANGED Drain!vars
    <2>1. In({"accepted"})' = In({"accepted"}) /\ conns' = conns /\ shutdown' = shutdown
      BY <1>1 DEF Dial, HandlerReturns, Spawn, Move
    <2>2. QED
      BY <2>1, DrainStutter
  <1>2. ASSUME NEW c \in Conns, Deregister(c)
        PROVE  Drain!Leave(c)
    BY <1>2 DEF Deregister, Move, Drain!Leave, DrainPhase, MapIsExact
  <1>3. ASSUME NEW c \in Conns, Accept(c)
        PROVE  Drain!Take(c)
    <2>1. shutdown \in {"idle", "markedClosed"}
      BY <1>3 DEF Accept, ClosedBeforePolling
    <2>2. In({"accepted"}) = {} /\ c \notin conns
      BY <1>3 DEF Accept, Move, Held, MapIsExact
    <2>3. In({"accepted"})' = {c}
      BY <1>3, <2>2 DEF Accept, Move
    <2>4. UNCHANGED <<shutdown, conns>>
      BY <1>3 DEF Accept
    <2>5. QED
      BY <2>1, <2>2, <2>3, <2>4 DEF Drain!Take, DrainPhase
  <1>4. ASSUME NEW c \in Conns, Register(c)
        PROVE  Drain!Admit(c)
    <2>1. c \in In({"accepted"}) /\ In({"accepted"})' = In({"accepted"}) \ {c}
      BY <1>4 DEF Register, Move
    <2>2. conns' = conns \cup {c} /\ shutdown' = shutdown
      BY <1>4 DEF Register
    <2>3. QED
      BY <2>1, <2>2 DEF Drain!Admit, DrainPhase
  <1>5. CASE Start \/ AcceptError \/ AcceptClosed \/ Expire
    BY <1>5, DrainStutter DEF Start, AcceptError, AcceptClosed, Expire
  <1>6. CASE MarkClosed
    BY <1>6 DEF MarkClosed, Drain!vars, DrainPhase
  <1>7. CASE CloseListener
    <2>1. In({"accepted"})' = In({"accepted"}) /\ conns' = conns
      BY <1>7 DEF CloseListener
    <2>2. QED
      BY <1>7, <2>1 DEF CloseListener, Drain!BeginDrain, Drain!Next, DrainPhase
  <1>8. CASE PollEmpty
    BY <1>8 DEF PollEmpty, Drain!FinishClean, Drain!Next, DrainPhase
  <1>9. CASE PollBusy \/ Tick
    BY <1>9 DEF PollBusy, Tick, Drain!vars, DrainPhase
  <1>10. CASE ContextDone
    BY <1>10 DEF ContextDone, Drain!GiveUp, Drain!Next, DrainPhase
  <1>11. CASE UNCHANGED vars
    BY <1>11, DrainStutter DEF vars
  <1>12. QED
    BY <1>1, <1>2, <1>3, <1>4, <1>5, <1>6, <1>7, <1>8, <1>9, <1>10, <1>11
       DEF Next, LoopStep, ShutdownStep, Drain!Next

(***************************************************************************)
(* The server of lib/tcp implements ConnectionDrain: a drain that ends     *)
(* cleanly ends at an instant when the map is empty, and nothing is taken  *)
(* from the network after it began.                                        *)
(***************************************************************************)
THEOREM ImplementsDrain == Spec => DrainSpec
  <1>1. Init => Drain!Init
    BY DEF Init, Drain!Init, DrainPhase, In
  <1>2. QED
    BY <1>1, Invariance, DrainStep, PTL DEF Spec, DrainSpec, Drain!Spec
==============================================================================
