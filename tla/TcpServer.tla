------------------------------ MODULE TcpServer ------------------------------
(***************************************************************************)
(* The TCP server of lib/tcp/server.go: New has opened the listener, Start *)
(* runs the accept loop, the loop runs one goroutine per connection, and   *)
(* Shutdown closes the listener and polls the map of connections until it  *)
(* is empty or its context is done.                                        *)
(*                                                                         *)
(* Goroutines interleave between any two operations on shared state.  The  *)
(* mutex s.mu only ever guards one operation on the map (insert, delete,   *)
(* len), so each critical section is one action.  What a handler does with *)
(* its connection is left open: it returns at some time, or never.         *)
(***************************************************************************)
EXTENDS Naturals

CONSTANTS
    Conns,              \* the connections clients may open
    MaxAcceptErrors     \* bound: how often Accept may fail with a passing error

ASSUME MaxAcceptErrorsAssumption == MaxAcceptErrors \in Nat

VARIABLES
    listener,       \* s.listener: "open" or "closed"
    closed,         \* s.health.closed
    loop,           \* the accept loop: "off", "running" or "returned"
    acceptErrors,   \* errors Accept has returned so far
    state,          \* where each connection is in its life
    conns,          \* s.conns, the map Shutdown polls
    shutdown,       \* the goroutine in Shutdown
    expired         \* whether the context given to Shutdown is done

vars == <<listener, closed, loop, acceptErrors, state, conns, shutdown, expired>>

(***************************************************************************)
(* A connection's life.  "queued": the kernel has completed the handshake  *)
(* and Accept has not returned it.  "accepted": it is in the accept loop's *)
(* local variable only.  "registered": it is in the map, its goroutine is  *)
(* not started.  "handling": HandleConn runs.  "hungUp": HandleConn has    *)
(* returned and conn.Close() was called.  "gone": deleted from the map.    *)
(* "refused": the client got an error, at dialling or from the queue of a  *)
(* listener that was closed.                                               *)
(***************************************************************************)
ConnStates == {"new", "queued", "refused", "accepted", "registered", "handling",
               "hungUp", "gone"}

ShutdownStates == {"idle", "markedClosed", "polling", "waiting", "ok", "deadline"}

In(states) == {c \in Conns : state[c] \in states}

\* The connection the accept loop is busy with, if there is one.
Held == In({"accepted", "registered"})

\* The connections whose client still waits for the server.
Live == In({"accepted", "registered", "handling"})

TypeOK ==
    /\ listener \in {"open", "closed"}
    /\ closed \in BOOLEAN
    /\ loop \in {"off", "running", "returned"}
    /\ acceptErrors \in 0 .. MaxAcceptErrors
    /\ state \in [Conns -> ConnStates]
    /\ conns \in SUBSET Conns
    /\ shutdown \in ShutdownStates
    /\ expired \in BOOLEAN

\* The state New returns: the listener is open, so clients can already queue.
Init ==
    /\ listener = "open"
    /\ closed = FALSE
    /\ loop = "off"
    /\ acceptErrors = 0
    /\ state = [c \in Conns |-> "new"]
    /\ conns = {}
    /\ shutdown = "idle"
    /\ expired = FALSE

Move(c, from, to) ==
    /\ state[c] = from
    /\ state' = [state EXCEPT ![c] = to]

------------------------------------------------------------------------------
(* Clients *)

Dial(c) ==
    /\ Move(c, "new", IF listener = "open" THEN "queued" ELSE "refused")
    /\ UNCHANGED <<listener, closed, loop, acceptErrors, conns, shutdown, expired>>

------------------------------------------------------------------------------
(* The accept loop *)

Start ==
    /\ loop = "off"
    /\ loop' = "running"
    /\ UNCHANGED <<listener, closed, acceptErrors, state, conns, shutdown, expired>>

Accept(c) ==
    /\ loop = "running"
    /\ Held = {}
    /\ listener = "open"
    /\ Move(c, "queued", "accepted")
    /\ UNCHANGED <<listener, closed, loop, acceptErrors, conns, shutdown, expired>>

\* Mutant of AcceptError: the loop returns on any error.
AcceptErrorReturns ==
    /\ loop = "running"
    /\ Held = {}
    /\ listener = "open"
    /\ acceptErrors < MaxAcceptErrors
    /\ acceptErrors' = acceptErrors + 1
    /\ loop' = "returned"
    /\ UNCHANGED <<listener, closed, state, conns, shutdown, expired>>

\* Any error but net.ErrClosed is logged and the loop continues.
AcceptError ==
    /\ loop = "running"
    /\ Held = {}
    /\ listener = "open"
    /\ acceptErrors < MaxAcceptErrors
    /\ acceptErrors' = acceptErrors + 1
    /\ UNCHANGED <<listener, closed, loop, state, conns, shutdown, expired>>

\* Accept on a closed listener returns net.ErrClosed and the loop returns.
AcceptClosed ==
    /\ loop = "running"
    /\ Held = {}
    /\ listener = "closed"
    /\ loop' = "returned"
    /\ UNCHANGED <<listener, closed, acceptErrors, state, conns, shutdown, expired>>

\* Mutant of Register: a connection that comes during shutdown is kept out of the map.
RegisterUnlessClosed(c) ==
    /\ Move(c, "accepted", "registered")
    /\ conns' = IF closed THEN conns ELSE conns \cup {c}
    /\ UNCHANGED <<listener, closed, loop, acceptErrors, shutdown, expired>>

Register(c) ==
    /\ Move(c, "accepted", "registered")
    /\ conns' = conns \cup {c}
    /\ UNCHANGED <<listener, closed, loop, acceptErrors, shutdown, expired>>

Spawn(c) ==
    /\ Move(c, "registered", "handling")
    /\ UNCHANGED <<listener, closed, loop, acceptErrors, conns, shutdown, expired>>

------------------------------------------------------------------------------
(* The goroutine of a connection *)

\* HandleConn returns and the deferred function closes the connection.
HandlerReturns(c) ==
    /\ Move(c, "handling", "hungUp")
    /\ UNCHANGED <<listener, closed, loop, acceptErrors, conns, shutdown, expired>>

Deregister(c) ==
    /\ Move(c, "hungUp", "gone")
    /\ conns' = conns \ {c}
    /\ UNCHANGED <<listener, closed, loop, acceptErrors, shutdown, expired>>

------------------------------------------------------------------------------
(* Shutdown *)

MarkClosed ==
    /\ shutdown = "idle"
    /\ closed' = TRUE
    /\ shutdown' = "markedClosed"
    /\ UNCHANGED <<listener, loop, acceptErrors, state, conns, expired>>

\* Closing the listener also resets what is still in its queue.
CloseListener ==
    /\ shutdown = "markedClosed"
    /\ listener' = "closed"
    /\ state' = [c \in Conns |-> IF state[c] = "queued" THEN "refused" ELSE state[c]]
    /\ shutdown' = "polling"
    /\ UNCHANGED <<closed, loop, acceptErrors, conns, expired>>

\* Mutant of PollEmpty: Shutdown does not wait for the map.
PollAnyway ==
    /\ shutdown = "polling"
    /\ shutdown' = "ok"
    /\ UNCHANGED <<listener, closed, loop, acceptErrors, state, conns, expired>>

PollEmpty ==
    /\ shutdown = "polling"
    /\ conns = {}
    /\ shutdown' = "ok"
    /\ UNCHANGED <<listener, closed, loop, acceptErrors, state, conns, expired>>

PollBusy ==
    /\ shutdown = "polling"
    /\ conns # {}
    /\ shutdown' = "waiting"
    /\ UNCHANGED <<listener, closed, loop, acceptErrors, state, conns, expired>>

\* The select takes the ticker's case, which is possible even when the context
\* is done: select chooses at random between cases that are ready.
Tick ==
    /\ shutdown = "waiting"
    /\ shutdown' = "polling"
    /\ UNCHANGED <<listener, closed, loop, acceptErrors, state, conns, expired>>

\* Mutant of ContextDone: the select has no case for the context.
ContextIgnored == FALSE

ContextDone ==
    /\ shutdown = "waiting"
    /\ expired
    /\ shutdown' = "deadline"
    /\ UNCHANGED <<listener, closed, loop, acceptErrors, state, conns, expired>>

\* The deadline passes; it may have passed before Shutdown is called.  When the
\* context has none, this never happens.
Expire ==
    /\ ~expired
    /\ expired' = TRUE
    /\ UNCHANGED <<listener, closed, loop, acceptErrors, state, conns, shutdown>>

------------------------------------------------------------------------------

LoopStep ==
    \/ AcceptError
    \/ AcceptClosed
    \/ \E c \in Conns : Accept(c) \/ Register(c) \/ Spawn(c)

ShutdownStep ==
    CloseListener \/ PollEmpty \/ PollBusy \/ Tick \/ ContextDone

Next ==
    \/ \E c \in Conns : Dial(c) \/ HandlerReturns(c) \/ Deregister(c)
    \/ Start
    \/ LoopStep
    \/ MarkClosed
    \/ ShutdownStep
    \/ Expire

Spec == Init /\ [][Next]_vars

(***************************************************************************)
(* Fairness.  The Go scheduler runs every goroutine that can run, so the   *)
(* accept loop, the deferred function of a handler and Shutdown go on; the *)
(* ticker's case of the select is taken again and again, and select picks  *)
(* a ready ctx.Done() infinitely often with probability one, which strong  *)
(* fairness of ContextDone states.  Nothing obliges a client to dial, a    *)
(* handler to return, an operator to call Shutdown, or a context to have a *)
(* deadline.                                                               *)
(***************************************************************************)
LoopFairness ==
    /\ WF_vars(Start)
    /\ WF_vars(AcceptClosed)
    /\ \A c \in Conns : WF_vars(Accept(c) \/ Register(c) \/ Spawn(c))

ShutdownFairness ==
    /\ WF_vars(CloseListener \/ PollEmpty \/ PollBusy \/ Tick)
    /\ SF_vars(ContextDone)

Fairness ==
    /\ LoopFairness
    /\ ShutdownFairness
    /\ \A c \in Conns : WF_vars(Deregister(c))

FairSpec == Spec /\ Fairness

\* Handlers return as well, as they do when their clients do not stall.
HandlersReturn == \A c \in Conns : WF_vars(HandlerReturns(c))

------------------------------------------------------------------------------
(* Properties *)

(***************************************************************************)
(* When Shutdown has returned nil at most one connection is still being    *)
(* served, the one that the accept loop held outside the map when Shutdown *)
(* polled.  Every connection that was in the map has been waited for.      *)
(***************************************************************************)
AtMostOneLeftBehind ==
    shutdown = "ok" => \A c, d \in Live : c = d

(***************************************************************************)
(* What the test named TestShutdownWaitsForConnections says of Shutdown:   *)
(* it returns nil only when no connection is being served.  The code does  *)
(* not keep this: see AtMostOneLeftBehind.                                 *)
(***************************************************************************)
ShutdownWaitsForConnections ==
    shutdown = "ok" => Live = {}

(***************************************************************************)
(* Once Shutdown gives up on the deadline or returns nil, no connection is *)
(* taken from the network any more: what serves then was accepted before   *)
(* the listener was closed.                                                *)
(***************************************************************************)
NoAcceptAfterReturn ==
    [][(shutdown \in {"ok", "deadline"}) =>
         (In({"queued", "accepted"})' \subseteq In({"queued", "accepted"}))]_vars

(***************************************************************************)
(* Shutdown returns.  With a deadline that is so even when a client stalls *)
(* and its handler never returns; without one it needs the handlers to.    *)
(***************************************************************************)
ShutdownReturns ==
    <>expired \/ HandlersReturn =>
        (shutdown # "idle" ~> shutdown \in {"ok", "deadline"})

(***************************************************************************)
(* Nobody stays behind.  A connection the kernel has queued reaches a      *)
(* handler or is refused: the accept loop outlives the errors Accept       *)
(* returns.  Once the server was shut down the loop has returned and the   *)
(* map ends up empty, when handlers return, although a connection may be   *)
(* inserted in it after the last poll.                                     *)
(***************************************************************************)
NobodyStaysBehind ==
    /\ \A c \in Conns : state[c] = "queued" ~> state[c] \in {"handling", "refused"}
    /\ HandlersReturn =>
          (shutdown \in {"ok", "deadline"} ~> [](loop = "returned" /\ conns = {}))

(***************************************************************************)
(* The server implements ConnectionDrain: the map is the set of admitted   *)
(* connections and the listener's state tells serving from draining.       *)
(***************************************************************************)
DrainPhase ==
    CASE shutdown = "ok" -> "clean"
      [] shutdown = "deadline" -> "timedOut"
      [] shutdown \in {"polling", "waiting"} -> "draining"
      [] OTHER -> "serving"

Drain == INSTANCE ConnectionDrain WITH
    phase <- DrainPhase,
    pending <- In({"accepted"}),
    active <- conns

DrainSpec == Drain!Spec
==============================================================================
