--------------------------- MODULE ConnectionDrain ---------------------------
(***************************************************************************)
(* What the TCP server of lib/tcp promises about graceful shutdown, with   *)
(* no sockets, no goroutines and no polling: connections are taken from    *)
(* the network one at a time, admitted to the set that is being served,    *)
(* and leave it; a drain that begins stops the taking of connections and   *)
(* ends cleanly only at an instant when no admitted connection is left.    *)
(*                                                                         *)
(* The specification is as strong as the code and no stronger: a           *)
(* connection that was taken but not yet admitted is invisible to the      *)
(* drain, and may be admitted after a clean end.                           *)
(***************************************************************************)
CONSTANT Conns       \* the connections clients may open

VARIABLES
    phase,           \* "serving", "draining", "clean" or "timedOut"
    pending,         \* the connection that was taken and is not admitted yet
    active           \* the admitted connections, the ones a drain waits for

vars == <<phase, pending, active>>

TypeOK ==
    /\ phase \in {"serving", "draining", "clean", "timedOut"}
    /\ pending \in SUBSET Conns
    /\ active \in SUBSET Conns

Init ==
    /\ phase = "serving"
    /\ pending = {}
    /\ active = {}

\* A connection is taken: only while serving, and one at a time.
Take(c) ==
    /\ phase = "serving"
    /\ pending = {}
    /\ c \notin active
    /\ pending' = {c}
    /\ UNCHANGED <<phase, active>>

\* The connection that was taken is admitted, whatever the phase.
Admit(c) ==
    /\ c \in pending
    /\ pending' = pending \ {c}
    /\ active' = active \cup {c}
    /\ UNCHANGED phase

Leave(c) ==
    /\ c \in active
    /\ active' = active \ {c}
    /\ UNCHANGED <<phase, pending>>

BeginDrain ==
    /\ phase = "serving"
    /\ phase' = "draining"
    /\ UNCHANGED <<pending, active>>

FinishClean ==
    /\ phase = "draining"
    /\ active = {}
    /\ phase' = "clean"
    /\ UNCHANGED <<pending, active>>

GiveUp ==
    /\ phase = "draining"
    /\ phase' = "timedOut"
    /\ UNCHANGED <<pending, active>>

Next ==
    \/ \E c \in Conns : Take(c) \/ Admit(c) \/ Leave(c)
    \/ BeginDrain
    \/ FinishClean
    \/ GiveUp

Spec == Init /\ [][Next]_vars
==============================================================================
