-------------------------------- MODULE PgTx --------------------------------
(***************************************************************************)
(* WithTx of lib/pg/tx.go, called by several goroutines over one pool of   *)
(* connections.  A call acquires a connection and begins a transaction,    *)
(* runs its function, and commits or rolls back; ending a transaction      *)
(* gives the connection back.  The pool (pgxpool) and the database are     *)
(* external: Begin waits for a connection, and may always fail; a Commit   *)
(* may fail with or without having taken effect; a pool that is closing    *)
(* refuses whoever waits, and is closed when it has every connection back. *)
(*                                                                         *)
(* A function may also panic.  WithTx has no deferred rollback, so the     *)
(* transaction stays open and its connection is never given back, when a   *)
(* caller such as the Recovery middleware keeps the process alive.         *)
(***************************************************************************)
EXTENDS Naturals, FiniteSets

CONSTANTS
    Callers,        \* goroutines that call WithTx, one call at a time
    MaxConns        \* the size of the pool

VARIABLES
    pool,           \* "open", "closing" while Close waits, or "closed"
    caller,         \* where each call is
    holders,        \* the callers whose transaction holds a connection
    tx,             \* the fate of its transaction in the database
    err             \* the error a call is about to return, or has returned

vars == <<pool, caller, holders, tx, err>>

CallStates == {"idle", "begin", "fn", "commit", "rollback", "returned", "panicked"}
Errors == {"nil", "beginError", "fnError", "commitError"}

TypeOK ==
    /\ pool \in {"open", "closing", "closed"}
    /\ caller \in [Callers -> CallStates]
    /\ holders \in SUBSET Callers
    /\ tx \in [Callers -> {"none", "open", "committed", "aborted"}]
    /\ err \in [Callers -> Errors]

Init ==
    /\ pool = "open"
    /\ caller = [c \in Callers |-> "idle"]
    /\ holders = {}
    /\ tx = [c \in Callers |-> "none"]
    /\ err = [c \in Callers |-> "nil"]

Goto(c, from, to) ==
    /\ caller[c] = from
    /\ caller' = [caller EXCEPT ![c] = to]

SetTx(c, fate) == tx' = [tx EXCEPT ![c] = fate]
SetErr(c, e) == err' = [err EXCEPT ![c] = e]

------------------------------------------------------------------------------
(* WithTx *)

Call(c) ==
    /\ Goto(c, "idle", "begin")
    /\ UNCHANGED <<pool, holders, tx, err>>

Begin(c) ==
    /\ pool = "open"
    /\ Cardinality(holders) < MaxConns
    /\ Goto(c, "begin", "fn")
    /\ holders' = holders \cup {c}
    /\ SetTx(c, "open")
    /\ UNCHANGED <<pool, err>>

\* The caller's context ends the wait, the database refuses, or the pool is
\* closed.
BeginFails(c) ==
    /\ Goto(c, "begin", "returned")
    /\ SetErr(c, "beginError")
    /\ UNCHANGED <<pool, holders, tx>>

FnSucceeds(c) ==
    /\ Goto(c, "fn", "commit")
    /\ UNCHANGED <<pool, holders, tx, err>>

\* Mutant of FnFails: the error of the function does not stop the commit.
FnFailsCommits(c) ==
    /\ Goto(c, "fn", "commit")
    /\ SetErr(c, "fnError")
    /\ UNCHANGED <<pool, holders, tx>>

\* Mutant of FnFails: the transaction is left open.
FnFailsWithoutRollback(c) ==
    /\ Goto(c, "fn", "returned")
    /\ SetErr(c, "fnError")
    /\ UNCHANGED <<pool, holders, tx>>

FnFails(c) ==
    /\ Goto(c, "fn", "rollback")
    /\ SetErr(c, "fnError")
    /\ UNCHANGED <<pool, holders, tx>>

\* The panic unwinds through WithTx, which leaves the transaction as it is.
FnPanics(c) ==
    /\ Goto(c, "fn", "panicked")
    /\ UNCHANGED <<pool, holders, tx, err>>

Commit(c) ==
    /\ Goto(c, "commit", "returned")
    /\ SetTx(c, "committed")
    /\ holders' = holders \ {c}
    /\ UNCHANGED <<pool, err>>

\* The commit is refused, its context is done, or its answer is lost after it
\* took effect; the pool has its connection back before the rollback.
CommitFails(c) ==
    /\ Goto(c, "commit", "rollback")
    /\ SetErr(c, "commitError")
    /\ \E fate \in {"committed", "aborted"} : SetTx(c, fate)
    /\ holders' = holders \ {c}
    /\ UNCHANGED pool

\* The rollback has a context that is never done; its error is dropped, and on
\* a transaction that has ended it does nothing.
Rollback(c) ==
    /\ Goto(c, "rollback", "returned")
    /\ SetTx(c, IF tx[c] = "open" THEN "aborted" ELSE tx[c])
    /\ holders' = holders \ {c}
    /\ UNCHANGED <<pool, err>>

\* The goroutine has done with the result, and nothing of the call is kept.
Forget(c) ==
    /\ Goto(c, "returned", "idle")
    /\ SetTx(c, "none")
    /\ SetErr(c, "nil")
    /\ UNCHANGED <<pool, holders>>

------------------------------------------------------------------------------
(* Pool.Close *)

Close ==
    /\ pool = "open"
    /\ pool' = "closing"
    /\ UNCHANGED <<caller, holders, tx, err>>

Closed ==
    /\ pool = "closing"
    /\ holders = {}
    /\ pool' = "closed"
    /\ UNCHANGED <<caller, holders, tx, err>>

------------------------------------------------------------------------------

\* What a call does next, if nothing but the call decides it.
CallProgress(c) ==
    \/ Begin(c)
    \/ pool # "open" /\ BeginFails(c)
    \/ FnSucceeds(c)
    \/ FnFails(c)
    \/ FnPanics(c)
    \/ Commit(c)
    \/ CommitFails(c)
    \/ Rollback(c)

CallStep(c) == Call(c) \/ BeginFails(c) \/ CallProgress(c)

Next == Close \/ Closed \/ \E c \in Callers : CallStep(c) \/ Forget(c)

Spec == Init /\ [][Next]_vars

------------------------------------------------------------------------------
(* Properties *)

(***************************************************************************)
(* What a call returns tells what became of its transaction: nil means     *)
(* committed, an error of Begin or of the function that nothing was, and   *)
(* only an error of Commit leaves it open.  In no case is the transaction  *)
(* still open, or its connection kept, even when the caller's context was  *)
(* done before the rollback.                                               *)
(***************************************************************************)
ErrorTellsTheFate ==
    \A c \in Callers : caller[c] = "returned" =>
        /\ err[c] = "nil" => tx[c] = "committed"
        /\ err[c] \in {"beginError", "fnError"} => tx[c] # "committed"
        /\ c \notin holders /\ tx[c] # "open"

\* The calls whose connection is lost.
Panicked == {c \in Callers : caller[c] = "panicked"}
==============================================================================
