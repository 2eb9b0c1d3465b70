-------------------------------- MODULE Retry --------------------------------
(***************************************************************************)
(* Do and Get of lib/retry/retry.go: a function is tried up to a number of *)
(* times, and between two tries the caller waits in a select for the timer *)
(* of the backoff or the end of the context, whichever is there; when both *)
(* are, select chooses at random.  The caller's context may end at any     *)
(* time, before the first try too, and the function may not care.          *)
(***************************************************************************)
EXTENDS Integers

CONSTANTS
    Attempts,       \* the values of the parameter attempts
    Delays,         \* the values of the parameter delay
    MaxShift,       \* maxBackoffShift
    Width           \* the bits of a time.Duration

ASSUME AttemptsAssumption == Attempts \subseteq Int
ASSUME DelaysAssumption == Delays \subseteq Nat \ {0}
ASSUME MaxShiftAssumption == MaxShift \in Nat
ASSUME WidthAssumption == Width \in Nat \ {0}

VARIABLES
    attempts,       \* the parameters of the call
    delay,
    i,              \* the index of the try
    at,             \* "loop", "calling", "failed", "waiting" or "returned"
    timer,          \* the backoff that time.After was given last
    fired,          \* whether that timer has fired
    ctxDone,        \* whether the context is done
    calls,          \* history: how often the function was called
    lateCalls,      \* history: how often after the context was done
    succeeded,      \* history: whether the last call returned nil
    result          \* "none", "nil", "fnError" or "ctxError"

retryVars == <<attempts, delay, i, at, timer, fired, ctxDone, calls, lateCalls, succeeded, result>>

\* Two's complement arithmetic of a signed integer of that width.
Wrap(n) == ((n + 2 ^ (Width - 1)) % (2 * 2 ^ (Width - 1))) - 2 ^ (Width - 1)

\* Mutant of Backoff: the shift is not capped.
BackoffUncapped(d, k) == Wrap(d * 2 ^ k)

Backoff(d, k) == Wrap(d * 2 ^ (IF k > MaxShift THEN MaxShift ELSE k))

RetryTypeOK ==
    /\ attempts \in Attempts
    /\ delay \in Delays
    /\ i \in Nat
    /\ at \in {"loop", "calling", "failed", "waiting", "returned"}
    /\ timer \in Int
    /\ fired \in BOOLEAN
    /\ ctxDone \in BOOLEAN
    /\ calls \in Nat
    /\ lateCalls \in Nat
    /\ succeeded \in BOOLEAN
    /\ result \in {"none", "nil", "fnError", "ctxError"}

RetryInit ==
    /\ attempts \in Attempts
    /\ delay \in Delays
    /\ i = 0
    /\ at = "loop"
    /\ timer = 0
    /\ fired = FALSE
    /\ ctxDone = FALSE
    /\ calls = 0
    /\ lateCalls = 0
    /\ succeeded = FALSE
    /\ result = "none"

Return(value) ==
    /\ at' = "returned"
    /\ result' = value

------------------------------------------------------------------------------
(* The environment *)

ContextDone ==
    /\ ~ctxDone
    /\ ctxDone' = TRUE
    /\ UNCHANGED <<attempts, delay, i, at, timer, fired, calls, lateCalls, succeeded, result>>

TimerFires ==
    /\ at = "waiting"
    /\ ~fired
    /\ fired' = TRUE
    /\ UNCHANGED <<attempts, delay, i, at, timer, ctxDone, calls, lateCalls, succeeded, result>>

------------------------------------------------------------------------------
(* The loop *)

Call ==
    /\ at = "loop"
    /\ i < attempts
    /\ at' = "calling"
    /\ calls' = calls + 1
    /\ lateCalls' = IF ctxDone THEN lateCalls + 1 ELSE lateCalls
    /\ UNCHANGED <<attempts, delay, i, timer, fired, ctxDone, succeeded, result>>

\* With attempts <= 0 the function is never called and the result is nil.
LoopEnds ==
    /\ at = "loop"
    /\ i >= attempts
    /\ Return("nil")
    /\ UNCHANGED <<attempts, delay, i, timer, fired, ctxDone, calls, lateCalls, succeeded>>

CallSucceeds ==
    /\ at = "calling"
    /\ succeeded' = TRUE
    /\ Return("nil")
    /\ UNCHANGED <<attempts, delay, i, timer, fired, ctxDone, calls, lateCalls>>

\* Mutant of CallFails: the last attempt is not recognised.
CallFailsLate ==
    /\ at = "calling"
    /\ IF i = attempts
         THEN Return("fnError")
         ELSE at' = "failed" /\ UNCHANGED result
    /\ UNCHANGED <<attempts, delay, i, timer, fired, ctxDone, calls, lateCalls, succeeded>>

CallFails ==
    /\ at = "calling"
    /\ IF i = attempts - 1
         THEN Return("fnError")
         ELSE at' = "failed" /\ UNCHANGED result
    /\ UNCHANGED <<attempts, delay, i, timer, fired, ctxDone, calls, lateCalls, succeeded>>

\* The select starts its timer and looks at its cases.  A timer that is > 0 is
\* taken to be longer than the moment between the two, so that a context that
\* is done by then is taken at once.
Select ==
    /\ at = "failed"
    /\ timer' = Backoff(delay, i)
    /\ fired' = (timer' <= 0)
    /\ IF ctxDone /\ ~fired'
         THEN Return("ctxError")
         ELSE at' = "waiting" /\ UNCHANGED result
    /\ UNCHANGED <<attempts, delay, i, ctxDone, calls, lateCalls, succeeded>>

TakeTimer ==
    /\ at = "waiting"
    /\ fired
    /\ at' = "loop"
    /\ i' = i + 1
    /\ UNCHANGED <<attempts, delay, timer, fired, ctxDone, calls, lateCalls, succeeded, result>>

TakeDone ==
    /\ at = "waiting"
    /\ ctxDone
    /\ Return("ctxError")
    /\ UNCHANGED <<attempts, delay, i, timer, fired, ctxDone, calls, lateCalls, succeeded>>

------------------------------------------------------------------------------

LoopStep ==
    \/ Call
    \/ LoopEnds
    \/ CallSucceeds
    \/ CallFails
    \/ Select
    \/ TakeTimer
    \/ TakeDone

RetryNext == ContextDone \/ TimerFires \/ LoopStep

RetrySpec == RetryInit /\ [][RetryNext]_retryVars

------------------------------------------------------------------------------
(* Properties *)

(***************************************************************************)
(* nil means that the last call succeeded, when any attempt is allowed;    *)
(* the function's own error is returned only after all the attempts; and   *)
(* there are never more calls than attempts.                               *)
(***************************************************************************)
ResultTellsTheCalls ==
    /\ result = "nil" /\ attempts > 0 => succeeded
    /\ result = "fnError" => calls = attempts
    /\ calls > 0 => calls <= attempts

(***************************************************************************)
(* The end of the context stops the retries: at most one call begins after *)
(* it, the first, which does not look at the context, or the one whose     *)
(* timer fired together with it.  Delays must be so short that the backoff *)
(* does not overflow up to the cap of the shift.                           *)
(***************************************************************************)
AtMostOneLateCall == lateCalls <= 1

==============================================================================
