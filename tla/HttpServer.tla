----------------------------- MODULE HttpServer -----------------------------
(***************************************************************************)
(* One request through the handler that lib/http/new.go builds: the        *)
(* middleware of lib/http/middleware around the mux, and behind the mux    *)
(* the health endpoints of lib/http/health, the blur handler of lab-1 and  *)
(* any handler of an application, which may also add middleware: that of   *)
(* lib, or "custom" ones of its own, which may answer for the handler,     *)
(* return without calling it, panic, recover or answer after it.           *)
(* The checks of the Health object may be registered and may change what   *)
(* they say at any time; requests share nothing else, so that one request  *)
(* stands for all.                                                         *)
(*                                                                         *)
(* The handlers form a stack.  phase says which way the goroutine goes:    *)
(* "down" when chain[at] is called, "up" when chain[at + 1] has returned   *)
(* to it, "panic" when a panic has unwound to it; at = 0 is net/http.      *)
(* Bodies, images and messages are abstracted to what the checks tell      *)
(* apart, and a status of 0 is none.                                       *)
(***************************************************************************)
EXTENDS Naturals, Sequences, SequencesExt

CONSTANTS
    Names,          \* the names of readiness checks
    Middleware      \* the values of Options.middleware

\* What WithMiddleware may be given: the middleware of lib that New does not wrap
\* by itself, and any other that passes its own w and r on and leaves the headers
\* and the user of this model alone.
ASSUME MiddlewareAssumption == Middleware \subseteq Seq({"limitBody", "auth", "custom"})

Switches == {"health", "logger", "requestID", "recovery", "securityHeaders"}

\* A session cookie: none, one that Verify accepts, and two that it does not.
Cookies == {"none", "valid", "expired", "invalid"}

\* Clients of lab-1, and whoever probes for readiness, have no sessions.
Requests == [target : {"/api/blur"},
             id : {"none", "safe", "unsafe"},
             cookie : {"none"},
             body : {"fits", "oversized", "malformed"},
             sigma : {"unparsable", "notPositive", "inRange", "tooLarge", "NaN"},
             image : {"missing", "undecodable", "good"}]
            \cup
            [target : {"/readyz"},
             id : {"none", "safe", "unsafe"},
             cookie : {"none"}]
            \cup
            [target : {"/healthz", "application", "elsewhere"},
             id : {"none", "safe", "unsafe"},
             cookie : Cookies]

VARIABLES
    options,        \* the switches of Options that are on
    middleware,     \* Options.middleware
    checks,         \* Health.checks: what each registered function does
    request,
    user,           \* whether the request's context has a user
    chain, at, phase,
    header,         \* w.Header(): the security headers, the request id, the
                    \* Set-Cookie that clears the session cookie
    response,       \* the status and the header on the wire
    recorded,       \* statusWriter.status
    logged,         \* the status in Logger's line
    rewritten,      \* history: WriteHeader was called after the first time
    intervened,     \* history: whether a custom middleware did more than call
                    \* next and return, and if it began so before calling next
    readiness       \* the call of Readiness: see ReadinessCopy

setup == <<options, middleware, request>>
writer == <<header, response, recorded, logged, rewritten>>
vars == <<setup, intervened, checks, user, chain, at, phase, writer, readiness>>

Here == chain[at]

Above(layer) == \E k \in 1 .. at - 1 : chain[k] = layer

TypeOK ==
    /\ options \in SUBSET Switches
    /\ middleware \in Middleware
    /\ checks \in [Names -> {"absent", "passes", "fails", "hangs", "panics"}]
    /\ request \in Requests
    /\ user \in BOOLEAN
    /\ at \in 0 .. Len(chain)
    /\ phase \in {"down", "up", "panic", "done", "aborted"}
    /\ {recorded, logged, response.status} \subseteq {0, 200, 400, 404, 418, 500, 503}
    /\ rewritten \in BOOLEAN
    /\ intervened \in {"no", "early", "late"}
    /\ readiness.due \subseteq Names /\ readiness.todo \subseteq Names

------------------------------------------------------------------------------
(* New *)

\* The handlers of the mux.
Route(target) ==
    CASE target = "/api/blur" -> <<"limitBody", "blur">>
      [] target = "/healthz" /\ "health" \in options -> <<"liveness">>
      [] target = "/readyz" /\ "health" \in options -> <<"readiness">>
      [] target = "application" -> <<"application">>
      [] OTHER -> <<"notFound">>

\* if opts.layer { hdl = middleware.Layer(hdl) }
Wrapped(layer, handlers) == IF layer \in options THEN <<layer>> \o handlers ELSE handlers

\* Mutant of Layers: Logger is wrapped before Recovery.
LayersLoggerInside(target) ==
    Reverse(middleware)
    \o Wrapped("requestID", Wrapped("recovery", Wrapped("logger", Wrapped("securityHeaders", Route(target)))))

\* Each middleware is wrapped around the ones before it, Options.middleware last.
Layers(target) ==
    Reverse(middleware)
    \o Wrapped("logger", Wrapped("requestID", Wrapped("recovery", Wrapped("securityHeaders", Route(target)))))

Init ==
    /\ options \in SUBSET Switches
    /\ middleware \in Middleware
    /\ request \in Requests
    /\ checks \in [Names -> {"absent", "passes"}]
    \* Nothing but Readiness reads them.
    /\ request.target # "/readyz" => \A n \in Names : checks[n] = "absent"
    /\ chain = Layers(request.target)
    /\ at = 1
    /\ phase = "down"
    /\ user = FALSE
    /\ header = [security |-> FALSE, id |-> "none", cleared |-> FALSE]
    /\ response = [status |-> 0, header |-> header]
    /\ recorded = 0
    /\ logged = 0
    /\ rewritten = FALSE
    /\ intervened = "no"
    /\ readiness = [due |-> {n \in Names : checks[n] # "absent"},
                    todo |-> {}, passed |-> {}, failed |-> {}, allOK |-> TRUE, copied |-> FALSE]

------------------------------------------------------------------------------
(* The way down *)

Down(layer) == phase = "down" /\ Here = layer

Logger ==
    /\ Down("logger")
    /\ recorded' = 200
    /\ at' = at + 1
    /\ UNCHANGED <<setup, intervened, checks, user, chain, phase, header, response, logged, rewritten, readiness>>

\* sanitizeRequestID, and generateID when nothing is left.
Sanitized(id) == IF id = "safe" THEN "client" ELSE "generated"

RequestID ==
    /\ Down("requestID")
    /\ header' = [header EXCEPT !.id = Sanitized(request.id)]
    /\ at' = at + 1
    /\ UNCHANGED <<setup, intervened, checks, user, chain, phase, response, recorded, logged, rewritten, readiness>>

\* Mutant of SecurityHeaders: the headers are set when next has returned.
SecurityHeadersAfter ==
    /\ phase # "panic" /\ at > 0 /\ Here = "securityHeaders"
    /\ header' = [header EXCEPT !.security = phase = "up"]
    /\ at' = IF phase = "up" THEN at - 1 ELSE at + 1
    /\ UNCHANGED <<setup, intervened, checks, user, chain, phase, response, recorded, logged, rewritten, readiness>>

SecurityHeaders ==
    /\ Down("securityHeaders")
    /\ header' = [header EXCEPT !.security = TRUE]
    /\ at' = at + 1
    /\ UNCHANGED <<setup, intervened, checks, user, chain, phase, response, recorded, logged, rewritten, readiness>>

\* Recovery defers, LimitBody wraps the body (see BodyRefused), and a custom
\* middleware has done what it does before.
CallNext ==
    /\ Down("recovery") \/ Down("limitBody") \/ Down("custom")
    /\ at' = at + 1
    /\ UNCHANGED <<setup, intervened, checks, user, chain, phase, writer, readiness>>

\* Manager.Verify: the signature and its method, the issuer, the expiration and
\* the subject are all as Sign makes them.
Verify(cookie) == cookie = "valid"

\* Mutant of Authenticate: the cookie is cleared when next has returned.
AuthenticateAfter ==
    /\ phase # "panic" /\ at > 0 /\ Here = "auth"
    /\ user' = Verify(request.cookie)
    /\ header' = [header EXCEPT !.cleared = phase = "up" /\ request.cookie \notin {"none", "valid"}]
    /\ at' = IF phase = "up" THEN at - 1 ELSE at + 1
    /\ UNCHANGED <<setup, intervened, checks, chain, phase, response, recorded, logged, rewritten, readiness>>

\* Manager.Middleware: a cookie that is not accepted makes the request anonymous.
Authenticate ==
    /\ Down("auth")
    /\ user' = Verify(request.cookie)
    /\ header' = [header EXCEPT !.cleared = request.cookie # "none" /\ ~Verify(request.cookie)]
    /\ at' = at + 1
    /\ UNCHANGED <<setup, intervened, checks, chain, phase, response, recorded, logged, rewritten, readiness>>

------------------------------------------------------------------------------
(* The handlers behind the mux *)

\* statusWriter.WriteHeader, and net/http's, which keeps to the first status.
WriteHeader(status) ==
    /\ recorded' = IF Above("logger") THEN status ELSE recorded
    /\ rewritten' = (rewritten \/ response.status # 0)
    /\ response' = IF response.status # 0 THEN response ELSE [status |-> status, header |-> header]
    /\ UNCHANGED <<header, logged>>

\* A handler writes its status and body and returns.
Reply(status) ==
    /\ WriteHeader(status)
    /\ phase' = "up"
    /\ at' = at - 1
    /\ UNCHANGED <<setup, intervened, checks, user, chain, readiness>>

Panic ==
    /\ phase' = "panic"
    /\ at' = at - 1
    /\ UNCHANGED <<setup, intervened, checks, user, chain, writer, readiness>>

NotFound == Down("notFound") /\ Reply(404)

Liveness == Down("liveness") /\ Reply(200)

\* Any other handler answers, perhaps not at all or twice, and may panic.
ApplicationWrites ==
    /\ Down("application")
    /\ ~rewritten
    /\ \E status \in {200, 418} : WriteHeader(status)
    /\ UNCHANGED <<setup, intervened, checks, user, chain, at, phase, readiness>>

ApplicationReturns ==
    /\ Down("application")
    /\ phase' = "up"
    /\ at' = at - 1
    /\ UNCHANGED <<setup, intervened, checks, user, chain, writer, readiness>>

ApplicationPanics == Down("application") /\ Panic

BodyRefused ==
    request.body = "malformed" \/ (request.body = "oversized" /\ Above("limitBody"))

\* ParseFloat succeeds for "NaN", and a NaN is neither <= 0 nor > MaxBlurSigma.
SigmaRefused == request.sigma \in {"unparsable", "notPositive", "tooLarge"}

ImageRefused == request.image \in {"missing", "undecodable"}

BlurRefuses ==
    /\ Down("blur")
    /\ BodyRefused \/ SigmaRefused \/ ImageRefused
    /\ Reply(400)

Blur ==
    /\ Down("blur")
    /\ ~BodyRefused /\ ~SigmaRefused /\ ~ImageRefused
    /\ Reply(200)

\* The upload cannot be read, or the result not encoded.
BlurFails ==
    /\ Down("blur")
    /\ ~BodyRefused /\ ~SigmaRefused /\ request.image # "missing"
    /\ Reply(500)

\* The image libraries may panic, on what can be decoded or cannot.
BlurPanics ==
    /\ Down("blur")
    /\ ~BodyRefused /\ ~SigmaRefused /\ request.image # "missing"
    /\ Panic

------------------------------------------------------------------------------
(* Readiness, and the other users of the Health object *)

\* Check registers or replaces a function, or what a function depends on, such
\* as a database, changes.  Only Readiness reads checks, so that it is enough to
\* let this happen once Readiness is called; readiness.due is from before.
Check(n) ==
    /\ Down("readiness")
    /\ \E does \in {"passes", "fails", "hangs", "panics"} :
          checks[n] # does /\ checks' = [checks EXCEPT ![n] = does]
    /\ UNCHANGED <<setup, intervened, user, chain, at, phase, writer, readiness>>

\* The map is copied under the lock; the functions run without it.
ReadinessCopy ==
    /\ Down("readiness")
    /\ ~readiness.copied
    /\ readiness' = [readiness EXCEPT !.copied = TRUE, !.todo = {n \in Names : checks[n] # "absent"}]
    /\ UNCHANGED <<setup, intervened, checks, user, chain, at, phase, writer>>

Running(n) == Down("readiness") /\ n \in readiness.todo

\* Mutant of CheckPasses: it forgets the checks that failed.
CheckPassesForAll(n) ==
    /\ Running(n)
    /\ checks[n] = "passes"
    /\ readiness' = [readiness EXCEPT !.todo = @ \ {n}, !.passed = @ \cup {n}, !.allOK = TRUE]
    /\ UNCHANGED <<setup, intervened, checks, user, chain, at, phase, writer>>

CheckPasses(n) ==
    /\ Running(n)
    /\ checks[n] = "passes"
    /\ readiness' = [readiness EXCEPT !.todo = @ \ {n}, !.passed = @ \cup {n}]
    /\ UNCHANGED <<setup, intervened, checks, user, chain, at, phase, writer>>

\* A check that hangs fails when the context of Readiness expires.
CheckFails(n) ==
    /\ Running(n)
    /\ checks[n] \in {"fails", "hangs"}
    /\ readiness' = [readiness EXCEPT !.todo = @ \ {n}, !.failed = @ \cup {n}, !.allOK = FALSE]
    /\ UNCHANGED <<setup, intervened, checks, user, chain, at, phase, writer>>

CheckPanics(n) == Running(n) /\ checks[n] = "panics" /\ Panic

ReadinessReply ==
    /\ Down("readiness")
    /\ readiness.copied /\ readiness.todo = {}
    /\ Reply(IF readiness.allOK THEN 200 ELSE 503)

------------------------------------------------------------------------------
(* Middleware of the application *)

Intervene ==
    intervened' = IF phase = "down" \/ intervened = "early" THEN "early" ELSE "late"

\* It answers, before it calls next, after that, or in a deferred function.
CustomWrites ==
    /\ at > 0 /\ Here = "custom"
    /\ \E status \in {200, 418} : WriteHeader(status)
    /\ Intervene
    /\ UNCHANGED <<setup, checks, user, chain, at, phase, readiness>>

\* It does not call next.
CustomReturns ==
    /\ Down("custom")
    /\ phase' = "up"
    /\ at' = at - 1
    /\ Intervene
    /\ UNCHANGED <<setup, checks, user, chain, writer, readiness>>

CustomPanics ==
    /\ Down("custom") \/ (phase = "up" /\ at > 0 /\ Here = "custom")
    /\ phase' = "panic"
    /\ at' = at - 1
    /\ Intervene
    /\ UNCHANGED <<setup, checks, user, chain, writer, readiness>>

CustomRecovers ==
    /\ phase = "panic"
    /\ at > 0 /\ Here = "custom"
    /\ phase' = "up"
    /\ Intervene
    /\ UNCHANGED <<setup, checks, user, chain, at, writer, readiness>>

------------------------------------------------------------------------------
(* The way up *)

LoggerReturns ==
    /\ phase = "up"
    /\ at > 0 /\ Here = "logger"
    /\ logged' = recorded
    /\ at' = at - 1
    /\ UNCHANGED <<setup, intervened, checks, user, chain, phase, header, response, recorded, rewritten, readiness>>

MiddlewareReturns ==
    /\ phase = "up"
    /\ at > 0 /\ Here # "logger"
    /\ at' = at - 1
    /\ UNCHANGED <<setup, intervened, checks, user, chain, phase, writer, readiness>>

\* Mutant of Recovers: the panic goes on.
RecoversAndPanics ==
    /\ phase = "panic"
    /\ at > 0 /\ Here = "recovery"
    /\ WriteHeader(500)
    /\ at' = at - 1
    /\ UNCHANGED <<setup, intervened, checks, user, chain, phase, readiness>>

\* http.Error, and Recovery returns to its caller.
Recovers == phase = "panic" /\ at > 0 /\ Here = "recovery" /\ Reply(500)

Unwinds ==
    /\ phase = "panic"
    /\ at > 0 /\ Here # "recovery"
    /\ at' = at - 1
    /\ UNCHANGED <<setup, intervened, checks, user, chain, phase, writer, readiness>>

\* net/http writes the status 200 for a handler that wrote none.
Finish ==
    /\ phase = "up"
    /\ at = 0
    /\ phase' = "done"
    /\ response' = IF response.status # 0 THEN response ELSE [status |-> 200, header |-> header]
    /\ UNCHANGED <<setup, intervened, checks, user, chain, at, header, recorded, logged, rewritten, readiness>>

\* net/http ends the connection of a handler that panics.
Abort ==
    /\ phase = "panic"
    /\ at = 0
    /\ phase' = "aborted"
    /\ UNCHANGED <<setup, intervened, checks, user, chain, at, writer, readiness>>

------------------------------------------------------------------------------

MiddlewareStep ==
    Logger \/ RequestID \/ SecurityHeaders \/ CallNext \/ Authenticate
    \/ LoggerReturns \/ MiddlewareReturns \/ Recovers \/ Unwinds \/ Finish \/ Abort

ReadinessStep ==
    \/ ReadinessCopy
    \/ \E n \in Names : CheckPasses(n) \/ CheckFails(n) \/ CheckPanics(n)
    \/ ReadinessReply

HandlerStep ==
    \/ NotFound
    \/ Liveness
    \/ ApplicationReturns \/ ApplicationPanics
    \/ BlurRefuses \/ Blur \/ BlurFails \/ BlurPanics
    \/ ReadinessStep

CustomStep == CustomWrites \/ CustomReturns \/ CustomPanics \/ CustomRecovers

Next ==
    \/ MiddlewareStep
    \/ HandlerStep
    \/ ApplicationWrites
    \/ CustomStep
    \/ \E n \in Names : Check(n)

Spec == Init /\ [][Next]_vars

\* Handlers and custom middleware return or panic; a check returns when its
\* context expires.
FairSpec == Spec /\ WF_vars(MiddlewareStep \/ HandlerStep)

------------------------------------------------------------------------------
(* Properties *)

(***************************************************************************)
(* Logger writes a line for every request that is answered, one that a     *)
(* panic ended included, with the status the client got.  There are two    *)
(* exceptions.  A handler set a status twice, or panicked after its first: *)
(* the line has the last status and the client the first.  And a custom    *)
(* middleware, which stands outside of Logger, had a hand in the answer.   *)
(***************************************************************************)
LogTellsTheWire ==
    phase = "done" /\ "logger" \in options /\ intervened = "no" =>
        IF rewritten THEN logged # 0 ELSE logged = response.status

(***************************************************************************)
(* Whatever answers, Recovery, net/http and a custom middleware after the  *)
(* handler included, the answer carries the security headers and a request *)
(* id; not so if a custom middleware answers, returns or panics before it  *)
(* calls next.  An id that the client chose is sent only if it was safe.   *)
(***************************************************************************)
AnswersAreMarked ==
    response.status # 0 =>
        /\ intervened # "early" =>
             /\ "securityHeaders" \in options => response.header.security
             /\ "requestID" \in options => response.header.id # "none"
        /\ response.header.id = "client" => request.id = "safe"

(***************************************************************************)
(* A handler is given a user for a valid cookie and for no other, and any  *)
(* other cookie is cleared by whatever answers, a mux without a handler,   *)
(* Recovery after a panic and a custom middleware after the handler        *)
(* included, unless a custom middleware did something before it called     *)
(* next.                                                                   *)
(***************************************************************************)
SessionsAreSound ==
    /\ user => request.cookie = "valid"
    /\ "auth" \in ToSet(middleware) =>
         /\ at = Len(chain) /\ phase = "down" => (user <=> request.cookie = "valid")
         /\ response.status # 0 /\ intervened # "early" =>
              (response.header.cleared <=> request.cookie \in {"expired", "invalid"})

(***************************************************************************)
(* With Recovery every request is answered in the end: no panic of a       *)
(* handler or of a readiness check reaches net/http, which would drop the  *)
(* connection, and no check that hangs keeps Readiness from its answer.    *)
(* Only a custom middleware, outside of Recovery, may still panic.         *)
(***************************************************************************)
EveryRequestIsAnswered ==
    phase = "down" /\ "recovery" \in options
        ~> phase = "done" \/ (phase = "aborted" /\ intervened # "no")

(***************************************************************************)
(* Readiness says ok only if every check that was registered before the    *)
(* request has passed, and degraded only if one has failed, whatever is    *)
(* registered and whatever changes while the checks run, unless a custom   *)
(* middleware had a hand in the answer.                                    *)
(***************************************************************************)
ReadinessTellsTheChecks ==
    Last(chain) = "readiness" /\ intervened = "no" =>
        /\ response.status = 200 => readiness.due \subseteq readiness.passed
        /\ response.status = 503 => readiness.failed # {}
==============================================================================
