-------------------------- MODULE HttpServerProofs --------------------------
(***************************************************************************)
(* Proofs about HttpServer: what the log, the headers, the sessions and    *)
(* Readiness tell, for every set of checks and any number of middlewares   *)
(* of lib and of the application's own, in any order.                      *)
(*                                                                         *)
(* The argument is the same for every layer.  A handler stands last on the *)
(* chain and no layer above it answers on the way down, so that whatever   *)
(* answers, Recovery included, does so when every layer has acted:         *)
(* PassedLayersActed, and WireHasTheHeader as headers are set on the way   *)
(* down only.  The exception is a custom middleware that does something    *)
(* before it calls next: then intervened is "early", and nothing is known  *)
(* of the layers inside of it when it returns.  What Logger tells depends  *)
(* on the order of New, where Recovery is inside of Logger:                *)
(* LoggerIsOutside.                                                        *)
(***************************************************************************)
EXTENDS HttpServer, TLAPS

Handlers == {"blur", "liveness", "readiness", "application", "notFound"}

Added == {"limitBody", "auth", "custom"}

Wraps == Switches \cup Added

Layer == Handlers \cup Wraps

Status == {0, 200, 400, 404, 418, 500, 503}

Header == [security : BOOLEAN, id : {"none", "client", "generated"}, cleared : BOOLEAN]

TypeInv ==
    /\ options \in SUBSET Switches
    /\ middleware \in Middleware
    /\ checks \in [Names -> {"absent", "passes", "fails", "hangs", "panics"}]
    /\ request \in Requests
    /\ user \in BOOLEAN
    /\ chain \in Seq(Layer)
    /\ at \in 0 .. Len(chain)
    /\ phase \in {"down", "up", "panic", "done", "aborted"}
    /\ phase = "down" => at > 0
    /\ header \in Header
    /\ response \in [status : Status, header : Header]
    /\ recorded \in Status
    /\ logged \in Status
    /\ rewritten \in BOOLEAN
    /\ intervened \in {"no", "early", "late"}
    /\ readiness \in [due : SUBSET Names, todo : SUBSET Names, passed : SUBSET Names,
                      failed : SUBSET Names, allOK : BOOLEAN, copied : BOOLEAN]

\* A handler is last, and nothing else is.
HandlerIsLast ==
    /\ Len(chain) > 0
    /\ \A k \in 1 .. Len(chain) : chain[k] \in Handlers <=> k = Len(chain)

\* New leaves out no layer that the options ask for.
LayersAreThere ==
    /\ \A layer \in options \ {"health"} : \E k \in 1 .. Len(chain) : chain[k] = layer
    /\ "auth" \in ToSet(middleware) => \E k \in 1 .. Len(chain) : chain[k] = "auth"

\* There is one Logger, and Recovery is inside of it.
LoggerIsOutside ==
    \A j, k \in 1 .. Len(chain) :
        chain[j] = "logger" =>
            /\ chain[k] = "logger" => j = k
            /\ chain[k] = "recovery" => j < k

\* The layers that are known to have called the next one.
Passed ==
    CASE phase = "down" -> 1 .. at - 1
      [] phase # "down" /\ intervened = "early" -> {}
      [] phase # "down" /\ intervened # "early" -> 1 .. Len(chain)

PassedLayersActed ==
    \A k \in Passed :
        /\ chain[k] = "securityHeaders" => header.security
        /\ chain[k] = "requestID" => header.id # "none"
        /\ chain[k] = "auth" => /\ user <=> request.cookie = "valid"
                                /\ header.cleared <=> request.cookie \in {"expired", "invalid"}
        /\ chain[k] = "logger" => recorded # 0

WireHasTheHeader ==
    intervened # "early" /\ response.status # 0 =>
        /\ response.header = header
        /\ phase = "down" => at = Len(chain)

\* Where the user and the request id come from.
NothingIsMadeUp ==
    /\ user => request.cookie = "valid"
    /\ header.id = "client" => request.id = "safe"
    /\ response.header.id = "client" => request.id = "safe"

\* What statusWriter and net/http have recorded of the status.
RecordTellsTheWire ==
    intervened = "no" =>
        /\ rewritten => response.status # 0
        /\ recorded # 0 => \E k \in Passed : chain[k] = "logger"
        /\ recorded # 0 /\ ~rewritten =>
             recorded = IF response.status = 0 THEN 200 ELSE response.status
        /\ phase = "done" => response.status # 0

\* A request that returns past Logger has its line.
LineIsWritten ==
    intervened = "no" =>
        \A k \in 1 .. Len(chain) :
            chain[k] = "logger" /\ (phase = "done" \/ (phase = "up" /\ at < k)) => logged = recorded

ReadinessCounts ==
    /\ ~readiness.copied => \A n \in readiness.due : checks[n] # "absent"
    /\ readiness.copied => readiness.due \subseteq readiness.passed \cup readiness.failed \cup readiness.todo
    /\ readiness.allOK <=> readiness.failed = {}

ReadinessAnswers ==
    chain[Len(chain)] = "readiness" /\ intervened = "no" =>
        /\ phase \in {"down", "panic", "aborted"} => response.status = 0
        /\ phase \in {"up", "done"} => response.status # 0
        /\ response.status = 200 => readiness.due \subseteq readiness.passed
        /\ response.status = 503 => readiness.failed # {}

IInv ==
    /\ TypeInv
    /\ HandlerIsLast /\ LayersAreThere /\ LoggerIsOutside
    /\ PassedLayersActed /\ WireHasTheHeader /\ NothingIsMadeUp
    /\ RecordTellsTheWire /\ LineIsWritten
    /\ ReadinessCounts /\ ReadinessAnswers

------------------------------------------------------------------------------
(* The stack that New builds *)

\* What the stack is when New has wrapped the switches of a set around the mux.
Stack(s, switches) ==
    /\ s \in Seq(Layer)
    /\ Len(s) > 0
    /\ \A k \in 1 .. Len(s) : s[k] \in Handlers <=> k = Len(s)
    /\ \A k \in 1 .. Len(s) : s[k] \in Handlers \cup {"limitBody"} \cup switches
    /\ \A layer \in switches \cap options : \E k \in 1 .. Len(s) : s[k] = layer

\* The mux without any middleware.
LEMMA RouteStack ==
    ASSUME NEW target
    PROVE  Stack(Route(target), {})
<1>1. Route(target) \in {<<"limitBody", "blur">>, <<"liveness">>, <<"readiness">>,
                        <<"application">>, <<"notFound">>}
  BY Zenon DEF Route
<1>2. ASSUME NEW handler \in Handlers
      PROVE  Stack(<<handler>>, {})
  BY <1>2 DEF Stack, Layer, Handlers
<1>3. Stack(<<"limitBody", "blur">>, {})
  BY DEF Stack, Layer, Handlers, Wraps, Added
<1> QED  BY <1>1, <1>2, <1>3 DEF Handlers

\* A switch that is on puts its layer first and leaves the order of the others.
LEMMA WrappedStack ==
    ASSUME NEW s, NEW switches \in SUBSET Switches, NEW layer \in Switches, Stack(s, switches)
    PROVE  Stack(Wrapped(layer, s), switches \cup {layer})
<1>1. CASE layer \in options
  <2> DEFINE w == <<layer>> \o s
  <2>1. w \in Seq(Layer) /\ Len(w) = Len(s) + 1 /\ Len(s) \in Nat
    BY DEF Stack, Layer, Wraps
  <2>2. w[1] = layer /\ \A k \in 1 .. Len(s) : w[k + 1] = s[k]
    BY DEF Stack
  <2>3. \A k \in 1 .. Len(w) : k = 1 \/ (k - 1 \in 1 .. Len(s) /\ w[k] = s[k - 1])
    BY <2>1, <2>2
  <2>4. \A k \in 1 .. Len(w) : w[k] \in Handlers <=> k = Len(w)
    BY <2>1, <2>2, <2>3 DEF Stack, Handlers, Switches
  <2>5. \A k \in 1 .. Len(w) : w[k] \in Handlers \cup {"limitBody"} \cup (switches \cup {layer})
    BY <2>2, <2>3 DEF Stack
  <2>6. \A l \in (switches \cup {layer}) \cap options : \E k \in 1 .. Len(w) : w[k] = l
    <3> SUFFICES ASSUME NEW l \in (switches \cup {layer}) \cap options
                 PROVE  \E k \in 1 .. Len(w) : w[k] = l
      OBVIOUS
    <3>1. CASE l = layer
      <4>1. 1 \in 1 .. Len(w)
        BY <2>1
      <4> QED  BY <2>2, <3>1, <4>1
    <3>2. CASE l \in switches
      <4>1. PICK k \in 1 .. Len(s) : s[k] = l
        BY <3>2 DEF Stack
      <4>2. k + 1 \in 1 .. Len(w) /\ w[k + 1] = l
        BY <2>1, <2>2, <4>1
      <4> QED  BY <4>2
    <3> QED  BY <3>1, <3>2
  <2>7. Stack(w, switches \cup {layer})
    BY <2>1, <2>4, <2>5, <2>6 DEF Stack
  <2> QED  BY <1>1, <2>7 DEF Wrapped
<1>2. CASE layer \notin options
  BY <1>2 DEF Stack, Wrapped
<1> QED  BY <1>1, <1>2

\* The layers inside of Logger have no Logger.
LEMMA InsideOfLogger ==
    ASSUME NEW target
    PROVE  Stack(Wrapped("requestID", Wrapped("recovery", Wrapped("securityHeaders", Route(target)))),
                 {"requestID", "recovery", "securityHeaders"})
<1> DEFINE s1 == Wrapped("securityHeaders", Route(target))
           s2 == Wrapped("recovery", s1)
<1>1. Stack(s1, {} \cup {"securityHeaders"})
  BY RouteStack, WrappedStack, {} \in SUBSET Switches, "securityHeaders" \in Switches DEF Switches
<1>2. Stack(s1, {"securityHeaders"})
  <2>1. {} \cup {"securityHeaders"} = {"securityHeaders"}
    OBVIOUS
  <2> QED  BY <1>1, <2>1
<1>3. Stack(s2, {"securityHeaders"} \cup {"recovery"})
  <2>1. {"securityHeaders"} \in SUBSET Switches /\ "recovery" \in Switches
    BY DEF Switches
  <2> HIDE DEF s1
  <2> QED  BY <1>2, <2>1, WrappedStack
<1>4. Stack(s2, {"securityHeaders", "recovery"})
  <2>1. {"securityHeaders"} \cup {"recovery"} = {"securityHeaders", "recovery"}
    OBVIOUS
  <2> QED  BY <1>3, <2>1
<1>5. Stack(Wrapped("requestID", s2), {"securityHeaders", "recovery"} \cup {"requestID"})
  <2>1. {"securityHeaders", "recovery"} \in SUBSET Switches /\ "requestID" \in Switches
    BY DEF Switches
  <2> HIDE DEF s2
  <2> QED  BY <1>4, <2>1, WrappedStack
<1>6. {"securityHeaders", "recovery"} \cup {"requestID"} = {"requestID", "recovery", "securityHeaders"}
  OBVIOUS
<1> QED  BY <1>5, <1>6

\* The stack of New, but for the middleware of the options.
LEMMA LoggerStack ==
    ASSUME NEW s, Stack(s, {"requestID", "recovery", "securityHeaders"})
    PROVE  /\ Stack(Wrapped("logger", s), Switches \ {"health"})
           /\ \A j, k \in 1 .. Len(Wrapped("logger", s)) :
                 Wrapped("logger", s)[j] = "logger" =>
                     /\ Wrapped("logger", s)[k] = "logger" => j = k
                     /\ Wrapped("logger", s)[k] = "recovery" => j < k
<1> DEFINE w == Wrapped("logger", s)
<1>1. Stack(w, Switches \ {"health"})
  <2>1. Stack(w, {"requestID", "recovery", "securityHeaders"} \cup {"logger"})
    <3>1. {"requestID", "recovery", "securityHeaders"} \in SUBSET Switches /\ "logger" \in Switches
      BY DEF Switches
    <3> QED  BY <3>1, WrappedStack
  <2>2. {"requestID", "recovery", "securityHeaders"} \cup {"logger"} = Switches \ {"health"}
    BY DEF Switches
  <2> QED  BY <2>1, <2>2
<1>2. \A k \in 1 .. Len(s) : s[k] # "logger"
  BY DEF Stack, Handlers
<1>3. ASSUME NEW j \in 1 .. Len(w), w[j] = "logger"
      PROVE  j = 1 /\ "logger" \in options
  <2>1. CASE "logger" \in options
    <3>1. w = <<"logger">> \o s
      BY <2>1 DEF Wrapped
    <3>2. j = 1 \/ (j - 1 \in 1 .. Len(s) /\ w[j] = s[j - 1])
      BY <3>1 DEF Stack
    <3> QED  BY <1>2, <1>3, <2>1, <3>2
  <2>2. CASE "logger" \notin options
    BY <1>2, <1>3, <2>2 DEF Wrapped
  <2> QED  BY <2>1, <2>2
<1>4. ASSUME NEW k \in 1 .. Len(w), w[k] = "recovery", "logger" \in options
      PROVE  1 < k
  <2>1. w = <<"logger">> \o s
    BY <1>4 DEF Wrapped
  <2>2. w[1] = "logger" /\ Len(w) \in Nat
    BY <2>1 DEF Stack
  <2>3. k # 1
    BY <1>4, <2>2
  <2> QED  BY <2>2, <2>3
<1>5. \A j, k \in 1 .. Len(w) :
        w[j] = "logger" => (w[k] = "logger" => j = k) /\ (w[k] = "recovery" => j < k)
  <2> HIDE DEF w
  <2> QED  BY <1>3, <1>4
<1> QED  BY <1>1, <1>5

\* The chain that a request starts with.
LEMMA LayersShape ==
    ASSUME NEW target, options \in SUBSET Switches, middleware \in Middleware, chain = Layers(target)
    PROVE  chain \in Seq(Layer) /\ HandlerIsLast /\ LayersAreThere /\ LoggerIsOutside
<1> DEFINE t == Wrapped("logger", Wrapped("requestID", Wrapped("recovery",
                   Wrapped("securityHeaders", Route(target)))))
           m == Reverse(middleware)
<1>1. /\ Stack(t, Switches \ {"health"})
      /\ \A j, k \in 1 .. Len(t) :
            t[j] = "logger" => (t[k] = "logger" => j = k) /\ (t[k] = "recovery" => j < k)
  BY InsideOfLogger, LoggerStack
<1>2. /\ middleware \in Seq(Added)
      /\ m \in Seq(Added)
      /\ Len(m) = Len(middleware)
      /\ \A k \in 1 .. Len(m) : m[k] = middleware[Len(m) - k + 1]
  BY MiddlewareAssumption DEF Reverse, Added
<1>3. chain = m \o t
  BY DEF Layers
<1> HIDE DEF t, m
<1>4. /\ m \in Seq(Layer) /\ t \in Seq(Layer)
      /\ \A k \in 1 .. Len(m) : m[k] \in Added
  <2>1. Added \subseteq Layer
    BY DEF Layer, Wraps
  <2> QED  BY <1>1, <1>2, <2>1 DEF Stack
<1>5. /\ chain \in Seq(Layer)
      /\ Len(chain) = Len(m) + Len(t) /\ Len(m) \in Nat /\ Len(t) \in Nat /\ Len(t) > 0
      /\ \A k \in 1 .. Len(m) : chain[k] = m[k]
      /\ \A k \in 1 .. Len(t) : chain[Len(m) + k] = t[k]
  BY <1>1, <1>3, <1>4 DEF Stack
<1>6. \A k \in 1 .. Len(chain) :
        \/ k \in 1 .. Len(m) /\ chain[k] \in Added
        \/ k - Len(m) \in 1 .. Len(t) /\ chain[k] = t[k - Len(m)]
  <2> SUFFICES ASSUME NEW k \in 1 .. Len(chain)
               PROVE  \/ k \in 1 .. Len(m) /\ chain[k] \in Added
                      \/ k - Len(m) \in 1 .. Len(t) /\ chain[k] = t[k - Len(m)]
    OBVIOUS
  <2>1. CASE k <= Len(m)
    BY <1>4, <1>5, <2>1
  <2>2. CASE k > Len(m)
    <3>1. k - Len(m) \in 1 .. Len(t) /\ Len(m) + (k - Len(m)) = k
      BY <1>5, <2>2
    <3>2. chain[Len(m) + (k - Len(m))] = t[k - Len(m)]
      BY <1>5, <3>1
    <3> QED  BY <3>1, <3>2
  <2> QED  BY <1>5, <2>1, <2>2
<1>7. HandlerIsLast
  <2>1. \A k \in 1 .. Len(t) : t[k] \in Handlers <=> k = Len(t)
    BY <1>1 DEF Stack
  <2>2. Added \cap Handlers = {}
    BY DEF Handlers, Added
  <2>3. Len(chain) > 0
    BY <1>5
  <2>4. ASSUME NEW k \in 1 .. Len(chain)
        PROVE  chain[k] \in Handlers <=> k = Len(chain)
    <3>1. CASE k \in 1 .. Len(m) /\ chain[k] \in Added
      BY <1>5, <2>2, <3>1
    <3>2. CASE k - Len(m) \in 1 .. Len(t) /\ chain[k] = t[k - Len(m)]
      <4>1. chain[k] \in Handlers <=> k - Len(m) = Len(t)
        BY <2>1, <3>2
      <4> QED  BY <1>5, <4>1
    <3> QED  BY <1>6, <3>1, <3>2
  <2> QED  BY <2>3, <2>4 DEF HandlerIsLast
<1>8. LayersAreThere
  <2>1. ASSUME NEW layer \in options \ {"health"}
        PROVE  \E k \in 1 .. Len(chain) : chain[k] = layer
    <3>1. PICK k \in 1 .. Len(t) : t[k] = layer
      BY <1>1, <2>1 DEF Stack
    <3>2. Len(m) + k \in 1 .. Len(chain) /\ chain[Len(m) + k] = layer
      BY <1>5, <3>1
    <3> QED  BY <3>2
  <2>2. ASSUME "auth" \in ToSet(middleware)
        PROVE  \E k \in 1 .. Len(chain) : chain[k] = "auth"
    <3>1. PICK k \in 1 .. Len(m) : middleware[k] = "auth"
      BY <1>2, <2>2 DEF ToSet
    <3> DEFINE j == Len(m) - k + 1
    <3>2. j \in 1 .. Len(m) /\ Len(m) - j + 1 = k
      BY <1>5, <3>1
    <3>3. m[j] = "auth"
      BY <1>2, <3>1, <3>2
    <3> HIDE DEF j
    <3>4. j \in 1 .. Len(chain) /\ chain[j] = "auth"
      BY <1>5, <3>2, <3>3
    <3> QED  BY <3>4
  <2> QED  BY <2>1, <2>2 DEF LayersAreThere
<1>9. LoggerIsOutside
  <2>1. \A k \in 1 .. Len(chain) :
          chain[k] \in {"logger", "recovery"} =>
              k - Len(m) \in 1 .. Len(t) /\ chain[k] = t[k - Len(m)]
    BY <1>6 DEF Added
  <2> SUFFICES ASSUME NEW j \in 1 .. Len(chain), NEW k \in 1 .. Len(chain), chain[j] = "logger",
                      chain[k] \in {"logger", "recovery"}
               PROVE  /\ chain[k] = "logger" => j = k
                      /\ chain[k] = "recovery" => j < k
    BY DEF LoggerIsOutside
  <2>2. /\ j - Len(m) \in 1 .. Len(t) /\ t[j - Len(m)] = "logger"
        /\ k - Len(m) \in 1 .. Len(t) /\ t[k - Len(m)] = chain[k]
    BY <2>1
  <2>3. /\ chain[k] = "logger" => j - Len(m) = k - Len(m)
        /\ chain[k] = "recovery" => j - Len(m) < k - Len(m)
    BY <1>1, <2>2
  <2> QED  BY <1>5, <2>3
<1> QED  BY <1>5, <1>7, <1>8, <1>9

------------------------------------------------------------------------------
(* The kinds of steps *)

\* A layer above the handler calls the next one.
Descends ==
    /\ phase = "down" /\ Here \in Wraps
    /\ at' = at + 1
    /\ UNCHANGED <<setup, intervened, checks, chain, phase, response, logged, rewritten, readiness>>
    /\ \/ Logger /\ UNCHANGED <<user, header>>
       \/ Here # "logger" /\ recorded' = recorded /\ (RequestID \/ SecurityHeaders \/ CallNext \/ Authenticate)

HandlerReplies ==
    /\ phase = "down" /\ Here \in Handlers \ {"readiness"}
    /\ \E status \in Status \ {0} : Reply(status)

HandlerPanics ==
    /\ phase = "down" /\ Here \in Handlers
    /\ Panic

\* Readiness before it answers, and who changes the checks.
ReadinessWorks ==
    /\ Down("readiness")
    /\ ReadinessCopy \/ \E n \in Names : CheckPasses(n) \/ CheckFails(n) \/ Check(n)
    /\ UNCHANGED <<setup, intervened, user, chain, at, phase, writer>>

\* A custom middleware returns, panics or recovers.
CustomTurns ==
    /\ at > 0 \/ phase = "down"
    /\ Here = "custom"
    /\ phase' \in {"up", "panic"}
    /\ at' \in {at - 1, at}
    /\ Intervene
    /\ UNCHANGED <<setup, checks, user, chain, writer, readiness>>

Intervenes == CustomWrites \/ CustomTurns

LEMMA StepKinds ==
    ASSUME [Next]_vars
    PROVE  \/ Descends \/ HandlerReplies \/ HandlerPanics \/ ReadinessWorks
           \/ ReadinessReply \/ ApplicationWrites \/ ApplicationReturns
           \/ LoggerReturns \/ MiddlewareReturns \/ Recovers \/ Unwinds \/ Finish \/ Abort
           \/ Intervenes
           \/ UNCHANGED vars
<1>1. Logger \/ RequestID \/ SecurityHeaders \/ CallNext \/ Authenticate => Descends
  BY DEF Logger, RequestID, SecurityHeaders, CallNext, Authenticate, Descends, Down, Here, Wraps,
         Switches, Added, writer
<1>2. NotFound \/ Liveness \/ BlurRefuses \/ Blur \/ BlurFails => HandlerReplies
  BY DEF NotFound, Liveness, BlurRefuses, Blur, BlurFails, HandlerReplies, Down, Handlers, Status
<1>3. ApplicationPanics \/ BlurPanics \/ (\E n \in Names : CheckPanics(n)) => HandlerPanics
  BY DEF ApplicationPanics, BlurPanics, CheckPanics, Running, HandlerPanics, Down, Handlers
<1>4. ASSUME NEW n \in Names
      PROVE  ReadinessCopy \/ CheckPasses(n) \/ CheckFails(n) \/ Check(n) => ReadinessWorks
  BY DEF ReadinessCopy, CheckPasses, CheckFails, Check, Running, ReadinessWorks
<1>5. ReadinessCopy => ReadinessWorks
  BY DEF ReadinessCopy, ReadinessWorks
<1>6. CustomStep => Intervenes
  BY DEF CustomStep, CustomReturns, CustomPanics, CustomRecovers, Intervenes, CustomTurns, Down
<1> QED
  BY <1>1, <1>2, <1>3, <1>4, <1>5, <1>6 DEF Next, MiddlewareStep, HandlerStep, ReadinessStep

\* A handler runs at the end of the chain, and a layer that calls on before it.
LEMMA WhereTheyRun ==
    ASSUME TypeInv, HandlerIsLast, at > 0
    PROVE  /\ at \in 1 .. Len(chain) /\ Len(chain) \in Nat
           /\ Here \in Handlers => at = Len(chain)
           /\ Here \in Wraps => at < Len(chain)
<1>1. at \in 1 .. Len(chain) /\ Len(chain) \in Nat
  BY DEF TypeInv
<1>2. Wraps \cap Handlers = {}
  BY DEF Wraps, Switches, Added, Handlers
<1> QED  BY <1>1, <1>2 DEF HandlerIsLast, Here

------------------------------------------------------------------------------
(* The steps preserve the invariant *)

LEMMA InitIInv == Init => IInv
<1> SUFFICES ASSUME Init
             PROVE  IInv
  OBVIOUS
<1>1. chain \in Seq(Layer) /\ HandlerIsLast /\ LayersAreThere /\ LoggerIsOutside
  BY LayersShape DEF Init
<1>2. Len(chain) \in Nat /\ Len(chain) > 0 /\ at = 1 /\ phase = "down"
  BY <1>1 DEF Init, HandlerIsLast
<1>3. TypeInv
  <2>1. header \in Header
    BY DEF Init, Header
  <2>2. response \in [status : Status, header : Header]
    BY <2>1 DEF Init, Status
  <2>3. checks \in [Names -> {"absent", "passes", "fails", "hangs", "panics"}]
    BY DEF Init
  <2>4. readiness \in [due : SUBSET Names, todo : SUBSET Names, passed : SUBSET Names,
                      failed : SUBSET Names, allOK : BOOLEAN, copied : BOOLEAN]
    BY DEF Init
  <2>5. /\ options \in SUBSET Switches /\ middleware \in Middleware /\ request \in Requests
        /\ user \in BOOLEAN /\ rewritten \in BOOLEAN /\ recorded \in Status /\ logged \in Status
        /\ intervened \in {"no", "early", "late"}
    BY DEF Init, Status
  <2>6. at \in 0 .. Len(chain) /\ at > 0
    BY <1>2
  <2> QED  BY <1>1, <1>2, <2>1, <2>2, <2>3, <2>4, <2>5, <2>6 DEF TypeInv
<1>4. Passed = {}
  BY <1>2 DEF Passed
<1>5. /\ PassedLayersActed /\ WireHasTheHeader /\ NothingIsMadeUp
      /\ RecordTellsTheWire /\ LineIsWritten
  BY <1>2, <1>4 DEF PassedLayersActed, WireHasTheHeader, NothingIsMadeUp, RecordTellsTheWire,
                    LineIsWritten, Init
<1>6. ReadinessCounts /\ ReadinessAnswers
  BY <1>2 DEF ReadinessCounts, ReadinessAnswers, Init
<1> QED  BY <1>1, <1>3, <1>5, <1>6 DEF IInv

LEMMA TypeStep ==
    ASSUME TypeInv, HandlerIsLast, [Next]_vars
    PROVE  TypeInv'
<1>1. CASE Descends
  <2>1. at + 1 \in 0 .. Len(chain)
    BY <1>1, WhereTheyRun DEF Descends, TypeInv
  <2>2. CASE Logger
    <3>1. recorded' \in Status
      BY <2>2 DEF Logger, Status
    <3> QED  BY <1>1, <2>1, <2>2, <3>1 DEF Descends, Logger, TypeInv, setup
  <2>3. CASE RequestID \/ SecurityHeaders \/ CallNext
    <3>1. header' \in Header
      BY <2>3 DEF TypeInv, RequestID, Sanitized, SecurityHeaders, CallNext, Header, writer
    <3>2. UNCHANGED <<user, recorded>>
      BY <2>3 DEF RequestID, SecurityHeaders, CallNext, writer
    <3> QED  BY <1>1, <2>1, <3>1, <3>2 DEF Descends, TypeInv, setup
  <2>4. CASE Authenticate
    <3>1. user' \in BOOLEAN
      BY <2>4 DEF Authenticate, Verify
    <3>2. (request.cookie # "none" /\ ~Verify(request.cookie)) \in BOOLEAN
      BY Zenon
    <3>3. header' \in Header
      BY <2>4, <3>2 DEF TypeInv, Authenticate, Header
    <3>4. recorded' = recorded
      BY <2>4 DEF Authenticate
    <3> QED  BY <1>1, <2>1, <3>1, <3>3, <3>4 DEF Descends, TypeInv, setup
  <2> QED  BY <1>1, <2>2, <2>3, <2>4 DEF Descends
<1>2. CASE HandlerReplies \/ ReadinessReply \/ Recovers
  <2>1. PICK status \in Status : Reply(status) /\ at > 0
    BY <1>2 DEF HandlerReplies, ReadinessReply, Recovers, Status, Down, TypeInv
  <2>2. at - 1 \in 0 .. Len(chain)
    BY <2>1 DEF TypeInv
  <2> QED  BY <2>1, <2>2 DEF TypeInv, Reply, WriteHeader, setup
<1>3. CASE HandlerPanics \/ ApplicationReturns \/ LoggerReturns \/ MiddlewareReturns \/ Unwinds
  <2>1. at > 0 /\ at' = at - 1 /\ phase' \in {"up", "panic"} /\ logged' \in Status
        /\ UNCHANGED <<setup, intervened, checks, user, chain, header, response, recorded, rewritten, readiness>>
    BY <1>3 DEF HandlerPanics, Panic, ApplicationReturns, LoggerReturns, MiddlewareReturns, Unwinds,
                TypeInv, Down, writer
  <2>2. at - 1 \in 0 .. Len(chain)
    BY <2>1 DEF TypeInv
  <2> QED  BY <2>1, <2>2 DEF TypeInv, setup
<1>4. CASE ReadinessWorks
  <2> DEFINE T == [due : SUBSET Names, todo : SUBSET Names, passed : SUBSET Names,
                   failed : SUBSET Names, allOK : BOOLEAN, copied : BOOLEAN]
             C == [Names -> {"absent", "passes", "fails", "hangs", "panics"}]
  <2>1. CASE ReadinessCopy
    <3>1. readiness' \in T /\ checks' = checks
      BY <2>1 DEF ReadinessCopy, TypeInv
    <3> QED  BY <1>4, <3>1 DEF ReadinessWorks, TypeInv, setup, writer
  <2>2. ASSUME NEW n \in Names, CheckPasses(n) \/ CheckFails(n)
        PROVE  TypeInv'
    <3>1. /\ readiness.todo \ {n} \in SUBSET Names
          /\ readiness.passed \cup {n} \in SUBSET Names
          /\ readiness.failed \cup {n} \in SUBSET Names
      BY DEF TypeInv
    <3>2. CheckPasses(n) => readiness' \in T
      BY <3>1 DEF CheckPasses, TypeInv
    <3>3. CheckFails(n) => readiness' \in T
      <4> SUFFICES ASSUME CheckFails(n)
                   PROVE  readiness' \in T
        OBVIOUS
      <4>1. readiness' = [due |-> readiness.due, todo |-> readiness.todo \ {n}, passed |-> readiness.passed,
                          failed |-> readiness.failed \cup {n}, allOK |-> FALSE, copied |-> readiness.copied]
        BY DEF CheckFails, TypeInv
      <4> QED  BY <3>1, <4>1 DEF TypeInv
    <3>4. readiness' \in T /\ checks' = checks
      BY <2>2, <3>2, <3>3 DEF CheckPasses, CheckFails
    <3> QED  BY <1>4, <3>4 DEF ReadinessWorks, TypeInv, setup, writer
  <2>3. ASSUME NEW n \in Names, Check(n)
        PROVE  TypeInv'
    <3>1. checks' \in C /\ readiness' = readiness
      BY <2>3 DEF Check, TypeInv
    <3> QED  BY <1>4, <3>1 DEF ReadinessWorks, TypeInv, setup, writer
  <2> QED  BY <1>4, <2>1, <2>2, <2>3 DEF ReadinessWorks
<1>5. CASE ApplicationWrites
  BY <1>5 DEF ApplicationWrites, WriteHeader, TypeInv, setup, Status, Down
<1>6. CASE Finish \/ Abort
  BY <1>6 DEF Finish, Abort, TypeInv, setup, writer, Status
<1>7. CASE CustomWrites
  <2>1. phase' = phase /\ intervened' \in {"early", "late"}
    BY <1>7 DEF CustomWrites, Intervene
  <2>2. recorded' \in Status /\ rewritten' \in BOOLEAN /\ response' \in [status : Status, header : Header]
    BY <1>7 DEF CustomWrites, WriteHeader, TypeInv, Status
  <2> QED  BY <1>7, <2>1, <2>2 DEF CustomWrites, WriteHeader, TypeInv, setup
<1>8. CASE CustomTurns
  <2>1. at > 0 /\ at \in 0 .. Len(chain) /\ Len(chain) \in Nat
    BY <1>8 DEF CustomTurns, TypeInv
  <2>2. at' \in 0 .. Len(chain)
    BY <1>8, <2>1 DEF CustomTurns
  <2>3. phase' \in {"up", "panic"} /\ intervened' \in {"early", "late"}
    BY <1>8 DEF CustomTurns, Intervene
  <2> QED  BY <1>8, <2>2, <2>3 DEF CustomTurns, TypeInv, setup, writer
<1>9. CASE UNCHANGED vars
  BY <1>9 DEF vars, setup, writer, TypeInv
<1> QED  BY <1>1, <1>2, <1>3, <1>4, <1>5, <1>6, <1>7, <1>8, <1>9, StepKinds DEF Intervenes

\* The chain and the options are set once.
LEMMA ChainIsSet == [Next]_vars => UNCHANGED <<setup, chain>>
  BY StepKinds DEF Descends, HandlerReplies, HandlerPanics, ReadinessWorks, ReadinessReply,
         ApplicationWrites, ApplicationReturns, LoggerReturns, MiddlewareReturns, Recovers, Unwinds,
         Finish, Abort, Reply, Panic, Intervenes, CustomWrites, CustomTurns, vars

LEMMA ChainStep ==
    ASSUME HandlerIsLast, LayersAreThere, LoggerIsOutside, [Next]_vars
    PROVE  HandlerIsLast' /\ LayersAreThere' /\ LoggerIsOutside'
BY ChainIsSet DEF HandlerIsLast, LayersAreThere, LoggerIsOutside, setup

\* Nothing but a descent changes the headers and the user, and on the way down
\* nothing else moves but the handler and custom middleware.
LEMMA OtherSteps ==
    ASSUME [Next]_vars, ~Descends, ~Intervenes
    PROVE  /\ UNCHANGED <<setup, intervened, user, chain, header>>
           /\ recorded' = recorded \/ recorded' \in Status \ {0}
           /\ response' = response \/ response'.header = header
           /\ phase' = "down" => phase = "down" /\ at' = at
           /\ UNCHANGED vars \/ (phase = "down" => Here \in Handlers)
<1>1. CASE HandlerReplies \/ ReadinessReply \/ Recovers \/ ApplicationWrites
  BY <1>1 DEF HandlerReplies, ReadinessReply, Recovers, ApplicationWrites, Reply, WriteHeader, Status,
              Down, Handlers
<1>2. CASE HandlerPanics \/ ReadinessWorks \/ ApplicationReturns
  BY <1>2 DEF HandlerPanics, Panic, ReadinessWorks, ApplicationReturns, Down, Handlers, writer
<1>3. CASE LoggerReturns \/ MiddlewareReturns \/ Unwinds \/ Finish \/ Abort
  BY <1>3 DEF LoggerReturns, MiddlewareReturns, Unwinds, Finish, Abort, writer
<1>4. CASE UNCHANGED vars
  BY <1>4 DEF vars, writer
<1> QED  BY <1>1, <1>2, <1>3, <1>4, StepKinds

\* What a custom middleware does is noted, reaches no headers, and is "early"
\* if next was not called before.
LEMMA Intervention ==
    ASSUME TypeInv, HandlerIsLast, Intervenes
    PROVE  /\ UNCHANGED <<setup, checks, user, chain, header, logged, readiness>>
           /\ recorded' = recorded \/ recorded' \in Status \ {0}
           /\ response' = response \/ response'.header = header
           /\ intervened' \in {"early", "late"}
           /\ intervened' = "late" => phase # "down" /\ phase' # "down" /\ intervened # "early"
           /\ phase' = "down" => phase = "down" /\ at' = at
<1>1. CASE CustomWrites
  BY <1>1 DEF CustomWrites, WriteHeader, Intervene, Status
<1>2. CASE CustomTurns
  BY <1>2 DEF CustomTurns, Intervene, writer
<1> QED  BY <1>1, <1>2 DEF Intervenes

\* A custom middleware passes no layer.
LEMMA PassedByCustom ==
    ASSUME TypeInv, HandlerIsLast, Intervenes
    PROVE  Passed' \subseteq Passed
<1>1. CASE phase' = "down"
  BY <1>1, Intervention DEF Passed
<1>2. CASE phase' # "down" /\ intervened' = "early"
  BY <1>2 DEF Passed
<1>3. CASE phase' # "down" /\ intervened' = "late"
  BY <1>3, Intervention DEF Passed
<1> QED  BY <1>1, <1>2, <1>3, Intervention

\* The layers that have called the next one, after a step of the handler or later.
LEMMA PassedByOthers ==
    ASSUME TypeInv, HandlerIsLast, [Next]_vars, ~Descends, ~Intervenes
    PROVE  \A k \in Passed' : k \in 1 .. Len(chain) /\ (k \in Passed \/ chain[k] \in Handlers)
<1>1. chain' = chain /\ intervened' = intervened /\ TypeInv'
  BY OtherSteps, TypeStep
<1>2. \A k \in Passed' : k \in 1 .. Len(chain)
  <2>1. Len(chain) \in Nat /\ at' \in 0 .. Len(chain)
    BY <1>1 DEF TypeInv
  <2>2. \A n, m \in Nat : n <= m => 1 .. n - 1 \subseteq 1 .. m
    OBVIOUS
  <2>3. at' \in Nat /\ at' <= Len(chain)
    BY <2>1
  <2>4. 1 .. at' - 1 \subseteq 1 .. Len(chain)
    BY <2>1, <2>2, <2>3
  <2> QED  BY <1>1, <2>4 DEF Passed
<1>3. CASE UNCHANGED vars
  BY <1>2, <1>3 DEF vars, Passed
<1>4. CASE phase = "down" /\ Here \in Handlers
  <2>1. at = Len(chain) /\ Len(chain) \in Nat
    BY <1>4, WhereTheyRun DEF TypeInv
  <2>2. \A k \in 1 .. Len(chain) : k \in 1 .. at - 1 \/ k = Len(chain)
    BY <2>1
  <2> QED  BY <1>2, <1>4, <2>2 DEF Passed, HandlerIsLast
<1>5. CASE phase # "down"
  <2>1. phase' # "down"
    BY <1>5, OtherSteps
  <2> QED  BY <1>1, <1>2, <1>5, <2>1 DEF Passed
<1> QED  BY <1>3, <1>4, <1>5, OtherSteps

\* Each layer acts before it calls the next one, and undoes nothing.
LEMMA DescentActs ==
    ASSUME TypeInv, Descends
    PROVE  /\ header.security \/ Here = "securityHeaders" => header'.security
           /\ header.id # "none" \/ Here = "requestID" => header'.id # "none"
           /\ Here = "auth" => /\ user' <=> request.cookie = "valid"
                               /\ header'.cleared <=> request.cookie \in {"expired", "invalid"}
           /\ Here # "auth" => user' = user /\ header'.cleared = header.cleared
           /\ recorded # 0 \/ Here = "logger" => recorded' # 0
<1>0. header \in Header
  BY DEF TypeInv
<1>1. CASE Logger
  BY <1>1 DEF Descends, Logger, Down
<1>2. CASE RequestID
  BY <1>0, <1>2 DEF Descends, RequestID, Sanitized, Down, Header, Logger
<1>3. CASE SecurityHeaders
  BY <1>0, <1>3 DEF Descends, SecurityHeaders, Down, Header, Logger
<1>4. CASE CallNext
  BY <1>4 DEF Descends, CallNext, Down, writer, Logger
<1>5. CASE Authenticate
  <2>1. Here = "auth"
    BY <1>5 DEF Authenticate, Down
  <2>2. header'.security = header.security /\ header'.id = header.id
    BY <1>0, <1>5 DEF Authenticate, Header
  <2>3. user' <=> request.cookie = "valid"
    BY <1>5 DEF Authenticate, Verify
  <2>4. header'.cleared = (request.cookie # "none" /\ ~Verify(request.cookie))
    BY <1>0, <1>5 DEF Authenticate, Header
  <2>5. request.cookie \in {"none", "valid", "expired", "invalid"}
    BY DEF TypeInv, Requests, Cookies
  <2>6. header'.cleared <=> request.cookie \in {"expired", "invalid"}
    BY <2>4, <2>5 DEF Verify
  <2>7. recorded' = recorded
    BY <1>5 DEF Authenticate
  <2> QED  BY <2>1, <2>2, <2>3, <2>6, <2>7
<1> QED  BY <1>1, <1>2, <1>3, <1>4, <1>5 DEF Descends

LEMMA PassedStep ==
    ASSUME TypeInv, HandlerIsLast, PassedLayersActed, [Next]_vars
    PROVE  PassedLayersActed'
<1> SUFFICES ASSUME NEW k \in Passed'
             PROVE  /\ chain'[k] = "securityHeaders" => header.security'
                    /\ chain'[k] = "requestID" => header.id' # "none"
                    /\ chain'[k] = "auth" => /\ user' <=> request.cookie' = "valid"
                                             /\ header.cleared' <=> request.cookie' \in {"expired", "invalid"}
                    /\ chain'[k] = "logger" => recorded' # 0
  BY DEF PassedLayersActed
<1>1. CASE Descends
  <2>1. at > 0 /\ at \in Nat /\ k \in 1 .. at /\ chain' = chain /\ request' = request
    BY <1>1 DEF Descends, Passed, TypeInv, setup
  <2>2. k \in Passed \/ k = at
    BY <1>1, <2>1 DEF Descends, Passed
  <2>3. CASE k \in Passed
    <3>1. /\ chain[k] = "securityHeaders" => header.security
          /\ chain[k] = "requestID" => header.id # "none"
          /\ chain[k] = "auth" => /\ user <=> request.cookie = "valid"
                                  /\ header.cleared <=> request.cookie \in {"expired", "invalid"}
          /\ chain[k] = "logger" => recorded # 0
      BY <2>3 DEF PassedLayersActed
    <3> QED  BY <1>1, <2>1, <3>1, DescentActs
  <2>4. CASE k = at
    BY <1>1, <2>1, <2>4, DescentActs DEF Here
  <2> QED  BY <2>2, <2>3, <2>4
<1>2. CASE ~Descends /\ ~Intervenes
  <2>1. k \in Passed \/ chain[k] \in Handlers
    BY <1>2, PassedByOthers
  <2>2. UNCHANGED <<request, user, chain, header>> /\ (recorded' = recorded \/ recorded' # 0)
    BY <1>2, OtherSteps DEF setup, Status
  <2> QED  BY <2>1, <2>2 DEF PassedLayersActed, Handlers
<1>3. CASE Intervenes
  <2>1. k \in Passed
    BY <1>3, PassedByCustom
  <2>2. UNCHANGED <<request, user, chain, header>> /\ (recorded' = recorded \/ recorded' # 0)
    BY <1>3, Intervention DEF setup, Status
  <2> QED  BY <2>1, <2>2 DEF PassedLayersActed
<1> QED  BY <1>1, <1>2, <1>3

\* Headers are set before anything is on the wire.
LEMMA WireStep ==
    ASSUME TypeInv, HandlerIsLast, WireHasTheHeader, [Next]_vars
    PROVE  WireHasTheHeader'
<1> SUFFICES ASSUME intervened' # "early"
             PROVE  WireHasTheHeader'
  BY DEF WireHasTheHeader
<1>1. CASE Descends
  <2>1. at < Len(chain) /\ Len(chain) \in Nat /\ intervened # "early"
    BY <1>1, WhereTheyRun DEF Descends, TypeInv
  <2>2. response.status = 0 /\ response' = response
    BY <1>1, <2>1 DEF Descends, WireHasTheHeader, TypeInv
  <2> QED  BY <2>2 DEF WireHasTheHeader
<1>2. CASE UNCHANGED vars
  BY <1>2 DEF vars, writer, WireHasTheHeader
<1>3. CASE ~Descends /\ ~Intervenes /\ ~UNCHANGED vars
  <2>1. UNCHANGED <<chain, header, intervened>> /\ (response' = response \/ response'.header = header)
    BY <1>3, OtherSteps
  <2>2. phase' = "down" => phase = "down" /\ at' = at
    BY <1>3, OtherSteps
  <2>3. phase = "down" => at = Len(chain)
    BY <1>3, OtherSteps, WhereTheyRun DEF TypeInv
  <2> QED  BY <2>1, <2>2, <2>3 DEF WireHasTheHeader
<1>4. CASE Intervenes
  <2>1. /\ header' = header /\ (response' = response \/ response'.header = header)
        /\ phase' # "down" /\ intervened # "early"
    BY <1>4, Intervention
  <2> QED  BY <2>1 DEF WireHasTheHeader
<1> QED  BY <1>1, <1>2, <1>3, <1>4

LEMMA OriginStep ==
    ASSUME TypeInv, HandlerIsLast, NothingIsMadeUp, [Next]_vars
    PROVE  NothingIsMadeUp'
<1>1. CASE Descends
  <2>1. request' = request
    BY <1>1 DEF Descends, setup
  <2>2. user' => request.cookie = "valid"
    BY <1>1, DescentActs DEF NothingIsMadeUp
  <2>3. response' = response
    BY <1>1 DEF Descends
  <2>4. header'.id = "client" => request.id = "safe"
    BY <1>1 DEF Descends, Logger, RequestID, Sanitized, SecurityHeaders, CallNext, Authenticate, TypeInv,
                Header, NothingIsMadeUp, writer
  <2> QED  BY <2>1, <2>2, <2>3, <2>4 DEF NothingIsMadeUp
<1>2. CASE ~Descends /\ ~Intervenes
  BY <1>2, OtherSteps DEF NothingIsMadeUp, setup
<1>3. CASE Intervenes
  BY <1>3, Intervention DEF NothingIsMadeUp, setup
<1> QED  BY <1>1, <1>2, <1>3

\* A layer that was passed stays passed, as long as no custom middleware intervenes.
LEMMA PassedGrows ==
    ASSUME TypeInv, HandlerIsLast, [Next]_vars, intervened' = "no"
    PROVE  \A k \in Passed : k \in Passed'
<1>0. ~Intervenes
  BY Intervention
<1>1. chain' = chain /\ Len(chain) \in Nat /\ at \in 0 .. Len(chain) /\ intervened = "no"
  BY <1>0, OtherSteps DEF Descends, TypeInv
<1>2. CASE phase' = "down" /\ phase = "down" /\ at' \in {at, at + 1}
  <2>1. \A n \in Nat : 1 .. n - 1 \subseteq 1 .. (n + 1) - 1
    OBVIOUS
  <2>2. at \in Nat
    BY <1>1
  <2>3. 1 .. at - 1 \subseteq 1 .. at' - 1
    BY <1>2, <2>1, <2>2
  <2> QED  BY <1>2, <2>3 DEF Passed
<1>3. CASE phase' # "down"
  <2>1. \A n, m \in Nat : n <= m => 1 .. n - 1 \subseteq 1 .. m
    OBVIOUS
  <2>2. 1 .. at - 1 \subseteq 1 .. Len(chain)
    BY <1>1, <2>1
  <2> QED  BY <1>1, <1>3, <2>2 DEF Passed
<1>4. CASE UNCHANGED vars
  BY <1>4 DEF vars, Passed
<1> QED
  BY <1>0, <1>2, <1>3, <1>4, StepKinds DEF Descends, HandlerReplies, HandlerPanics, ReadinessWorks, ReadinessReply,
     Reply, Panic, ApplicationWrites, ApplicationReturns, LoggerReturns, MiddlewareReturns, Recovers,
     Unwinds, Finish, Abort, Down

\* Whoever writes a status, the handler or Recovery, does so inside of Logger.
LEMMA WritesInsideOfLogger ==
    ASSUME TypeInv, HandlerIsLast, LoggerIsOutside, RecordTellsTheWire, [Next]_vars,
           intervened = "no", intervened' = "no",
           NEW status \in Status \ {0}, WriteHeader(status),
           \/ phase = "down" /\ Here \in Handlers
           \/ phase = "panic" /\ at > 0 /\ Here = "recovery"
    PROVE  /\ rewritten' => response'.status # 0
           /\ recorded' # 0 => \E k \in Passed' : chain'[k] = "logger"
           /\ recorded' # 0 /\ ~rewritten' =>
                recorded' = IF response'.status = 0 THEN 200 ELSE response'.status
           /\ response'.status # 0
<1>0. at > 0 /\ at \in 1 .. Len(chain) /\ Len(chain) \in Nat
  BY WhereTheyRun DEF TypeInv
<1>1. recorded # 0 => Above("logger")
  <2>1. CASE phase = "down"
    BY <2>1 DEF RecordTellsTheWire, Passed, Above
  <2>2. CASE phase = "panic" /\ Here = "recovery"
    <3> SUFFICES ASSUME recorded # 0
                 PROVE  Above("logger")
      OBVIOUS
    <3>1. PICK k \in 1 .. Len(chain) : chain[k] = "logger"
      BY <2>2 DEF RecordTellsTheWire, Passed
    <3>2. k < at
      BY <1>0, <2>2, <3>1 DEF LoggerIsOutside, Here
    <3>3. k \in 1 .. at - 1
      BY <1>0, <3>2
    <3> QED  BY <3>1, <3>3 DEF Above
  <2> QED  BY <2>1, <2>2
<1>2. Above("logger") => \E k \in Passed' : chain'[k] = "logger"
  <2> SUFFICES ASSUME Above("logger")
               PROVE  \E k \in Passed' : chain'[k] = "logger"
    OBVIOUS
  <2>1. PICK k \in 1 .. at - 1 : chain[k] = "logger"
    BY DEF Above
  <2>2. \A n, m \in Nat : n <= m => 1 .. n - 1 \subseteq 1 .. m
    OBVIOUS
  <2>3. k \in Passed
    BY <1>0, <2>1, <2>2 DEF Passed
  <2>4. k \in Passed' /\ chain' = chain
    BY <2>3, PassedGrows, ChainIsSet
  <2> QED  BY <2>1, <2>4
<1>3. response'.status # 0
  BY DEF WriteHeader, Status
<1>4. recorded' = IF Above("logger") THEN status ELSE 0
  BY <1>1 DEF WriteHeader
<1>5. ~rewritten' => response'.status = status
  BY DEF WriteHeader
<1> QED  BY <1>2, <1>3, <1>4, <1>5

LEMMA RecordStep ==
    ASSUME TypeInv, HandlerIsLast, LoggerIsOutside, WireHasTheHeader, RecordTellsTheWire, [Next]_vars
    PROVE  RecordTellsTheWire'
<1> SUFFICES ASSUME intervened' = "no"
             PROVE  RecordTellsTheWire'
  BY DEF RecordTellsTheWire
<1>0. intervened = "no" /\ ~Intervenes
  BY Intervention, OtherSteps DEF Descends
<1>1. CASE Descends
  <2>1. at > 0 /\ at < Len(chain) /\ Len(chain) \in Nat /\ at \in Nat
    BY <1>1, WhereTheyRun DEF Descends, TypeInv
  <2>2. response.status = 0 /\ response' = response /\ chain' = chain /\ rewritten' = rewritten
    BY <1>0, <1>1, <2>1 DEF Descends, WireHasTheHeader, TypeInv
  <2>3. ~rewritten
    BY <1>0, <2>2 DEF RecordTellsTheWire
  <2>4. CASE recorded' = recorded
    BY <1>0, <1>1, <2>2, <2>4, PassedGrows DEF RecordTellsTheWire, Descends
  <2>5. CASE Logger
    <3>1. at \in Passed' /\ chain[at] = "logger" /\ recorded' = 200
      BY <1>1, <2>1, <2>5 DEF Logger, Down, Here, Passed
    <3> QED  BY <1>1, <2>2, <2>3, <3>1 DEF RecordTellsTheWire, Descends
  <2> QED  BY <1>1, <2>4, <2>5 DEF Descends
<1>2. CASE HandlerReplies \/ ReadinessReply \/ ApplicationWrites
  <2>1. PICK status \in Status \ {0} : WriteHeader(status)
    BY <1>2 DEF HandlerReplies, ReadinessReply, ApplicationWrites, Reply, Status
  <2>2. phase = "down" /\ Here \in Handlers /\ phase' # "done"
    BY <1>2 DEF HandlerReplies, ReadinessReply, ApplicationWrites, Reply, Down, Handlers
  <2> QED  BY <1>0, <2>1, <2>2, WritesInsideOfLogger DEF RecordTellsTheWire
<1>3. CASE Recovers
  <2>1. WriteHeader(500) /\ 500 \in Status \ {0}
    BY <1>3 DEF Recovers, Reply, Status
  <2>2. phase = "panic" /\ at > 0 /\ Here = "recovery" /\ phase' # "done"
    BY <1>3 DEF Recovers, Reply
  <2> QED  BY <1>0, <2>1, <2>2, WritesInsideOfLogger DEF RecordTellsTheWire
<1>4. CASE HandlerPanics \/ ReadinessWorks \/ ApplicationReturns \/ LoggerReturns \/ MiddlewareReturns
           \/ Unwinds \/ Abort \/ UNCHANGED vars
  <2>1. UNCHANGED <<chain, response, recorded, rewritten>> /\ (phase' = phase \/ phase' # "done")
    BY <1>4 DEF HandlerPanics, Panic, ReadinessWorks, ApplicationReturns, LoggerReturns, MiddlewareReturns,
                Unwinds, Abort, writer, vars
  <2> QED  BY <1>0, <2>1, PassedGrows DEF RecordTellsTheWire
<1>5. CASE Finish
  <2>1. UNCHANGED <<chain, recorded, rewritten>>
    BY <1>5 DEF Finish
  <2>2. response'.status = IF response.status = 0 THEN 200 ELSE response.status
    BY <1>5 DEF Finish
  <2> QED  BY <1>0, <2>1, <2>2, PassedGrows DEF RecordTellsTheWire
<1> QED  BY <1>0, <1>1, <1>2, <1>3, <1>4, <1>5, StepKinds

\* Only a return can leave Logger behind, and Logger writes its line as it returns.
LEMMA LineStep ==
    ASSUME TypeInv, HandlerIsLast, LoggerIsOutside, LineIsWritten, [Next]_vars
    PROVE  LineIsWritten'
<1> SUFFICES ASSUME intervened' = "no", NEW k \in 1 .. Len(chain'), chain'[k] = "logger",
                    phase' = "done" \/ (phase' = "up" /\ at' < k)
             PROVE  logged' = recorded'
  BY DEF LineIsWritten
<1>0. chain' = chain /\ k \in 1 .. Len(chain) /\ Len(chain) \in Nat /\ at \in 0 .. Len(chain)
      /\ intervened = "no" /\ ~Intervenes
  BY ChainIsSet, Intervention, OtherSteps DEF Descends, TypeInv
<1>1. CASE HandlerReplies \/ ReadinessReply \/ ApplicationReturns
  <2>1. at = Len(chain) /\ at' = at - 1 /\ phase' = "up"
    BY <1>1, WhereTheyRun DEF HandlerReplies, ReadinessReply, ApplicationReturns, Reply, Down, Handlers,
                             TypeInv
  <2>2. k # Len(chain)
    BY <1>0 DEF HandlerIsLast, Handlers
  <2> QED  BY <1>0, <2>1, <2>2
<1>2. CASE Descends \/ HandlerPanics \/ ReadinessWorks \/ ApplicationWrites \/ Unwinds \/ Abort
  BY <1>2 DEF Descends, HandlerPanics, Panic, ReadinessWorks, ApplicationWrites, Unwinds, Abort, Down
<1>3. CASE Recovers
  <2>1. at \in 1 .. Len(chain) /\ chain[at] = "recovery" /\ at' = at - 1 /\ phase' = "up"
    BY <1>0, <1>3 DEF Recovers, Reply, Here
  <2>2. k < at
    BY <1>0, <2>1 DEF LoggerIsOutside
  <2> QED  BY <1>0, <2>1, <2>2
<1>4. CASE LoggerReturns
  BY <1>4 DEF LoggerReturns
<1>5. CASE MiddlewareReturns
  <2>1. phase = "up" /\ at' = at - 1 /\ phase' = "up" /\ chain[at] # "logger"
        /\ UNCHANGED <<logged, recorded>>
    BY <1>5 DEF MiddlewareReturns, Here, writer
  <2>2. at < k
    BY <1>0, <2>1
  <2> QED  BY <1>0, <2>1, <2>2 DEF LineIsWritten
<1>6. CASE Finish
  BY <1>0, <1>6 DEF Finish, LineIsWritten
<1>7. CASE UNCHANGED vars
  BY <1>0, <1>7 DEF vars, writer, LineIsWritten
<1> QED  BY <1>0, <1>1, <1>2, <1>3, <1>4, <1>5, <1>6, <1>7, StepKinds

\* A check that is registered stays registered, and every check that was copied is counted.
LEMMA CountsStep ==
    ASSUME TypeInv, ReadinessCounts, [Next]_vars
    PROVE  ReadinessCounts'
<1>1. CASE UNCHANGED <<checks, readiness>>
  BY <1>1 DEF ReadinessCounts
<1>2. CASE ReadinessCopy
  BY <1>2 DEF ReadinessCopy, ReadinessCounts, TypeInv
<1>3. ASSUME NEW n \in Names, CheckPasses(n)
      PROVE  ReadinessCounts'
  BY <1>3 DEF CheckPasses, ReadinessCounts, TypeInv, Running
<1>4. ASSUME NEW n \in Names, CheckFails(n)
      PROVE  ReadinessCounts'
  BY <1>4 DEF CheckFails, ReadinessCounts, TypeInv, Running
<1>5. ASSUME NEW n \in Names, Check(n)
      PROVE  ReadinessCounts'
  BY <1>5 DEF Check, ReadinessCounts, TypeInv
<1>6. CASE ~ReadinessWorks
  <2>1. UNCHANGED <<checks, readiness>>
    BY <1>6, StepKinds DEF Descends, HandlerReplies, HandlerPanics, ReadinessReply, Reply, Panic,
          ApplicationWrites, ApplicationReturns, LoggerReturns, MiddlewareReturns, Recovers, Unwinds,
          Finish, Abort, Intervenes, CustomWrites, CustomTurns, vars
  <2> QED  BY <1>1, <2>1
<1> QED  BY <1>2, <1>3, <1>4, <1>5, <1>6 DEF ReadinessWorks

LEMMA AnswersStep ==
    ASSUME TypeInv, HandlerIsLast, ReadinessCounts, ReadinessAnswers, [Next]_vars
    PROVE  ReadinessAnswers'
<1> SUFFICES ASSUME chain[Len(chain)] = "readiness", chain' = chain, intervened' = "no"
             PROVE  /\ phase' \in {"down", "panic", "aborted"} => response'.status = 0
                    /\ phase' \in {"up", "done"} => response'.status # 0
                    /\ response'.status = 200 => readiness'.due \subseteq readiness'.passed
                    /\ response'.status = 503 => readiness'.failed # {}
  BY ChainIsSet DEF ReadinessAnswers
<1>0. intervened = "no" /\ ~Intervenes
  BY Intervention, OtherSteps DEF Descends
<1>1. CASE HandlerReplies \/ ApplicationWrites \/ ApplicationReturns
  <2>1. at > 0 /\ Here \in Handlers \ {"readiness"}
    BY <1>1 DEF HandlerReplies, ApplicationWrites, ApplicationReturns, Down, Handlers, TypeInv
  <2> QED  BY <2>1, WhereTheyRun DEF Here
<1>2. CASE ReadinessReply
  <2>1. response.status = 0 /\ readiness.copied /\ readiness.todo = {} /\ readiness' = readiness
        /\ phase' = "up"
    BY <1>0, <1>2 DEF ReadinessReply, Reply, Down, ReadinessAnswers
  <2>2. response'.status = IF readiness.allOK THEN 200 ELSE 503
    BY <1>2, <2>1 DEF ReadinessReply, Reply, WriteHeader
  <2>3. readiness.due \subseteq readiness.passed \cup readiness.failed
        /\ (readiness.allOK <=> readiness.failed = {})
    BY <2>1 DEF ReadinessCounts
  <2>4. CASE readiness.allOK
    BY <2>1, <2>2, <2>3, <2>4
  <2>5. CASE ~readiness.allOK
    BY <2>1, <2>2, <2>3, <2>5
  <2> QED  BY <2>4, <2>5
<1>3. CASE ReadinessWorks
  BY <1>0, <1>3 DEF ReadinessWorks, Down, writer, ReadinessAnswers
<1>4. CASE Recovers
  <2>1. response.status = 0
    BY <1>0, <1>4 DEF Recovers, ReadinessAnswers
  <2> QED  BY <1>4, <2>1 DEF Recovers, Reply, WriteHeader
<1>5. CASE Descends \/ HandlerPanics \/ LoggerReturns \/ MiddlewareReturns \/ Unwinds \/ Finish \/ Abort
  BY <1>0, <1>5 DEF Descends, HandlerPanics, Panic, LoggerReturns, MiddlewareReturns, Unwinds, Finish, Abort,
              writer, ReadinessAnswers
<1>6. CASE UNCHANGED vars
  BY <1>0, <1>6 DEF vars, writer, ReadinessAnswers
<1> QED  BY <1>0, <1>1, <1>2, <1>3, <1>4, <1>5, <1>6, StepKinds

------------------------------------------------------------------------------
(* The theorems *)

LEMMA InvariantStep == IInv /\ [Next]_vars => IInv'
<1> SUFFICES ASSUME IInv, [Next]_vars
             PROVE  IInv'
  OBVIOUS
<1> USE DEF IInv
<1>1. TypeInv' /\ HandlerIsLast' /\ LayersAreThere' /\ LoggerIsOutside'
  BY TypeStep, ChainStep
<1>2. PassedLayersActed' /\ WireHasTheHeader' /\ NothingIsMadeUp'
  BY PassedStep, WireStep, OriginStep
<1>3. RecordTellsTheWire' /\ LineIsWritten'
  BY RecordStep, LineStep
<1>4. ReadinessCounts' /\ ReadinessAnswers'
  BY CountsStep, AnswersStep
<1> QED  BY <1>1, <1>2, <1>3, <1>4

\* The invariant, which the theorems below read off.
LEMMA Invariance == Spec => []IInv
BY InitIInv, InvariantStep, PTL DEF Spec

(***************************************************************************)
(* Every variable keeps to its type, whatever the checks and the           *)
(* middleware are; at stays on the chain that New built.                   *)
(***************************************************************************)
THEOREM TypeCorrect == Spec => []TypeOK
<1>1. IInv => TypeOK
  <2> SUFFICES ASSUME TypeInv
               PROVE  TypeOK
    BY DEF IInv
  <2>1. response.status \in Status
    BY DEF TypeInv
  <2>2. readiness.due \subseteq Names /\ readiness.todo \subseteq Names
    BY DEF TypeInv
  <2> QED  BY <2>1, <2>2 DEF TypeInv, TypeOK, Status
<1> QED  BY Invariance, <1>1, PTL

\* Every layer above the handler has acted when there is something on the wire.
LEMMA AllActed ==
    ASSUME IInv, response.status # 0, intervened # "early", NEW layer \in Wraps,
           \E k \in 1 .. Len(chain) : chain[k] = layer
    PROVE  /\ layer = "securityHeaders" => header.security
           /\ layer = "requestID" => header.id # "none"
           /\ layer = "auth" => (header.cleared <=> request.cookie \in {"expired", "invalid"})
           /\ layer = "logger" => recorded # 0
<1>1. PICK k \in 1 .. Len(chain) : chain[k] = layer
  OBVIOUS
<1>2. layer \notin Handlers
  BY DEF Wraps, Switches, Added, Handlers
<1>3. k # Len(chain)
  BY <1>1, <1>2 DEF IInv, HandlerIsLast
<1>4. phase = "down" => at = Len(chain)
  BY DEF IInv, WireHasTheHeader
<1>5. k \in 1 .. Len(chain) - 1
  BY <1>1, <1>3 DEF IInv, TypeInv
<1>6. k \in Passed
  BY <1>1, <1>4, <1>5 DEF Passed
<1> QED  BY <1>1, <1>6 DEF IInv, PassedLayersActed

(***************************************************************************)
(* Logger's line has the status that the client got, after a panic too, or *)
(* some status when a handler wrote two, unless a custom middleware did    *)
(* more than call the next one.                                            *)
(***************************************************************************)
THEOREM LoggerTellsTheWire == Spec => []LogTellsTheWire
<1>1. IInv => LogTellsTheWire
  <2> SUFFICES ASSUME IInv, phase = "done", "logger" \in options, intervened = "no"
               PROVE  IF rewritten THEN logged # 0 ELSE logged = response.status
    BY DEF LogTellsTheWire
  <2>1. PICK k \in 1 .. Len(chain) : chain[k] = "logger"
    BY DEF IInv, LayersAreThere
  <2>2. response.status # 0
    BY DEF IInv, RecordTellsTheWire
  <2>3. recorded # 0
    BY <2>1, <2>2, AllActed, "logger" \in Wraps DEF Wraps, Switches
  <2>4. logged = recorded
    BY <2>1 DEF IInv, LineIsWritten
  <2> QED  BY <2>2, <2>3, <2>4 DEF IInv, RecordTellsTheWire
<1> QED  BY Invariance, <1>1, PTL

(***************************************************************************)
(* Every answer has a request id that is the client's own only if it was   *)
(* safe, and, unless a custom middleware did something before it called    *)
(* next, the security headers and an id.                                   *)
(***************************************************************************)
THEOREM EveryAnswerIsMarked == Spec => []AnswersAreMarked
<1>1. IInv => AnswersAreMarked
  <2> SUFFICES ASSUME IInv, response.status # 0
               PROVE  /\ intervened # "early" =>
                           /\ "securityHeaders" \in options => response.header.security
                           /\ "requestID" \in options => response.header.id # "none"
                      /\ response.header.id = "client" => request.id = "safe"
    BY DEF AnswersAreMarked
  <2>1. ASSUME intervened # "early"
        PROVE  /\ "securityHeaders" \in options => response.header.security
               /\ "requestID" \in options => response.header.id # "none"
    <3>1. response.header = header
      BY <2>1 DEF IInv, WireHasTheHeader
    <3>2. "securityHeaders" \in options => header.security
      BY <2>1, AllActed, "securityHeaders" \in Wraps DEF Wraps, Switches, IInv, LayersAreThere
    <3>3. "requestID" \in options => header.id # "none"
      BY <2>1, AllActed, "requestID" \in Wraps DEF Wraps, Switches, IInv, LayersAreThere
    <3> QED  BY <3>1, <3>2, <3>3
  <2>2. response.header.id = "client" => request.id = "safe"
    BY DEF IInv, NothingIsMadeUp
  <2> QED  BY <2>1, <2>2
<1> QED  BY Invariance, <1>1, PTL

(***************************************************************************)
(* The handler is given a user for a valid cookie only, and whatever       *)
(* answers clears a cookie that Verify did not accept, and no other, unless *)
(* a custom middleware did something before it called next.                *)
(***************************************************************************)
THEOREM SessionsSound == Spec => []SessionsAreSound
<1>1. IInv => SessionsAreSound
  <2> SUFFICES ASSUME IInv
               PROVE  SessionsAreSound
    OBVIOUS
  <2>1. user => request.cookie = "valid"
    BY DEF IInv, NothingIsMadeUp
  <2>2. ASSUME "auth" \in ToSet(middleware), at = Len(chain), phase = "down"
        PROVE  user <=> request.cookie = "valid"
    <3>1. PICK k \in 1 .. Len(chain) : chain[k] = "auth"
      BY <2>2 DEF IInv, LayersAreThere
    <3>2. k # Len(chain) /\ Len(chain) \in Nat
      BY <3>1 DEF IInv, HandlerIsLast, Handlers, TypeInv
    <3>3. k \in Passed
      BY <2>2, <3>1, <3>2 DEF Passed
    <3> QED  BY <3>1, <3>3 DEF IInv, PassedLayersActed
  <2>3. ASSUME "auth" \in ToSet(middleware), response.status # 0, intervened # "early"
        PROVE  response.header.cleared <=> request.cookie \in {"expired", "invalid"}
    <3>1. \E k \in 1 .. Len(chain) : chain[k] = "auth"
      BY <2>3 DEF IInv, LayersAreThere
    <3>2. header.cleared <=> request.cookie \in {"expired", "invalid"}
      BY <2>3, <3>1, AllActed, "auth" \in Wraps DEF Wraps, Added
    <3>3. response.header = header
      BY <2>3 DEF IInv, WireHasTheHeader
    <3> QED  BY <3>2, <3>3
  <2> QED  BY <2>1, <2>2, <2>3 DEF SessionsAreSound
<1> QED  BY Invariance, <1>1, PTL

(***************************************************************************)
(* Readiness says ok only if every check registered before has passed, and *)
(* degraded only if one has failed, for any number of checks, unless a     *)
(* custom middleware did more than call the next one.                      *)
(***************************************************************************)
THEOREM ReadinessIsHonest == Spec => []ReadinessTellsTheChecks
<1>1. IInv => ReadinessTellsTheChecks
  BY DEF IInv, ReadinessAnswers, ReadinessTellsTheChecks, Last
<1> QED  BY Invariance, <1>1, PTL
=============================================================================
