------------------------------- MODULE Server --------------------------------
(***************************************************************************)
(* The service from its start to its exit (cmd/server, pkg/api/server.go), *)
(* with the chain of handlers a request goes through (pkg/api/mux.go) and  *)
(* the sandbox: the service probes it before it starts, if browsers are to *)
(* be namespaced, and requests run theirs in it.                           *)
(*                                                                         *)
(* The process has one context, cancelled by a signal: the shutdown waits  *)
(* for it, and every request's context derives from it.  The process runs  *)
(* one sandbox at a time here: they share nothing.  Which requests the     *)
(* limiter admits is RateLimiter's, what a render answers BrowserSession's *)
(* and RenderRequests'.                                                    *)
(***************************************************************************)
EXTENDS SandboxFS, FiniteSets

CONSTANTS Requests,     \* requests that may be handled at the same time
          Queries,      \* what a request may carry: path, token, url
          MaxOverrides  \* the most overrides a command line has

None == "none"
Probe == "probe"

ASSUME ServerAssumption == /\ IsFiniteSet(Requests)
                           /\ None \notin Requests /\ Probe \notin Requests
                           /\ MaxOverrides \in Nat

VARIABLES stage,      \* "flags", "config", "listen", "serving" or "exited"
          exitCode,   \* of the process
          signalled,  \* the context of the process is cancelled
          namespaced, \* browsers are to be run in the sandbox
          probes,     \* the probes of the sandbox still to be made
          provenRoot, \* history: the root the last successful probe had
          exporter,   \* of traces: "none", "on" or "shut down"
          serve,      \* the goroutine of Serve: "off", "starting", "accepting", "closed", "failed"
                      \* or "never", if the shutdown came before it
          shutdown,   \* that of Shutdown: "off", "waiting", "draining", "drained", "timed out"
          pc,         \* where each request is: "none", "routing", "limiting" or "handling"
          query,      \* what it carries
          inFlight,   \* the gauge of requests in flight
          user        \* who the sandbox runs for: the probe, a request or nobody

processVars == <<stage, exitCode, signalled, namespaced, probes, provenRoot, exporter>>
listenVars == <<serve, shutdown>>
requestVars == <<pc, query, inFlight>>
vars == <<processVars, listenVars, requestVars, user, sandboxVars>>

Init ==
  /\ SandboxInit
  /\ stage = "flags" /\ exitCode = 0 /\ signalled = FALSE
  /\ namespaced \in BOOLEAN
  /\ probes \in IF namespaced THEN 1..(MaxOverrides + 1) ELSE {0}
  /\ provenRoot = None /\ exporter = "none"
  /\ serve = "off" /\ shutdown = "off"
  /\ pc = [r \in Requests |-> None] /\ query = [r \in Requests |-> None]
  /\ inFlight = 0
  /\ user = None

-----------------------------------------------------------------------------
(* The process.                                                            *)

\* SIGINT or SIGTERM.
Signal ==
  /\ stage # "exited" /\ ~signalled
  /\ signalled' = TRUE
  /\ UNCHANGED <<stage, exitCode, namespaced, probes, provenRoot, exporter,
                 listenVars, requestVars, user, sandboxVars>>

\* The deferred shutdown of the exporter, then os.Exit.
ExitWith(code) ==
  /\ stage' = "exited" /\ exitCode' = code
  /\ exporter' = IF exporter = "on" THEN "shut down" ELSE exporter
  /\ UNCHANGED <<signalled, namespaced>>

\* The validator of browser.namespaced runs the sandbox, for five seconds at
\* most and whatever the signals: once for the command line, and once again
\* for every override, whose flags are the command line's.
StartProbe ==
  /\ stage = "flags" /\ probes > 0 /\ user = None
  /\ user' = Probe
  /\ Bootstrap
  /\ UNCHANGED <<processVars, listenVars, requestVars>>

ProbeTimesOut ==
  /\ user = Probe /\ Killed
  /\ UNCHANGED <<processVars, listenVars, requestVars, user>>

ProbePassedFault == bootstrap = "exited"                \* whatever its exit code
ProbePassed == Succeeded
ProbeEnds ==
  /\ user = Probe /\ bootstrap # "waiting"
  /\ user' = None
  /\ IF ProbePassed
     THEN /\ probes' = probes - 1 /\ provenRoot' = root
          /\ UNCHANGED <<stage, exitCode, signalled, namespaced, exporter>>
     ELSE ExitWith(1) /\ UNCHANGED <<probes, provenRoot>>
  /\ Forgotten
  /\ UNCHANGED <<listenVars, requestVars>>

FlagsParsed ==
  /\ stage = "flags" /\ probes = 0
  /\ stage' = "config"
  /\ UNCHANGED <<exitCode, signalled, namespaced, probes, provenRoot, exporter,
                 listenVars, requestVars, user, sandboxVars>>

\* A cancelled context is no error to main.
FailureCodes == IF signalled THEN {0, 1} ELSE {1}

\* ParseConfig and NewTracerProvider, either of which may refuse what it gets;
\* without an endpoint there is no exporter.
Configure ==
  /\ stage = "config"
  /\ \/ /\ stage' = "listen" /\ exporter' \in {"none", "on"}
        /\ UNCHANGED <<exitCode, signalled, namespaced>>
     \/ \E code \in FailureCodes : ExitWith(code)
  /\ UNCHANGED <<probes, provenRoot, listenVars, requestVars, user, sandboxVars>>

\* The listener and its certificate.
Listen ==
  /\ stage = "listen"
  /\ \/ /\ stage' = "serving" /\ serve' = "starting" /\ shutdown' = "waiting"
        /\ UNCHANGED <<exitCode, signalled, namespaced, exporter>>
     \/ \E code \in FailureCodes : ExitWith(code) /\ UNCHANGED listenVars
  /\ UNCHANGED <<probes, provenRoot, requestVars, user, sandboxVars>>

\* Serve does not accept anything once the server is being shut down.
Serve ==
  /\ \/ serve = "starting" /\ serve' = IF shutdown = "waiting" THEN "accepting" ELSE "never"
     \/ serve = "accepting" /\ shutdown # "waiting" /\ serve' = "closed"
  /\ stage = "serving"
  /\ UNCHANGED <<processVars, shutdown, requestVars, user, sandboxVars>>

ServeFails ==
  /\ stage = "serving" /\ serve = "accepting" /\ shutdown = "waiting"
  /\ serve' = "failed"
  /\ UNCHANGED <<processVars, shutdown, requestVars, user, sandboxVars>>

\* The shutdown waits for the context of the process, not for its group's.
ShutdownDueFault == signalled \/ serve = "failed"       \* for that of the group
ShutdownDue == signalled
Shutdown ==
  /\ stage = "serving" /\ shutdown = "waiting" /\ ShutdownDue
  /\ shutdown' = "draining"
  /\ UNCHANGED <<processVars, serve, requestVars, user, sandboxVars>>

Active == {r \in Requests : pc[r] # None}

\* It waits for the requests and closes their connections, for five seconds; it
\* looks every now and then, and may miss that there are none left.
Drained ==
  /\ stage = "serving" /\ shutdown = "draining" /\ Active = {}
  /\ shutdown' = "drained"
  /\ UNCHANGED <<processVars, serve, requestVars, user, sandboxVars>>
DrainTimesOutFault == Drained                           \* for as long as it takes
DrainTimesOut ==
  /\ stage = "serving" /\ shutdown = "draining"
  /\ shutdown' = "timed out"
  /\ UNCHANGED <<processVars, serve, requestVars, user, sandboxVars>>

\* grp.Wait: both goroutines; the first error is the result.
OutcomeFault == IF serve = "failed" THEN 1 ELSE 0       \* Shutdown's error is dropped
Outcome == IF serve = "failed" \/ shutdown = "timed out" THEN 1 ELSE 0
Exit ==
  /\ stage = "serving"
  /\ serve \in {"closed", "failed", "never"} /\ shutdown \in {"drained", "timed out"}
  /\ ExitWith(Outcome)
  /\ UNCHANGED <<probes, provenRoot, listenVars, requestVars, user, sandboxVars>>

-----------------------------------------------------------------------------
(* A request: tracing, recovery, the log and the metrics around the mux.   *)

Becomes(r, state) == pc' = [pc EXCEPT ![r] = state]

\* A connection that was open when Serve ended may still bring a request, until
\* the shutdown has closed them all.
Connected == serve \in {"accepting", "closed", "failed"} /\ shutdown # "drained"
Accept(r, q) ==
  /\ stage = "serving" /\ Connected /\ pc[r] = None
  /\ query' = [query EXCEPT ![r] = q]
  /\ Becomes(r, "routing")
  /\ UNCHANGED <<processVars, listenVars, inFlight, user, sandboxVars>>

\* What gets past the mux, RequireAuthToken and TrustedURL to the limiter: a
\* render or a download with a token and, if it names a url, a parseable one
\* of http or https.  Any other request is answered on its way, with 401, 400,
\* 403 or 405, or by a handler that does nothing else.
Rendering(q) == q.path \in {"/render", "/render/csv"}
RequireAuthToken(q) == q.token
TrustedURL(q) == q.url \in {"none", "http"}
Passes(q) == Rendering(q) /\ RequireAuthToken(q) /\ TrustedURL(q)

Route(r) ==
  /\ stage # "exited" /\ pc[r] = "routing"
  /\ query' = [query EXCEPT ![r] = None]
  /\ Becomes(r, IF Passes(query[r]) THEN "limiting" ELSE None)
  /\ UNCHANGED <<processVars, listenVars, inFlight, user, sandboxVars>>

\* Answered with 429, or let through.
Limit(r) ==
  /\ stage # "exited" /\ pc[r] = "limiting"
  /\ \/ Becomes(r, None) /\ inFlight' = inFlight
     \/ Becomes(r, "handling") /\ inFlight' = inFlight + 1
  /\ UNCHANGED <<processVars, listenVars, query, user, sandboxVars>>

LaunchBrowser(r) ==
  /\ stage # "exited" /\ pc[r] = "handling" /\ namespaced /\ user = None
  /\ user' = r
  /\ Bootstrap
  /\ UNCHANGED <<processVars, listenVars, requestVars>>

\* The deferred calls: the gauge goes down, and the cancel of the allocator
\* kills what the handler started.
StopSandbox(r) ==
  /\ user' = IF user = r THEN None ELSE user
  /\ IF user = r THEN Forgotten ELSE UNCHANGED sandboxVars
Leave(r) ==
  /\ stage # "exited" /\ pc[r] = "handling"
  /\ Becomes(r, None)
  /\ StopSandbox(r)
  /\ UNCHANGED <<processVars, listenVars, query>>

\* A handler may end at any time, after a signal because its context has ended.
Finish(r) == Leave(r) /\ inFlight' = inFlight - 1

\* Recovery answers a panic with 500, above the log, which has no status for
\* it, and above the metrics, which do not observe it.
PanicFault(r) == Leave(r) /\ inFlight' = inFlight      \* the Dec is not deferred
Panic(r) == Leave(r) /\ inFlight' = inFlight - 1

Handle(r) == Route(r) \/ Limit(r) \/ LaunchBrowser(r) \/ Finish(r) \/ Panic(r)

Process == FlagsParsed \/ Configure \/ Listen \/ Serve \/ Shutdown \/ Drained \/ Exit
           \/ StartProbe \/ ProbeEnds

Next ==
  \/ Signal \/ Process \/ ProbeTimesOut \/ ServeFails \/ DrainTimesOut
  \/ \E r \in Requests : Handle(r) \/ \E q \in Queries : Accept(r, q)
  \/ /\ stage # "exited" /\ user # None /\ SandboxStep
     /\ UNCHANGED <<processVars, listenVars, requestVars, user>>

Spec == Init /\ [][Next]_vars

\* The goroutines of the process run, and its two timers expire; nothing is
\* assumed of the handlers, of the sandbox or of the signals.
FairSpec ==
  /\ Spec
  /\ WF_vars(Process)
  /\ WF_vars(ProbeTimesOut)
  /\ WF_vars(DrainTimesOut)

-----------------------------------------------------------------------------
(* Properties                                                              *)

Handling == {r \in Requests : pc[r] = "handling"}

\* server.go:19: ListenAndServe "will return after the context is cancelled AND
\* a shutdown attempt has been done": a server that fails by itself leaves the
\* process waiting for its signal.
ReturnsAfterShutdown ==
  [][stage = "serving" /\ stage' = "exited" =>
       signalled /\ shutdown \in {"drained", "timed out"}]_vars

\* A process that says it ended well has abandoned no request and no browser,
\* however the signal, the end of Serve and the five seconds fall together.
CleanExit == stage = "exited" /\ exitCode = 0 => Active = {} /\ bootstrap # "waiting"

\* A signal ends the process at whatever point it comes, also while the sandbox
\* is probed or a request never ends (main.go:24, server.go:70-75).
SignalEnds == signalled ~> stage = "exited"

\* config.go:543: a service that is to namespace its browsers does not serve
\* without a sandbox in which a command has run in a root of its own.
NamespacedMeansSupported ==
  stage = "serving" /\ namespaced => provenRoot \in {"pivot", "chroot"}

\* The gauge is the number of requests being handled, through refusals,
\* panics and kills (metrics.go:75-84).
GaugeMatches == inFlight = Cardinality(Handling)
=============================================================================
