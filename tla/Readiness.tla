------------------------------ MODULE Readiness ------------------------------
(***************************************************************************)
(* waitForReady of pkg/service/browser.go: the action of a render that     *)
(* waits until the page is ready to be captured, composed with the network *)
(* observer it registers, with the page it polls and with the request      *)
(* context it obeys.                                                       *)
(*                                                                         *)
(* Time is discrete.  `now' is time.Since(start) and stays at Horizon once *)
(* it is past every configured duration: no comparison of the code can     *)
(* tell later instants apart.  The timer of an iteration is a countdown.   *)
(* A goroutine parked in a select is woken by the first channel that is    *)
(* ready, so the clock does not move past a channel that is due.           *)
(***************************************************************************)
EXTENDS NetworkObserver

CONSTANTS Configs,    \* the request configurations to consider
          Horizon,    \* an instant later than every configured duration
          MaxDOM      \* bound on the changes of the page's content

RequestConfig ==
  [timeout : Nat, interval : Nat \ {0}, cycles : Nat \ {0},
   disableQueryWait : BOOLEAN, firstQueryTimeout : Nat, queriesTimeout : Nat,
   disableNetworkWait : BOOLEAN, networkIdleTimeout : Nat,
   disableDOMWait : BOOLEAN, domTimeout : Nat,
   forcePolling : BOOLEAN]

\* The validators of config.go keep the interval positive and the number of
\* cycles at least 1; a duration of 0 or less disables its timeout.
ASSUME ConfigsAssumption ==
  /\ Configs \subseteq RequestConfig
  /\ Horizon \in Nat /\ MaxDOM \in Nat
  /\ \A c \in Configs : \A t \in {c.timeout, c.firstQueryTimeout, c.queriesTimeout,
                                  c.networkIdleTimeout, c.domTimeout} : t < Horizon

VARIABLES requestConfig,        \* what LookupRequestConfig returned for the URL
          supportsBinding,      \* the page sets __grafanaRenderBindingSupported
          runningQueries,       \* the page's scene has queries running
          dom,                  \* the content of the page's body
          hung,                 \* the page's script never yields again
          bindingQueue,         \* binding events emitted and not yet delivered
          ctxDone,              \* the context is cancelled or past its deadline
          now, sleep,           \* time.Since(start); rest of the iteration's timer
          pc, result, mode,     \* where the action is; what it returned; its label
          renderDone,           \* the channel is closed
          hasSeenAnyQuery, numSuccessfulCycles,
          initialDOMPass, domHashCode,
          \* History, not in the code: polls that saw no query running since one
          \* did, and those since any check found the page busy; reads of the DOM
          \* that agreed since the page was busy; the content the last one met.
          quietPolls, consecutivePolls, stillReads, lastRead

page == <<requestConfig, supportsBinding, runningQueries, dom, hung>>
loop == <<hasSeenAnyQuery, numSuccessfulCycles, initialDOMPass, domHashCode>>
history == <<quietPolls, consecutivePolls, stillReads, lastRead>>
waiter == <<sleep, pc, result, mode, loop, history>>
vars == <<netVars, page, bindingQueue, ctxDone, now, renderDone, waiter>>

\* What getDOMHashCode hashes: document.body.toString(), which is the name of
\* the body's class and not its content.  The hash itself is taken injective.
BodyString(content) == "[object HTMLBodyElement]"
NoHash == ""
HashCodes == {NoHash} \union {BodyString(content) : content \in 0..MaxDOM}

TypeOK ==
  /\ NetTypeOK
  /\ requestConfig \in Configs
  /\ supportsBinding \in BOOLEAN /\ runningQueries \in BOOLEAN /\ hung \in BOOLEAN
  /\ ctxDone \in BOOLEAN /\ renderDone \in BOOLEAN
  /\ dom \in 0..MaxDOM /\ bindingQueue \in {0, 1}
  /\ now \in 0..Horizon /\ sleep \in Nat
  /\ pc \in {"setup", "probe", "binding", "select", "network", "query", "dom", "done"}
  /\ result \in {"none", "ready", "timeout", "ctx", "error"}
  /\ mode \in {"unknown", "binding", "legacy"}
  /\ hasSeenAnyQuery \in BOOLEAN /\ initialDOMPass \in BOOLEAN
  /\ numSuccessfulCycles \in 0..(requestConfig.cycles - 1)
  /\ domHashCode \in HashCodes
  /\ quietPolls \in 0..requestConfig.cycles
  /\ consecutivePolls \in 0..requestConfig.cycles
  /\ stillReads \in 0..2 /\ lastRead \in 0..MaxDOM

Init ==
  /\ NetInit
  /\ requestConfig \in Configs
  /\ supportsBinding \in BOOLEAN
  /\ runningQueries = FALSE /\ dom = 0 /\ hung = FALSE
  /\ bindingQueue = 0 /\ ctxDone = FALSE
  /\ now = 0 /\ sleep = 0
  /\ pc = "setup" /\ result = "none" /\ mode = "unknown" /\ renderDone = FALSE
  /\ hasSeenAnyQuery = FALSE /\ numSuccessfulCycles = 0
  /\ initialDOMPass = TRUE /\ domHashCode = NoHash
  /\ quietPolls = 0 /\ consecutivePolls = 0 /\ stillReads = 0 /\ lastRead = 0

-----------------------------------------------------------------------------
(* The page, whose script does nothing more once it hangs; the context and *)
(* the clock.                                                              *)

PageQueries ==
  /\ ~hung
  /\ runningQueries' = ~runningQueries
  /\ UNCHANGED <<requestConfig, supportsBinding, dom, hung, bindingQueue, ctxDone>>

PageChanges ==
  /\ ~hung /\ dom < MaxDOM
  /\ dom' = dom + 1
  /\ UNCHANGED <<requestConfig, supportsBinding, runningQueries, hung, bindingQueue, ctxDone>>

PageHangs ==
  /\ ~hung
  /\ hung' = TRUE
  /\ UNCHANGED <<requestConfig, supportsBinding, runningQueries, dom, bindingQueue, ctxDone>>

PageCallsBinding ==
  /\ ~hung /\ supportsBinding /\ bindingQueue = 0
  /\ bindingQueue' = 1
  /\ UNCHANGED <<requestConfig, supportsBinding, runningQueries, dom, hung, ctxDone>>

\* The client goes away, the request's timeout passes, or the service stops.
ContextEnds ==
  /\ ~ctxDone
  /\ ctxDone' = TRUE
  /\ UNCHANGED <<page, bindingQueue>>

Environment ==
  /\ pc # "done"
  /\ PageQueries \/ PageChanges \/ PageHangs \/ PageCallsBinding \/ ContextEnds
  /\ UNCHANGED <<netVars, now, renderDone, waiter>>

PageTraffic ==
  /\ pc # "done"
  /\ ~requestConfig.disableNetworkWait
  /\ \E r \in Requests : PageNetwork(r)
  /\ UNCHANGED <<page, bindingQueue, ctxDone, now, renderDone, waiter>>

\* The network listener, which the action's return cancels.
NetworkEvent ==
  /\ pc # "done"
  /\ ~requestConfig.disableNetworkWait
  /\ Listener
  /\ UNCHANGED <<page, bindingQueue, ctxDone, now, renderDone, waiter>>

\* The second listener closes renderDone, at most once.
SignalRenderFault ==                           \* only a waiter that looks is told
  renderDone' = (renderDone \/ pc = "binding")
SignalRender == renderDone' = TRUE

OnBindingCalled ==
  /\ pc # "done"
  /\ callback = Idle
  /\ bindingQueue = 1
  /\ bindingQueue' = 0
  /\ SignalRender
  /\ UNCHANGED <<netVars, page, ctxDone, now, waiter>>

ContextDueFault == FALSE                                 \* the select forgets the context
ContextDue == ctxDone

\* The timeout made anew in every iteration.
TimeoutDueFault == /\ requestConfig.timeout > 0
                   /\ requestConfig.interval - sleep >= requestConfig.timeout
TimeoutDue == requestConfig.timeout > 0 /\ now >= requestConfig.timeout

SelectReady ==
  \/ pc \in {"select", "binding"} /\ (ContextDue \/ TimeoutDue)
  \/ pc = "select" /\ sleep = 0
  \/ pc = "binding" /\ renderDone

Tick ==
  /\ pc \notin {"setup", "done"}
  /\ ~SelectReady
  /\ now' = IF now < Horizon THEN now + 1 ELSE now
  /\ sleep' = IF sleep > 0 THEN sleep - 1 ELSE sleep
  /\ UNCHANGED <<netVars, page, bindingQueue, ctxDone, renderDone, pc, result, mode, loop, history>>

-----------------------------------------------------------------------------
(* The action.  A step runs from one point where the goroutine can be      *)
(* overtaken to the next: a select, the read of the atomic counter, the    *)
(* return of a script evaluated in the page.                               *)

Applies(disabled, limit) == ~disabled /\ (limit = 0 \/ now < limit)
NetworkWait == Applies(requestConfig.disableNetworkWait, requestConfig.networkIdleTimeout)
QueryWait == Applies(requestConfig.disableQueryWait, requestConfig.queriesTimeout)
DOMWait == Applies(requestConfig.disableDOMWait, requestConfig.domTimeout)
FirstQueryWait == requestConfig.firstQueryTimeout = 0 \/ now < requestConfig.firstQueryTimeout

Continue == pc' = "select" /\ sleep' = requestConfig.interval /\ UNCHANGED result
Return(value) == pc' = "done" /\ result' = value /\ UNCHANGED sleep
GoTo(step) == pc' = step /\ UNCHANGED <<sleep, result>>

CheckDOM == IF DOMWait THEN GoTo("dom") ELSE Return("ready")
CheckQueries == IF QueryWait THEN GoTo("query") ELSE CheckDOM

OwnStep == UNCHANGED <<netVars, page, bindingQueue, ctxDone, now, renderDone>>

\* A script returns unless the page hangs, and may always fail, with an error
\* of its own or that of a context that has ended.
Evaluates == ~hung
EvaluateFails == ~hung \/ ctxDone
EvaluateErrorsFault == {"ctx"}                          \* a cause not looked into
EvaluateErrors == IF hung THEN {"ctx"} ELSE IF ctxDone THEN {"ctx", "error"} ELSE {"error"}

Start ==
  /\ pc = "setup"
  /\ GoTo("probe")
  /\ OwnStep /\ UNCHANGED <<mode, loop, history>>

ChooseMode(supported) ==
  IF supported /\ ~requestConfig.forcePolling
  THEN mode' = "binding" /\ GoTo("binding")
  ELSE mode' = "legacy" /\ Continue

\* An error of the first script is recorded and otherwise ignored.
Probe ==
  /\ pc = "probe"
  /\ \/ Evaluates /\ ChooseMode(supportsBinding)
     \/ EvaluateFails /\ ChooseMode(FALSE)
  /\ OwnStep /\ UNCHANGED <<loop, history>>

Interrupted ==
  /\ pc \in {"select", "binding"}
  /\ \/ ContextDue /\ Return("ctx")
     \/ TimeoutDue /\ Return("timeout")
  /\ OwnStep /\ UNCHANGED <<mode, loop, history>>

RenderSignalled ==
  /\ pc = "binding"
  /\ renderDone
  /\ Return("ready")
  /\ OwnStep /\ UNCHANGED <<mode, loop, history>>

Iterate ==
  /\ pc = "select"
  /\ sleep = 0
  /\ GoTo("network")
  /\ OwnStep /\ UNCHANGED <<mode, loop, history>>

NetworkBusyFault == NetworkWait /\ inflightRequests > 1   \* off by one
NetworkBusy == NetworkWait /\ inflightRequests > 0

RestartDOMFault == UNCHANGED initialDOMPass                \* the reset forgotten
RestartDOM == initialDOMPass' = TRUE

CheckNetwork ==
  /\ pc = "network"
  /\ IF NetworkBusy
     THEN /\ RestartDOM
          /\ stillReads' = 0 /\ consecutivePolls' = 0
          /\ Continue
     ELSE /\ CheckQueries
          /\ UNCHANGED <<initialDOMPass, stillReads, consecutivePolls>>
  /\ OwnStep
  /\ UNCHANGED <<mode, hasSeenAnyQuery, numSuccessfulCycles, domHashCode, quietPolls, lastRead>>

QueriesRunning ==
  /\ pc = "query" /\ Evaluates
  /\ runningQueries
  /\ RestartDOM
  /\ hasSeenAnyQuery' = TRUE
  /\ numSuccessfulCycles' = 0
  /\ quietPolls' = 0 /\ consecutivePolls' = 0 /\ stillReads' = 0
  /\ Continue
  /\ OwnStep /\ UNCHANGED <<mode, domHashCode, lastRead>>

\* A history count goes no further than the number of cycles asked for.
Another(polls) == IF polls < requestConfig.cycles THEN polls + 1 ELSE polls

AnotherCycleMoreFault == numSuccessfulCycles < requestConfig.cycles       \* one too many
AnotherCycleLessFault == numSuccessfulCycles + 2 < requestConfig.cycles   \* one too few
AnotherCycle == numSuccessfulCycles + 1 < requestConfig.cycles

QueriesQuiet ==
  /\ pc = "query" /\ Evaluates
  /\ ~runningQueries
  /\ quietPolls' = Another(quietPolls) /\ consecutivePolls' = Another(consecutivePolls)
  /\ IF ~hasSeenAnyQuery /\ FirstQueryWait
     THEN Continue /\ UNCHANGED numSuccessfulCycles
     ELSE IF AnotherCycle
     THEN Continue /\ numSuccessfulCycles' = numSuccessfulCycles + 1
     ELSE CheckDOM /\ UNCHANGED numSuccessfulCycles
  /\ OwnStep
  /\ UNCHANGED <<mode, hasSeenAnyQuery, initialDOMPass, domHashCode, stillReads, lastRead>>

ReadDOM ==
  /\ pc = "dom" /\ Evaluates
  /\ LET changed == ~initialDOMPass /\ BodyString(dom) # domHashCode IN
     /\ domHashCode' = BodyString(dom)
     /\ initialDOMPass' = changed
     /\ stillReads' = IF changed THEN 0 ELSE IF stillReads < 2 THEN stillReads + 1 ELSE 2
     /\ IF initialDOMPass \/ changed THEN Continue ELSE Return("ready")
  /\ lastRead' = dom
  /\ OwnStep /\ UNCHANGED <<mode, hasSeenAnyQuery, numSuccessfulCycles, quietPolls, consecutivePolls>>

ScriptFails ==
  /\ pc \in {"query", "dom"}
  /\ EvaluateFails
  /\ \E error \in EvaluateErrors : Return(error)
  /\ OwnStep /\ UNCHANGED <<mode, loop, history>>

Action ==
  \/ Start \/ Probe \/ Interrupted \/ RenderSignalled \/ Iterate
  \/ CheckNetwork \/ QueriesRunning \/ QueriesQuiet \/ ReadDOM \/ ScriptFails

Finished == pc = "done" /\ UNCHANGED vars

Next == Environment \/ PageTraffic \/ NetworkEvent \/ OnBindingCalled \/ Tick \/ Action \/ Finished

Spec == Init /\ [][Next]_vars

\* The scheduler runs the goroutine of the action and the one of the target's
\* listeners, and time passes.  Nothing is assumed of the page, and a script
\* evaluated in a page that hangs need never return.
FairSpec == Spec /\ WF_vars(Action) /\ WF_vars(NetworkEvent) /\ WF_vars(OnBindingCalled) /\ WF_vars(Tick)

-----------------------------------------------------------------------------
(* Properties                                                              *)

\* The waiter never takes the network for idle while a request it has been
\* told of is in flight: when the check passes, a tracked request that began
\* after the registration and is still open is one whose announcement the
\* listener has not finished handling (browser.go:1149-1156 reads the counter
\* without the lock, in the middle of the callbacks of 1273-1301).
NetworkGate ==
  [][pc = "network" /\ pc' \notin {"network", "select"} /\ NetworkWait =>
       \A r \in Tracked \ early : network[r] = "open" =>
         Doing("increment", r) \/ (r \notin requestIDs /\ Queued("sent", r))]_vars

\* A page taken for ready by polling, before the give-up on queries, was seen
\* without a running query as many times as asked since a query was last seen
\* running; and a query was seen, or the wait for a first one is over.
ReadyAfterQuietPolls ==
  result = "ready" /\ mode = "legacy" /\ QueryWait =>
    quietPolls = requestConfig.cycles /\ (hasSeenAnyQuery \/ ~FirstQueryWait)

\* A page taken for ready by polling, before the give-up on the DOM, had two
\* reads of its DOM that agreed, and neither a network request nor a query
\* was found between the two.
ReadyAfterStillReads ==
  result = "ready" /\ mode = "legacy" /\ DOMWait => stillReads = 2

\* No iteration begins past the readiness timeout: the timer is made once,
\* before the loop, and an iteration's own timer cannot overtake it
\* (browser.go:1094-1097, 1137-1147).
NoPollPastDeadline ==
  [][pc = "select" /\ pc' = "network" /\ requestConfig.timeout > 0 =>
       now <= requestConfig.timeout]_vars

\* With a readiness timeout, the wait ends unless the page hangs in a script.
WaitEnds == pc = "probe" /\ requestConfig.timeout > 0 ~> pc = "done" \/ hung

\* The end of the context ends the wait, even of a page that hangs.
CancelEnds == ctxDone ~> pc = "done"

\* A call of the binding is never lost, though it may come before the waiter
\* looks for it: unless the waiter polls, the wait ends after it, without any
\* timeout (browser.go:1075-1082 registers the listener before the action).
BindingNotLost == bindingQueue = 1 ~> pc = "done" \/ mode = "legacy" \/ hung

\* Polling a page that has come to rest ends, without any timeout on the whole
\* wait: no check can keep another one from passing for ever.
RestIsNoticed ==
  (/\ requestConfig.firstQueryTimeout > 0
   /\ <>[](/\ mode = "legacy" /\ ~hung /\ ~runningQueries
           /\ \A r \in Requests : network[r] # "open"))
    => <>(pc = "done")

\* What the render session is told is one of the verdicts of Waiter, for the
\* reasons Waiter allows: the polls are stutters of it.
Verdict == IF pc = "setup" THEN "registered" ELSE IF pc = "done" THEN result ELSE "waiting"
Promise == INSTANCE Waiter WITH waiter <- Verdict, ended <- ctxDone
ImplementsWaiter == Promise!WaiterSpec

\* docs/sources/troubleshooting.md:205, "The browser waits for the web page's
\* layout to stabilise, meaning no more data changes": the page that passes
\* the DOM check has the content its previous read met.
StableMeansUnchanged ==
  [][pc = "dom" /\ result' = "ready" => dom = lastRead]_vars

\* config.go:457, "the number of readiness checks that must pass consecutively
\* before considering the page ready": none of the checks counted is separated
\* from the next by one that found the page busy.
CyclesAreConsecutive ==
  result = "ready" /\ mode = "legacy" /\ QueryWait =>
    consecutivePolls = requestConfig.cycles
=============================================================================
